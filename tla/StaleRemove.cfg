SPECIFICATION ClientsSpec
CONSTANTS
  LENGTH = 2
  CACHE_LINE_SLOTS = 2
  USIZE = 16
  Thread = {t1, t2}
  Key <- AnyKey
  U32 = 8
  AtMax = FALSE
  Null = Null
  SoleRemoves = FALSE
  MaxInserts = 5
INVARIANT KeysFresh
CHECK_DEADLOCK FALSE
