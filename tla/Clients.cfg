SPECIFICATION ClientsSpec
CONSTANTS
  LENGTH = 2
  CACHE_LINE_SLOTS = 2
  USIZE = 8
  Thread = {t1, t2, t3}
  Key <- AnyKey
  U32 = 8
  AtMax = FALSE
  Null = Null
  SoleRemoves = TRUE
  MaxInserts = 7
SYMMETRY Threads
INVARIANTS
  KeysFresh
  KeyFindsItsEntry
  LiveAreOwned
PROPERTY ImplementsPTab
CHECK_DEADLOCK FALSE
