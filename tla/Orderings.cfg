SPECIFICATION OrderingsSpec
CONSTANTS
  LENGTH = 2
  CACHE_LINE_SLOTS = 2
  USIZE = 8
  Thread = {t1, t2}
  Key <- EachCell
  U32 = 6
  AtMax = FALSE
  Null = Null
  MaxPermits = 3
SYMMETRY Threads
INVARIANT InitVisible
PROPERTY PermitBacked
CHECK_DEADLOCK FALSE
