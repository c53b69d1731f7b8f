SPECIFICATION LiveSpec
CONSTANTS
  LENGTH = 2
  CACHE_LINE_SLOTS = 2
  USIZE = 8
  Thread = {t1, t2, t3}
  Fair = {t1, t2}
  Key <- FirstKeys
  U32 = 8
  AtMax = FALSE
  Null = Null
PROPERTIES
  LockFree
  RingProgress
