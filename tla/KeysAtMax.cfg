SPECIFICATION IterSpec
CONSTANTS
  LENGTH = 2
  CACHE_LINE_SLOTS = 2
  USIZE = 8
  Thread = {t1}
  Key <- FirstKeys
  U32 = 8
  AtMax = TRUE
  Null = Null
INVARIANT AllListed
