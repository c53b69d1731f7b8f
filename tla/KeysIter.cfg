SPECIFICATION IterSpec
CONSTANTS
  LENGTH = 4
  CACHE_LINE_SLOTS = 2
  USIZE = 8
  Thread = {t1}
  Key <- TwoCells
  U32 = 8
  AtMax = TRUE
  Null = Null
INVARIANTS
  NoneMissed
  YieldedHeldAnEntry
