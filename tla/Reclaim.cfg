SPECIFICATION ReclaimSpec
CONSTANTS
  LENGTH = 2
  CACHE_LINE_SLOTS = 2
  USIZE = 4
  Thread = {t1, t2}
  Reader = {r1, r2}
  Key <- AnyKey
  U32 = 6
  AtMax = FALSE
  Null = Null
  MaxInserts = 2
SYMMETRY Symmetry
INVARIANTS
  ReferencesAreAlive
  DroppedOnce
CHECK_DEADLOCK FALSE
