SPECIFICATION Spec
CONSTANTS
  LENGTH = 4
  CACHE_LINE_SLOTS = 2
  USIZE = 8
  Thread = {t1, t2}
  Key <- ThreeCells
  U32 = 8
  AtMax = TRUE
  Null = Null
SYMMETRY Threads
INVARIANTS
  PublishIntoEmpty
  SlotConservation
  PermitAccounting
  LenCoversLive
PROPERTIES
  LockFreeSteps
  RingSteps
  ImplementsCells
