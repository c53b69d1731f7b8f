SPECIFICATION Spec
CONSTANTS
  LENGTH = 2
  CACHE_LINE_SLOTS = 2
  USIZE = 8
  Thread = {t1, t2, t3}
  Key <- EdgeKeys
  U32 = 8
  AtMax = FALSE
  Null = Null
SYMMETRY Threads
INVARIANTS
  TypeOK
  PublishIntoEmpty
  Ownership
  SlotConservation
  PermitAccounting
  PermitHonored
  RoomToRelease
  LenCoversLive
PROPERTIES
  LockFreeSteps
  RingSteps
  FailsOnlyBesideFull
  ImplementsCells
