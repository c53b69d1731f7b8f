SPECIFICATION Spec
CONSTANTS
  USIZE = 256
  WIDTH = 8
  CAP_MIN = 16
  CAP_MAX = 64
  CAP_DEF = 32
  Requested <- MCRequested
  Targets <- AllTargets
INVARIANTS
  TypeOK
  CapacityFits
  LayoutValid
  AdmitsIndex
  AccessInBounds
  KeyRoundTrip
  ArithmeticAgrees
  ConsecutiveSpread
  KeyRepeatsOnlyAfterWrap
CHECK_DEADLOCK FALSE
