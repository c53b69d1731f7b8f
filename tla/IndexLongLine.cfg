SPECIFICATION Spec
CONSTANTS
  USIZE = 256
  WIDTH = 8
  CAP_MIN = 16
  CAP_MAX = 64
  CAP_DEF = 32
  Requested <- MCRequested
  Targets <- LongLines
INVARIANT ConcreteInBounds
CHECK_DEADLOCK FALSE
