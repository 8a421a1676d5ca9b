SPECIFICATION HeadersSpec
CONSTANTS
  NMaps = 2
  MaxFd = 5
  Errors <- MCErrors
  Inputs <- MCInputs
INVARIANTS
  NoFdLeak
  FinalizeFdValid
  ErrIsFirstFailure
  DataSound
  MemReleased
  RegisterIsCrc
  ReadsInBounds
PROPERTY NeverClosesOthers
CHECK_DEADLOCK FALSE
