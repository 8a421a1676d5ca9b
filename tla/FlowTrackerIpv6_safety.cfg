SPECIFICATION Spec6
CONSTANTS
  Cpus = {c1, c2}
  Skbs = {s1, s2}
  NoSkb = NoSkb
  Ports = {1, 2}
  Frames6 <- MCFrames
  TEntries = 1
  IdleTimeout = 1
  CtrlKeys6 <- MCCtrlKeys
SYMMETRY MCSymmetry
INVARIANTS DeliversUnchanged6 BitFieldsOverwrite
PROPERTY ImplementsTracker6
CHECK_DEADLOCK FALSE
