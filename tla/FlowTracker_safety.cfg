SPECIFICATION Spec
CONSTANTS
  Cpus = {c1, c2}
  Skbs = {s1, s2, s3}
  NoSkb = NoSkb
  Ports = {1}
  Frames <- MCFrames
  TEntries = 2
  IdleTimeout = 1
  CtrlKeys <- MCCtrlKeys
SYMMETRY MCSymmetry
INVARIANTS TypeOK KeyIsOwnFlow HeadersFit TableSound DropsOnlyRejected DeliversUnchanged
PROPERTY ImplementsTracker
CHECK_DEADLOCK FALSE
