SPECIFICATION Spec
CONSTANTS
  Cpus = {c1, c2}
  Skbs = {s1, s2}
  NoSkb = NoSkb
  Ports = {1, 2}
  Frames <- MCFrames
  Entries <- MCEntries
SYMMETRY MCSymmetry
INVARIANTS LeavesTunnelWhole EndsMeet
PROPERTY EntersTunnelWhole
CHECK_DEADLOCK FALSE
