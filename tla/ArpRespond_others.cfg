SPECIFICATION Spec
CONSTANTS
  Cpus = {c1, c2}
  Skbs = {s1, s2}
  NoSkb = NoSkb
  Ports = {1, 2}
  Frames <- MCFrames
  Addrs = {0, 6}
  Rmacs = {11}
SYMMETRY MCSymmetry
INVARIANT OthersToStack
CHECK_DEADLOCK FALSE
