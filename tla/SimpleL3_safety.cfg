SPECIFICATION Spec
CONSTANTS
  Cpus = {c1, c2}
  Skbs = {s1, s2}
  NoSkb = NoSkb
  Ports = {1}
  Frames <- MCFrames
  Addrs = {0, 6}
  NextHops <- MCEntries
SYMMETRY MCSymmetry
INVARIANT TcpNeverToStack
PROPERTY SentByOwnEntry
CHECK_DEADLOCK FALSE
