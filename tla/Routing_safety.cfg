SPECIFICATION Spec
CONSTANTS
  Cpus = {c1, c2}
  Skbs = {s1, s2}
  NoSkb = NoSkb
  Ports = {1}
  Frames <- MCFrames
  Prefixes <- MCPrefixes
  Indices = {0, 1}
  NextHops <- MCNextHops
SYMMETRY MCSymmetry
INVARIANTS TypeOK SentIsRouted ChecksumFollows NoneToStack
PROPERTIES DropsOnlyUnrouted ImplementsRouter
CHECK_DEADLOCK FALSE
