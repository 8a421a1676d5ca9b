SPECIFICATION SpecL2
CONSTANTS
  Cpus = {c1, c2}
  Skbs = {s1, s2}
  NoSkb = NoSkb
  Ports = {1}
  FramesL2 <- MCFrames
  AddrsL2 = {0, 5}
  NextHopsL2 <- MCNextHops
SYMMETRY MCSymmetry
INVARIANT MissesDropped
CHECK_DEADLOCK FALSE
