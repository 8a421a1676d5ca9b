SPECIFICATION Spec
CONSTANTS
  Cpus = {c1, c2}
  Skbs = {s1, s2}
  NoSkb = NoSkb
  Ports = {1, 2}
  Frames <- MCFrames
SYMMETRY MCSymmetry
INVARIANTS AnsweredRight NoneToStack RequestsNotDropped AnswerToAnswer
CHECK_DEADLOCK FALSE
