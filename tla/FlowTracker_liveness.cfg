SPECIFICATION FairSpec
CONSTANTS
  Cpus = {c1, c2}
  Skbs = {s1, s2}
  NoSkb = NoSkb
  Ports = {1, 2}
  Frames <- MCLiveFrames
  TEntries = 1
  IdleTimeout = 2
  CtrlKeys <- MCCtrlKeys
PROPERTIES EveryPacketEnds FlowsExpire
CHECK_DEADLOCK FALSE
