CONSTANTS
  NumSlices = 2
  CL = 2
  MissLatency = 2
  ReturnSize = 1
  QueueLen = 4
  MaxSent = 4
  LastSend = 9
  MaxCycles = 22
SPECIFICATION FairSpec
INVARIANTS TypeOK ChannelFits InOrder ConstantLatency
PROPERTY AllAnswered
