CONSTANTS
  NumSlices = 2
  CL = 2
  MissLatency = 1
  ReturnSize = 1
  QueueLen = 3
  MaxSent = 6
  LastSend = 12
  MaxCycles = 20
SPECIFICATION Spec
INVARIANT L2QueueFits
