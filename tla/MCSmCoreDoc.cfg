CONSTANTS
  LineSize = 4
  SECTOR_SIZE = 2
  NumBlocks = 1
  NumWarps = 2
  MaxBlocks = 1
  Subcores = 2
  Traces <- ContendingTraces
  Latency <- MCLatency
  Interval <- ContendingInterval
  MinLatency = 3
  MaxLatency = 4
  MaxCycles = 40
SPECIFICATION Spec
INVARIANT CompleteMeansReleased
