CONSTANTS
  LineSize = 4
  SECTOR_SIZE = 2
  NumBlocks = 2
  NumWarps = 2
  MaxBlocks = 1
  Subcores = 2
  Traces <- MCTraces
  Latency <- MCLatency
  Interval <- MCInterval
  MinLatency = 1
  MaxLatency = 3
  MaxCycles = 40
SPECIFICATION FairSpec
INVARIANTS TypeOK NoOrphanReply Accounting RequestsExact WorkConserving
PROPERTIES IssueOrdered KernelEnds
