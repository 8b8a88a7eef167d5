CONSTANTS
  Ids = {1, 2, 3}
  MAX_CONCURRENT_KERNELS = 2
  MaxRequests = 2
  Cycles <- MCCycles
  Faults <- AllFaults
SPECIFICATION FairSpec
INVARIANTS TypeOK ProgressExact ContextOwned ReportComplete PoolKeptFull
PROPERTIES Refinement EventuallyReported
