CONSTANTS
  Names = {"a", "b"}
  Filters <- MCFilters
  Warps = {1, 2}
  Insts = 1
  BuffLen = 2
  MaxKernels = 1
  MaxGraphs = 2
SPECIFICATION FairSpec
CHECK_DEADLOCK FALSE
PROPERTY GraphLaunchReturns
