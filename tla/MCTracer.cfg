CONSTANTS
  Names = {"a", "b"}
  Filters <- MCFilters
  Warps = {1, 2}
  Insts = 2
  BuffLen = 2
  MaxKernels = 3
  MaxGraphs = 2
SPECIFICATION FairSpec
\* After a graph launch the tracer may hang (see GraphLaunchReturns).
CHECK_DEADLOCK FALSE
INVARIANTS FilesExact AskedIsTraced
PROPERTIES NoClosedWrite LaunchReturns
