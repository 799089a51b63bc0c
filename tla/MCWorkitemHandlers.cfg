CONSTANTS
  Kernels <- AllKernels
  LocalSizes <- SomeSizes
  Handlers = {"loops", "repl"}
  MaxUnroll = 2
  MaxEvals = 2
SPECIFICATION FairSpec
CHECK_DEADLOCK FALSE
INVARIANTS
  OwnValue
PROPERTIES
  RunsAsSource
  Returns
