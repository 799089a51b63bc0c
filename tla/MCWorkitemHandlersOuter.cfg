CONSTANTS
  Kernels <- OuterKernels
  LocalSizes <- TwoItems
  Handlers = {"loops", "repl"}
  MaxUnroll = 2
  MaxEvals = 2
SPECIFICATION FairSpec
CHECK_DEADLOCK FALSE
PROPERTIES
  RunsAsSource
