CONSTANTS
  Shapes <- SomeShapes
  MaxRuns = 3
SPECIFICATION FairSpec
CHECK_DEADLOCK FALSE
INVARIANTS
  LaunchComplete
  HandedOver
PROPERTIES
  StartedReturns
