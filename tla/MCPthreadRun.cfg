CONSTANTS
  Drivers = {"pthread", "basic", "hsa"}
  Launches <- SomeLaunches
  PreferredMultiple = 8
  MaxGroupSize = 8
  MaxItemSizes <- Limits
  ThreadCounts = {1, 2, 3, 4, 5}
  Args <- SomeArgs
  ContextDevs <- BothDevices
  MyDev = 1
  num_locals = 1
  Gpus = {1}
  ArgSize <- SomeSizes
  LocalSizes = {4, 40}
  HiddenArgs = 1
  StaticGroup = 32
  RingSize = 2
  WriteIndices = {1}
SPECIFICATION FairHsaSpec
INVARIANTS
  GroupsOnce
  CompleteUnlessFailed
  ReturnedUnlessFailed
  ArgumentsInPlace
PROPERTIES
  LaunchReturns
