CONSTANTS
  Drivers = {"pthread", "basic"}
  Launches <- SomeLaunches
  PreferredMultiple = 8
  MaxGroupSize = 8
  MaxItemSizes <- Limits
  ThreadCounts = {1, 2}
  Args <- SomeArgs
  ContextDevs <- SecondDevice
  MyDev = 1
  num_locals = 1
  Gpus = {}
  ArgSize <- SomeSizes
  LocalSizes = {4, 40}
  HiddenArgs = 1
  StaticGroup = 32
  RingSize = 2
  WriteIndices = {1}
SPECIFICATION HsaSpec
INVARIANTS
  OwnPointer
