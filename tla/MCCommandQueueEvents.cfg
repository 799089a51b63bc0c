CONSTANTS
  Threads = {t1, t2}
  Queues = {q1, q2}
  Bufs = {b1}
  Kernels = {k}
  Events = {e1, e2}
  Device <- DeviceOf
  Driver = "basic"
  NumDevices = 1
  SubBufs = {}
  Commands = {"write", "marker"}
  WithEvent = {"write", "marker"}
  HostFull = FALSE
  UnmapsEarly = FALSE
  DropsEarly = TRUE
  MaxCommands = 2
  Retains = {}
  None = None
SPECIFICATION FairSpec
CHECK_DEADLOCK FALSE
INVARIANTS
  QueuesValid
  QueueRefs
  EventsInOrder
PROPERTIES
  WaitedComplete
  CompleteIsFinal
  CallsReturn
