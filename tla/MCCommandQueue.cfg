CONSTANTS
  Threads = {t1, t2}
  Queues = {q1}
  Bufs = {b1, b2}
  Kernels = {k}
  Events = {e1}
  Device <- DeviceOf
  Driver = "pthread"
  NumDevices = 2
  SubBufs = {b2}
  Commands = {"read", "copy", "map", "unmap", "ndrange"}
  WithEvent = {"read", "ndrange"}
  HostFull = TRUE
  UnmapsEarly = FALSE
  DropsEarly = TRUE
  MaxCommands = 2
  Retains = {b1}
  None = None
SPECIFICATION Spec
CHECK_DEADLOCK FALSE
SYMMETRY Symmetry
INVARIANTS
  CommandsValid
  MemRefs
  KernelReclaimed
