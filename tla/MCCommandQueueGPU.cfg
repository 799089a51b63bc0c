CONSTANTS
  Threads = {t1, t2}
  Queues = {q1}
  Bufs = {b1}
  Kernels = {k}
  Events = {e1}
  Device <- DeviceOf
  Driver = "hsa"
  NumDevices = 1
  SubBufs = {}
  Commands = {"write", "ndrange", "fill", "read_rect", "write_rect", "copy_rect"}
  WithEvent = {"write", "ndrange"}
  HostFull = FALSE
  UnmapsEarly = FALSE
  DropsEarly = FALSE
  MaxCommands = 3
  Retains = {}
  None = None
SPECIFICATION Spec
CHECK_DEADLOCK FALSE
SYMMETRY Symmetry
INVARIANTS
  MemReclaimed
PROPERTIES
  InOrder
