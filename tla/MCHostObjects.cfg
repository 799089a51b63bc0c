CONSTANTS
  Contexts = {c1, c2}
  Programs = {p1}
  Kernels = {k1, k2}
  MaxHeld = 2
  None = None
SPECIFICATION Spec
CHECK_DEADLOCK FALSE
SYMMETRY Symmetry
INVARIANTS
  PointersLive
  RefsAccounted
  KernelFromOwnBinary
