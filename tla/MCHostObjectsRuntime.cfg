CONSTANTS
  Contexts = {c1, c2}
  Programs = {}
  Kernels = {}
  MaxHeld = 2
  None = None
SPECIFICATION Spec
CHECK_DEADLOCK FALSE
INVARIANT
  RuntimeUp
