\* three connections and descriptors for one of them
CONSTANTS
  Conns = {c1, c2, c3}
  Req = 2
  Resp = 1
  FdLimit = 2
SYMMETRY ConnSymmetry
SPECIFICATION Spec
INVARIANTS
  OkIsComplete
CHECK_DEADLOCK FALSE
