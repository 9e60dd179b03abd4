\* two clones and three calls
CONSTANTS
  Callers = {a, b}
  Calls = {k1, k2, k3}
  None = None
SYMMETRY Symmetry
SPECIFICATION Spec
INVARIANTS
  TypeOK
  Coherent
  ProvedAtMostOnce
  OwnMaterialsStay
PROPERTY FollowsLifecycle
CHECK_DEADLOCK FALSE
