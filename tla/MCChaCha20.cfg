\* the repository's test vectors, and messages of two and three chunks
CONSTANT Inputs <- MCInputs
SPECIFICATION Spec
INVARIANTS
  TypeOK
  OutputIsChaCha20
PROPERTY RoundsReversible
CHECK_DEADLOCK FALSE
