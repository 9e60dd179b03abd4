\* every input of up to four 2-bit bytes, chunks of 3 bits, modulo 13
CONSTANTS
  P = 13
  ByteBits = 2
  ChunkBits = 3
  Exponent = 5
  Rounds = 4
  RoundKeys <- MCRoundKeys
  MaxBytes = 4
  Inputs <- MCInputs
SPECIFICATION Spec
INVARIANTS
  TypeOK
  CircuitMatchesNative
  PackingBinds
PROPERTY RoundsInvertible
CHECK_DEADLOCK FALSE
