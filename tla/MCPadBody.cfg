\* all bodies of up to 6 cells: runs of up to five backslashes
CONSTANTS
  MaxLen = 6
  Bodies <- MCBodies
  Targets = {0, 3, 5, 6, 8}
SPECIFICATION Spec
INVARIANTS
  TypeOK
  PadAtClosingQuote
  OnlySpacesAdded
  RefusedForCause
CHECK_DEADLOCK FALSE
