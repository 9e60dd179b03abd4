\* up to three headers, bodies shorter, as long and longer than the template's
CONSTANTS
  ContentLength = 4
  SecLen <- MCSecLen
  CallerHeaders <- MCCallerHeaders
  RawRequests <- MCRawRequests
  MaxHeaders = 3
  BodyLens = {1, 4, 5}
SPECIFICATION Spec
INVARIANTS
  TypeOK
  SendNeverMismatches
  HonestLength
  ProvableExactly
  OverrunOnlyByOwnLength
CHECK_DEADLOCK FALSE
