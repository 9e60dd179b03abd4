\* requests of one and two records, cut at record ends and inside headers
CONSTANTS
  Requests <- MCRequests
  HelloLen = 200
  SegmentEnds <- MCSegmentEnds
  BufLen = 8192
SPECIFICATION Spec
INVARIANTS
  TypeOK
  CircuitSeesRequest
  ProvedBeginsAttested
  AttestedIsProvedAndType
CHECK_DEADLOCK FALSE
