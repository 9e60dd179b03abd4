\* what the comment on prove's second public input says
CONSTANTS
  Requests <- MCRequests
  HelloLen = 200
  SegmentEnds <- MCSegmentEnds
  BufLen = 8192
SPECIFICATION Spec
INVARIANT PublicInputIsProxys
CHECK_DEADLOCK FALSE
