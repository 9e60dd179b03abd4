\* what drain_application_data's doc comment promises
CONSTANTS
  Streams <- MCStreams
  SegmentEnds <- MCSegmentEnds
  BufLen = 8192
SPECIFICATION Spec
INVARIANT DrainReturnsAllAppData
CHECK_DEADLOCK FALSE
