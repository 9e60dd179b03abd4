\* four streams, cut at record ends and inside headers
CONSTANTS
  Streams <- MCStreams
  SegmentEnds <- MCSegmentEnds
  BufLen = 8192
SPECIFICATION FairSpec
INVARIANTS
  TypeOK
  AttestedBeforeForwarded
  PendingIsPartial
  RelayTransparent
  ExactUnlessMixed
PROPERTIES
  ReadIsForwarded
  ImplementsAttestedRelay
CHECK_DEADLOCK FALSE
