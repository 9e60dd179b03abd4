\* two connections and one descriptor less than they could use
CONSTANTS
  Conns = {c1, c2}
  Req = 2
  Resp = 1
  FdLimit = 3
SPECIFICATION FairSpec
INVARIANTS
  TypeOK
  MutualWaitOnlyIfTruncated
  TwoWedgesOnly
PROPERTIES
  CallsReturnWhenDown
  ResponseDelivered
  ReleasedAfterNotify
  ReleasedWhenBothGone
CHECK_DEADLOCK FALSE
