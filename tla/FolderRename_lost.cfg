SPECIFICATION LostReplySpec
CONSTANTS
  Budget = 20
  Floor = 2
  Cap = 5
  RpcMin = 2
  RpcMax = 6
  BackoffBase = 2
  BackoffCap = 8
INVARIANT FallsBackOnlyAfterFailure
CHECK_DEADLOCK FALSE
