SPECIFICATION WriteSpec
CONSTANTS
  MaxWrites = 2
  CommitsAfterFailure = TRUE
INVARIANT FinalizedIsWhole
CHECK_DEADLOCK FALSE
