SPECIFICATION FairSpec
CONSTANTS
  Files = {f1, f2, f3}
  MaxWrites = 3
  CommitsAfterFailure = FALSE
  Writers = {w1, w2}
  Expected = 4
  MaxPending = 2
  Threshold = 1
INVARIANTS HandedOver WritesKept TeardownComplete CountsExact ValueRight
PROPERTY ZonalEnd
CHECK_DEADLOCK FALSE
