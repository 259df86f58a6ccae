SPECIFICATION LiveSpec
CONSTANTS
  Calls = {c1, c2, c3}
  Idle = {i1, i2}
  First = first
  NoStream = none
  PoolSize = 2
  HasCache = TRUE
  MaxSize = 1
INVARIANT Inductive
PROPERTIES LendsStreams EveryCallAnswered ClosedPoolDrains
CHECK_DEADLOCK FALSE
