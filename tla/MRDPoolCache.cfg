SPECIFICATION Spec
CONSTANTS
  Keys = {k1, k2}
  Pools = {p1, p2, p3}
  NoKey = nokey
  Streams = {s1, s2, s3, s4}
  PoolSize = 2
  MaxIdle = 1
  MaxQueue = 2
INVARIANTS RefsExact OneOwner QueuesInOrder
SYMMETRY CacheSymmetry
CHECK_DEADLOCK FALSE
