SPECIFICATION FairSpec
CONSTANTS
  Quantum = 2
  MaxBlock = 4
  BlockSize = 3
  WriteSizes = {1, 3, 6}
  MaxBytes = 9
  Retries = 2
  Garbage = 99
  Tasks = {t1, t2}
  MaxToggles = 2
  MaxWrites = 1
  Files = {f, g}
  Apps = {a, b}
  Loop = Loop
  Worker = Worker
  MaxCloseFaults = 1
INVARIANTS ContentExact ChecksumHonest CommitHonest LayoutRight CloseOnce
PROPERTY WritingEnds
CHECK_DEADLOCK FALSE
