SPECIFICATION FairSpec
CONSTANTS
  Objects = {a, b}
  MaxStreams = 2
  MaxFull = 2
  CallStreams = 3
  MaxSlots = 2
  Nobody = Nobody
  NumObjects = 3
  MaxCount = 4
  MaxTotal = 5
  MaxLength = 2
  MaxSize = 6
  MaxLimit = 7
  MaxTasks = 4
  MinChunk = 2
  FromEnd = FALSE
  NoLimit = NoLimit
  Size = 7
  Block = 2
  Unlimited = Unlimited
  BlockCount = 3
  Concurrency = 2
  GetTries = 2
  MaxGetFaults = 2
  MaxReplaced = 1
  MaxCancels = 2
  Handled = {TRUE}
INVARIANT FailedWriteIsRaised
CHECK_DEADLOCK FALSE
