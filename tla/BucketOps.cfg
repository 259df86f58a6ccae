SPECIFICATION OpsFairSpec
CONSTANTS
  Budget = 20
  Floor = 2
  Cap = 5
  RpcMin = 2
  RpcMax = 6
  BackoffBase = 2
  BackoffCap = 8
  Parts = {"", "run", "a", "x", "y"}
  RmCalls <- MCRmCalls
  BatchSize = 2
  CreateNames <- MCCreateNames
  RmAttempts = 2
  MaxRmFaults = 2
  MaxCreates = 1
  KeyCount = 5
  InDir = {2, 3}
  PageSize = 2
  ItemsPerCall = 2
  DayLength = 2
  Reports <- MCReports
  Limits = {0, 3}
  MaxListChanges = 2
  MaxPathChanges = 1
  MaxInfoFaults = 2
INVARIANTS OnTime MvHonest ReportsTruth RmWithinScope RmHonest RmKeepsListings ListsEverything InfoHonest
PROPERTY BucketCallsEnd
CHECK_DEADLOCK FALSE
