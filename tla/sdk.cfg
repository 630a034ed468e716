SPECIFICATION FairSpec
CONSTANTS
  Sizes = {0, 4}
  PartSize = 3
  MaxSessions = 2
  MaxFiles = 2
  Thresholds = {0, 4}
  LocalThreshold = 3
  Concurrency = {2, 3}
  Backends = {"local", "s3"}
  Batch = 1
  PageSize = 1
  MaxAttempts = 2
  MaxRuns = 2
  None = None
INVARIANTS TypeOK ReturnedFileIsStored ReturnedDirectoryIsStored ReturnedDownloadIsWhole
  ThreadsJoined RaisesOnlyAfterFaults
PROPERTIES EveryCallEnds
CHECK_DEADLOCK FALSE
