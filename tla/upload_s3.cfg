SPECIFICATION FairSpec
CONSTANTS
  Sessions = {s1}
  Handlers = {w1, w2}
  Parts = {1, 2}
  Contents = {c1, c2}
  Backend = "s3"
  Modes = {"proxy", "presigned"}
  ProxyParts = TRUE
  DirectParts = TRUE
  HonestETags = TRUE
  Sweeping = TRUE
  StorageErrors = TRUE
  Crashes = TRUE
  None = None
  Torn = Torn
  Mixed = Mixed
INVARIANTS TypeOK LockDiscipline CompletedOnce
PROPERTIES CompletedIsCommitted FileStable EveryRequestEnds
CHECK_DEADLOCK FALSE
