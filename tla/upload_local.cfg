SPECIFICATION FairSpec
CONSTANTS
  Sessions = {s1}
  Handlers = {w1, w2}
  Parts = {1}
  Contents = {c1, c2}
  Backend = "local"
  Modes = {"proxy"}
  ProxyParts = TRUE
  DirectParts = FALSE
  HonestETags = TRUE
  Sweeping = TRUE
  StorageErrors = TRUE
  Crashes = FALSE
  None = None
  Torn = Torn
  Mixed = Mixed
INVARIANTS TornIsBeingWritten
PROPERTIES ReopenedOnlyByStaleWriters LapsedSessionExpires
CHECK_DEADLOCK FALSE
