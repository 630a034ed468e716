SPECIFICATION Spec
CONSTANTS
  Sessions = {s1}
  Handlers = {w1, w2}
  Parts = {1}
  Contents = {c1}
  Backend = "s3"
  Modes = {"proxy", "presigned"}
  ProxyParts = FALSE
  DirectParts = TRUE
  HonestETags = TRUE
  Sweeping = TRUE
  StorageErrors = FALSE
  Crashes = FALSE
  None = None
  Torn = Torn
  Mixed = Mixed
INVARIANTS CompletedStaysCompleted
SYMMETRY Symmetry
CHECK_DEADLOCK FALSE
