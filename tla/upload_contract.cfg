SPECIFICATION Spec
CONSTANTS
  Sessions = {s1, s2}
  Handlers = {w1, w2}
  Parts = {1}
  Contents = {c1}
  Backend = "s3"
  Modes = {"presigned"}
  ProxyParts = FALSE
  DirectParts = TRUE
  HonestETags = FALSE
  Sweeping = FALSE
  StorageErrors = TRUE
  Crashes = TRUE
  None = None
  Torn = Torn
  Mixed = Mixed
INVARIANTS OneFilePerKey
PROPERTIES ContractKept
SYMMETRY Symmetry
CHECK_DEADLOCK FALSE
