SPECIFICATION Spec
CONSTANTS
  Sessions = {s1}
  Handlers = {w1, w2}
  Parts = {1}
  Contents = {c1}
  Backend = "local"
  Modes = {"proxy"}
  ProxyParts = TRUE
  DirectParts = FALSE
  HonestETags = TRUE
  Sweeping = FALSE
  StorageErrors = FALSE
  Crashes = FALSE
  None = None
  Torn = Torn
  Mixed = Mixed
INVARIANTS ObjectIsWhole
SYMMETRY Symmetry
CHECK_DEADLOCK FALSE
