SPECIFICATION Spec
CONSTANTS
  Backend = "s3"
  Files = {f1}
  Handlers = {w1}
  Workers = {x1}
  BatchSize = 1
  Horizon = 1
  MinTtl = 1
  MaxTtl = 2
  AllowOverride = TRUE
  PermanentAllowed = TRUE
  AllowedModes = {"permanent", "ttl", "expires_at", "temporary", "sliding_ttl"}
  AllowedActions = {"delete", "notify", "none"}
  Defaults <- MCDefaults
  Bootstrap <- MCBootstrap
  Requests <- MCRequests
  Extensions = {1}
  StorageErrors = FALSE
  Crashes = FALSE
  None = None
INVARIANTS HoldBlocksWorker
CHECK_DEADLOCK FALSE
