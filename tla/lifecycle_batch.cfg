SPECIFICATION FairSpec
CONSTANTS
  Backend = "local"
  Files = {f1, f2}
  Handlers = {w1}
  Workers = {x1}
  BatchSize = 2
  Horizon = 1
  MinTtl = 1
  MaxTtl = 2
  AllowOverride = TRUE
  PermanentAllowed = FALSE
  AllowedModes = {"ttl", "expires_at", "temporary", "sliding_ttl"}
  AllowedActions = {"delete", "notify", "none"}
  Defaults <- MCDefaults
  Bootstrap <- MCBootstrap
  Requests <- MCRequests
  Extensions = {}
  StorageErrors = TRUE
  Crashes = FALSE
  None = None
PROPERTIES DueFileIsProcessed
