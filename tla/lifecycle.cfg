SPECIFICATION Spec
CONSTANTS
  Backend = "local"
  Files = {f1}
  Handlers = {w1, w2}
  Workers = {x1, x2}
  BatchSize = 1
  Horizon = 1
  MinTtl = 1
  MaxTtl = 2
  AllowOverride = TRUE
  PermanentAllowed = TRUE
  AllowedModes = {"permanent", "ttl", "expires_at", "temporary", "sliding_ttl"}
  AllowedActions = {"delete", "notify", "none"}
  Defaults <- MCDefaults
  Bootstrap <- MCBootstrap
  Requests <- MCRequests
  Extensions = {1}
  StorageErrors = TRUE
  Crashes = TRUE
  None = None
INVARIANTS TypeOK DeletionChecksHold DeletedIsErased OutboxTellsTheTruth ScheduleFollowsPolicy
PROPERTIES HeldObjectSurvives
SYMMETRY Symmetry
CHECK_DEADLOCK FALSE
