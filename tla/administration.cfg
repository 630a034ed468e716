SPECIFICATION Spec
CONSTANTS
  None = None
  Requests = {1}
  Tenants = {a, b}
  Names = {c, n}
  Configured = {c}
  ConfiguredDefault = c
  Stems = {x}
  Backends = {"local"}
  Updates = {1, 2}
  Numbers <- MCNumbers
  Patches <- MCPatches
  MinTtl = 2
  MaxTtl = 3
  AllowOverride = TRUE
  PermanentAllowed = FALSE
  AllowedModes <- MCModes
  AllowedActions <- MCActions
  DefaultPolicy <- MCDefault
  Mixes <- MCMixes
CHECK_DEADLOCK FALSE
INVARIANTS TypeOK DefaultIsAcceptable PolicyLostOnlyToOverlap DefaultBucketWasOwned
PROPERTIES EveryUpdateEnds
