SPECIFICATION BucketsSpec
CONSTANTS
  None = None
  Requests = {1, 2, 3}
  Tenants = {a, b}
  Names = {c, n}
  Configured = {c}
  Stems = {x}
  Backends = {"local", "s3"}
INVARIANTS FilesAreWhole RowsAreBacked OneTenant BucketsAreOwned
SYMMETRY Symmetric
CHECK_DEADLOCK FALSE
