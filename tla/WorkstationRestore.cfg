SPECIFICATION Spec
CONSTANTS
  p1 = p1
  p2 = p2
  None = None
  Corrupt = Corrupt
  Procs = {p1}
  Commands <- ClaudeDef
  Editors <- RestoredDef
  Homes <- KeptDef
  Defaults <- DefaultsDef
  Accepts <- AcceptsDef
  Prices <- PricesDef
  MaxBackups = 5
  PerSecond = 2
  MaxUpsets = 1
  Requests <- OneRequestDef
  Endpoint = TRUE
  Limit = 1
INVARIANT SnapshotBeforeMutation
CHECK_DEADLOCK FALSE
