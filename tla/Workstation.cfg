SPECIFICATION Spec
CONSTANTS
  p1 = p1
  p2 = p2
  None = None
  Corrupt = Corrupt
  Procs <- ProcsDef
  Commands <- CommandsDef
  Editors <- EditorsDef
  Homes <- HomesDef
  Defaults <- DefaultsDef
  Accepts <- AcceptsDef
  Prices <- PricesDef
  MaxBackups = 2
  PerSecond = 2
  MaxUpsets = 1
  Requests <- RequestsDef
  Endpoint = TRUE
  Limit = 1
SYMMETRY Symmetry
INVARIANT ReplacedIsBackedUp
INVARIANT SyncedIsIngested
PROPERTY OthersAreKept
CHECK_DEADLOCK FALSE
