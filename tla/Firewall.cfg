SPECIFICATION Spec
CONSTANTS
  e1 = e1
  e2 = e2
  p = p
  q = q
  None = None
  Malformed = Malformed
  Engines = {e1, e2}
  Projects = {p, q}
  WorkspaceOf <- WorkspaceOfDef
  Order <- OrderDef
  Ignored = {"venv"}
  Texts <- TextsDef
  Layouts <- LayoutsDef
  Requests <- RequestsDef
  Saves <- SavesDef
  MaxParse = 1
  MaxManifest = 5
  MinDistractors = 1
  MaxDistractors = 3
  DefaultDistractors = 2
  MaxBuilds = 2
  MaxSaves = 1
  MaxFaults = 1
INVARIANT DistancesAreShortest
INVARIANT EntriesAreViews
INVARIANT IndexIsCurrent
CHECK_DEADLOCK FALSE
