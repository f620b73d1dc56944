SPECIFICATION Spec
CONSTANTS
  s1 = s1
  s2 = s2
  claude = claude
  cursor = cursor
  builtin = builtin
  v1 = v1
  v2 = v2
  system = system
  callA = callA
  callB = callB
  callC = callC
  callD = callD
  None = None
  Servers = {s1, s2}
  RuleFiles <- RuleFilesDef
  Contents <- ContentsDef
  MaxRules = 2
  Calls = {callA, callB, callC, callD}
  Garbled = {callD}
  Touches <- TouchesDef
  SystemPath = builtin
  SystemText = system
  MaxDirectives = 2
  MaxDelta = 1
  ForbidIgnores = TRUE
  Disallowed = {}
  MaxViolations = 2
  Requests <- RuledRequests
  FilesOf <- FilesOfDef
  InitialRules <- OneFile
  MaxGuardCache = 1
  MaxCalls = 2
  Mishaps = {"edit"}
  MaxMishaps = 1
INVARIANT DeniedCallsAreBlocked
CHECK_DEADLOCK FALSE
