SPECIFICATION FairSpec
CONSTANTS
  s1 = s1
  s2 = s2
  claude = claude
  cursor = cursor
  builtin = builtin
  v1 = v1
  v2 = v2
  system = system
  callA = callA
  callB = callB
  callC = callC
  callD = callD
  None = None
  Servers = {s1, s2}
  RuleFiles <- RuleFilesDef
  Contents <- ContentsDef
  MaxRules = 2
  Calls = {callA, callB, callC, callD}
  Garbled = {callD}
  Touches <- TouchesDef
  SystemPath = builtin
  SystemText = system
  MaxDirectives = 2
  MaxDelta = 1
  ForbidIgnores = TRUE
  Disallowed = {}
  MaxViolations = 2
  Requests <- AllRequests
  FilesOf <- FilesOfDef
  InitialRules <- InitialRulesDef
  MaxGuardCache = 1
  MaxCalls = 2
  Mishaps = {"fault", "crash", "edit"}
  MaxMishaps = 1
INVARIANT VerdictsAreStored
INVARIANT PatchAppliedIsRecorded
INVARIANT EnforcementIsLogged
INVARIANT DeniedOnlyPastSkippedFiles
PROPERTY EveryCallSettles
CHECK_DEADLOCK FALSE
