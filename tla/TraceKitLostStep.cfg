SPECIFICATION ForwardSpec
CONSTANTS
  Procs = {p1, p2}
  Sessions = {s1}
  Digests = {d1, d2}
  Malformed = malformed
  MAX_RETRIES = 0
  MAX_BLOCK_SEQ = 1
  MaxClock = 1
  MaxVerdicts = 0
  MaxEdits = 0
INVARIANT EveryStepIsSealed
