SPECIFICATION Spec
CONSTANTS
  Procs = {p1}
  Sessions = {s1}
  Digests = {d1, d2}
  Malformed = malformed
  MAX_RETRIES = 0
  MAX_BLOCK_SEQ = 1
  MaxClock = 0
  MaxVerdicts = 2
  MaxEdits = 2
INVARIANT LatchErrorMeansNotLatched
