SPECIFICATION FairSpec
CONSTANTS
  Procs = {p1, p2}
  Sessions = {s1}
  Digests = {d1}
  Malformed = malformed
  MAX_RETRIES = 1
  MAX_BLOCK_SEQ = 1
  MaxClock = 1
  MaxVerdicts = 2
  MaxEdits = 1
INVARIANT TypeOK
INVARIANT UneditedChainSound
INVARIANT NoFalseAlarm
PROPERTY AppendOnly
PROPERTY CleanVerdictNotLatched
PROPERTY LatchSticky
PROPERTY OutcomeMatchesLedger
PROPERTY ImplementsLedger
PROPERTY EveryCallReturns
