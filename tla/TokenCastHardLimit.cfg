SPECIFICATION ServerSpec
CONSTANTS
  client = client
  charged = charged
  Procs = {p1}
  Sessions <- TwoSessions
  Clients <- OneSession
  Charged <- ChargedToOther
  TurnTokens = {1, 2, 4}
  TURN_TOKENS_MAX = 2
  ShadowBudget <- Shadow
  EngineBudget <- Engine
  SHADOW_TURNS = 3
  HORIZON_TURNS = 1
  MaxEvents = 2
INVARIANT HardLimitHaltsClient
