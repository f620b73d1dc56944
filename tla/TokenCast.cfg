SPECIFICATION Spec
CONSTANTS
  client = client
  charged = charged
  Procs = {p1, p2}
  Sessions <- OneSession
  Clients <- OneSession
  Charged <- ChargedToItself
  TurnTokens = {1, 2, 4}
  TURN_TOKENS_MAX = 2
  ShadowBudget <- Shadow
  EngineBudget <- Engine
  SHADOW_TURNS = 3
  HORIZON_TURNS = 1
  MaxEvents = 2
SYMMETRY Symmetry
INVARIANT TypeOK
INVARIANT TurnsContiguous
INVARIANT OverHardIsContained
INVARIANT HaltedWithoutTurnsIsContained
INVARIANT ContainmentIsRecorded
INVARIANT ChargeLostOnlyToRace
PROPERTY HaltLatch
