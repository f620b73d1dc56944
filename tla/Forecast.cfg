SPECIFICATION Spec
CONSTANTS
  MaxTokens = 2
  Limits = {4, 9, 14}
  MaxTurnsSet = {1, 2, 3, 4}
  HorizonTurns = 2
CHECK_DEADLOCK FALSE
INVARIANT ClosedFormIsTurnByTurn
INVARIANT IntervalHoldsForecast
INVARIANT TighterIsNeverMilder
PROPERTY ActsInTime
