CONSTANTS
  MaxTurns = 2
  MaxTurnActs = 2
  MaxReads = 1
SPECIFICATION TurnSpec
INVARIANT SteerHitsDisplayedTurn
PROPERTY BrokenResponseSettles StopSettles
CHECK_DEADLOCK FALSE
