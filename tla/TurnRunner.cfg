SPECIFICATION RunnerSpec
CONSTANTS
  None = None
  Turns = {t1, t2}
  Sessions = {s1, s2}
  Lanes = {"primary", "cached", "scoped"}
INVARIANTS OutcomeMatchesTranscript LeaseKept
PROPERTIES CancelStands TurnsSettle
CHECK_DEADLOCK FALSE
