SPECIFICATION RunnerSpec
CONSTANTS
  None = None
  Turns = {t1, t2}
  Sessions = {s1, s2}
  Lanes = {"primary"}
INVARIANT CrashIsNoticed
CHECK_DEADLOCK FALSE
