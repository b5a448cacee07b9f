SPECIFICATION LoadSpec
CONSTANTS
  s1 = s1
  s2 = s2
  s3 = s3
  x1 = x1
  x2 = x2
  Sessions = {s1, s2, s3}
  Senders = {x1, x2}
  Admins = {x2}
  MaxConcurrentTurns = 1
  MaxQueueDepth = 2
  MaxAttempts = 2
  MaxQueued = 1
  Fair = TRUE
  MaxMessages = 4
  Nobody = Nobody
INVARIANTS OrderKept MessagesOnce
PROPERTIES FairTurns MessagesSettle
CHECK_DEADLOCK FALSE
