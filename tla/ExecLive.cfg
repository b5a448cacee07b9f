SPECIFICATION ExecSpec
CONSTANTS
  h1 = h1
  h2 = h2
  b1 = b1
  b2 = b2
  t1 = t1
  g1 = g1
  p1 = p1
  p2 = p2
  k1 = k1
  None = None
  Calls = {c1, c2}
  Sessions = {p1, b1, t1, g1}
  Kind <- MCKind
  Workers = {w1, w2, w3}
  PoolSize = 1
  MaxOrphans = 1
  Resets = {b1}
PROPERTIES AcquireAnswered TurnsAndDisposeEnd
CHECK_DEADLOCK FALSE
