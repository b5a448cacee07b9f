SPECIFICATION ExecSpec
CONSTANTS
  h1 = h1
  h2 = h2
  b1 = b1
  b2 = b2
  t1 = t1
  g1 = g1
  p1 = p1
  p2 = p2
  k1 = k1
  None = None
  Calls = {c1, c2, c3}
  Sessions = {h1, b1, t1, k1}
  Kind <- MCKind
  Workers = {w1, w2, w3}
  PoolSize = 2
  MaxOrphans = 1
  Resets = {h1}
INVARIANTS WorkersOwned SlotsAccounted ContainerServesOneSession OrphansAreQuarantined DisposeLeavesNothing
PROPERTY ImplementsGates
SYMMETRY CallSymmetry
CHECK_DEADLOCK FALSE
