SPECIFICATION GateSpec
CONSTANTS
  Clients = {c1, c2, c3, c4}
  Capacity = 2
INVARIANTS PermitsWithinCapacity
PROPERTIES ServedInOrder WaiterIsAnswered
CHECK_DEADLOCK FALSE
