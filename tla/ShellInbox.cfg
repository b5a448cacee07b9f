CONSTANTS
  Convs = {"a", "n"}
  Newcomers = {"n"}
  MaxActs = 1
SPECIFICATION Spec
PROPERTY InboxFlightLands
CHECK_DEADLOCK FALSE
