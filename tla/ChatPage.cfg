CONSTANTS
  Dirs = {"home", "repo", "typo"}
  BadDirs = {"typo"}
  Unlisted = {"r"}
  MaxViewActs = 3
  Tabs = {a, b}
  MaxDraftActs = 3
  Convs = {"a", "n"}
  Newcomers = {"n"}
  MaxActs = 3
SPECIFICATION PageSpec
INVARIANTS AtRestCurrent NoUnappliedValueShown AcceptedOnce 
INVARIANTS FeedsCurrentAtRest ActsOnWhatWasShown DrawerNeverTraps
PROPERTIES NoSilentOverwrite TypedTextKept
SYMMETRY TabSymmetry
CHECK_DEADLOCK FALSE
