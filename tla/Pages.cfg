CONSTANTS
  Words = {"q", "r"}
  Filters = {"all", "active"}
  MaxCmd = 4
  MaxTaskActs = 5
  MaxReads = 2
  MaxRunActs = 6
  Chats = {"a", "b", "c"}
  OldChats = {"a", "b"}
  NoChat = "no"
  MaxShell = 4
SPECIFICATION PagesSpec
INVARIANTS ListMatchesBox RunsAsListed FeedFollowsPage
PROPERTIES EndIsShown EndIsRendered NewChatWaits
CHECK_DEADLOCK FALSE
