-------------------------------- MODULE MCPages --------------------------------
(***************************************************************************)
(* Four parts of the web client that share no state: the command palette,  *)
(* and one instance each of the task pages, a workflow run's page and the  *)
(* shell's actions on chats.  A behaviour is that of one of them: which    *)
(* part it is, is chosen at the start, and the others stay as they begin.  *)
(***************************************************************************)
EXTENDS CommandPalette, Sequences

CONSTANTS MaxTaskActs, MaxReads, MaxRunActs, Chats, OldChats, NoChat, MaxShell

ASSUME ChatsAssumption == OldChats \subseteq Chats /\ OldChats # {} /\ NoChat \notin Chats

VARIABLES
  which,                                                                                       \* the part
  task, url, content, feed, changed, polling, reads, swapped, tacts,                           \* TaskPage
  run, seen, stream, events, render, cards, frozen, racts,                                     \* WorkflowPage
  kept, blank, page, nav, requests, create, dialog, sacts                                      \* ShellActions

Tasks == INSTANCE TaskPage
Runs == INSTANCE WorkflowPage
Shell == INSTANCE ShellActions

taskVars == <<task, url, content, feed, changed, polling, reads, swapped, tacts>>
runVars == <<run, seen, stream, events, render, cards, frozen, racts>>
shellVars == <<kept, blank, page, nav, requests, create, dialog, sacts>>
pagesVars == <<which, vars, taskVars, runVars, shellVars>>

PagesInit ==
  /\ which \in {"commands", "tasks", "runs", "shell"}
  /\ Init /\ Tasks!Init /\ Runs!Init /\ Shell!Init
  /\ which # "tasks" => url = "list" /\ task = "over"
  /\ which # "shell" => blank = {} /\ page.chat = CHOOSE c \in OldChats : TRUE

InCommands == which = "commands" /\ UNCHANGED <<which, taskVars, runVars, shellVars>>
InTasks == which = "tasks" /\ UNCHANGED <<which, vars, runVars, shellVars>>
InRuns == which = "runs" /\ UNCHANGED <<which, vars, taskVars, shellVars>>
InShell == which = "shell" /\ UNCHANGED <<which, vars, taskVars, runVars>>

NextCommands == Next /\ InCommands
NextTasks == Tasks!Next /\ InTasks
NextRuns == Runs!Next /\ InRuns
NextShell == Shell!Next /\ InShell

PagesNext == NextCommands \/ NextTasks \/ NextRuns \/ NextShell

\* Each part's fairness; the disjunction is enabled only through the part at hand
PagesProgress ==
  \/ Progress /\ InCommands
  \/ Tasks!Progress /\ InTasks
  \/ Runs!Progress /\ InRuns
  \/ Shell!Progress /\ InShell

PagesSpec == PagesInit /\ [][PagesNext]_pagesVars /\ WF_pagesVars(PagesProgress)

\* The task event stream is open while a page with tasks is shown, and only then (TaskPage)
FeedFollowsPage == Tasks!FeedFollowsPage

\* The end of a task is shown on its page (TaskPage)
EndIsShown == Tasks!EndIsShown

\* The end of a workflow run is rendered on its page (WorkflowPage)
EndIsRendered == Runs!EndIsRendered

\* A new chat is asked for when the mutations of the chat shown have been answered (ShellActions)
NewChatWaits ==
  [][create'.at = "asked" /\ create.at # "asked" /\ page.clean => Shell!NoMutationOf(page)']_pagesVars
=============================================================================
