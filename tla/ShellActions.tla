------------------------------ MODULE ShellActions ------------------------------
(***************************************************************************)
(* What the shell does to chats from any page (dc_shell_controller.js):    *)
(* renaming, opening a new chat, deleting, resetting and resuming, with    *)
(* the one confirmation dialog, the count of mutations under way that a    *)
(* chat's markup carries (shared.js) and navigation by swap or by loading. *)
(* One project; titles, toasts and the sidebar are left out.               *)
(***************************************************************************)
EXTENDS Naturals, FiniteSets

CONSTANTS Chats,    \* chats there are or may be made
          OldChats, \* those there are at first
          NoChat,   \* a page that shows no chat
          MaxShell  \* bound: user actions and failures

VARIABLES
  kept,     \* the server's chats
  blank,    \* those without title and messages
  page,     \* what is shown: chat, the count of its mutations, and whether it is marked a draft
  nav,      \* a navigation by swap: the chat and the mark of the page asked for
  requests, \* mutations and removals sent by this browser
  create,   \* sessionCreatePromise: idle, waiting, asked or answered with a chat
  dialog,   \* activeDialog
  sacts

vars == <<kept, blank, page, nav, requests, create, dialog, sacts>>

None == [for |-> "none"]
Idle == [at |-> "idle"]

Act == sacts < MaxShell /\ sacts' = sacts + 1

\* The user acts while no modal dialog is open
UserActs == Act /\ dialog = None

Mutations == {r \in requests : r.kind \in {"rename", "send"}}

\* A page as the server renders it.  clean: no mutation of an earlier page is still to be answered
Rendering(chat, draft) ==
  [chat |-> chat, view |-> page.view + 1, pending |-> 0, draft |-> draft,
   clean |-> ~\E r \in Mutations : r.heard]

\* Loading a page ends the scripts of this one: nothing waits, and no answer is heard
Load(chat) ==
  /\ page' = [Rendering(chat, chat \in blank) EXCEPT !.clean = TRUE]
  /\ requests' = {[r EXCEPT !.heard = FALSE] : r \in {q \in requests : q.at = "sent"}}
  /\ nav' = None /\ create' = Idle /\ dialog' = None

\* waitForSessionDraftMutation
MutationPending == page.chat # NoChat /\ page.pending > 0

NoMutationOf(p) == ~\E r \in Mutations : r.view = p.view

\* focusCurrentNewChatDraft
IsDraft(p) == p.chat # NoChat /\ p.draft

\* openNewChatAfterPendingMutation, once it need not wait
Proceed(p) == create' = IF IsDraft(p) THEN Idle ELSE [at |-> "asked"]

(***************************************************************************)
(* Mutations of the chat shown                                             *)
(***************************************************************************)
Request(kind, chat) ==
  [kind |-> kind, chat |-> chat, view |-> page.view, at |-> "sent", ok |-> FALSE, heard |-> TRUE, n |-> sacts']

\* commitRename and the sending of a message: beginSessionDraftMutation
Mutate ==
  /\ UserActs
  /\ page.chat # NoChat
  /\ \E kind \in {"rename", "send"} :
       /\ kind = "send" => ~\E r \in requests : r.kind = "send" /\ r.view = page.view
       /\ requests' = requests \cup {Request(kind, page.chat)}
  /\ page' = [page EXCEPT !.pending = @ + 1, !.draft = FALSE]
  /\ UNCHANGED <<kept, blank, nav, create, dialog>>

\* endSessionDraftMutation: whatever chat area shows the chat is counted down
Ended(p, chat) == IF p.chat = chat THEN [p EXCEPT !.pending = IF @ > 1 THEN @ - 1 ELSE 0] ELSE p

EveryEndCompletes(p, chat) == p.chat = chat

\* dartclaw:session-draft-mutation-complete is dispatched, and mutationPending holds no more
Completes(p, chat) == p.chat = chat /\ p.pending <= 1

\* A rename takes the draft mark from the chat area there is by then; the chat's own page hears of
\* a message sent only while it is shown
MutationSettles ==
  \E r \in Mutations :
    /\ r.heard /\ r.at = "settled"
    /\ requests' = requests \ {r}
    /\ LET ends == r.kind = "rename" \/ r.view = page.view
           p == IF r.kind = "rename" /\ r.ok THEN [page EXCEPT !.draft = FALSE] ELSE page
       IN /\ page' = IF ends THEN Ended(p, r.chat) ELSE p
          /\ IF ends /\ create.at = "waiting" /\ Completes(p, r.chat)
             THEN Proceed(page') ELSE create' = create
    /\ UNCHANGED <<kept, blank, nav, dialog, sacts>>

(***************************************************************************)
(* A new chat                                                              *)
(***************************************************************************)
\* createSession: one at a time
Create ==
  /\ UserActs
  /\ create = Idle
  /\ IF MutationPending THEN create' = [at |-> "waiting"] ELSE Proceed(page)
  /\ UNCHANGED <<kept, blank, page, nav, requests, dialog>>

\* POST /api/sessions/open: a blank chat is taken again, else one is made
ServeOpen ==
  /\ create.at = "asked"
  /\ \E c \in IF blank # {} THEN blank ELSE Chats \ kept :
       /\ kept' = kept \cup {c} /\ blank' = blank \cup {c}
       /\ create' = [at |-> "answered", chat |-> c]
  /\ UNCHANGED <<page, nav, requests, dialog, sacts>>

OpenAnswered ==
  /\ create.at = "answered"
  /\ IF create.chat = page.chat /\ IsDraft(page)
     THEN create' = Idle /\ UNCHANGED <<page, nav, requests, dialog>>
     ELSE Load(create.chat)
  /\ UNCHANGED <<kept, blank, sacts>>

OpenFails ==
  /\ Act
  /\ create.at = "asked" /\ create' = Idle
  /\ UNCHANGED <<kept, blank, page, nav, requests, dialog>>

(***************************************************************************)
(* Confirmation, and what loads a page anew                                *)
(***************************************************************************)
\* deleteSession and resetSession.  A dialog asked for beside another is refused
Ask ==
  /\ UserActs
  /\ \E kind \in {"delete", "reset"}, c \in kept :
       /\ kind = "reset" => c = page.chat
       /\ dialog' = [kind |-> kind, chat |-> c]
  /\ UNCHANGED <<kept, blank, page, nav, requests, create>>

Cancel ==
  /\ dialog # None /\ dialog' = None
  /\ UNCHANGED <<kept, blank, page, nav, requests, create, sacts>>

Confirm ==
  /\ Act
  /\ dialog # None /\ dialog' = None
  /\ requests' = requests \cup {Request(dialog.kind, dialog.chat)}
  /\ UNCHANGED <<kept, blank, page, nav, create>>

\* resumeSession asks nothing
Resume ==
  /\ UserActs
  /\ page.chat # NoChat
  /\ requests' = requests \cup {Request("resume", page.chat)}
  /\ UNCHANGED <<kept, blank, page, nav, create, dialog>>

\* A deleted chat's page is left for the root, which redirects to some chat or shows none
RemovalSettles ==
  \E r \in requests \ Mutations :
    /\ r.heard /\ r.at = "settled"
    /\ IF ~r.ok
       THEN requests' = requests \ {r} /\ UNCHANGED <<page, nav, create, dialog>>
       ELSE \E c \in IF r.kind = "delete" THEN kept \cup {NoChat} ELSE {page.chat} : Load(c)
    /\ UNCHANGED <<kept, blank, sacts>>

(***************************************************************************)
(* The server, and navigation                                              *)
(***************************************************************************)
ServeRequest ==
  \E r \in requests :
    /\ r.at = "sent"
    /\ LET ok == r.chat \in kept
       IN /\ kept' = IF r.kind = "delete" THEN kept \ {r.chat} ELSE kept
          /\ blank' = IF r.kind \in {"rename", "send", "delete"} THEN blank \ {r.chat} ELSE blank
          /\ requests' = (requests \ {r})
                           \cup (IF r.heard THEN {[r EXCEPT !.at = "settled", !.ok = ok]} ELSE {})
    /\ UNCHANGED <<page, nav, create, dialog, sacts>>

RequestFails ==
  /\ Act
  /\ \E r \in requests :
       /\ r.at = "sent"
       /\ requests' = (requests \ {r}) \cup (IF r.heard THEN {[r EXCEPT !.at = "settled"]} ELSE {})
  /\ UNCHANGED <<kept, blank, page, nav, create, dialog>>

Navigate ==
  /\ UserActs
  /\ \E c \in kept \cup {NoChat} : nav' = [chat |-> c, draft |-> c \in blank]
  /\ UNCHANGED <<kept, blank, page, requests, create, dialog>>

\* The page's main content is swapped; the scripts and what they wait for stay
Swap ==
  /\ nav # None /\ nav' = None
  /\ page' = Rendering(nav.chat, nav.draft)
  /\ UNCHANGED <<kept, blank, requests, create, dialog, sacts>>

Init ==
  /\ kept = OldChats /\ blank \in SUBSET OldChats
  /\ \E c \in OldChats : page = [chat |-> c, view |-> 0, pending |-> 0, draft |-> c \in blank, clean |-> TRUE]
  /\ nav = None /\ requests = {} /\ create = Idle /\ dialog = None /\ sacts = 0

Progress ==
  MutationSettles \/ ServeOpen \/ OpenAnswered \/ RemovalSettles \/ ServeRequest \/ Swap

Next ==
  \/ Progress \/ Mutate \/ Create \/ OpenFails \/ Ask \/ Confirm \/ Cancel \/ Resume
  \/ RequestFails \/ Navigate

Spec == Init /\ [][Next]_vars /\ WF_vars(Progress)

(***************************************************************************)
(* Properties                                                              *)
(***************************************************************************)
\* The server is asked for a new chat only after every mutation of the chat shown has been
\* answered, or it could give out as new the blank chat that is being named or written to.  Not
\* where a mutation outlived the page it was begun on: the count does not follow it
NewChatWaits ==
  [][create'.at = "asked" /\ create.at # "asked" /\ page.clean => NoMutationOf(page)']_vars
=============================================================================
