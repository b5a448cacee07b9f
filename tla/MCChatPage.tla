------------------------------- MODULE MCChatPage -------------------------------
(***************************************************************************)
(* Three parts of the page a chat is shown on that share no state: the     *)
(* rail, the attention feed and the drawer of the shell around it          *)
(* (ShellFeeds); the view of the conversation, beside other viewers; the   *)
(* drafts of one session in two tabs.  A behaviour is that of one of them: *)
(* which part it is, is chosen at the start, and the others stay as they   *)
(* begin.                                                                  *)
(***************************************************************************)
EXTENDS ShellFeeds, TLC

CONSTANTS Dirs, BadDirs, Unlisted, MaxViewActs, Tabs, MaxDraftActs

\* The page is loaded with a directory the server accepts
ASSUME DirsAssumption == BadDirs \subseteq Dirs /\ BadDirs # Dirs

ASSUME TabsAssumption == IsFiniteSet(Tabs)

VARIABLES
  which,
  talk, rev, applied, shown, rejected, applying, waiting, moving, ready, queue, calls, answers, events, live,
  missed, picked, viewActs,                                                              \* ConversationView
  page, draft, touched, timer, conflict, actions, uploads, submitted, pending, found, mail, store, home, lapsed,
  submissions, accepted, revs, draftActs                                                 \* ChatDrafts

View == INSTANCE ConversationView WITH MaxActs <- MaxViewActs, srv <- talk, acts <- viewActs

Drafts == INSTANCE ChatDrafts WITH
  HomeSaves <- TRUE, MaxActs <- MaxDraftActs, posts <- submissions, rev <- revs, acts <- draftActs

viewVars ==
  <<talk, rev, applied, shown, rejected, applying, waiting, moving, ready, queue, calls, answers, events, live,
    missed, picked, viewActs>>
draftVars ==
  <<page, draft, touched, timer, conflict, actions, uploads, submitted, pending, found, mail, store, home, lapsed,
    submissions, accepted, revs, draftActs>>
chatVars == <<which, vars, viewVars, draftVars>>

PageInit ==
  /\ which \in {"feeds", "view", "drafts"}
  /\ Init /\ View!Init /\ Drafts!Init

FeedsNext == which = "feeds" /\ Next /\ UNCHANGED <<which, viewVars, draftVars>>
ViewNext == which = "view" /\ View!Next /\ UNCHANGED <<which, vars, draftVars>>
DraftsNext == which = "drafts" /\ Drafts!Next /\ UNCHANGED <<which, vars, viewVars>>

PageNext == FeedsNext \/ ViewNext \/ DraftsNext

PageSpec == PageInit /\ [][PageNext]_chatVars

TabSymmetry == Permutations(Tabs)

\* At rest the page shows the server's context and queue (ConversationView)
AtRestCurrent == View!AtRestCurrent

\* Nothing is shown that was not applied (ConversationView)
NoUnappliedValueShown == View!NoUnappliedValueShown

\* A commit changes no field but those picked by its own viewer (ConversationView)
NoSilentOverwrite == View!NoSilentOverwrite

\* A draft sent again is accepted once (ChatDrafts)
AcceptedOnce == Drafts!AcceptedOnce

\* At rest a touched draft, of the drafts there can be, is the stored one, or the tab shows that
\* it is not (ChatDrafts)
TouchedIsStoredOrShown == Drafts!DraftsTypeOK /\ Drafts!TouchedIsStoredOrShown

\* Text leaves the composer only by the user's hand or when it was accepted (ChatDrafts)
TypedTextKept == [][\A t \in Tabs : Drafts!TypedKept(t)]_chatVars
=============================================================================
