------------------------------ MODULE ChatPageProofs ------------------------------
(***************************************************************************)
(* The parts of a chat's page, for any sets of conversations, directories  *)
(* and tabs and any number of acts.  The shell around it: the rail and the *)
(* attention feed keep up with the events they hear, what is done to a     *)
(* conversation is done as it was shown, and the page behind the drawer    *)
(* can be reached.  The view of the conversation: it is current at rest,   *)
(* shows nothing that was not applied, and overwrites nothing its viewer   *)
(* did not pick.  The drafts: one that is sent again is accepted once, one *)
(* that was touched is saved or shown not to be, and typed text stays.     *)
(* The turns: a steer stops no turn but the one its user saw.              *)
(***************************************************************************)
EXTENDS MCChatPage, MCChatTurn, Sequences, FiniteSetTheorems, TLAPS

(***************************************************************************)
(* The shell around the page (ShellFeeds)                                  *)
(***************************************************************************)
\* Events announce changes that the server has made, and pages are ordered by the changes
\* they contain
VersionsOK ==
  /\ srv.v \in Nat /\ told \in Nat /\ heard \in Nat /\ inbox.v \in Nat /\ feed.v \in Nat
  /\ told <= srv.v /\ heard <= srv.v
  /\ paged.st = "answered" => paged.page.v \in Nat
  /\ more.st = "answered" => more.page.v \in Nat

\* What the latest event announced is in the answer under way, or a further read follows it
InboxOK ==
  /\ flight.st = "answered" => flight.page.v \in Nat /\ (queued \/ flight.page.v >= heard)
  /\ flight = None => "inbox" \in notices \cup late \/ inbox.v >= heard

AttentionOK ==
  /\ attn.st = "answered" => attn.page.v \in Nat /\ (requeued \/ attn.page.v >= heard)
  /\ attn = None => "attention" \in notices \cup late \/ feed.v >= heard

FeedsInv == VersionsOK /\ InboxOK /\ AttentionOK

(* A step that leaves the feeds alone and may change the server and        *)
(* announce it.                                                            *)
LEMMA Announced ==
  ASSUME FeedsInv, UNCHANGED <<heard, inbox, feed, paged, more, flight, queued, attn, requeued, notices, late>>,
         srv'.v \in {srv.v, srv.v + 1}, told' \in {0, told, srv'.v}
  PROVE  FeedsInv'
BY DEF FeedsInv, VersionsOK, InboxOK, AttentionOK

LEMMA InitInv == Init => FeedsInv
BY DEF Init, FeedsInv, VersionsOK, InboxOK, AttentionOK, None

(* The inbox after a refresh was asked for, whatever is heard with it.     *)
LEMMA InboxRefreshed ==
  ASSUME FeedsInv, RefreshInbox, heard' \in Nat
  PROVE  InboxOK'
BY DEF FeedsInv, VersionsOK, InboxOK, RefreshInbox, JoinInbox, None, Asked

LEMMA AttentionRefreshed ==
  ASSUME FeedsInv, RefreshAttention, heard' \in Nat
  PROVE  AttentionOK'
BY DEF FeedsInv, VersionsOK, AttentionOK, RefreshAttention, None, Asked

(* The inbox when its flight ends, and nothing that was asked is lost.     *)
LEMMA InboxEnded ==
  ASSUME FlightEnds, UNCHANGED heard, ~queued => "inbox" \in notices' \/ inbox'.v >= heard
  PROVE  InboxOK'
BY DEF FlightEnds, InboxOK, None, Asked

LEMMA StepInv ==
  ASSUME FeedsInv, [Next]_vars
  PROVE  FeedsInv'
PROOF
<1> USE DEF FeedsInv
<1>1. CASE StreamOpens
  BY <1>1, Announced DEF StreamOpens, inboxVars, attnVars
<1>2. CASE HearChange
  <2>1. VersionsOK'
    BY <1>2 DEF HearChange, VersionsOK
  <2>2. heard' \in Nat
    BY <2>1 DEF VersionsOK
  <2> QED BY <1>2, <2>1, <2>2, InboxRefreshed, AttentionRefreshed DEF HearChange
<1>3. CASE Read
  BY <1>3 DEF Read, VersionsOK, InboxOK, AttentionOK, None, Asked, Answer
<1>4. CASE FlightAnswered
  <2>1. VersionsOK' /\ AttentionOK'
    BY <1>4 DEF FlightAnswered, Elsewhere, attnVars, Paint, FlightEnds, Lateness, VersionsOK, AttentionOK, InboxOK, None
  <2>2. CASE ~Missing(flight.page)
    <3>1. ~queued => inbox'.v >= heard
      BY <1>4, <2>2 DEF FlightAnswered, Paint, InboxOK
    <3> QED BY <1>4, <2>1, <2>2, <3>1, InboxEnded DEF FlightAnswered, Elsewhere
  <2>3. CASE Missing(flight.page)
    BY <1>4, <2>1, <2>3 DEF FlightAnswered, InboxOK, None
  <2> QED BY <2>2, <2>3
<1>5. CASE PagedAnswered
  BY <1>5 DEF PagedAnswered, Elsewhere, attnVars, Paint, PagedEnds, Lateness, VersionsOK, AttentionOK, InboxOK, None
<1>6. CASE MarkupArrives
  BY <1>6 DEF MarkupArrives, attnVars, JoinInbox, VersionsOK, AttentionOK, InboxOK, None, Asked
<1>7. CASE AttnAnswered
  BY <1>7 DEF AttnAnswered, Here, inboxVars, PaintFeed, AttnEnds, Lateness, VersionsOK, AttentionOK, InboxOK, None, Asked
<1>8. ASSUME NEW p \in posts, ServePost(p) PROVE FeedsInv'
  BY <1>8, Announced DEF ServePost, Changed, Announce, inboxVars, attnVars, VersionsOK
<1>9. ASSUME NEW p \in posts, PostAnswered(p) PROVE FeedsInv'
  <2>1. VersionsOK' /\ heard' \in Nat
    BY <1>9 DEF PostAnswered, VersionsOK
  <2>2. CASE RefreshInbox /\ UNCHANGED <<attn, requeued>>
    <3>1. AttentionOK'
      BY <1>9, <2>2 DEF PostAnswered, AttentionOK
    <3> QED BY <2>1, <2>2, <3>1, InboxRefreshed
  <2>3. CASE RefreshAttention /\ UNCHANGED <<flight, queued>>
    <3>1. InboxOK'
      BY <1>9, <2>3 DEF PostAnswered, InboxOK
    <3> QED BY <2>1, <2>3, <3>1, AttentionRefreshed
  <2> QED BY <1>9, <2>2, <2>3 DEF PostAnswered
<1>10. CASE Change
  BY <1>10, Announced DEF Change, Changed, Announce, inboxVars, attnVars, VersionsOK
<1>11. CASE StreamBreaks \/ Revoked
  BY <1>11, Announced DEF StreamBreaks, Revoked, inboxVars, attnVars
<1>12. CASE ReadFails
  <2>1. VersionsOK' /\ AttentionOK'
    BY <1>12 DEF ReadFails, Elsewhere, attnVars, FlightEnds, PagedEnds, VersionsOK, AttentionOK, None
  <2>2. CASE FlightEnds
    BY <1>12, <2>1, <2>2, InboxEnded DEF ReadFails, Elsewhere
  <2>3. CASE PagedEnds
    BY <1>12, <2>1, <2>3 DEF ReadFails, PagedEnds, Elsewhere, InboxOK
  <2> QED BY <1>12, <2>2, <2>3 DEF ReadFails
<1>13. CASE MarkupFails
  BY <1>13 DEF MarkupFails, Elsewhere, attnVars, VersionsOK, AttentionOK, InboxOK, None, Asked
<1>14. CASE AttnFails
  BY <1>14 DEF AttnFails, Here, inboxVars, AttnEnds, VersionsOK, AttentionOK, InboxOK, None, Asked
<1>15. CASE NextSettled \/ NextAttention
  BY <1>15 DEF NextSettled, NextAttention, Elsewhere, Here, inboxVars, attnVars, VersionsOK, AttentionOK, InboxOK, None, Asked
<1>16. CASE PostFails \/ Settle \/ Resolve \/ OpenAttention
  BY <1>16, Announced DEF PostFails, Settle, Resolve, OpenAttention, Post, inboxVars, attnVars, VersionsOK
<1>17. CASE Toggle \/ Resize \/ Navigate \/ UNCHANGED vars
  BY <1>17, Announced DEF Toggle, Resize, Navigate, vars, inboxVars, attnVars, VersionsOK
<1> QED
  BY <1>1, <1>2, <1>3, <1>4, <1>5, <1>6, <1>7, <1>8, <1>9, <1>10, <1>11, <1>12, <1>13, <1>14, <1>15, <1>16, <1>17
     DEF Next, Progress

\* FeedsCurrentAtRest: for any conversations, a feed at rest and without a notice contains the
\* latest change heard of, unless a paged read was painted late (refreshInboxUi,
\* refreshAttentionUi: one flight and one more after it)
THEOREM FeedsKeepUp == Spec => []FeedsCurrentAtRest
PROOF
<1>1. FeedsInv => FeedsCurrentAtRest
  BY DEF FeedsInv, InboxOK, AttentionOK, FeedsCurrentAtRest
<1> QED BY <1>1, InitInv, StepInv, PTL DEF Spec

\* ActsOnWhatWasShown: the server settles, resolves and marks read only what has not changed
\* since it was painted (ConversationInboxService._settle)
THEOREM ActsAsShown == Spec => []ActsOnWhatWasShown
PROOF
<1>1. Init => ActsOnWhatWasShown
  BY DEF Init, ActsOnWhatWasShown
<1>2. ASSUME ActsOnWhatWasShown, [Next]_vars PROVE ActsOnWhatWasShown'
  <2>1. acted' = acted \/ \E p \in posts : ServePost(p)
    BY <1>2 DEF Next, vars, Progress, StreamOpens, HearChange, Read, FlightAnswered, PagedAnswered, MarkupArrives,
       AttnAnswered, PostAnswered, Change, StreamBreaks, Revoked, ReadFails, MarkupFails, AttnFails, PostFails,
       NextSettled, NextAttention, Settle, Resolve, OpenAttention, Post, Toggle, Resize, Navigate, Elsewhere, Here
  <2>2. ASSUME NEW p \in posts, ServePost(p) PROVE ActsOnWhatWasShown'
    BY <1>2, <2>2 DEF ServePost, Holds, ActsOnWhatWasShown
  <2> QED BY <1>2, <2>1, <2>2 DEF ActsOnWhatWasShown
<1> QED BY <1>1, <1>2, PTL DEF Spec

\* DrawerNeverTraps: the page stays inert only behind an open drawer, or one that new markup
\* took away (setSidebarOpen, reconcileDrawerState)
THEOREM DrawerCloses == Spec => []DrawerNeverTraps
PROOF
<1> DEFINE Shape == drawer \in [open : BOOLEAN, inert : BOOLEAN, replaced : BOOLEAN, narrow : BOOLEAN]
           Inv == Shape /\ DrawerNeverTraps
<1>1. Init => Inv
  BY DEF Init, DrawerNeverTraps
<1>2. ASSUME Inv, [Next]_vars PROVE Inv'
  <2>1. drawer' = drawer \/ MarkupArrives \/ Toggle \/ Resize \/ Navigate
    BY <1>2 DEF Next, vars, Progress, StreamOpens, HearChange, Read, FlightAnswered, PagedAnswered,
       AttnAnswered, PostAnswered, ServePost, Change, StreamBreaks, Revoked, ReadFails, MarkupFails, AttnFails,
       PostFails, NextSettled, NextAttention, Settle, Resolve, OpenAttention, Post, Elsewhere, Here
  <2>2. CASE MarkupArrives
    BY <1>2, <2>2 DEF MarkupArrives, DrawerNeverTraps
  <2>3. CASE Toggle
    BY <1>2, <2>3 DEF Toggle, SetDrawer, DrawerNeverTraps
  <2>4. CASE Resize
    BY <1>2, <2>4 DEF Resize, DrawerNeverTraps
  <2>5. CASE Navigate
    BY <1>2, <2>5 DEF Navigate, Reconcile, SetDrawer, DrawerNeverTraps
  <2> QED BY <1>2, <2>1, <2>2, <2>3, <2>4, <2>5 DEF DrawerNeverTraps
<1> QED BY <1>1, <1>2, PTL DEF Spec

(***************************************************************************)
(* The view of the conversation (ConversationView)                         *)
(***************************************************************************)
Contexts == [dir : Dirs, provider : View!Providers, model : {"default", "m"}]
States == [rev : Nat, ctx : Contexts, queue : Nat, unread : BOOLEAN]
Requests == [kind : {"get", "commit", "move", "queue", "read"}, rev : Nat, ctx : Contexts,
             behind : BOOLEAN, picked : SUBSET View!Fields]

ViewTypes ==
  /\ talk \in States /\ applied \in States /\ shown \in Contexts
  /\ rev \in Nat /\ queue \in Nat /\ picked \subseteq View!Fields
  /\ rejected \in BOOLEAN /\ applying \in BOOLEAN /\ waiting \in BOOLEAN /\ moving \in BOOLEAN
  /\ ready \in BOOLEAN /\ live \in BOOLEAN
  /\ calls \subseteq Requests
  /\ answers \subseteq [call : Requests, ok : BOOLEAN, state : States]
  /\ events \in Seq(Nat)

LEMMA NoCtxType == View!NoCtx \in Contexts
PROOF
<1>1. PICK d \in Dirs : d \notin BadDirs
  BY DirsAssumption
<1>2. [dir |-> d, provider |-> "p", model |-> "default"] \in View!Contexts
  BY DEF View!Contexts, View!Providers, View!Options, View!Offered
<1>3. View!NoCtx \in View!Contexts
  BY <1>2 DEF View!NoCtx
<1> QED BY <1>3 DEF View!Contexts, View!Offered, Contexts, View!Providers

LEMMA GetType == View!Get \in Requests /\ View!Get.kind = "get" /\ View!Get.rev = 0
BY NoCtxType DEF View!Get, View!Send, Requests

(* A state of the server that was persisted. *)
LEMMA PersistTypes ==
  ASSUME ViewTypes, NEW s \in States, View!Persist(s)
  PROVE  talk' \in States /\ events' \in Seq(Nat)
PROOF
<1>1. talk.rev + 1 \in Nat
  BY DEF ViewTypes, States
<1>2. talk' \in States
  BY <1>1 DEF View!Persist, States
<1>3. events \in Seq(Nat)
  BY DEF ViewTypes
<1>4. Append(events, talk.rev + 1) \in Seq(Nat)
  BY <1>1, <1>3
<1> QED BY <1>2, <1>3, <1>4 DEF View!Persist

LEMMA ServeTypes ==
  ASSUME ViewTypes, View!Serve
  PROVE  ViewTypes'
PROOF
<1>1. PICK c \in calls : View!ServeCommit(c) \/ View!ServeQueue(c) \/ View!ServeRead(c) \/ View!ServeGet(c)
  BY DEF View!Serve
<1>2. UNCHANGED <<rev, applied, shown, rejected, picked, applying, waiting, moving, ready, queue, live>>
  BY DEF View!Serve, View!ctlVars, View!flagVars, View!pageVars
<1>3. talk' \in States /\ events' \in Seq(Nat)
  <2>1. talk \in States /\ events \in Seq(Nat) /\ c.ctx \in Contexts /\ talk.rev + 1 \in Nat
    BY DEF ViewTypes, Requests, States
  <2>2. /\ [talk EXCEPT !.ctx = c.ctx] \in States
        /\ [talk EXCEPT !.queue = talk.rev + 1] \in States
        /\ [talk EXCEPT !.unread = FALSE] \in States
    BY <2>1 DEF States
  <2>3. \/ UNCHANGED <<talk, events>>
        \/ View!Persist([talk EXCEPT !.ctx = c.ctx])
        \/ View!Persist([talk EXCEPT !.queue = talk.rev + 1])
        \/ View!Persist([talk EXCEPT !.unread = FALSE])
    BY <1>1 DEF View!ServeCommit, View!ServeQueue, View!ServeRead, View!ServeGet, View!Refuse
  <2> QED BY <2>1, <2>2, <2>3, PersistTypes
<1>4. calls' \subseteq calls /\ \E ok \in BOOLEAN, s \in {talk, talk'} : answers' = answers \cup {[call |-> c, ok |-> ok, state |-> s]}
  BY <1>1 DEF View!ServeCommit, View!ServeQueue, View!ServeRead, View!ServeGet, View!Refuse, View!Answer
<1>5. answers' \subseteq [call : Requests, ok : BOOLEAN, state : States]
  BY <1>1, <1>3, <1>4 DEF ViewTypes
<1> QED BY <1>2, <1>3, <1>4, <1>5 DEF ViewTypes

LEMMA NetTypes ==
  ASSUME ViewTypes, View!Lose \/ View!OtherViewer \/ View!StreamBreaks \/ View!StreamOpens
  PROVE  ViewTypes'
PROOF
<1>1. CASE View!Lose
  <2>1. UNCHANGED <<talk, events, rev, applied, shown, rejected, picked, applying, waiting, moving, ready, queue, live>>
    BY <1>1 DEF View!Lose, View!Refuse, View!ctlVars, View!flagVars, View!pageVars
  <2>2. calls' \subseteq calls /\ answers' \subseteq [call : Requests, ok : BOOLEAN, state : States]
    <3>1. talk \in States /\ calls \subseteq Requests
      BY DEF ViewTypes
    <3>2. answers \subseteq [call : Requests, ok : BOOLEAN, state : States]
      BY DEF ViewTypes
    <3>3. ASSUME NEW c \in calls, View!Refuse(c) PROVE calls' \subseteq calls /\ answers' \subseteq [call : Requests, ok : BOOLEAN, state : States]
      <4>1. [call |-> c, ok |-> FALSE, state |-> talk] \in [call : Requests, ok : BOOLEAN, state : States]
        BY <3>1
      <4>2. answers' = answers \cup {[call |-> c, ok |-> FALSE, state |-> talk]} /\ calls' = calls \ {c}
        BY <3>3 DEF View!Refuse, View!Answer
      <4> QED BY <3>2, <4>1, <4>2
    <3>4. ASSUME NEW a \in answers PROVE [a EXCEPT !.ok = FALSE] \in [call : Requests, ok : BOOLEAN, state : States]
      BY <3>2
    <3> QED BY <1>1, <3>2, <3>3, <3>4 DEF View!Lose
  <2> QED BY <2>1, <2>2 DEF ViewTypes
<1>2. CASE View!OtherViewer
  <2>1. talk' \in States /\ events' \in Seq(Nat)
    <3>1. talk \in States /\ talk.rev + 1 \in Nat
      BY DEF ViewTypes, States
    <3>2. ASSUME NEW x \in View!Contexts PROVE [talk EXCEPT !.ctx = x] \in States
      BY <3>1, <3>2 DEF States, View!Contexts, Contexts
    <3>3. [talk EXCEPT !.queue = talk.rev + 1, !.unread = TRUE] \in States
      BY <3>1 DEF States
    <3>4. PICK s \in States : View!Persist(s)
      BY <1>2, <3>2, <3>3 DEF View!OtherViewer
    <3> QED BY <3>4, PersistTypes
  <2> QED BY <1>2, <2>1 DEF View!OtherViewer, ViewTypes, View!ctlVars, View!flagVars, View!netVars
<1>3. CASE View!StreamBreaks \/ View!StreamOpens
  <2>1. events' \in Seq(Nat) /\ live' \in BOOLEAN
    <3>1. events \in Seq(Nat) /\ <<>> \in Seq(Nat)
      BY DEF ViewTypes
    <3> QED BY <1>3, <3>1 DEF View!StreamBreaks, View!StreamOpens
  <2>2. UNCHANGED <<talk, rev, applied, shown, rejected, picked, applying, waiting, moving, ready, queue, calls, answers>>
    BY <1>3 DEF View!StreamBreaks, View!StreamOpens, View!ctlVars, View!flagVars, View!pageVars, View!netVars
  <2> QED BY <2>1, <2>2 DEF ViewTypes
<1> QED BY <1>1, <1>2, <1>3

LEMMA AskTypes ==
  ASSUME ViewTypes, View!HearEvent \/ View!ReadBoundary \/ View!Online \/ View!MutateQueue
  PROVE  ViewTypes'
PROOF
<1>1. events' \in Seq(Nat)
  <2>1. events \in Seq(Nat)
    BY DEF ViewTypes
  <2>2. events # <<>> => Tail(events) \in Seq(Nat)
    BY <2>1
  <2>3. events' = events \/ (events # <<>> /\ events' = Tail(events))
    BY DEF View!HearEvent, View!ReadBoundary, View!Online, View!MutateQueue
  <2> QED BY <2>1, <2>2, <2>3
<1>2. calls' \subseteq Requests
  <2>1. calls \subseteq Requests /\ rev \in Nat
    BY DEF ViewTypes
  <2>2. ASSUME NEW kind \in {"read", "queue"} PROVE View!Send(kind, rev, View!NoCtx, FALSE, {}) \in Requests
    BY <2>1, NoCtxType DEF View!Send, Requests
  <2>3. calls' \subseteq calls \cup {View!Get} \cup {View!Send(kind, rev, View!NoCtx, FALSE, {}) : kind \in {"read", "queue"}}
    BY DEF View!HearEvent, View!ReadBoundary, View!Online, View!MutateQueue
  <2> QED BY <2>1, <2>2, <2>3, GetType
<1> QED BY <1>1, <1>2 DEF ViewTypes, View!HearEvent, View!ReadBoundary, View!Online, View!MutateQueue,
           View!ctlVars, View!flagVars, View!pageVars

LEMMA PickedTypes == ViewTypes => View!PickedContexts \subseteq Contexts
BY DEF View!PickedContexts, Contexts, ViewTypes, View!Offered, View!Providers, View!Options

LEMMA PickTypes ==
  ASSUME ViewTypes, View!Pick \/ View!ConfirmMove
  PROVE  ViewTypes'
PROOF
<1>1. CASE View!Pick
  <2>1. PICK ctx \in View!PickedContexts : 
          /\ shown' = ctx
          /\ rejected' = (rejected /\ ctx.dir = shown.dir)
          /\ picked' = View!Changed(ctx)
          /\ \/ applying /\ waiting' = TRUE /\ UNCHANGED <<applying, calls>>
             \/ /\ ~applying /\ applying' = TRUE /\ UNCHANGED waiting
                /\ calls' = calls \cup {View!Send("commit", rev, View!Payload(ctx, applied, rejected'), View!Behind, View!Changed(ctx))}
    BY <1>1 DEF View!Pick
  <2>2. ctx \in Contexts
    BY PickedTypes
  <2>3. View!Changed(ctx) \subseteq View!Fields
    BY DEF View!Changed, ViewTypes
  <2>4. View!Send("commit", rev, View!Payload(ctx, applied, rejected'), View!Behind, View!Changed(ctx)) \in Requests
    <3>1. View!Payload(ctx, applied, rejected') \in Contexts
      <4>1. applied.ctx.dir \in Dirs
        BY DEF ViewTypes, States, Contexts
      <4> QED BY <2>2, <4>1 DEF View!Payload, Contexts
    <3>2. rev \in Nat
      BY DEF ViewTypes
    <3> QED BY <2>3, <3>1, <3>2 DEF View!Send, View!Behind, Requests
  <2> QED BY <1>1, <2>1, <2>2, <2>3, <2>4 DEF View!Pick, ViewTypes, View!pageVars
<1>2. CASE View!ConfirmMove
  <2>1. PICK d \in Dirs : LET ctx == [shown EXCEPT !.dir = d] IN 
          /\ shown' = ctx
          /\ picked' = View!Changed(ctx)
          /\ calls' = calls \cup {View!Send("move", rev, ctx, View!Behind, View!Changed(ctx))}
    BY <1>2 DEF View!ConfirmMove
  <2> DEFINE ctx == [shown EXCEPT !.dir = d]
  <2>2. ctx \in Contexts
    BY DEF Contexts, ViewTypes
  <2>3. View!Changed(ctx) \subseteq View!Fields
    BY DEF View!Changed, ViewTypes
  <2> HIDE DEF ctx
  <2>4. View!Send("move", rev, ctx, View!Behind, View!Changed(ctx)) \in Requests
    BY <2>2, <2>3 DEF View!Send, View!Behind, Requests, ViewTypes
  <2>5. shown' = ctx /\ picked' = View!Changed(ctx)
        /\ calls' = calls \cup {View!Send("move", rev, ctx, View!Behind, View!Changed(ctx))}
    BY <2>1 DEF ctx
  <2> QED BY <1>2, <2>2, <2>3, <2>4, <2>5 DEF View!ConfirmMove, ViewTypes, View!pageVars
<1> QED BY <1>1, <1>2

LEMMA AnswerTypes ==
  ASSUME ViewTypes, NEW a \in answers,
         View!Fetched(a) \/ View!FetchFailed(a) \/ View!BoundaryAnswered(a) \/ View!CommitAnswered(a) \/ View!QueueAnswered(a)
  PROVE  ViewTypes'
PROOF
<1>1. a.call \in Requests /\ a.ok \in BOOLEAN /\ a.state \in States
  BY DEF ViewTypes
<1>2. answers' \subseteq answers
  BY DEF View!Fetched, View!FetchFailed, View!BoundaryAnswered, View!CommitAnswered, View!QueueAnswered
<1>3. CASE View!Fetched(a)
  BY <1>1, <1>2, <1>3 DEF View!Fetched, View!TakeContext, View!Reconcile, View!RenderQueue, ViewTypes, States, Contexts, View!flagVars
<1>4. CASE View!FetchFailed(a) \/ View!BoundaryAnswered(a) \/ View!QueueAnswered(a)
  BY <1>1, <1>2, <1>4, GetType DEF View!FetchFailed, View!BoundaryAnswered, View!QueueAnswered, ViewTypes, States, View!ctlVars,
     View!flagVars, View!pageVars
<1>5. CASE View!CommitAnswered(a) /\ View!Accepted(a)
  <2> DEFINE latest == IF a.state.rev >= rev THEN a.state ELSE applied
  <2>1. latest \in States
    BY <1>1 DEF ViewTypes
  <2>2. View!Send("commit", latest.rev, shown, TRUE, picked) \in Requests
    BY <2>1 DEF View!Send, Requests, ViewTypes, States
  <2>3. /\ rev' \in {rev, latest.rev} /\ applied' \in {applied, latest}
        /\ (UNCHANGED <<shown, picked>>) \/ View!Reconcile(latest, FALSE)
        /\ calls' \in {calls, calls \cup {View!Send("commit", latest.rev, shown, TRUE, picked)}}
        /\ applying' \in {applying, FALSE} /\ waiting' \in {waiting, FALSE} /\ moving' \in {moving, FALSE}
    BY <1>5 DEF View!Accepted, View!Finish, View!Reconcile
  <2>4. shown' \in Contexts /\ picked' \subseteq View!Fields
    BY <2>1, <2>3 DEF View!Reconcile, ViewTypes, States, Contexts
  <2> QED BY <1>2, <1>5, <2>1, <2>2, <2>3, <2>4 DEF View!CommitAnswered, View!Accepted, ViewTypes, States, View!pageVars
<1>6. CASE View!CommitAnswered(a) /\ View!Rejected(a)
  <2>1. /\ rejected' \in BOOLEAN /\ rev' \in Nat
        /\ \/ View!Reconcile(applied, rejected')
           \/ shown' = [shown EXCEPT !.dir = applied.ctx.dir] /\ UNCHANGED <<applied, picked>>
        /\ calls' \subseteq calls \cup {View!Get}
        /\ applying' \in {applying, FALSE} /\ waiting' \in {waiting, FALSE} /\ moving' \in {moving, FALSE}
    BY <1>6 DEF View!Rejected, View!Finish, ViewTypes, View!Max2, States
  <2>2. applied' \in States /\ shown' \in Contexts /\ picked' \subseteq View!Fields
    BY <2>1 DEF View!Reconcile, ViewTypes, States, Contexts
  <2>3. calls' \subseteq Requests
    BY <2>1, GetType DEF ViewTypes
  <2> QED BY <1>2, <1>6, <2>1, <2>2, <2>3 DEF View!CommitAnswered, ViewTypes, View!pageVars
<1> QED BY <1>3, <1>4, <1>5, <1>6 DEF View!CommitAnswered

LEMMA ViewTypesStep ==
  ASSUME ViewTypes, [View!Next]_viewVars
  PROVE  ViewTypes'
PROOF
<1>1. CASE UNCHANGED viewVars
  BY <1>1 DEF viewVars, ViewTypes
<1> QED BY <1>1, ServeTypes, NetTypes, AskTypes, PickTypes, AnswerTypes DEF View!Next

LEMMA ViewTypesInit == View!Init => ViewTypes
PROOF
<1> SUFFICES ASSUME View!Init PROVE ViewTypes
  OBVIOUS
<1>1. (CHOOSE d \in Dirs \ BadDirs : TRUE) \in Dirs
  BY DirsAssumption
<1>2. talk \in States /\ View!Seeded \in States
  BY <1>1 DEF View!Init, View!Seeded, States, Contexts, View!Providers, View!Options
<1>3. events \in Seq(Nat)
  BY DEF View!Init
<1>4. shown \in Contexts
  BY <1>2 DEF View!Init, States
<1> QED BY <1>2, <1>3, <1>4, GetType DEF View!Init, ViewTypes

-----------------------------------------------------------------------------
(* What the controls can show.                                             *)

\* The controls show, and commits name, only what there are options for; a state without one
\* is applied only if it is known to have been missed
OptionsOK ==
  /\ shown.provider \in View!Options
  /\ \A c \in calls : c.kind \in {"commit", "move"} => c.ctx.provider \in View!Options
  /\ \A a \in answers : a.ok /\ a.call.kind \in {"commit", "move"} => View!Listed(a.state)
  /\ View!Listed(applied) \/ "context" \in missed

LEMMA OptionsInit == View!Init => OptionsOK
PROOF
<1> SUFFICES ASSUME View!Init PROVE OptionsOK
  OBVIOUS
<1>1. shown.provider = "p" /\ applied.ctx.provider = "p" /\ calls = {View!Get} /\ answers = {}
  BY DEF View!Init, View!Seeded
<1> QED BY <1>1, GetType DEF OptionsOK, View!Listed, View!Options

LEMMA OptionsServed ==
  ASSUME ViewTypes, OptionsOK, View!Serve
  PROVE  OptionsOK'
PROOF
<1>1. PICK c \in calls : View!ServeCommit(c) \/ View!ServeQueue(c) \/ View!ServeRead(c) \/ View!ServeGet(c)
  BY DEF View!Serve
<1>2. UNCHANGED <<applied, shown>> /\ missed \subseteq missed'
  BY <1>1 DEF View!Serve, View!ctlVars, View!ServeCommit, View!ServeQueue, View!ServeRead, View!ServeGet, View!Refuse,
     View!Persist
<1>3. PICK ok, s : View!Answer(c, ok, s) /\ (ok /\ c.kind \in {"commit", "move"} => s.ctx = c.ctx)
  <2>1. CASE View!ServeCommit(c)
    <3>1. CASE View!Persist([talk EXCEPT !.ctx = c.ctx]) /\ View!Answer(c, TRUE, talk')
      <4>1. talk'.ctx = c.ctx
        BY <3>1 DEF View!Persist, ViewTypes, States
      <4> QED BY <3>1, <4>1
    <3>2. CASE c.ctx = talk.ctx /\ View!Answer(c, TRUE, talk)
      BY <3>2
    <3>3. CASE View!Refuse(c)
      BY <3>3 DEF View!Refuse
    <3> QED BY <2>1, <3>1, <3>2, <3>3 DEF View!ServeCommit
  <2>2. CASE ~View!ServeCommit(c)
    <3>1. c.kind \notin {"commit", "move"} /\ \E ok, s : View!Answer(c, ok, s)
      BY <1>1, <2>2 DEF View!ServeQueue, View!ServeRead, View!ServeGet, View!Refuse
    <3> QED BY <3>1
  <2> QED BY <2>1, <2>2
<1> DEFINE b == [call |-> c, ok |-> ok, state |-> s]
<1>4. calls' \subseteq calls /\ \A a \in answers' : a \in answers \/ a = b
  BY <1>3 DEF View!Answer
<1>5. b.ok /\ b.call.kind \in {"commit", "move"} => View!Listed(b.state)
  BY <1>3 DEF OptionsOK, View!Listed
<1> HIDE DEF b
<1> QED BY <1>2, <1>4, <1>5 DEF OptionsOK, View!Listed

LEMMA OptionsKept ==
  ASSUME OptionsOK, UNCHANGED <<applied, shown>>, missed \subseteq missed',
         \A c \in calls' : c \in calls \/ c.kind \notin {"commit", "move"},
         \A a \in answers' : a \in answers \/ ~a.ok
  PROVE  OptionsOK'
BY DEF OptionsOK, View!Listed

LEMMA PickOptions ==
  ASSUME ViewTypes, OptionsOK, View!Pick \/ View!ConfirmMove
  PROVE  OptionsOK'
PROOF
<1>1. UNCHANGED <<applied, answers, missed>>
  BY DEF View!Pick, View!ConfirmMove
<1>2. shown'.provider \in View!Options
  <2>1. \A ctx \in View!PickedContexts : ctx.provider \in View!Options
    BY DEF View!PickedContexts, OptionsOK, ViewTypes, Contexts
  <2>2. \A d \in Dirs : [shown EXCEPT !.dir = d].provider \in View!Options
    BY DEF OptionsOK, ViewTypes, Contexts
  <2>3. shown' \in View!PickedContexts \/ \E d \in Dirs : shown' = [shown EXCEPT !.dir = d]
    BY DEF View!Pick, View!ConfirmMove
  <2> QED BY <2>1, <2>2, <2>3
<1>3. PICK kind, behind, fields, ctx : calls' \in {calls, calls \cup {View!Send(kind, rev, ctx, behind, fields)}}
                                      /\ ctx.provider \in View!Options
  <2>1. CASE View!Pick
    <3>1. shown' \in Contexts /\ rejected' \in BOOLEAN
      BY <2>1, PickTypes DEF ViewTypes
    <3>2. View!Payload(shown', applied, rejected').provider \in View!Options
      BY <1>2, <3>1 DEF View!Payload, Contexts
    <3>3. \/ calls' = calls
          \/ \E behind, fields : calls' = calls \cup {View!Send("commit", rev, View!Payload(shown', applied, rejected'), behind, fields)}
      BY <2>1 DEF View!Pick
    <3> QED BY <3>2, <3>3
  <2>2. CASE View!ConfirmMove
    <3>1. \E behind, fields : calls' = calls \cup {View!Send("move", rev, shown', behind, fields)}
      BY <2>2 DEF View!ConfirmMove
    <3> QED BY <1>2, <3>1
  <2> QED BY <2>1, <2>2
<1>4. View!Send(kind, rev, ctx, behind, fields).ctx = ctx
  BY DEF View!Send
<1> QED BY <1>1, <1>2, <1>3, <1>4 DEF OptionsOK, View!Listed

LEMMA OptionsAnswered ==
  ASSUME ViewTypes, OptionsOK, NEW a \in answers, View!Fetched(a) \/ View!CommitAnswered(a)
  PROVE  OptionsOK'
PROOF
<1>1. answers' = answers \ {a} /\ a.state \in States /\ applied \in States /\ shown \in Contexts
  BY DEF View!Fetched, View!CommitAnswered, ViewTypes
<1>2. ASSUME NEW s \in States, NEW rej, View!Reconcile(s, rej)
      PROVE  shown'.provider \in View!Options /\ (applied' = applied \/ View!Listed(applied'))
  BY <1>1, <1>2 DEF View!Reconcile, View!Listed, OptionsOK, States, Contexts
<1>3. CASE View!Fetched(a)
  <2>1. calls' = calls
    BY <1>3 DEF View!Fetched
  <2>2. shown'.provider \in View!Options
    BY <1>1, <1>2, <1>3 DEF View!Fetched, View!TakeContext, OptionsOK
  <2>3. View!Listed(applied') \/ "context" \in missed'
    <3>1. CASE UNCHANGED <<applied, missed>>
      BY <3>1 DEF OptionsOK, View!Listed
    <3>2. CASE View!Listed(a.state)
      <4>1. applied' = a.state \/ UNCHANGED <<applied, missed>>
        BY <1>3, <3>2 DEF View!Fetched, View!TakeContext, View!Reconcile
      <4> QED BY <3>1, <3>2, <4>1 DEF View!Listed
    <3>3. CASE ~View!Listed(a.state)
      BY <1>3, <3>1, <3>3 DEF View!Fetched
    <3> QED BY <3>2, <3>3
  <2> QED BY <1>1, <2>1, <2>2, <2>3 DEF OptionsOK
<1>4. CASE View!CommitAnswered(a)
  <2>1. missed' = missed /\ a.call.kind \in {"commit", "move"}
    BY <1>4 DEF View!CommitAnswered
  <2>2. CASE View!Accepted(a)
    <3> DEFINE latest == IF a.state.rev >= rev THEN a.state ELSE applied
    <3>1. View!Listed(a.state)
      BY <2>1, <2>2 DEF View!Accepted, OptionsOK
    <3>2. latest \in States /\ (View!Listed(latest) \/ "context" \in missed)
      BY <1>1, <3>1 DEF OptionsOK
    <3>3. (applied' = latest /\ UNCHANGED <<shown, picked>>) \/ View!Reconcile(latest, FALSE)
      BY <2>2 DEF View!Accepted
    <3>4. calls' = calls \/ calls' = calls \cup {View!Send("commit", latest.rev, shown, TRUE, picked)}
      BY <2>2 DEF View!Accepted
    <3>5. View!Send("commit", latest.rev, shown, TRUE, picked).ctx = shown
      BY DEF View!Send
    <3> HIDE DEF latest
    <3>6. shown'.provider \in View!Options /\ (View!Listed(applied') \/ "context" \in missed')
      BY <1>2, <2>1, <3>2, <3>3 DEF OptionsOK, View!Listed
    <3>7. \A c \in calls' : c \in calls \/ c.ctx = shown
      BY <3>4, <3>5
    <3> QED BY <1>1, <3>6, <3>7 DEF OptionsOK
  <2>3. CASE View!Rejected(a)
    <3>1. View!Reconcile(applied, rejected') \/ (shown' = [shown EXCEPT !.dir = applied.ctx.dir] /\ UNCHANGED applied)
      BY <2>3 DEF View!Rejected
    <3>2. shown'.provider \in View!Options /\ (applied' = applied \/ View!Listed(applied'))
      BY <1>1, <1>2, <3>1 DEF OptionsOK, Contexts
    <3>3. \A c \in calls' : c \in calls \/ c.kind = "get"
      BY <2>3, GetType DEF View!Rejected
    <3> QED BY <1>1, <2>1, <3>2, <3>3 DEF OptionsOK, View!Listed
  <2> QED BY <1>4, <2>2, <2>3 DEF View!CommitAnswered
<1> QED BY <1>3, <1>4

LEMMA OptionsStep ==
  ASSUME ViewTypes, OptionsOK, [View!Next]_viewVars
  PROVE  OptionsOK'
PROOF
<1>1. CASE View!Serve
  BY <1>1, OptionsServed
<1>2. CASE View!Lose
  <2>1. UNCHANGED <<applied, shown, missed>> /\ calls' \subseteq calls
    BY <1>2 DEF View!Lose, View!Refuse, View!Answer, View!ctlVars
  <2>2. \A a \in answers : [a EXCEPT !.ok = FALSE].ok = FALSE
    BY DEF ViewTypes
  <2>3. \A a \in answers' : a \in answers \/ ~a.ok
    <3>1. CASE \E c \in calls : View!Refuse(c)
      BY <3>1 DEF View!Refuse, View!Answer
    <3>2. CASE \E a \in answers : answers' = (answers \ {a}) \cup {[a EXCEPT !.ok = FALSE]}
      <4>1. PICK a \in answers : answers' = (answers \ {a}) \cup {[a EXCEPT !.ok = FALSE]}
        BY <3>2
      <4> DEFINE b == [a EXCEPT !.ok = FALSE]
      <4>2. ~b.ok
        BY <2>2
      <4> HIDE DEF b
      <4>3. answers' = (answers \ {a}) \cup {b}
        BY <4>1 DEF b
      <4> QED BY <4>2, <4>3
    <3> QED BY <1>2, <3>1, <3>2 DEF View!Lose
  <2> QED BY <2>1, <2>3, OptionsKept
<1>3. CASE View!OtherViewer \/ View!StreamBreaks \/ View!StreamOpens \/ View!HearEvent \/ View!ReadBoundary \/ View!Online
           \/ View!MutateQueue
  <2>1. UNCHANGED <<applied, shown, answers>> /\ missed \subseteq missed'
    BY <1>3 DEF View!OtherViewer, View!Persist, View!StreamBreaks, View!StreamOpens, View!HearEvent, View!ReadBoundary,
       View!Online, View!MutateQueue, View!ctlVars, View!netVars
  <2>2. \/ calls' = calls \/ calls' = calls \cup {View!Get}
        \/ \E kind \in {"read", "queue"} : calls' = calls \cup {View!Send(kind, rev, View!NoCtx, FALSE, {})}
    BY <1>3 DEF View!OtherViewer, View!StreamBreaks, View!StreamOpens, View!HearEvent, View!ReadBoundary,
       View!Online, View!MutateQueue, View!netVars
  <2>3. \A kind : View!Send(kind, rev, View!NoCtx, FALSE, {}).kind = kind
    BY DEF View!Send
  <2>4. \A c \in calls' : c \in calls \/ c.kind \notin {"commit", "move"}
    BY <2>2, <2>3, GetType
  <2> QED BY <2>1, <2>4, OptionsKept
<1>4. CASE View!Pick \/ View!ConfirmMove
  BY <1>4, PickOptions
<1>5. ASSUME NEW a \in answers, View!FetchFailed(a) \/ View!BoundaryAnswered(a) \/ View!QueueAnswered(a)
      PROVE  OptionsOK'
  <2>1. UNCHANGED <<applied, shown>> /\ missed \subseteq missed' /\ answers' \subseteq answers
    BY <1>5 DEF View!FetchFailed, View!BoundaryAnswered, View!QueueAnswered, View!ctlVars
  <2>2. \A c \in calls' : c \in calls \/ c.kind \notin {"commit", "move"}
    BY <1>5, GetType DEF View!FetchFailed, View!BoundaryAnswered, View!QueueAnswered
  <2> QED BY <2>1, <2>2, OptionsKept
<1>6. CASE UNCHANGED viewVars
  BY <1>6 DEF viewVars, OptionsOK, View!Listed
<1> QED BY <1>1, <1>2, <1>3, <1>4, <1>5, <1>6, OptionsAnswered DEF View!Next

-----------------------------------------------------------------------------
(* The states of the server that are on their way to the page, and its own *)
Known == {talk} \cup {a.state : a \in answers}

Same(s, t) == s.ctx = t.ctx /\ s.queue = t.queue

\* No state of K from that of p up to revision k differs from it
Steady(K, p, k) == \A s \in K : p.rev <= s.rev /\ s.rev <= k => Same(s, p)
QueueSteady(K, p, k) == \A s \in K : p.rev <= s.rev /\ s.rev <= k => s.queue = p.queue

Naming == {"commit", "move", "read"}

RevisionsOK ==
  /\ rev <= talk.rev /\ applied.rev <= talk.rev /\ talk.rev # 0
  /\ \A c \in calls : c.rev <= talk.rev
  /\ \A a \in answers : /\ a.state.rev <= talk.rev
                        /\ a.ok /\ a.call.kind \in Naming => a.call.rev # 0
  /\ \A s, t \in Known : s.rev = t.rev => Same(s, t)

\* What was never fetched has not been named
EarlyOK ==
  missed = {} /\ ~ready =>
    rev = 0 /\ (\A c \in calls : c.rev = 0) /\ \A a \in answers : a.call.rev = 0

\* Up to the revision the page knows, to those it named and to those the answers to reads
\* bring, nothing differs from the applied context; commits differ from it in no queue
Follows ==
  /\ applied.rev <= rev
  /\ Steady(Known, applied, rev)
  /\ \A c \in calls : c.kind \in Naming => Steady(Known, applied, c.rev)
  /\ \A a \in answers : a.ok /\ a.call.kind = "read" => Steady(Known, applied, a.state.rev)
  /\ \A a \in answers : a.ok /\ a.call.kind \in {"commit", "move"} => QueueSteady(Known, applied, a.state.rev)

FollowsOK == ~View!Behind => Follows

Told == {events[i] : i \in DOMAIN events}

\* The latest change is told, or asked for, or it changed nothing
Awaited ==
  \/ talk.rev \in Told
  \/ \E c \in calls : c.kind = "get"
  \/ \E a \in answers : a.call.kind = "get" /\ (~a.ok \/ a.state.rev = talk.rev)
  \/ Steady(Known, applied, talk.rev)

HearsOK == missed = {} => (ready => queue = applied.queue) /\ Awaited

FollowInv == ViewTypes /\ OptionsOK /\ RevisionsOK /\ EarlyOK /\ FollowsOK /\ HearsOK

LEMMA SteadyGrows ==
  ASSUME NEW K, NEW L, NEW p, NEW k, NEW t, L \subseteq K \cup {t}, t \in K \/ ~(t.rev <= k)
  PROVE  /\ Steady(K, p, k) => Steady(L, p, k)
         /\ QueueSteady(K, p, k) => QueueSteady(L, p, k)
BY DEF Steady, QueueSteady

LEMMA SteadyMoves ==
  ASSUME NEW K \in SUBSET States, NEW L, L \subseteq K, NEW p \in States, NEW q \in K, p.rev <= q.rev, NEW k \in Nat
  PROVE  /\ Steady(K, p, k) => Steady(L, q, k)
         /\ QueueSteady(K, p, k) => QueueSteady(L, q, k)
PROOF
<1>1. ASSUME NEW s \in L, q.rev <= s.rev, s.rev <= k PROVE s \in K /\ p.rev <= s.rev /\ q.rev <= k
  BY <1>1 DEF States
<1> QED BY <1>1 DEF Steady, QueueSteady, Same

LEMMA KnownTypes == ViewTypes => Known \subseteq States
BY DEF ViewTypes, Known

LEMMA ToldAppend ==
  ASSUME NEW e \in Seq(Nat), NEW k \in Nat
  PROVE  LET f == Append(e, k) IN k \in {f[i] : i \in DOMAIN f}
PROOF
<1> DEFINE f == Append(e, k)
<1>1. Len(e) + 1 \in DOMAIN f /\ f[Len(e) + 1] = k
  OBVIOUS
<1> QED BY <1>1

LEMMA ToldTail ==
  ASSUME NEW e \in Seq(Nat), e # <<>>, NEW k \in {e[i] : i \in DOMAIN e}, k # Head(e)
  PROVE  LET f == Tail(e) IN k \in {f[i] : i \in DOMAIN f}
PROOF
<1> DEFINE f == Tail(e)
<1>1. PICK i \in DOMAIN e : k = e[i]
  OBVIOUS
<1>2. i # 1 /\ i \in 1..Len(e)
  BY <1>1
<1>3. i - 1 \in DOMAIN f /\ f[i - 1] = e[i]
  BY <1>2
<1> QED BY <1>1, <1>3

LEMMA FollowInit == View!Init => FollowInv
PROOF
<1> SUFFICES ASSUME View!Init PROVE FollowInv
  OBVIOUS
<1>1. ViewTypes
  BY ViewTypesInit
<1>2. Known = {talk} /\ talk.rev = 1 /\ applied.rev = 0 /\ applied.ctx = talk.ctx /\ applied.queue = talk.queue
  BY DEF View!Init, View!Seeded, Known
<1>3. calls = {View!Get} /\ answers = {} /\ rev = 0 /\ ~ready
  BY DEF View!Init
<1>4. RevisionsOK
  BY <1>2, <1>3, GetType DEF RevisionsOK, Same
<1>5. EarlyOK
  BY <1>3, GetType DEF EarlyOK
<1>6. FollowsOK /\ OptionsOK
  BY <1>2, <1>3, GetType, OptionsInit DEF FollowsOK, Follows, Steady, Naming, Same
<1>7. HearsOK
  BY <1>3, GetType DEF HearsOK, Awaited
<1> QED BY <1>1, <1>4, <1>5, <1>6, <1>7 DEF FollowInv

-----------------------------------------------------------------------------
(* The server, and the network.                                            *)

\* A change of the server is announced to the page, if the stream is there
ServerMoves ==
  \/ UNCHANGED <<talk, events, missed>>
  \/ /\ talk' \in States /\ talk'.rev = talk.rev + 1
     /\ \/ live /\ events' = Append(events, talk'.rev) /\ UNCHANGED missed
        \/ ~live /\ missed' = missed \cup {"change"}

LEMMA KnownMoves ==
  ASSUME FollowInv, ServerMoves, UNCHANGED applied, Known' \subseteq Known \cup {talk'}, NEW k \in Nat, k <= talk.rev
  PROVE  /\ Steady(Known, applied, k) => Steady(Known', applied', k)
         /\ QueueSteady(Known, applied, k) => QueueSteady(Known', applied', k)
PROOF
<1>1. talk' \in Known \/ ~(talk'.rev <= k)
  BY DEF ServerMoves, Known, FollowInv, ViewTypes, States
<1> QED BY <1>1, SteadyGrows

LEMMA RevisionsGrow ==
  ASSUME FollowInv, ServerMoves, Known' \subseteq Known \cup {talk'}
  PROVE  /\ talk.rev \in Nat /\ talk'.rev \in Nat /\ talk.rev <= talk'.rev
         /\ \A s, t \in Known' : s.rev = t.rev => Same(s, t)
PROOF
<1>1. talk.rev \in Nat /\ talk'.rev \in Nat /\ talk.rev <= talk'.rev
  BY DEF ServerMoves, FollowInv, ViewTypes, States
<1>2. Known \subseteq States /\ \A s \in Known : s.rev <= talk.rev
  BY KnownTypes DEF FollowInv, RevisionsOK, Known, ViewTypes, States
<1>3. talk' \in Known \/ \A s \in Known : s.rev # talk'.rev
  BY <1>1, <1>2 DEF ServerMoves, Known, States
<1> QED BY <1>1, <1>3 DEF FollowInv, RevisionsOK, Same

\* A request is answered with the state it leads to, or refused
Answering(c, ok) ==
  /\ calls' = calls \ {c}
  /\ answers' = answers \cup {[call |-> c, ok |-> ok, state |-> talk']}
  /\ c.kind = "get" => UNCHANGED talk
  /\ ok /\ c.kind \in Naming => c.rev = talk.rev
  /\ ok /\ c.kind = "read" => Same(talk', talk)
  /\ ok /\ c.kind \in {"commit", "move"} => talk'.queue = talk.queue

LEMMA AnsweringFollows ==
  ASSUME FollowInv, ViewTypes', OptionsOK', ServerMoves, UNCHANGED <<rev, applied, ready, queue>>,
         NEW c \in calls, NEW ok \in BOOLEAN, Answering(c, ok)
  PROVE  FollowInv'
PROOF
<1> DEFINE b == [call |-> c, ok |-> ok, state |-> talk']
<1>1. /\ Known' = Known \cup {talk'} \/ Known' = (Known \ {talk}) \cup {talk'}
      /\ Known' \subseteq Known \cup {talk'}
  BY DEF Known, Answering
<1>2. /\ talk.rev \in Nat /\ talk'.rev \in Nat /\ talk.rev <= talk'.rev
      /\ \A s, t \in Known' : s.rev = t.rev => Same(s, t)
  BY <1>1, RevisionsGrow
<1>3. /\ \A d \in calls : d.rev \in Nat /\ d.rev <= talk.rev
      /\ \A a \in answers : a.state.rev \in Nat /\ a.state.rev <= talk.rev
      /\ rev \in Nat /\ rev <= talk.rev /\ applied.rev \in Nat /\ applied.rev <= talk.rev
  BY DEF FollowInv, RevisionsOK, ViewTypes, States, Requests
<1>4. \A a \in answers' : a \in answers \/ a = b
  BY DEF Answering
<1>5. missed' = {} => missed = {}
  BY DEF ServerMoves
<1>6. View!Behind => View!Behind'
  BY DEF ServerMoves, View!Behind
<1>7. b.call = c /\ b.ok = ok /\ b.state = talk'
  OBVIOUS
<1> HIDE DEF b
<1>8. RevisionsOK'
  <2>1. talk.rev # 0 /\ \A a \in answers : a.ok /\ a.call.kind \in Naming => a.call.rev # 0
    BY DEF FollowInv, RevisionsOK
  <2>2. ok /\ c.kind \in Naming => c.rev # 0
    BY <2>1 DEF Answering
  <2>3. talk'.rev # 0 /\ rev' <= talk'.rev /\ applied'.rev <= talk'.rev
    BY <1>2, <1>3, <2>1
  <2>4. \A d \in calls' : d.rev <= talk'.rev
    BY <1>2, <1>3 DEF Answering
  <2>5. \A a \in answers' : /\ a.state.rev <= talk'.rev
                            /\ a.ok /\ a.call.kind \in Naming => a.call.rev # 0
    BY <1>2, <1>3, <1>4, <1>7, <2>1, <2>2
  <2> QED BY <1>2, <2>3, <2>4, <2>5 DEF RevisionsOK
<1>9. EarlyOK'
  BY <1>4, <1>5, <1>7 DEF FollowInv, EarlyOK, Answering
<1>10. FollowsOK'
  <2> SUFFICES ASSUME ~View!Behind' PROVE Follows'
    BY DEF FollowsOK
  <2>1. Follows
    BY <1>6 DEF FollowInv, FollowsOK, Follows
  <2>2. applied'.rev <= rev' /\ Steady(Known', applied', rev')
    BY <1>1, <1>3, <2>1, KnownMoves DEF Follows
  <2>3. \A d \in calls' : d.kind \in Naming => Steady(Known', applied', d.rev)
    BY <1>1, <1>3, <2>1, KnownMoves DEF Answering, Follows
  <2>4. ASSUME ok, c.kind \in Naming PROVE \A s \in Known : applied.rev <= s.rev => Same(s, applied)
    <3>1. Steady(Known, applied, talk.rev)
      BY <2>1, <2>4 DEF Answering, Follows
    <3>2. \A s \in Known : s.rev <= talk.rev
      BY <1>2, <1>3 DEF Known
    <3> QED BY <3>1, <3>2 DEF Steady
  <2>5. ASSUME ok, c.kind = "read" PROVE Steady(Known', applied', talk'.rev)
    BY <1>1, <1>3, <2>4, <2>5 DEF Steady, Answering, Same, Known, Naming
  <2>6. ASSUME ok, c.kind \in {"commit", "move"} PROVE QueueSteady(Known', applied', talk'.rev)
    BY <1>1, <1>3, <2>4, <2>6 DEF QueueSteady, Answering, Same, Known, Naming
  <2>7. \A a \in answers' : a.ok /\ a.call.kind = "read" => Steady(Known', applied', a.state.rev)
    BY <1>1, <1>3, <1>4, <1>7, <2>1, <2>5, KnownMoves DEF Follows
  <2>8. \A a \in answers' : a.ok /\ a.call.kind \in {"commit", "move"} => QueueSteady(Known', applied', a.state.rev)
    BY <1>1, <1>3, <1>4, <1>7, <2>1, <2>6, KnownMoves DEF Follows
  <2> QED BY <2>2, <2>3, <2>7, <2>8 DEF Follows
<1>11. HearsOK'
  <2> SUFFICES ASSUME missed' = {} PROVE (ready' => queue' = applied'.queue) /\ Awaited'
    BY DEF HearsOK
  <2>1. (ready => queue = applied.queue) /\ Awaited
    BY <1>5 DEF FollowInv, HearsOK
  <2>2. CASE talk' # talk
    <3>1. events' = Append(events, talk'.rev)
      BY <2>2 DEF ServerMoves
    <3>2. talk'.rev \in Told'
      <4>1. events \in Seq(Nat)
        BY DEF FollowInv, ViewTypes
      <4> QED BY <1>2, <3>1, <4>1, ToldAppend DEF Told
    <3> QED BY <2>1, <3>2 DEF Awaited
  <2>3. CASE talk' = talk
    <3>1. CASE talk.rev \in Told
      <4>1. events' = events
        BY <1>2, <2>3 DEF ServerMoves
      <4> QED BY <2>1, <2>3, <3>1, <4>1 DEF Awaited, Told
    <3>2. CASE \E d \in calls : d.kind = "get"
      <4>1. PICK d \in calls : d.kind = "get"
        BY <3>2
      <4>2. CASE d = c
        <5>1. b \in answers' /\ b.call.kind = "get" /\ b.state.rev = talk'.rev
          BY <1>7, <4>1, <4>2 DEF Answering, b
        <5> QED BY <2>1, <5>1 DEF Awaited
      <4>3. CASE d # c
        BY <2>1, <4>1, <4>3 DEF Awaited, Answering
      <4> QED BY <4>2, <4>3
    <3>3. CASE \E a \in answers : a.call.kind = "get" /\ (~a.ok \/ a.state.rev = talk.rev)
      BY <2>1, <2>3, <3>3 DEF Awaited, Answering
    <3>4. CASE Steady(Known, applied, talk.rev)
      BY <1>1, <1>2, <2>1, <2>3, <3>4, KnownMoves DEF Awaited
    <3> QED BY <2>1, <3>1, <3>2, <3>3, <3>4 DEF Awaited
  <2> QED BY <2>2, <2>3
<1> QED BY <1>8, <1>9, <1>10, <1>11 DEF FollowInv

\* The requests a step of the server or of the network answers, and what the page keeps
LEMMA ServeFollows ==
  ASSUME FollowInv, ViewTypes', OptionsOK', View!Serve
  PROVE  FollowInv'
PROOF
<1>1. PICK c \in calls : View!ServeCommit(c) \/ View!ServeQueue(c) \/ View!ServeRead(c) \/ View!ServeGet(c)
  BY DEF View!Serve
<1>2. UNCHANGED <<rev, applied, ready, queue>>
  BY DEF View!Serve, View!ctlVars, View!flagVars, View!pageVars
<1>3. talk \in States /\ talk' \in States /\ c \in Requests
  BY DEF FollowInv, ViewTypes
<1>4. ASSUME NEW s \in States, View!Persist(s), View!Answer(c, TRUE, talk'), c.kind # "get",
             c.kind \in Naming => c.rev = talk.rev,
             c.kind = "read" => Same(s, talk), c.kind \in {"commit", "move"} => s.queue = talk.queue
      PROVE  ServerMoves /\ Answering(c, TRUE)
  <2>1. talk' = [s EXCEPT !.rev = talk.rev + 1]
    BY <1>4 DEF View!Persist
  <2>2. talk'.rev = talk.rev + 1 /\ talk'.ctx = s.ctx /\ talk'.queue = s.queue
    BY <2>1 DEF States
  <2>3. ServerMoves
    BY <1>3, <1>4, <2>2 DEF ServerMoves, View!Persist
  <2> QED BY <1>4, <2>2, <2>3 DEF Answering, View!Answer, Same
<1>5. ASSUME NEW ok \in BOOLEAN, View!Answer(c, ok, talk), UNCHANGED <<talk, events, missed>>,
             ok /\ c.kind \in Naming => c.rev = talk.rev
      PROVE  ServerMoves /\ Answering(c, ok)
  BY <1>5 DEF ServerMoves, Answering, View!Answer, Same
<1>6. CASE View!ServeCommit(c)
  <2> DEFINE s == [talk EXCEPT !.ctx = c.ctx]
  <2>1. s \in States /\ s.queue = talk.queue
    BY <1>3 DEF States, Requests
  <2> HIDE DEF s
  <2>2. CASE View!Persist(s) /\ View!Answer(c, TRUE, talk') /\ c.rev = talk.rev
    BY <1>2, <1>4, <1>6, <2>1, <2>2, AnsweringFollows DEF View!ServeCommit
  <2>3. CASE View!Answer(c, TRUE, talk) /\ UNCHANGED <<talk, events, missed>> /\ c.rev = talk.rev
    BY <1>2, <1>5, <2>3, AnsweringFollows
  <2>4. CASE View!Refuse(c)
    BY <1>2, <1>5, <2>4, AnsweringFollows DEF View!Refuse
  <2> QED BY <1>6, <2>2, <2>3, <2>4 DEF View!ServeCommit, s
<1>7. CASE View!ServeQueue(c)
  <2> DEFINE s == [talk EXCEPT !.queue = talk.rev + 1]
  <2>1. s \in States
    BY <1>3 DEF States
  <2> HIDE DEF s
  <2>2. CASE View!Persist(s) /\ View!Answer(c, TRUE, talk') /\ c.rev = talk.rev
    BY <1>2, <1>4, <1>7, <2>1, <2>2, AnsweringFollows DEF View!ServeQueue
  <2>3. CASE View!Refuse(c)
    BY <1>2, <1>5, <2>3, AnsweringFollows DEF View!Refuse
  <2> QED BY <1>7, <2>2, <2>3 DEF View!ServeQueue, s
<1>8. CASE View!ServeRead(c)
  <2> DEFINE s == [talk EXCEPT !.unread = FALSE]
  <2>1. s \in States /\ Same(s, talk)
    BY <1>3 DEF States, Same
  <2> HIDE DEF s
  <2>2. CASE View!Persist(s) /\ View!Answer(c, TRUE, talk') /\ c.rev = talk.rev
    BY <1>2, <1>4, <1>8, <2>1, <2>2, AnsweringFollows DEF View!ServeRead
  <2>3. CASE View!Refuse(c)
    BY <1>2, <1>5, <2>3, AnsweringFollows DEF View!Refuse
  <2> QED BY <1>8, <2>2, <2>3 DEF View!ServeRead, s
<1>9. CASE View!ServeGet(c)
  BY <1>2, <1>5, <1>9, AnsweringFollows DEF View!ServeGet, Naming
<1> QED BY <1>1, <1>6, <1>7, <1>8, <1>9

(* An answer that is lost on its way back.                                 *)
LEMMA LostFollows ==
  ASSUME FollowInv, ViewTypes', OptionsOK', UNCHANGED <<talk, rev, applied, ready, queue, calls, events, missed>>,
         NEW a \in answers, answers' = (answers \ {a}) \cup {[a EXCEPT !.ok = FALSE]}
  PROVE  FollowInv'
PROOF
<1> DEFINE b == [a EXCEPT !.ok = FALSE]
<1>1. b.call = a.call /\ b.state = a.state /\ ~b.ok
  BY DEF FollowInv, ViewTypes
<1> HIDE DEF b
<1>2. b \in answers' /\ \A d \in answers' : d \in answers \/ d = b
  BY DEF b
<1>3. Known' = Known
  <2>1. \A s : (\E d \in answers' : s = d.state) <=> (\E d \in answers : s = d.state)
    BY <1>1, <1>2 DEF b
  <2> QED BY <2>1 DEF Known
<1>4. RevisionsOK'
  BY <1>1, <1>2, <1>3 DEF FollowInv, RevisionsOK
<1>5. EarlyOK'
  BY <1>1, <1>2 DEF FollowInv, EarlyOK
<1>6. FollowsOK'
  BY <1>1, <1>2, <1>3 DEF FollowInv, FollowsOK, Follows, View!Behind
<1>7. HearsOK'
  <2>1. ASSUME Awaited PROVE Awaited'
    <3>1. CASE \E d \in answers : d.call.kind = "get" /\ (~d.ok \/ d.state.rev = talk.rev)
      <4>1. PICK d \in answers : d.call.kind = "get" /\ (~d.ok \/ d.state.rev = talk.rev)
        BY <3>1
      <4>2. d = a \/ d \in answers'
        OBVIOUS
      <4> QED BY <1>1, <1>2, <4>1, <4>2 DEF Awaited
    <3> QED BY <1>3, <2>1, <3>1 DEF Awaited, Told
  <2> QED BY <2>1 DEF FollowInv, HearsOK
<1> QED BY <1>4, <1>5, <1>6, <1>7 DEF FollowInv

LEMMA LoseFollows ==
  ASSUME FollowInv, ViewTypes', OptionsOK', View!Lose
  PROVE  FollowInv'
PROOF
<1>1. UNCHANGED <<rev, applied, ready, queue>>
  BY DEF View!Lose, View!ctlVars, View!pageVars
<1>2. CASE \E c \in calls : View!Refuse(c)
  <2>1. PICK c \in calls : View!Refuse(c)
    BY <1>2
  <2>2. ServerMoves /\ Answering(c, FALSE)
    BY <2>1 DEF View!Refuse, View!Answer, ServerMoves, Answering
  <2> QED BY <1>1, <2>2, AnsweringFollows
<1>3. CASE \E a \in answers : /\ answers' = (answers \ {a}) \cup {[a EXCEPT !.ok = FALSE]}
                              /\ UNCHANGED <<talk, calls, events, missed>>
  BY <1>1, <1>3, LostFollows
<1> QED BY <1>2, <1>3 DEF View!Lose

(* Nothing is answered, and the server may have moved.                     *)
LEMMA MoveFollows ==
  ASSUME FollowInv, ViewTypes', OptionsOK', ServerMoves, UNCHANGED <<rev, applied, ready, queue, calls, answers>>
  PROVE  FollowInv'
PROOF
<1>1. Known' \subseteq Known \cup {talk'} /\ \A a \in answers : a.state \in Known'
  BY DEF Known
<1>2. /\ talk.rev \in Nat /\ talk'.rev \in Nat /\ talk.rev <= talk'.rev
      /\ \A s, t \in Known' : s.rev = t.rev => Same(s, t)
  BY <1>1, RevisionsGrow
<1>3. /\ \A d \in calls : d.rev \in Nat /\ d.rev <= talk.rev
      /\ \A a \in answers : a.state.rev \in Nat /\ a.state.rev <= talk.rev
      /\ rev \in Nat /\ rev <= talk.rev /\ applied.rev \in Nat /\ applied.rev <= talk.rev
  BY DEF FollowInv, RevisionsOK, ViewTypes, States, Requests
<1>4. missed' = {} => missed = {}
  BY DEF ServerMoves
<1>5. View!Behind => View!Behind'
  BY DEF ServerMoves, View!Behind
<1>6. RevisionsOK'
  BY <1>2, <1>3 DEF FollowInv, RevisionsOK
<1>7. EarlyOK'
  BY <1>4 DEF FollowInv, EarlyOK
<1>8. FollowsOK'
  BY <1>1, <1>3, <1>5, KnownMoves DEF FollowInv, FollowsOK, Follows
<1>9. HearsOK'
  <2> SUFFICES ASSUME missed' = {} PROVE (ready' => queue' = applied'.queue) /\ Awaited'
    BY DEF HearsOK
  <2>1. (ready => queue = applied.queue) /\ Awaited
    BY <1>4 DEF FollowInv, HearsOK
  <2>2. CASE talk' # talk
    <3>1. events' = Append(events, talk'.rev)
      BY <2>2 DEF ServerMoves
    <3>2. events \in Seq(Nat)
      BY DEF FollowInv, ViewTypes
    <3>3. talk'.rev \in Told'
      BY <1>2, <3>1, <3>2, ToldAppend DEF Told
    <3> QED BY <2>1, <3>3 DEF Awaited
  <2>3. CASE talk' = talk
    <3>1. events' = events /\ Known' = Known
      BY <1>2, <2>3 DEF ServerMoves, Known
    <3> QED BY <2>1, <2>3, <3>1 DEF Awaited, Told
  <2> QED BY <2>2, <2>3
<1> QED BY <1>6, <1>7, <1>8, <1>9 DEF FollowInv

LEMMA OtherFollows ==
  ASSUME FollowInv, ViewTypes', OptionsOK', View!OtherViewer
  PROVE  FollowInv'
PROOF
<1>1. PICK s \in {[talk EXCEPT !.ctx = x] : x \in View!Contexts} \cup {[talk EXCEPT !.queue = talk.rev + 1, !.unread = TRUE]} :
        View!Persist(s)
  BY DEF View!OtherViewer
<1>2. talk' = [s EXCEPT !.rev = talk.rev + 1] /\ talk \in States /\ talk' \in States
  BY <1>1 DEF View!Persist, FollowInv, ViewTypes
<1>3. talk'.rev = talk.rev + 1
  BY <1>1, <1>2 DEF States
<1>4. ServerMoves
  BY <1>1, <1>2, <1>3 DEF ServerMoves, View!Persist
<1>5. UNCHANGED <<rev, applied, ready, queue, calls, answers>>
  BY DEF View!OtherViewer, View!ctlVars, View!netVars
<1> QED BY <1>4, <1>5, MoveFollows

LEMMA StreamFollows ==
  ASSUME FollowInv, ViewTypes', OptionsOK', View!StreamBreaks \/ View!StreamOpens
  PROVE  FollowInv'
PROOF
<1>1. UNCHANGED <<talk, rev, applied, ready, queue, calls, answers>>
  BY DEF View!StreamBreaks, View!StreamOpens, View!ctlVars, View!pageVars, View!netVars
<1>2. CASE events = <<>> \/ View!StreamOpens
  <2>1. UNCHANGED <<events, missed>>
    BY <1>2 DEF View!StreamBreaks, View!StreamOpens
  <2> QED BY <1>1, <2>1, MoveFollows DEF ServerMoves
<1>3. CASE events # <<>> /\ View!StreamBreaks
  <2>1. missed' = missed \cup {"change"} /\ missed' # {} /\ (View!Behind' <=> View!Behind)
    BY <1>3 DEF View!StreamBreaks, View!Behind
  <2>2. Known' = Known
    BY <1>1 DEF Known
  <2> QED BY <1>1, <2>1, <2>2 DEF FollowInv, RevisionsOK, EarlyOK, FollowsOK, Follows, HearsOK
<1> QED BY <1>2, <1>3

(* The page asks for something, naming the revision it knows.              *)
LEMMA AskFollows ==
  ASSUME FollowInv, ViewTypes', OptionsOK', UNCHANGED <<talk, rev, applied, ready, queue, answers, events, missed>>,
         NEW c \in Requests, calls' \in {calls, calls \cup {c}},
         (c.kind = "get" /\ c.rev = 0) \/ c.rev = rev
  PROVE  FollowInv'
PROOF
<1>1. Known' = Known
  BY DEF Known
<1>2. /\ talk.rev \in Nat /\ rev \in Nat /\ rev <= talk.rev
      /\ \A d \in calls' : d \in calls \/ d = c
  BY DEF FollowInv, RevisionsOK, ViewTypes, States
<1>3. RevisionsOK'
  BY <1>1, <1>2 DEF FollowInv, RevisionsOK
<1>4. EarlyOK'
  BY <1>2 DEF FollowInv, EarlyOK
<1>5. FollowsOK'
  BY <1>1, <1>2 DEF FollowInv, FollowsOK, Follows, Naming, View!Behind
<1>6. HearsOK'
  BY <1>1 DEF FollowInv, HearsOK, Awaited, Told
<1> QED BY <1>3, <1>4, <1>5, <1>6 DEF FollowInv

LEMMA RequestFollows ==
  ASSUME FollowInv, ViewTypes', OptionsOK', View!ReadBoundary \/ View!Online \/ View!MutateQueue \/ View!Pick \/ View!ConfirmMove
  PROVE  FollowInv'
PROOF
<1>1. UNCHANGED <<talk, rev, applied, ready, queue, answers, events, missed>>
  BY DEF View!ReadBoundary, View!Online, View!MutateQueue, View!Pick, View!ConfirmMove, View!ctlVars, View!pageVars
<1>2. \E c : /\ calls' \in {calls, calls \cup {c}}
             /\ (c.kind = "get" /\ c.rev = 0) \/ c.rev = rev
             /\ calls' # calls => c \in calls'
  <2>1. CASE View!Online
    BY <2>1, GetType DEF View!Online
  <2>2. CASE View!ReadBoundary \/ View!MutateQueue \/ View!Pick \/ View!ConfirmMove
    <3>1. \/ calls' = calls
          \/ \E kind, ctx, b, f : calls' = calls \cup {View!Send(kind, rev, ctx, b, f)}
      <4>1. CASE View!ReadBoundary \/ View!MutateQueue
        BY <4>1 DEF View!ReadBoundary, View!MutateQueue
      <4>2. CASE View!Pick
        BY <4>2 DEF View!Pick
      <4>3. CASE View!ConfirmMove
        BY <4>3 DEF View!ConfirmMove
      <4> QED BY <2>2, <4>1, <4>2, <4>3
    <3>2. ASSUME NEW kind, NEW ctx, NEW b, NEW f PROVE View!Send(kind, rev, ctx, b, f).rev = rev
      BY DEF View!Send
    <3> QED BY <3>1, <3>2
  <2> QED BY <2>1, <2>2
<1>3. CASE calls' = calls
  BY <1>1, <1>3, GetType, AskFollows
<1>4. CASE calls' # calls
  <2>1. PICK c : calls' = calls \cup {c} /\ ((c.kind = "get" /\ c.rev = 0) \/ c.rev = rev) /\ c \in calls'
    BY <1>2, <1>4
  <2>2. c \in Requests
    BY <2>1 DEF ViewTypes
  <2> QED BY <1>1, <2>1, <2>2, AskFollows
<1> QED BY <1>3, <1>4

LEMMA HearFollows ==
  ASSUME FollowInv, ViewTypes', OptionsOK', View!HearEvent
  PROVE  FollowInv'
PROOF
<1>1. /\ UNCHANGED <<talk, rev, applied, ready, queue, answers, missed>>
      /\ events # <<>> /\ events' = Tail(events)
      /\ calls' = IF Head(events) > rev THEN calls \cup {View!Get} ELSE calls
  BY DEF View!HearEvent, View!ctlVars, View!pageVars
<1>2. Known' = Known
  BY <1>1 DEF Known
<1>3. events \in Seq(Nat) /\ talk.rev \in Nat /\ rev \in Nat /\ rev <= talk.rev
  BY DEF FollowInv, RevisionsOK, ViewTypes, States
<1>4. \A d \in calls' : d \in calls \/ (d.rev = 0 /\ d.kind = "get")
  BY <1>1, GetType
<1>5. RevisionsOK'
  BY <1>1, <1>2, <1>3, <1>4 DEF FollowInv, RevisionsOK
<1>6. EarlyOK'
  BY <1>1, <1>4 DEF FollowInv, EarlyOK
<1>7. FollowsOK'
  BY <1>1, <1>2, <1>4 DEF FollowInv, FollowsOK, Follows, Naming, View!Behind
<1>8. HearsOK'
  <2> SUFFICES ASSUME missed' = {} PROVE (ready' => queue' = applied'.queue) /\ Awaited'
    BY DEF HearsOK
  <2>1. (ready => queue = applied.queue) /\ Awaited
    BY <1>1 DEF FollowInv, HearsOK
  <2>2. CASE talk.rev \in Told /\ talk.rev # Head(events)
    <3>1. talk'.rev \in Told'
      BY <1>1, <1>3, <2>2, ToldTail DEF Told
    <3> QED BY <1>1, <2>1, <3>1 DEF Awaited
  <2>3. CASE talk.rev = Head(events) /\ Head(events) > rev
    BY <1>1, <2>1, <2>3, GetType DEF Awaited
  <2>4. CASE talk.rev = Head(events) /\ ~(Head(events) > rev)
    <3>1. rev = talk.rev
      BY <1>3, <2>4
    <3>2. Steady(Known, applied, rev)
      BY <1>1 DEF FollowInv, FollowsOK, Follows, View!Behind
    <3> QED BY <1>1, <1>2, <2>1, <3>1, <3>2 DEF Awaited
  <2>5. CASE talk.rev \notin Told
    BY <1>1, <1>2, <2>1, <2>5 DEF Awaited
  <2> QED BY <2>2, <2>3, <2>4, <2>5
<1> QED BY <1>5, <1>6, <1>7, <1>8 DEF FollowInv

-----------------------------------------------------------------------------
(* The answers.                                                            *)

(* What is answered is known, and the rest of it stays so.                 *)
LEMMA AnswerTaken ==
  ASSUME FollowInv, NEW a \in answers, answers' = answers \ {a}, UNCHANGED talk
  PROVE  /\ Known' \subseteq Known /\ Known \in SUBSET States
         /\ a.state \in Known /\ a.state \in States /\ a.state.rev \in Nat /\ a.state.rev <= talk.rev
         /\ talk \in Known' /\ talk.rev \in Nat
         /\ \A s, t \in Known : s.rev = t.rev => Same(s, t)
         /\ applied \in States /\ applied.rev \in Nat /\ rev \in Nat /\ rev <= talk.rev
         /\ \A s \in Known : s.rev \in Nat /\ s.rev <= talk.rev
         /\ \A c \in calls : c.rev \in Nat /\ c.rev <= talk.rev
PROOF
<1>1. Known \in SUBSET States /\ talk \in Known /\ a.state \in Known /\ \A d \in answers : d.state \in Known
  BY KnownTypes DEF FollowInv, Known
<1>2. Known' \subseteq Known /\ talk \in Known'
  BY DEF Known
<1>3. \A s \in States : s.rev \in Nat
  BY DEF States
<1>4. /\ \A s, t \in Known : s.rev = t.rev => Same(s, t)
      /\ \A s \in Known : s.rev <= talk.rev
  <2>1. talk.rev \in Nat
    BY <1>1, <1>3
  <2> QED BY <2>1 DEF FollowInv, RevisionsOK, Known
<1>5. /\ applied \in States /\ rev \in Nat /\ rev <= talk.rev
      /\ \A c \in calls : c.rev \in Nat /\ c.rev <= talk.rev
  BY DEF FollowInv, RevisionsOK, ViewTypes, Requests
<1> QED BY <1>1, <1>2, <1>3, <1>4, <1>5

LEMMA FollowsKept ==
  ASSUME FollowInv, Follows, answers' \subseteq answers,
         applied'.rev <= rev', Steady(Known', applied', rev'),
         \A c \in calls' : c \in calls \/ c.kind = "get" \/ c.rev = rev',
         \A c \in calls : Steady(Known, applied, c.rev) => Steady(Known', applied', c.rev),
         \A a \in answers : /\ Steady(Known, applied, a.state.rev) => Steady(Known', applied', a.state.rev)
                            /\ QueueSteady(Known, applied, a.state.rev) => QueueSteady(Known', applied', a.state.rev)
  PROVE  Follows'
PROOF
<1>1. \A c \in calls' : c.kind \in Naming => Steady(Known', applied', c.rev)
  <2> SUFFICES ASSUME NEW c \in calls', c.kind \in Naming PROVE Steady(Known', applied', c.rev)
    OBVIOUS
  <2>1. CASE c.rev = rev'
    BY <2>1
  <2>2. CASE c \in calls
    BY <2>2 DEF Follows
  <2> QED BY <2>1, <2>2 DEF Naming
<1>2. ASSUME NEW a \in answers', a.ok, a.call.kind = "read" PROVE Steady(Known', applied', a.state.rev)
  <2>1. a \in answers
    OBVIOUS
  <2>2. Steady(Known, applied, a.state.rev)
    BY <1>2, <2>1 DEF Follows
  <2> QED BY <2>1, <2>2
<1>3. ASSUME NEW a \in answers', a.ok, a.call.kind \in {"commit", "move"} PROVE QueueSteady(Known', applied', a.state.rev)
  <2>1. a \in answers
    OBVIOUS
  <2>2. QueueSteady(Known, applied, a.state.rev)
    BY <1>3, <2>1 DEF Follows
  <2> QED BY <2>1, <2>2
<1> QED BY <1>1, <1>2, <1>3 DEF Follows

(* A state is applied that is no older than the one before.                *)
LEMMA AppliesFollows ==
  ASSUME FollowInv, NEW a \in answers, answers' = answers \ {a}, UNCHANGED <<talk, missed>>,
         applied' = a.state, rev' = a.state.rev, a.state.rev >= rev,
         \A c \in calls' : c \in calls \/ c.rev = rev'
  PROVE  RevisionsOK' /\ FollowsOK'
PROOF
<1>1. Known' \subseteq Known /\ Known \in SUBSET States
      /\ a.state \in Known /\ a.state.rev \in Nat /\ a.state.rev <= talk.rev
  BY AnswerTaken
<1>2. \A d \in calls' : d \in calls \/ d.rev = rev'
  OBVIOUS
<1>3. RevisionsOK'
  BY <1>1, <1>2 DEF FollowInv, RevisionsOK
<1>4. FollowsOK'
  <2> SUFFICES ASSUME ~View!Behind' PROVE Follows'
    BY DEF FollowsOK
  <2>1. Follows
    BY DEF FollowInv, FollowsOK, Follows, View!Behind
  <2>2. applied \in States /\ applied.rev \in Nat /\ rev \in Nat /\ applied.rev <= a.state.rev
    BY <1>1, <2>1, AnswerTaken DEF Follows
  <2>3. ASSUME NEW k \in Nat
        PROVE  /\ Steady(Known, applied, k) => Steady(Known', applied', k)
               /\ QueueSteady(Known, applied, k) => QueueSteady(Known', applied', k)
    BY <1>1, <2>2, SteadyMoves
  <2>4. Steady(Known', applied', rev')
    <3>1. \A s \in Known' : s.rev \in Nat /\ s \in Known
      BY <1>1 DEF States
    <3>2. \A s \in Known' : s.rev = a.state.rev => Same(s, a.state)
      BY <1>1, AnswerTaken
    <3> QED BY <1>1, <3>1, <3>2 DEF Steady
  <2>5. (\A d \in calls : d.rev \in Nat) /\ (\A d \in answers : d.state.rev \in Nat)
    BY DEF FollowInv, ViewTypes, Requests, States
  <2>6. applied'.rev <= rev'
    BY <1>1
  <2> QED BY <1>1, <1>2, <2>1, <2>3, <2>4, <2>5, <2>6, FollowsKept
<1> QED BY <1>3, <1>4

(* The latest state is applied: whatever went wrong before is made good.   *)
LEMMA LatestFollows ==
  ASSUME FollowInv, NEW a \in answers, answers' = answers \ {a}, UNCHANGED <<talk, calls>>,
         applied' = a.state, rev' = a.state.rev, a.state.rev = talk.rev
  PROVE  RevisionsOK' /\ FollowsOK' /\ Steady(Known', applied', talk'.rev)
PROOF
<1>1. /\ Known' \subseteq Known /\ a.state \in Known /\ a.state.rev \in Nat
      /\ \A s, t \in Known : s.rev = t.rev => Same(s, t)
      /\ \A s \in Known : s.rev \in Nat /\ s.rev <= talk.rev
  BY AnswerTaken
<1>2. \A s \in Known' : applied'.rev <= s.rev => Same(s, applied')
  BY <1>1
<1>3. \A k : Steady(Known', applied', k) /\ QueueSteady(Known', applied', k)
  BY <1>2 DEF Steady, QueueSteady, Same
<1>4. RevisionsOK'
  BY <1>1 DEF FollowInv, RevisionsOK
<1> QED BY <1>1, <1>3, <1>4 DEF FollowsOK, Follows

(* An answer is dropped.                                                   *)
LEMMA DropFollows ==
  ASSUME FollowInv, NEW a \in answers, answers' = answers \ {a}, UNCHANGED <<talk, applied, rev>>,
         \A c \in calls' : c \in calls \/ c = View!Get,
         View!Behind => View!Behind'
  PROVE  RevisionsOK' /\ FollowsOK'
PROOF
<1>1. Known' \subseteq Known /\ talk.rev \in Nat
  BY AnswerTaken
<1>2. \A c \in calls' : c \in calls \/ (c.kind = "get" /\ c.rev = 0)
  BY GetType
<1>3. RevisionsOK'
  BY <1>1, <1>2 DEF FollowInv, RevisionsOK
<1>4. \A k : /\ Steady(Known, applied, k) => Steady(Known', applied', k)
             /\ QueueSteady(Known, applied, k) => QueueSteady(Known', applied', k)
  BY <1>1 DEF Steady, QueueSteady
<1>5. FollowsOK'
  <2> SUFFICES ASSUME ~View!Behind' PROVE Follows'
    BY DEF FollowsOK
  <2>1. Follows
    BY DEF FollowInv, FollowsOK, Follows
  <2>2. applied'.rev <= rev' /\ Steady(Known', applied', rev')
    BY <1>4, <2>1 DEF Follows
  <2> QED BY <1>2, <1>4, <2>1, <2>2, FollowsKept
<1> QED BY <1>3, <1>5

(* What was awaited still is, if the answer was not it.                    *)
LEMMA DropAwaited ==
  ASSUME FollowInv, Awaited, NEW a \in answers, answers' = answers \ {a}, UNCHANGED <<talk, events>>, calls \subseteq calls',
         a.call.kind # "get" \/ (a.ok /\ a.state.rev # talk.rev),
         Steady(Known, applied, talk.rev) => Steady(Known', applied', talk.rev)
  PROVE  Awaited'
PROOF
<1>1. CASE \E d \in answers : d.call.kind = "get" /\ (~d.ok \/ d.state.rev = talk.rev)
  <2>1. PICK d \in answers : d.call.kind = "get" /\ (~d.ok \/ d.state.rev = talk.rev)
    BY <1>1
  <2> QED BY <2>1 DEF Awaited
<1>2. CASE talk.rev \in Told \/ (\E c \in calls : c.kind = "get") \/ Steady(Known, applied, talk.rev)
  BY <1>2 DEF Awaited, Told
<1> QED BY <1>1, <1>2 DEF Awaited

LEMMA FetchedFollows ==
  ASSUME FollowInv, ViewTypes', OptionsOK', NEW a \in answers, View!Fetched(a)
  PROVE  FollowInv'
PROOF
<1>1. a.call.kind = "get" /\ a.ok /\ answers' = answers \ {a} /\ UNCHANGED <<talk, calls, events>>
  BY DEF View!Fetched
<1>2. /\ Known' \subseteq Known /\ Known \in SUBSET States /\ a.state \in Known /\ a.state.rev \in Nat
      /\ a.state.rev <= talk.rev /\ talk.rev \in Nat /\ rev \in Nat /\ rev <= talk.rev
      /\ applied \in States /\ applied.rev \in Nat
  BY <1>1, AnswerTaken
<1>3. CASE ~View!Takes(a.state)
  <2>1. UNCHANGED <<rev, applied, ready, queue, missed>>
    BY <1>3 DEF View!Fetched
  <2>2. a.state.rev # talk.rev
    BY <1>2, <1>3 DEF View!Takes
  <2>3. RevisionsOK' /\ FollowsOK'
    BY <1>1, <2>1, DropFollows DEF View!Behind
  <2>4. EarlyOK'
    BY <1>1, <2>1 DEF FollowInv, EarlyOK
  <2>5. HearsOK'
    <3>1. Steady(Known, applied, talk.rev) => Steady(Known', applied', talk.rev)
      BY <1>2, <2>1 DEF Steady
    <3>2. Awaited => Awaited'
      BY <1>1, <2>2, <3>1, DropAwaited
    <3> QED BY <2>1, <3>2 DEF FollowInv, HearsOK
  <2> QED BY <2>3, <2>4, <2>5 DEF FollowInv
<1>4. CASE View!Takes(a.state) /\ ~View!Listed(a.state)
  <2>1. /\ rev' = a.state.rev /\ applied' \in {applied, a.state} /\ ready' = TRUE /\ missed' = missed \cup {"context"}
    BY <1>4 DEF View!Fetched, View!TakeContext, View!Reconcile
  <2>2. View!Behind' /\ missed' # {}
    BY <2>1 DEF View!Behind
  <2>3. applied'.rev <= talk.rev
    BY <1>2, <2>1 DEF FollowInv, RevisionsOK
  <2>4. RevisionsOK'
    BY <1>1, <1>2, <2>1, <2>3 DEF FollowInv, RevisionsOK
  <2> QED BY <2>1, <2>2, <2>4 DEF FollowInv, EarlyOK, FollowsOK, HearsOK
<1>5. CASE View!Takes(a.state) /\ View!Listed(a.state)
  <2>1. /\ rev' = a.state.rev /\ applied' = a.state /\ ready' = TRUE /\ queue' = a.state.queue
        /\ missed' = IF a.state.rev < talk.rev THEN missed ELSE {}
    BY <1>5 DEF View!Fetched, View!TakeContext, View!Reconcile, View!RenderQueue
  <2>2. EarlyOK'
    BY <2>1 DEF EarlyOK
  <2>3. CASE a.state.rev = talk.rev
    <3>1. RevisionsOK' /\ FollowsOK' /\ Steady(Known', applied', talk'.rev)
      BY <1>1, <2>1, <2>3, LatestFollows
    <3>2. HearsOK'
      BY <2>1, <3>1 DEF HearsOK, Awaited
    <3> QED BY <2>2, <3>1, <3>2 DEF FollowInv
  <2>4. CASE a.state.rev # talk.rev
    <3>1. missed' = missed /\ a.state.rev >= rev
      BY <1>2, <1>5, <2>1, <2>4 DEF View!Takes
    <3>2. RevisionsOK' /\ FollowsOK'
      BY <1>1, <2>1, <3>1, AppliesFollows
    <3>3. HearsOK'
      <4> SUFFICES ASSUME missed = {} PROVE Awaited'
        BY <2>1, <3>1 DEF HearsOK
      <4>1. applied.rev <= a.state.rev
        BY <1>2, <3>1 DEF FollowInv, FollowsOK, Follows, View!Behind
      <4>2. Steady(Known, applied, talk.rev) => Steady(Known', applied', talk.rev)
        BY <1>2, <2>1, <4>1, SteadyMoves
      <4> QED BY <1>1, <2>4, <4>2, DropAwaited DEF FollowInv, HearsOK
    <3> QED BY <2>2, <3>2, <3>3 DEF FollowInv
  <2> QED BY <2>3, <2>4
<1> QED BY <1>3, <1>4, <1>5

LEMMA DroppedFollows ==
  ASSUME FollowInv, ViewTypes', OptionsOK', NEW a \in answers, View!FetchFailed(a) \/ View!QueueAnswered(a)
  PROVE  FollowInv'
PROOF
<1>1. answers' = answers \ {a} /\ UNCHANGED <<talk, rev, applied, queue, events>> /\ calls \subseteq calls'
      /\ \A c \in calls' : c \in calls \/ c = View!Get
  BY DEF View!FetchFailed, View!QueueAnswered, View!ctlVars, View!pageVars
<1>2. CASE View!FetchFailed(a)
  <2>1. missed' = missed \cup {"change"} /\ missed' # {}
    BY <1>2 DEF View!FetchFailed
  <2> QED BY <1>1, <2>1, DropFollows DEF FollowInv, EarlyOK, HearsOK, View!Behind
<1>3. CASE View!QueueAnswered(a)
  <2>1. a.call.kind = "queue" /\ View!Get \in calls' /\ UNCHANGED <<ready, missed>>
    BY <1>3 DEF View!QueueAnswered, View!pageVars
  <2>2. RevisionsOK' /\ FollowsOK'
    BY <1>1, <2>1, DropFollows DEF View!Behind
  <2>3. EarlyOK'
    BY <1>1, <2>1, GetType DEF FollowInv, EarlyOK
  <2>4. HearsOK'
    BY <1>1, <2>1, GetType DEF FollowInv, HearsOK, Awaited
  <2> QED BY <2>2, <2>3, <2>4 DEF FollowInv
<1> QED BY <1>2, <1>3

LEMMA BoundaryFollows ==
  ASSUME FollowInv, ViewTypes', OptionsOK', NEW a \in answers, View!BoundaryAnswered(a)
  PROVE  FollowInv'
PROOF
<1>1. /\ a.call.kind = "read" /\ answers' = answers \ {a} /\ rev' = IF a.ok THEN a.state.rev ELSE rev
      /\ missed' = IF rev' < rev THEN missed \cup {"revision"} ELSE missed
      /\ UNCHANGED <<talk, applied, ready, queue, calls, events>>
  BY DEF View!BoundaryAnswered, View!pageVars
<1>2. /\ Known' \subseteq Known /\ a.state.rev \in Nat /\ a.state.rev <= talk.rev
      /\ talk.rev \in Nat /\ rev \in Nat /\ rev <= talk.rev /\ applied.rev \in Nat
  BY <1>1, AnswerTaken
<1>3. RevisionsOK'
  BY <1>1, <1>2 DEF FollowInv, RevisionsOK
<1>4. CASE rev' < rev
  <2>1. missed' # {} /\ View!Behind'
    BY <1>1, <1>4 DEF View!Behind
  <2> QED BY <1>3, <2>1 DEF FollowInv, EarlyOK, FollowsOK, Follows, HearsOK
<1>5. CASE ~(rev' < rev)
  <2>1. missed' = missed /\ rev <= rev'
    BY <1>1, <1>2, <1>5
  <2>2. EarlyOK'
    <3>1. a.ok => a.call.rev # 0
      BY <1>1 DEF FollowInv, RevisionsOK, Naming
    <3> QED BY <1>1, <2>1, <3>1 DEF FollowInv, EarlyOK
  <2>3. \A k : /\ Steady(Known, applied, k) => Steady(Known', applied', k)
               /\ QueueSteady(Known, applied, k) => QueueSteady(Known', applied', k)
    BY <1>1, <1>2 DEF Steady, QueueSteady
  <2>4. FollowsOK'
    <3> SUFFICES ASSUME ~View!Behind' PROVE Follows'
      BY DEF FollowsOK
    <3>1. Follows
      BY <2>1 DEF FollowInv, FollowsOK, Follows, View!Behind
    <3>2. applied'.rev <= rev' /\ Steady(Known', applied', rev')
      BY <1>1, <1>2, <2>1, <2>3, <3>1 DEF Follows
    <3> QED BY <1>1, <2>3, <3>1, <3>2, FollowsKept
  <2>5. HearsOK'
    <3>1. Awaited => Awaited'
      BY <1>1, <2>3, DropAwaited
    <3> QED BY <1>1, <2>1, <3>1 DEF FollowInv, HearsOK
  <2> QED BY <1>3, <2>2, <2>4, <2>5 DEF FollowInv
<1> QED BY <1>4, <1>5

LEMMA CommitFollows ==
  ASSUME FollowInv, ViewTypes', OptionsOK', NEW a \in answers, View!CommitAnswered(a)
  PROVE  FollowInv'
PROOF
<1>1. /\ a.call.kind \in {"commit", "move"} /\ answers' = answers \ {a}
      /\ UNCHANGED <<talk, ready, queue, events, missed>>
  BY DEF View!CommitAnswered, View!pageVars
<1>2. /\ Known' \subseteq Known /\ Known \in SUBSET States /\ a.state \in Known /\ a.state.rev \in Nat
      /\ a.state.rev <= talk.rev /\ talk.rev \in Nat /\ rev \in Nat /\ rev <= talk.rev
      /\ applied \in States /\ applied.rev \in Nat
  BY <1>1, AnswerTaken
<1>3. ~View!Behind => Follows
  BY DEF FollowInv, FollowsOK, Follows
<1>4. missed = {} => (ready => queue = applied.queue) /\ Awaited
  BY DEF FollowInv, HearsOK
<1> DEFINE shownNext == waiting \/ View!Listed(IF a.state.rev >= rev THEN a.state ELSE applied)
<1>5. CASE View!Accepted(a) /\ shownNext
  <2> DEFINE latest == IF a.state.rev >= rev THEN a.state ELSE applied
             c == View!Send("commit", latest.rev, shown, TRUE, picked)
  <2>1. a.ok /\ rev' = latest.rev /\ applied' = latest /\ calls' \in {calls, calls \cup {c}}
    BY <1>5 DEF View!Accepted, View!Reconcile
  <2>2. c.rev = rev' /\ calls \subseteq calls' /\ \A d \in calls' : d \in calls \/ d.rev = rev'
    BY <2>1 DEF View!Send
  <2>3. EarlyOK'
    <3>1. a.call.rev # 0
      BY <1>1, <2>1 DEF FollowInv, RevisionsOK, Naming
    <3> QED BY <1>1, <3>1 DEF FollowInv, EarlyOK
  <2> HIDE DEF c
  <2>4. CASE a.state.rev >= rev
    <3>1. applied' = a.state /\ rev' = a.state.rev
      BY <2>1, <2>4
    <3> HIDE DEF latest
    <3>2. RevisionsOK' /\ FollowsOK'
      BY <1>1, <2>2, <2>4, <3>1, AppliesFollows
    <3>3. HearsOK'
      <4> SUFFICES ASSUME missed = {} PROVE (ready => queue = applied'.queue) /\ Awaited'
        BY <1>1 DEF HearsOK
      <4>1. applied.rev <= a.state.rev
        BY <1>2, <1>3, <2>4 DEF Follows, View!Behind
      <4>2. a.state.queue = applied.queue
        BY <1>1, <1>2, <1>3, <2>1, <4>1 DEF QueueSteady, Follows, View!Behind
      <4>3. Steady(Known, applied, talk.rev) => Steady(Known', applied', talk.rev)
        BY <1>2, <3>1, <4>1, SteadyMoves
      <4> QED BY <1>1, <1>4, <2>2, <3>1, <4>2, <4>3, DropAwaited
    <3> QED BY <2>3, <3>2, <3>3 DEF FollowInv
  <2>5. CASE ~(a.state.rev >= rev)
    <3>1. applied' = applied /\ rev' = applied.rev
      BY <2>1, <2>5
    <3> HIDE DEF latest
    <3>2. RevisionsOK'
      BY <1>1, <1>2, <2>2, <3>1 DEF FollowInv, RevisionsOK
    <3>3. \A k : /\ Steady(Known, applied, k) => Steady(Known', applied', k)
                 /\ QueueSteady(Known, applied, k) => QueueSteady(Known', applied', k)
      BY <1>2, <3>1 DEF Steady, QueueSteady
    <3>4. FollowsOK'
      <4> SUFFICES ASSUME ~View!Behind' PROVE Follows'
        BY <1>1 DEF FollowsOK
      <4>0. Follows
        BY <1>1, <1>3 DEF View!Behind
      <4>1. Steady(Known, applied, applied.rev)
        <5>1. \A s \in Known : s.rev \in Nat
          BY <1>2 DEF States
        <5> QED BY <1>2, <4>0, <5>1 DEF Steady, Follows
      <4>2. applied'.rev <= rev' /\ Steady(Known', applied', rev')
        BY <1>2, <3>1, <3>3, <4>1
      <4> QED BY <1>1, <2>2, <3>3, <4>0, <4>2, FollowsKept
    <3>5. HearsOK'
      BY <1>1, <1>4, <2>2, <3>1, <3>3, DropAwaited DEF HearsOK
    <3> QED BY <2>3, <3>2, <3>4, <3>5 DEF FollowInv
  <2> QED BY <2>4, <2>5
<1>6. CASE View!Rejected(a)
  <2>1. /\ applied' = applied /\ rev' \in {rev, View!Max2(rev, applied.rev)}
        /\ calls \subseteq calls' /\ \A d \in calls' : d \in calls \/ d = View!Get
    BY <1>6 DEF View!Rejected, View!Reconcile
  <2>2. CASE rev' = rev
    <3>1. RevisionsOK' /\ FollowsOK'
      BY <1>1, <2>1, <2>2, DropFollows DEF View!Behind
    <3>2. EarlyOK'
      BY <1>1, <2>1, <2>2, GetType DEF FollowInv, EarlyOK
    <3>3. Steady(Known, applied, talk.rev) => Steady(Known', applied', talk.rev)
      BY <1>2, <2>1 DEF Steady
    <3>4. HearsOK'
      BY <1>1, <1>4, <2>1, <3>3, DropAwaited DEF HearsOK
    <3> QED BY <3>1, <3>2, <3>4 DEF FollowInv
  <2>3. CASE rev' # rev
    <3>1. rev' = applied.rev /\ View!Behind
      BY <1>2, <1>3, <2>1, <2>3 DEF View!Max2, Follows
    <3>2. RevisionsOK'
      BY <1>1, <1>2, <2>1, <3>1, GetType DEF FollowInv, RevisionsOK
    <3>3. View!Behind' /\ missed' # {}
      BY <1>1, <3>1 DEF View!Behind
    <3> QED BY <3>2, <3>3 DEF FollowInv, EarlyOK, FollowsOK, HearsOK
  <2> QED BY <2>2, <2>3
<1>7. CASE View!Accepted(a) /\ ~shownNext
  <2>1. ~View!Listed(applied)
    BY <1>1, <1>7 DEF View!Accepted, FollowInv, OptionsOK
  <2>2. View!Behind' /\ missed' # {}
    BY <1>1, <2>1 DEF FollowInv, OptionsOK, View!Behind
  <2>3. a.state.rev < rev
    BY <1>1, <1>2, <1>7 DEF View!Accepted, FollowInv, OptionsOK
  <2>4. UNCHANGED <<rev, applied, calls>>
    BY <1>2, <1>7, <2>3 DEF View!Accepted, View!Reconcile
  <2>5. RevisionsOK'
    BY <1>1, <1>2, <2>4 DEF FollowInv, RevisionsOK
  <2> QED BY <2>2, <2>5 DEF FollowInv, EarlyOK, FollowsOK, HearsOK
<1> QED BY <1>5, <1>6, <1>7 DEF View!CommitAnswered

LEMMA FollowStep ==
  ASSUME FollowInv, [View!Next]_viewVars
  PROVE  FollowInv'
PROOF
<1>1. ViewTypes' /\ OptionsOK'
  BY ViewTypesStep, OptionsStep DEF FollowInv
<1>2. CASE UNCHANGED viewVars
  <2>1. Known' = Known /\ View!Behind' = View!Behind
    BY <1>2 DEF viewVars, Known, View!Behind
  <2> QED BY <1>1, <1>2, <2>1 DEF viewVars, FollowInv, RevisionsOK, EarlyOK, FollowsOK, Follows, HearsOK, Awaited, Told
<1> QED BY <1>1, <1>2, ServeFollows, LoseFollows, OtherFollows, StreamFollows, HearFollows, RequestFollows,
           FetchedFollows, DroppedFollows, BoundaryFollows, CommitFollows DEF View!Next

-----------------------------------------------------------------------------
(* The controls, and the commits on their way.                             *)

InFlight == calls \cup {a.call : a \in answers}

\* Outside a commit the controls show what is applied, but for what was picked since
Shows == \A f \in View!Fields \ picked : shown[f] = applied.ctx[f] \/ (f = "dir" /\ rejected)

ControlsOK ==
  /\ waiting => applying
  /\ View!Listed(applied) /\ ~applying => Shows
  /\ View!Listed(applied) /\ ~applying /\ ~moving => picked = {}

FlightOK ==
  /\ applying => \E c \in InFlight : c.kind = "commit"
  /\ moving => \E c \in InFlight : c.kind = "move"

\* A commit that may be accepted differs from the server's context in what was picked only
OwnOK ==
  \A c \in calls :
    c.kind \in {"commit", "move"} /\ ~c.behind /\ c.rev = talk.rev =>
      \A f \in View!Fields \ c.picked : c.ctx[f] = talk.ctx[f]

ViewInv == FollowInv /\ ControlsOK /\ FlightOK /\ OwnOK

LEMMA ReconcileShows ==
  ASSUME ViewTypes, NEW s \in States, View!Reconcile(s, rejected'), View!Listed(s)
  PROVE  Shows' /\ picked' = {}
PROOF
<1>1. picked' = {} /\ applied' = s /\ shown' = [s.ctx EXCEPT !.dir = IF rejected' THEN shown.dir ELSE @]
  BY DEF View!Reconcile
<1>2. s.ctx \in Contexts
  BY DEF States
<1>3. \A f \in View!Fields : shown'[f] = s.ctx[f] \/ (f = "dir" /\ rejected')
  BY <1>1, <1>2 DEF Contexts, View!Fields
<1> QED BY <1>1, <1>3 DEF Shows

LEMMA ControlsStep ==
  ASSUME ViewInv, View!Next
  PROVE  ControlsOK'
PROOF
<1> USE DEF ViewInv
<1>0. ViewTypes
  BY DEF FollowInv
<1>1. CASE UNCHANGED <<applied, shown, rejected, picked, applying, waiting, moving>>
  BY <1>1 DEF ControlsOK, Shows, View!Listed
<1>2. CASE View!Serve \/ View!Lose \/ View!OtherViewer \/ View!StreamBreaks \/ View!StreamOpens
  <2>1. UNCHANGED <<applied, shown, rejected, picked, applying, waiting, moving>>
    BY <1>2 DEF View!Serve, View!Lose, View!OtherViewer, View!StreamBreaks, View!StreamOpens, View!ctlVars, View!flagVars
  <2> QED BY <1>1, <2>1
<1>3. CASE View!HearEvent \/ View!ReadBoundary \/ View!Online \/ View!MutateQueue
  <2>1. UNCHANGED <<applied, shown, rejected, picked, applying, waiting, moving>>
    BY <1>3 DEF View!HearEvent, View!ReadBoundary, View!Online, View!MutateQueue, View!ctlVars, View!flagVars
  <2> QED BY <1>1, <2>1
<1>4. CASE View!Pick
  BY <1>4 DEF View!Pick, ControlsOK
<1>5. CASE View!ConfirmMove
  <2>1. PICK d \in Dirs : /\ shown' = [shown EXCEPT !.dir = d] /\ shown' # shown
                          /\ picked' = View!Changed([shown EXCEPT !.dir = d])
    BY <1>5 DEF View!ConfirmMove
  <2>2. ~applying /\ moving' = TRUE /\ UNCHANGED <<applied, applying, waiting>>
    BY <1>5 DEF View!ConfirmMove
  <2>3. \A f \in View!Fields : f # "dir" => shown'[f] = shown[f]
    BY <1>0, <2>1 DEF ViewTypes, Contexts, View!Fields
  <2>4. picked \subseteq picked' /\ "dir" \in picked'
    <3>1. shown.dir # shown'.dir
      BY <1>0, <2>1 DEF ViewTypes, Contexts
    <3> QED BY <2>1, <3>1 DEF View!Changed, View!Fields
  <2>5. View!Listed(applied) => Shows'
    BY <2>2, <2>3, <2>4 DEF ControlsOK, Shows
  <2> QED BY <2>2, <2>5 DEF ControlsOK, View!Listed
<1>6. ASSUME NEW a \in answers, View!Fetched(a) PROVE ControlsOK'
  <2>1. UNCHANGED <<rejected, applying, waiting, moving>>
    BY <1>6 DEF View!Fetched, View!flagVars
  <2>2. CASE ~applying /\ View!Reconcile(a.state, rejected) /\ View!Listed(a.state)
    <3>1. a.state \in States
      BY <1>0 DEF ViewTypes
    <3>2. Shows' /\ picked' = {}
      BY <1>0, <2>1, <2>2, <3>1, ReconcileShows
    <3> QED BY <2>1, <3>2 DEF ControlsOK
  <2>3. CASE applying
    BY <2>1, <2>3 DEF ControlsOK
  <2>4. CASE UNCHANGED <<applied, shown, picked>>
    BY <1>1, <2>1, <2>4
  <2>5. View!Reconcile(a.state, rejected) => View!Listed(a.state) \/ UNCHANGED <<applied, shown, picked>>
    BY DEF View!Reconcile
  <2> QED BY <1>6, <2>2, <2>3, <2>4, <2>5 DEF View!Fetched, View!TakeContext
<1>7. ASSUME NEW a \in answers, View!FetchFailed(a) \/ View!BoundaryAnswered(a) \/ View!QueueAnswered(a) PROVE ControlsOK'
  <2>1. UNCHANGED <<applied, shown, rejected, picked, applying, waiting, moving>>
    BY <1>7 DEF View!FetchFailed, View!BoundaryAnswered, View!QueueAnswered, View!ctlVars, View!flagVars
  <2> QED BY <1>1, <2>1
<1>8. ASSUME NEW a \in answers, View!CommitAnswered(a), View!Accepted(a) PROVE ControlsOK'
  <2> DEFINE latest == IF a.state.rev >= rev THEN a.state ELSE applied
  <2>1. latest \in States
    BY <1>0 DEF ViewTypes
  <2>2. CASE waiting /\ a.call.kind = "commit"
    BY <1>8, <2>2 DEF View!Accepted, ControlsOK
  <2>3. CASE waiting /\ a.call.kind # "commit"
    <3>1. UNCHANGED <<applying, waiting>>
      BY <1>8, <2>3 DEF View!Accepted, View!Finish
    <3> QED BY <2>3, <3>1 DEF ControlsOK
  <2>4. CASE ~waiting
    <3>1. View!Reconcile(latest, rejected')
      BY <1>8, <2>4 DEF View!Accepted
    <3>2. ~waiting'
      BY <1>8, <2>4 DEF View!Accepted, View!Finish
    <3>3. CASE View!Listed(latest)
      <4>1. Shows' /\ picked' = {}
        BY <1>0, <2>1, <3>1, <3>3, ReconcileShows
      <4> QED BY <3>2, <4>1 DEF ControlsOK
    <3>4. CASE ~View!Listed(latest)
      <4>1. a.call.kind \in {"commit", "move"} /\ a.ok
        BY <1>8 DEF View!CommitAnswered, View!Accepted
      <4>2. ~View!Listed(applied)
        BY <3>4, <4>1 DEF FollowInv, OptionsOK
      <4>3. applied' = applied
        BY <3>1, <3>4 DEF View!Reconcile
      <4> QED BY <3>2, <4>2, <4>3 DEF ControlsOK, View!Listed
    <3> QED BY <3>3, <3>4
  <2> QED BY <2>2, <2>3, <2>4
<1>9. ASSUME NEW a \in answers, View!CommitAnswered(a), View!Rejected(a) PROVE ControlsOK'
  <2>1. applied \in States /\ applied' = applied /\ (View!Listed(applied) => View!Reconcile(applied, rejected'))
    BY <1>0, <1>9 DEF View!Rejected, View!Reconcile, ViewTypes
  <2>2. View!Listed(applied) => Shows' /\ picked' = {}
    BY <1>0, <2>1, ReconcileShows
  <2>3. waiting' => applying'
    <3>1. View!Finish(a.call.kind) /\ (waiting => applying)
      BY <1>9 DEF View!Rejected, ControlsOK
    <3>2. UNCHANGED <<applying, waiting>> \/ waiting' = FALSE
      BY <3>1 DEF View!Finish
    <3> QED BY <3>1, <3>2
  <2> QED BY <2>1, <2>2, <2>3 DEF ControlsOK, View!Listed
<1> QED BY <1>2, <1>3, <1>4, <1>5, <1>6, <1>7, <1>8, <1>9 DEF View!Next, View!CommitAnswered

(* Commits and moves stay in flight.                                       *)
LEMMA FlightKept ==
  ASSUME FlightOK, \A c \in InFlight : c.kind \in {"commit", "move"} => c \in InFlight',
         applying' => applying, moving' => moving
  PROVE  FlightOK'
BY DEF FlightOK

LEMMA SendFields ==
  ASSUME NEW kind, NEW r, NEW ctx, NEW behind, NEW fields
  PROVE  LET c == View!Send(kind, r, ctx, behind, fields) IN
         c.kind = kind /\ c.rev = r /\ c.ctx = ctx /\ c.behind = behind /\ c.picked = fields
BY DEF View!Send

LEMMA FlightStep ==
  ASSUME ViewInv, View!Next
  PROVE  FlightOK'
PROOF
<1> USE DEF ViewInv
<1>0. ViewTypes
  BY DEF FollowInv
<1>1. CASE View!Serve \/ \E c \in calls : View!Lose /\ View!Refuse(c)
  <2>1. PICK c \in calls : \E ok, s : View!Answer(c, ok, s)
    BY <1>1 DEF View!Serve, View!ServeCommit, View!ServeQueue, View!ServeRead, View!ServeGet, View!Refuse
  <2>2. PICK ok, s : View!Answer(c, ok, s)
    BY <2>1
  <2> DEFINE b == [call |-> c, ok |-> ok, state |-> s]
  <2>3. calls' = calls \ {c} /\ answers \subseteq answers' /\ b \in answers' /\ b.call = c
    BY <2>2 DEF View!Answer
  <2> HIDE DEF b
  <2>4. \A d \in InFlight : d \in InFlight'
    BY <2>3 DEF InFlight
  <2>5. UNCHANGED <<applying, moving>>
    BY <1>1 DEF View!Serve, View!Lose, View!flagVars
  <2> QED BY <2>4, <2>5, FlightKept
<1>2. ASSUME View!Lose, NEW a \in answers, answers' = (answers \ {a}) \cup {[a EXCEPT !.ok = FALSE]}, UNCHANGED calls
      PROVE  FlightOK'
  <2>1. [a EXCEPT !.ok = FALSE].call = a.call
    BY <1>0 DEF ViewTypes
  <2>2. \A d \in InFlight : d \in InFlight'
    BY <1>2, <2>1 DEF InFlight
  <2>3. UNCHANGED <<applying, moving>>
    BY <1>2 DEF View!Lose, View!flagVars
  <2> QED BY <2>2, <2>3, FlightKept
<1>3. CASE View!OtherViewer \/ View!StreamBreaks \/ View!StreamOpens \/ View!HearEvent \/ View!ReadBoundary \/ View!Online \/ View!MutateQueue
  <2>1. calls \subseteq calls' /\ UNCHANGED <<answers, applying, moving>>
    BY <1>3 DEF View!OtherViewer, View!StreamBreaks, View!StreamOpens, View!HearEvent, View!ReadBoundary, View!Online,
       View!MutateQueue, View!netVars, View!flagVars
  <2> QED BY <2>1, FlightKept DEF InFlight
<1>4. CASE View!Pick
  <2>1. calls \subseteq calls' /\ UNCHANGED <<answers, moving>>
    BY <1>4 DEF View!Pick
  <2>2. CASE applying
    BY <2>1, <2>2, FlightKept DEF InFlight
  <2>3. CASE ~applying
    <3>1. PICK ctx, behind, fields : View!Send("commit", rev, ctx, behind, fields) \in calls'
      BY <1>4, <2>3 DEF View!Pick
    <3>2. View!Send("commit", rev, ctx, behind, fields).kind = "commit"
      BY SendFields
    <3> QED BY <2>1, <3>1, <3>2 DEF FlightOK, InFlight
  <2> QED BY <2>2, <2>3
<1>5. CASE View!ConfirmMove
  <2>1. calls \subseteq calls' /\ UNCHANGED <<answers, applying>>
    BY <1>5 DEF View!ConfirmMove
  <2>2. PICK ctx, behind, fields : View!Send("move", rev, ctx, behind, fields) \in calls'
    BY <1>5 DEF View!ConfirmMove
  <2>3. View!Send("move", rev, ctx, behind, fields).kind = "move"
    BY SendFields
  <2> QED BY <2>1, <2>2, <2>3 DEF FlightOK, InFlight
<1>6. ASSUME NEW a \in answers,
             View!Fetched(a) \/ View!FetchFailed(a) \/ View!BoundaryAnswered(a) \/ View!QueueAnswered(a)
      PROVE  FlightOK'
  <2>1. /\ a.call.kind \notin {"commit", "move"} /\ answers' = answers \ {a}
        /\ calls \subseteq calls' /\ UNCHANGED <<applying, moving>>
    BY <1>6 DEF View!Fetched, View!FetchFailed, View!BoundaryAnswered, View!QueueAnswered, View!flagVars
  <2> QED BY <2>1, FlightKept DEF InFlight
<1>7. ASSUME NEW a \in answers, View!CommitAnswered(a) PROVE FlightOK'
  <2>1. a.call.kind \in {"commit", "move"} /\ answers' = answers \ {a}
    BY <1>7 DEF View!CommitAnswered
  <2>2. calls \subseteq calls' /\ \A d \in InFlight : d = a.call \/ d \in InFlight'
    BY <1>7, <2>1 DEF View!CommitAnswered, View!Accepted, View!Rejected, InFlight
  <2>3. CASE View!Finish(a.call.kind)
    BY <2>1, <2>2, <2>3 DEF View!Finish, FlightOK
  <2>4. CASE ~View!Finish(a.call.kind)
    <3>1. /\ a.call.kind = "commit" /\ UNCHANGED <<applying, moving>>
          /\ \E r : View!Send("commit", r, shown, TRUE, picked) \in calls'
      BY <1>7, <2>4 DEF View!CommitAnswered, View!Accepted, View!Rejected
    <3>2. \E c \in calls' : c.kind = "commit"
      <4>1. PICK r : View!Send("commit", r, shown, TRUE, picked) \in calls'
        BY <3>1
      <4>2. View!Send("commit", r, shown, TRUE, picked).kind = "commit"
        BY DEF View!Send
      <4> QED BY <4>1, <4>2
    <3> QED BY <2>2, <3>1, <3>2 DEF FlightOK, InFlight
  <2> QED BY <2>3, <2>4
<1> QED BY <1>1, <1>2, <1>3, <1>4, <1>5, <1>6, <1>7 DEF View!Next, View!Lose


(* What a commit may change.                                               *)
LEMMA OwnKept ==
  ASSUME FollowInv, OwnOK, talk' = talk \/ (talk' \in States /\ talk'.rev = talk.rev + 1),
         \A c \in calls' : c \in calls \/ c.kind \notin {"commit", "move"} \/ c.behind
  PROVE  OwnOK'
PROOF
<1>1. \A c \in calls : c.rev \in Nat /\ c.rev <= talk.rev
  BY DEF FollowInv, RevisionsOK, ViewTypes, Requests
<1>2. talk.rev \in Nat
  BY DEF FollowInv, ViewTypes, States
<1>3. ASSUME NEW c \in calls', c.kind \in {"commit", "move"}, ~c.behind, c.rev = talk'.rev
      PROVE  \A f \in View!Fields \ c.picked : c.ctx[f] = talk'.ctx[f]
  <2>1. c \in calls
    BY <1>3
  <2>2. talk' = talk
    BY <1>1, <1>2, <1>3, <2>1
  <2> QED BY <1>3, <2>1, <2>2 DEF OwnOK
<1> QED BY <1>3 DEF OwnOK

\* What the controls show where nothing is under way
LEMMA ShownIsTheServers ==
  ASSUME ViewInv, ~applying, ~View!Behind, rev = talk.rev
  PROVE  talk.ctx = applied.ctx /\ Shows
PROOF
<1>0. View!Listed(applied)
  BY DEF ViewInv, FollowInv, OptionsOK, View!Behind
<1>1. talk \in Known
  BY DEF Known
<1>2. applied.rev <= rev /\ Steady(Known, applied, rev)
  BY DEF ViewInv, FollowInv, FollowsOK, Follows
<1>3. rev \in Nat /\ rev <= rev
  BY DEF ViewInv, FollowInv, ViewTypes
<1>4. Same(talk, applied)
  BY <1>1, <1>2, <1>3 DEF Steady
<1> QED BY <1>0, <1>4 DEF Same, ViewInv, ControlsOK

LEMMA PickOwn ==
  ASSUME ViewInv, View!Pick
  PROVE  OwnOK'
PROOF
<1> USE DEF ViewInv
<1>0. ViewTypes
  BY DEF FollowInv
<1>1. PICK ctx \in View!PickedContexts \ {shown} : LET rej == rejected /\ ctx.dir = shown.dir IN
        \/ applying /\ UNCHANGED calls
        \/ ~applying /\ calls' = calls \cup {View!Send("commit", rev, View!Payload(ctx, applied, rej), View!Behind, View!Changed(ctx))}
  BY DEF View!Pick
<1> DEFINE rej == rejected /\ ctx.dir = shown.dir
           new == View!Send("commit", rev, View!Payload(ctx, applied, rej), View!Behind, View!Changed(ctx))
<1>2. talk' = talk
  BY DEF View!Pick
<1>3. CASE applying
  BY <1>1, <1>2, <1>3, OwnKept
<1>4. CASE ~applying
  <2>1. calls' = calls \cup {new}
    BY <1>1, <1>4
  <2>2. new.rev = rev /\ new.ctx = View!Payload(ctx, applied, rej) /\ new.picked = View!Changed(ctx)
    BY DEF View!Send
  <2>3. new.behind = View!Behind
    BY DEF View!Send
  <2> HIDE DEF new
  <2>4. ASSUME ~new.behind, new.rev = talk.rev, NEW f \in View!Fields \ new.picked
        PROVE  new.ctx[f] = talk.ctx[f]
    <3>1. talk.ctx = applied.ctx /\ Shows
      BY <1>4, <2>2, <2>3, <2>4, ShownIsTheServers
    <3>2. f \in View!Fields \ picked /\ ctx[f] = shown[f]
      BY <2>2, <2>4 DEF View!Changed
    <3>3. shown[f] = applied.ctx[f] \/ (f = "dir" /\ rejected)
      BY <3>1, <3>2 DEF Shows
    <3>4. ctx \in Contexts
      BY <1>0, PickedTypes
    <3>5. CASE f = "dir"
      <4>1. ctx.dir = shown.dir
        BY <3>2, <3>5
      <4>2. new.ctx.dir = IF rejected THEN applied.ctx.dir ELSE ctx.dir
        BY <2>2, <3>4, <4>1 DEF View!Payload, Contexts
      <4> QED BY <3>1, <3>3, <3>5, <4>1, <4>2
    <3>6. CASE f # "dir"
      <4>1. new.ctx[f] = ctx[f]
        BY <2>2, <3>4, <3>6 DEF View!Payload, Contexts, View!Fields
      <4> QED BY <3>1, <3>2, <3>3, <3>6, <4>1
    <3> QED BY <3>5, <3>6
  <2>5. \A c \in calls' : c \in calls \/ c = new
    BY <2>1
  <2> QED BY <1>2, <2>4, <2>5 DEF OwnOK
<1> QED BY <1>3, <1>4

LEMMA MoveOwn ==
  ASSUME ViewInv, View!ConfirmMove
  PROVE  OwnOK'
PROOF
<1> USE DEF ViewInv
<1>0. ViewTypes
  BY DEF FollowInv
<1>1. PICK d \in Dirs : LET ctx == [shown EXCEPT !.dir = d] IN
        ctx # shown /\ calls' = calls \cup {View!Send("move", rev, ctx, View!Behind, View!Changed(ctx))}
  BY DEF View!ConfirmMove
<1> DEFINE ctx == [shown EXCEPT !.dir = d]
           new == View!Send("move", rev, ctx, View!Behind, View!Changed(ctx))
<1>2. talk' = talk /\ ~applying
  BY DEF View!ConfirmMove
<1>3. calls' = calls \cup {new}
  BY <1>1
<1>4. new.rev = rev /\ new.ctx = ctx /\ new.picked = View!Changed(ctx)
  BY DEF View!Send
<1>5. new.behind = View!Behind
  BY DEF View!Send
<1> HIDE DEF new
<1>6. ASSUME ~new.behind, new.rev = talk.rev, NEW f \in View!Fields \ new.picked
      PROVE  new.ctx[f] = talk.ctx[f]
  <2>1. talk.ctx = applied.ctx /\ Shows
    BY <1>2, <1>4, <1>5, <1>6, ShownIsTheServers
  <2>2. f \in View!Fields \ picked /\ ctx[f] = shown[f]
    BY <1>4, <1>6 DEF View!Changed
  <2>3. f # "dir"
    BY <1>0, <1>1, <2>2 DEF ViewTypes, Contexts
  <2>4. shown[f] = applied.ctx[f]
    BY <2>1, <2>2, <2>3 DEF Shows
  <2> QED BY <1>4, <2>1, <2>2, <2>4
<1>7. \A c \in calls' : c \in calls \/ c = new
  BY <1>3
<1> QED BY <1>2, <1>6, <1>7 DEF OwnOK

LEMMA OwnStep ==
  ASSUME ViewInv, View!Next
  PROVE  OwnOK'
PROOF
<1> USE DEF ViewInv
<1>0. ViewTypes /\ ViewTypes'
  BY ViewTypesStep DEF FollowInv
<1>a. talk \in States /\ talk' \in States
  BY <1>0 DEF ViewTypes
<1>1. CASE View!Serve
  <2>1. PICK c \in calls : View!ServeCommit(c) \/ View!ServeQueue(c) \/ View!ServeRead(c) \/ View!ServeGet(c)
    BY <1>1 DEF View!Serve
  <2>2. c.ctx \in Contexts /\ talk.rev + 1 \in Nat
    BY <1>0, <1>a DEF ViewTypes, Requests, States
  <2>3. calls' = calls \ {c}
    BY <2>1 DEF View!ServeCommit, View!ServeQueue, View!ServeRead, View!ServeGet, View!Refuse, View!Answer
  <2>4. \/ talk' = talk
        \/ View!Persist([talk EXCEPT !.ctx = c.ctx])
        \/ View!Persist([talk EXCEPT !.queue = talk.rev + 1])
        \/ View!Persist([talk EXCEPT !.unread = FALSE])
    BY <2>1 DEF View!ServeCommit, View!ServeQueue, View!ServeRead, View!ServeGet, View!Refuse
  <2>5. talk' = talk \/ talk'.rev = talk.rev + 1
    BY <1>a, <2>2, <2>4 DEF View!Persist, States
  <2> QED BY <1>a, <2>3, <2>5, OwnKept
<1>2. CASE View!Lose
  <2>1. talk' = talk /\ calls' \subseteq calls
    BY <1>2 DEF View!Lose, View!Refuse, View!Answer
  <2> QED BY <2>1, OwnKept
<1>3. CASE View!OtherViewer
  <2>1. PICK s \in {[talk EXCEPT !.ctx = x] : x \in View!Contexts} \cup {[talk EXCEPT !.queue = talk.rev + 1, !.unread = TRUE]} :
          View!Persist(s)
    BY <1>3 DEF View!OtherViewer
  <2>2. talk'.rev = talk.rev + 1
    BY <1>a, <2>1 DEF View!Persist, States
  <2>3. calls' = calls
    BY <1>3 DEF View!OtherViewer, View!netVars
  <2> QED BY <1>a, <2>2, <2>3, OwnKept
<1>4. CASE View!StreamBreaks \/ View!StreamOpens \/ View!HearEvent \/ View!ReadBoundary \/ View!Online \/ View!MutateQueue
  <2>1. talk' = talk
    BY <1>4 DEF View!StreamBreaks, View!StreamOpens, View!HearEvent, View!ReadBoundary, View!Online, View!MutateQueue
  <2>2. \/ calls' = calls \/ calls' = calls \cup {View!Get}
        \/ \E kind \in {"read", "queue"} : calls' = calls \cup {View!Send(kind, rev, View!NoCtx, FALSE, {})}
    BY <1>4 DEF View!StreamBreaks, View!StreamOpens, View!HearEvent, View!ReadBoundary, View!Online, View!MutateQueue, View!netVars
  <2>3. \A kind : View!Send(kind, rev, View!NoCtx, FALSE, {}).kind = kind
    BY DEF View!Send
  <2>4. \A c \in calls' : c \in calls \/ c.kind \notin {"commit", "move"}
    BY <2>2, <2>3, GetType
  <2> QED BY <2>1, <2>4, OwnKept
<1>5. CASE View!Pick \/ View!ConfirmMove
  BY <1>5, PickOwn, MoveOwn
<1>6. ASSUME NEW a \in answers,
             View!Fetched(a) \/ View!FetchFailed(a) \/ View!BoundaryAnswered(a) \/ View!QueueAnswered(a)
      PROVE  OwnOK'
  <2>1. talk' = talk /\ calls' \subseteq calls \cup {View!Get}
    BY <1>6 DEF View!Fetched, View!FetchFailed, View!BoundaryAnswered, View!QueueAnswered
  <2>2. \A c \in calls' : c \in calls \/ c.kind \notin {"commit", "move"}
    BY <2>1, GetType
  <2> QED BY <2>1, <2>2, OwnKept
<1>7. ASSUME NEW a \in answers, View!CommitAnswered(a) PROVE OwnOK'
  <2>1. talk' = talk
    BY <1>7 DEF View!CommitAnswered
  <2>2. CASE View!Accepted(a)
    <3>1. calls' = calls \/ \E r : calls' = calls \cup {View!Send("commit", r, shown, TRUE, picked)}
      BY <2>2 DEF View!Accepted
    <3>2. \A r : View!Send("commit", r, shown, TRUE, picked).behind
      BY DEF View!Send
    <3>3. \A c \in calls' : c \in calls \/ c.behind
      BY <3>1, <3>2
    <3> QED BY <2>1, <3>3, OwnKept
  <2>3. CASE View!Rejected(a)
    <3>1. calls' = calls \/ calls' = calls \cup {View!Get}
      BY <2>3 DEF View!Rejected
    <3>2. \A c \in calls' : c \in calls \/ c.kind \notin {"commit", "move"}
      BY <3>1, GetType
    <3> QED BY <2>1, <3>2, OwnKept
  <2> QED BY <1>7, <2>2, <2>3 DEF View!CommitAnswered
<1> QED BY <1>1, <1>2, <1>3, <1>4, <1>5, <1>6, <1>7 DEF View!Next

-----------------------------------------------------------------------------
LEMMA ViewInvInit == View!Init => ViewInv
PROOF
<1> SUFFICES ASSUME View!Init PROVE ViewInv
  OBVIOUS
<1>1. FollowInv
  BY FollowInit
<1>2. shown = talk.ctx /\ applied.ctx = talk.ctx /\ picked = {} /\ ~applying /\ ~waiting /\ ~moving
  BY DEF View!Init, View!Seeded
<1>3. calls = {View!Get}
  BY DEF View!Init
<1> QED BY <1>1, <1>2, <1>3, GetType DEF ViewInv, ControlsOK, Shows, FlightOK, OwnOK

LEMMA ViewInvStep ==
  ASSUME ViewInv, [View!Next]_viewVars
  PROVE  ViewInv'
PROOF
<1>1. FollowInv'
  BY FollowStep DEF ViewInv
<1>2. CASE View!Next
  BY <1>1, <1>2, ControlsStep, FlightStep, OwnStep DEF ViewInv
<1>3. CASE UNCHANGED viewVars
  <2>1. ControlsOK' /\ Shows' = Shows
    BY <1>3 DEF viewVars, ViewInv, ControlsOK, Shows, View!Listed
  <2>2. FlightOK' /\ OwnOK'
    BY <1>3 DEF viewVars, ViewInv, FlightOK, InFlight, OwnOK
  <2> QED BY <1>1, <2>1, <2>2 DEF ViewInv
<1> QED BY <1>2, <1>3

(* A step of the page is one of the view, or leaves it alone.              *)
LEMMA PageIsView == [PageNext]_chatVars => [View!Next]_viewVars
BY DEF PageNext, FeedsNext, ViewNext, DraftsNext, chatVars

LEMMA ViewInvariant == PageSpec => []ViewInv
PROOF
<1>1. PageInit => ViewInv
  BY ViewInvInit DEF PageInit
<1>2. ViewInv /\ [PageNext]_chatVars => ViewInv'
  BY PageIsView, ViewInvStep
<1> QED BY <1>1, <1>2, PTL DEF PageSpec

\* Whatever order events, fetched states and answers arrive in, a ready page that waits for
\* nothing and missed nothing shows the server's context and queue
THEOREM PageRestsCurrent == PageSpec => []AtRestCurrent
PROOF
<1>1. ASSUME ViewInv, View!Quiet, ready, missed = {} PROVE View!Current
  <2>1. calls = {} /\ answers = {} /\ events = <<>>
    BY <1>1 DEF View!Quiet
  <2>2. InFlight = {} /\ Told = {}
    BY <2>1 DEF InFlight, Told
  <2>3. ~applying /\ ~moving
    BY <1>1, <2>2 DEF ViewInv, FlightOK
  <2>4. picked = {} /\ Shows
    <3>1. View!Listed(applied)
      BY <1>1 DEF ViewInv, FollowInv, OptionsOK
    <3> QED BY <1>1, <2>3, <3>1 DEF ViewInv, ControlsOK
  <2>5. queue = applied.queue /\ Steady(Known, applied, talk.rev)
    BY <1>1, <2>1, <2>2 DEF ViewInv, FollowInv, HearsOK, Awaited
  <2>6. applied.rev <= talk.rev /\ talk.rev \in Nat /\ talk \in States /\ shown \in Contexts
    BY <1>1 DEF ViewInv, FollowInv, RevisionsOK, ViewTypes, States
  <2>7. Same(talk, applied)
    BY <2>5, <2>6 DEF Steady, Known
  <2>8. \A f \in View!Fields : shown[f] = talk.ctx[f] \/ (f = "dir" /\ rejected)
    BY <2>4, <2>7 DEF Shows, Same
  <2>9. shown.provider = talk.ctx.provider /\ shown.model = talk.ctx.model /\ (shown.dir = talk.ctx.dir \/ rejected)
    BY <2>8 DEF View!Fields
  <2>10. shown = [talk.ctx EXCEPT !.dir = IF rejected THEN shown.dir ELSE @]
    <3>1. talk.ctx \in Contexts
      BY <2>6 DEF States
    <3> QED BY <2>6, <2>9, <3>1 DEF Contexts
  <2> QED BY <2>5, <2>7, <2>10 DEF View!Current, Same
<1>2. ViewInv => AtRestCurrent
  BY <1>1 DEF AtRestCurrent, View!AtRestCurrent
<1> QED BY <1>2, ViewInvariant, PTL

\* Outside a commit no control shows a value that was not applied, a refused directory aside,
\* where the applied state is one the controls can show
THEOREM PageShowsApplied == PageSpec => []NoUnappliedValueShown
PROOF
<1>1. ViewInv => NoUnappliedValueShown
  BY DEF ViewInv, ControlsOK, Shows, View!Fields, NoUnappliedValueShown, View!NoUnappliedValueShown
<1> QED BY <1>1, ViewInvariant, PTL

\* An accepted commit changes no field but those its own viewer picked, however the changes
\* of other viewers and the states fetched meanwhile fall
THEOREM PageOverwritesNothing == PageSpec => NoSilentOverwrite
PROOF
<1> DEFINE Kept == \A c \in calls \ calls' :
              c.kind \in {"commit", "move"} /\ ~c.behind /\ talk'.ctx # talk.ctx =>
                \A f \in View!Fields \ c.picked : talk'.ctx[f] = talk.ctx[f]
<1>1. ASSUME ViewInv, View!Next PROVE Kept
  <2> SUFFICES ASSUME NEW c \in calls \ calls', c.kind \in {"commit", "move"}, ~c.behind, talk'.ctx # talk.ctx
               PROVE  \A f \in View!Fields \ c.picked : talk'.ctx[f] = talk.ctx[f]
    OBVIOUS
  <2>0. talk \in States
    BY <1>1 DEF ViewInv, FollowInv, ViewTypes
  <2>1. CASE View!Serve
    <3>1. PICK d \in calls : View!ServeCommit(d) \/ View!ServeQueue(d) \/ View!ServeRead(d) \/ View!ServeGet(d)
      BY <2>1 DEF View!Serve
    <3>2. d = c
      BY <3>1 DEF View!ServeCommit, View!ServeQueue, View!ServeRead, View!ServeGet, View!Refuse, View!Answer
    <3>3. c.rev = talk.rev /\ View!Persist([talk EXCEPT !.ctx = c.ctx])
      BY <3>1, <3>2 DEF View!ServeCommit, View!ServeQueue, View!ServeRead, View!ServeGet, View!Refuse
    <3>4. talk'.ctx = c.ctx
      BY <2>0, <3>3 DEF View!Persist, States
    <3> QED BY <1>1, <3>3, <3>4 DEF ViewInv, OwnOK
  <2>2. CASE View!OtherViewer
    BY <2>2 DEF View!OtherViewer, View!netVars
  <2>3. CASE UNCHANGED talk
    BY <2>3
  <2>4. UNCHANGED talk \/ View!Serve \/ View!OtherViewer
    BY <1>1 DEF View!Next, View!Lose, View!Refuse, View!StreamBreaks, View!StreamOpens, View!HearEvent, View!ReadBoundary,
       View!Online, View!Pick, View!ConfirmMove, View!MutateQueue, View!Fetched, View!FetchFailed, View!BoundaryAnswered,
       View!CommitAnswered, View!QueueAnswered
  <2> QED BY <2>1, <2>2, <2>3, <2>4
<1>2. ViewInv /\ [PageNext]_chatVars => [Kept]_View!vars
  BY <1>1, PageIsView DEF View!vars, viewVars, View!ctlVars, View!flagVars, View!pageVars, View!netVars
<1>3. [][Kept]_View!vars => NoSilentOverwrite
  BY DEF NoSilentOverwrite, View!NoSilentOverwrite
<1> QED BY <1>2, <1>3, ViewInvariant, PTL DEF PageSpec

(***************************************************************************)
(* The drafts of a session (ChatDrafts)                                    *)
(***************************************************************************)
Entries ==
  {e \in [draft : Drafts!Drafts, for : Drafts!Reads \cup Drafts!Outcomes] : e.for \in Drafts!Outcomes => e.draft.rev # 0}
Posts == [tab : Tabs \cup {Drafts!Gone}, draft : Drafts!Drafts]

DraftTypes ==
  /\ page \in [Tabs -> {"opening", "closed", "reading", "ready"}]
  /\ draft \in [Tabs -> Drafts!Drafts] /\ conflict \in [Tabs -> Drafts!Drafts] /\ submitted \in [Tabs -> Drafts!Drafts]
  /\ touched \in [Tabs -> BOOLEAN] /\ timer \in [Tabs -> BOOLEAN]
  /\ actions \in [Tabs -> BOOLEAN] /\ pending \in [Tabs -> BOOLEAN]
  /\ uploads \in [Tabs -> SUBSET Nat]
  /\ found \in [Tabs -> Seq(Entries)] /\ mail \in [Tabs -> Seq(Nat \ {0})]
  /\ store \in Drafts!Drafts /\ home \in Drafts!Drafts
  /\ submissions \subseteq Posts /\ accepted \in Seq(Drafts!Drafts)
  /\ revs \in Nat /\ lapsed \subseteq Nat
  /\ \A t \in Tabs : draft[t].rev # 0

LEMMA EmptyTypes ==
  /\ Drafts!NoFile \in [id : Nat, st : {"none", "uploading", "ready", "failed"}]
  /\ \A r \in Nat : Drafts!Empty(r) \in Drafts!Drafts /\ Drafts!Empty(r).rev = r /\ Drafts!Empty(r).text = 0
                    /\ Drafts!Empty(r).file = Drafts!NoFile
  /\ Drafts!NoDraft \in Drafts!Drafts /\ Drafts!NoDraft.rev = 0 /\ Drafts!NoDraft.text = 0
  /\ Drafts!NoDraft.file = Drafts!NoFile
BY DEF Drafts!NoFile, Drafts!Empty, Drafts!NoDraft, Drafts!Drafts

(* Sequences that grow at the end and shrink at the front.                 *)
LEMMA Appended ==
  ASSUME NEW X, NEW s \in Seq(X), NEW x \in X
  PROVE  /\ Append(s, x) \in Seq(X) /\ Append(s, x) # <<>>
         /\ Append(s, x)[Len(Append(s, x))] = x
         /\ \A i \in DOMAIN Append(s, x) : IF i \in DOMAIN s THEN Append(s, x)[i] = s[i] ELSE i = Len(s) + 1 /\ Append(s, x)[i] = x
         /\ DOMAIN s \subseteq DOMAIN Append(s, x)
OBVIOUS

LEMMA Rest ==
  ASSUME NEW X, NEW s \in Seq(X), s # <<>>
  PROVE  /\ Head(s) \in X /\ Head(s) = s[1] /\ Tail(s) \in Seq(X) /\ 1 \in DOMAIN s
         /\ \A i \in DOMAIN Tail(s) : i \in Nat \ {0} /\ i + 1 \in DOMAIN s /\ Tail(s)[i] = s[i + 1]
         /\ \A i \in DOMAIN s : i # 1 => i - 1 \in DOMAIN Tail(s) /\ Tail(s)[i - 1] = s[i]
         /\ Tail(s) # <<>> => Tail(s)[Len(Tail(s))] = s[Len(s)]
         /\ Tail(s) = <<>> => s[Len(s)] = s[1]
OBVIOUS


\* The drafts that were ever drawn: a revision is drawn once, and a draft is copied whole
Archive(S) ==
  /\ S \subseteq Drafts!Drafts /\ Drafts!NoDraft \in S
  /\ \A d \in S : d.rev <= revs /\ d.text <= d.rev
  /\ \A d, e \in S : d.rev = e.rev => d = e
  /\ "file" \notin draftActs.kinds => \A d \in S : d.file = Drafts!NoFile /\ (d.text = 0 \/ d.text = d.rev)

\* Every draft in sight is one of S
DrawnFrom(S) ==
  /\ \A t \in Tabs : /\ draft[t] \in S /\ conflict[t] \in S /\ submitted[t] \in S
                     /\ \A i \in DOMAIN found[t] : found[t][i].draft \in S
  /\ store \in S /\ home \in S
  /\ \A m \in submissions : m.draft \in S
  /\ \A i \in DOMAIN accepted : accepted[i] \in S

OnceOK ==
  /\ \A m \in submissions : m.draft.text # 0
  /\ \A i \in DOMAIN accepted : accepted[i].text # 0
  /\ \A i, j \in DOMAIN accepted : accepted[i].rev = accepted[j].rev => i = j
  /\ "file" \notin draftActs.kinds => \A t \in Tabs : uploads[t] = {}

\* A tab awaits the answer to what it submitted last
PostsOK ==
  \A m \in submissions : m.tab # Drafts!Gone => pending[m.tab] /\ m.draft = submitted[m.tab]

\* The result of the first read is the first a tab hears of
FirstOK ==
  \A t \in Tabs :
    /\ page[t] \in {"opening", "closed"} => found[t] = <<>>
    /\ page[t] = "reading" => found[t] # <<>>
    /\ \A i \in DOMAIN found[t] : found[t][i].for = "first" <=> page[t] = "reading" /\ i = 1

\* Tab t finds a record, or will
Finds(t) == \E i \in DOMAIN found[t] : found[t][i].for \in Drafts!Reads /\ found[t][i].draft # Drafts!NoDraft

\* Entry i of found[t] is the report of a save that hides the recovery actions
Hides(t, i) == found[t][i].for \in {"saved", "aborted"}

\* Once tab t has heard of its reads and saves, the recovery actions are visible, or its draft
\* is one that was read
WillShow(t) ==
  \/ conflict[t] # Drafts!NoDraft \/ Finds(t)
  \/ actions[t] /\ \A i \in DOMAIN found[t] : ~Hides(t, i)
  \/ \E i \in DOMAIN found[t] : found[t][i].for = "failed" /\ \A j \in DOMAIN found[t] : j > i => ~Hides(t, j)

\* Another tab has announced the record to tab t, or will
WillHear(t) ==
  \/ \E i \in DOMAIN mail[t] : mail[t][i] = store.rev
  \/ \E u \in Tabs \ {t} : \E i \in DOMAIN found[u] : found[u][i].for = "saved" /\ found[u][i].draft.rev = store.rev

\* The draft of tab t, or the record, is an exception, or will be
Lapses(t) ==
  \/ draft[t].rev \in lapsed \/ store.rev \in lapsed
  \/ \E i \in DOMAIN found[t] : found[t][i].for = "aborted" /\ found[t][i].draft.rev = draft[t].rev

\* A touched draft of tab t that its timer will not save
Left(t) ==
  /\ page[t] = "opening" => actions[t]
  /\ page[t] \in {"reading", "ready"} /\ draft[t] # store => WillShow(t) \/ WillHear(t) \/ Lapses(t)

\* A touched draft that is not the record is about to be saved, or to hear of it, or marked
TouchOK ==
  /\ "home" \notin draftActs.kinds => home = Drafts!NoDraft
  /\ \A t \in Tabs : conflict[t] # Drafts!NoDraft => actions[t]
  /\ "home" \notin draftActs.kinds => \A t \in Tabs : touched[t] /\ ~timer[t] => Left(t)

Archived == \E S : Archive(S) /\ DrawnFrom(S)

DraftInv == DraftTypes /\ Archived /\ OnceOK /\ PostsOK /\ FirstOK /\ TouchOK

KindsGrow == draftActs.kinds \subseteq draftActs'.kinds

LEMMA ActsGrow == ASSUME NEW n, NEW kinds, Drafts!Acts(n, kinds) PROVE draftActs'.kinds = draftActs.kinds \cup kinds
BY DEF Drafts!Acts

LEMMA ArchiveKept ==
  ASSUME NEW S, Archive(S), revs' = revs, KindsGrow
  PROVE  Archive(S)'
BY DEF Archive, KindsGrow

LEMMA ArchiveGrows ==
  ASSUME NEW S, Archive(S), revs \in Nat, revs' = revs + 1, KindsGrow,
         NEW d \in Drafts!Drafts, d.rev = revs + 1, d.text <= d.rev,
         "file" \notin draftActs'.kinds => d.file = Drafts!NoFile /\ (d.text = 0 \/ d.text = d.rev)
  PROVE  Archive(S \cup {d})'
PROOF
<1>1. \A e \in S : e.rev \in Nat /\ e.rev <= revs /\ e.rev # d.rev
  BY DEF Archive, Drafts!Drafts
<1>2. \A e \in S \cup {d} : e.rev <= revs' /\ e.text <= e.rev
  BY <1>1 DEF Archive
<1>3. \A e, f \in S \cup {d} : e.rev = f.rev => e = f
  BY <1>1 DEF Archive
<1> QED BY <1>2, <1>3 DEF Archive, KindsGrow

LEMMA TabsCount == Drafts!Cardinality(Tabs) = Cardinality(Tabs) /\ Cardinality(Tabs) \in Nat
PROOF
<1>1. Drafts!Cardinality(Tabs) = Cardinality(Tabs)
  BY Zenon DEF Drafts!Cardinality, Cardinality
<1> QED BY <1>1, TabsAssumption, FS_CardinalityType

LEMMA DraftInvInit == Drafts!Init => DraftInv
PROOF
<1> SUFFICES ASSUME Drafts!Init PROVE DraftInv
  OBVIOUS
<1>1. Cardinality(Tabs) \in Nat
  BY TabsCount
<1>2. \A t \in Tabs : \E r \in 1..Cardinality(Tabs) : draft[t] = Drafts!Empty(r)
  <2>1. draft \in [Tabs -> {Drafts!Empty(r) : r \in 1..Cardinality(Tabs)}]
    BY TabsCount DEF Drafts!Init
  <2> QED BY <2>1
<1>3. \A t \in Tabs : draft[t] \in Drafts!Drafts /\ draft[t].rev \in 1..Cardinality(Tabs) /\ draft[t] = Drafts!Empty(draft[t].rev)
  BY <1>1, <1>2, EmptyTypes
<1>4. DraftTypes
  <2>1. draft \in [Tabs -> Drafts!Drafts]
    <3>1. draft = [t \in Tabs |-> draft[t]]
      BY DEF Drafts!Init
    <3> QED BY <1>3, <3>1
  <2>2. accepted \in Seq(Drafts!Drafts) /\ found \in [Tabs -> Seq(Entries)] /\ mail \in [Tabs -> Seq(Nat \ {0})]
    BY DEF Drafts!Init
  <2>3. revs \in Nat
    BY <1>1, TabsCount DEF Drafts!Init
  <2>4. \A t \in Tabs : draft[t].rev # 0
    BY <1>1, <1>3
  <2>5. /\ page \in [Tabs -> {"opening", "closed", "reading", "ready"}]
        /\ conflict \in [Tabs -> Drafts!Drafts] /\ submitted \in [Tabs -> Drafts!Drafts]
        /\ touched \in [Tabs -> BOOLEAN] /\ timer \in [Tabs -> BOOLEAN]
        /\ actions \in [Tabs -> BOOLEAN] /\ pending \in [Tabs -> BOOLEAN]
        /\ uploads \in [Tabs -> SUBSET Nat]
        /\ store \in Drafts!Drafts /\ home \in Drafts!Drafts /\ submissions \subseteq Posts
        /\ lapsed \subseteq Nat
    BY EmptyTypes DEF Drafts!Init
  <2> QED BY <2>1, <2>2, <2>3, <2>4, <2>5 DEF DraftTypes
<1>5. Archived
  <2> DEFINE S == {Drafts!Empty(r) : r \in 0..Cardinality(Tabs)}
  <2>1. Archive(S)
    <3>1. \A d \in S : d \in Drafts!Drafts /\ d.rev \in 0..Cardinality(Tabs) /\ d = Drafts!Empty(d.rev) /\ d.text = 0 /\ d.file = Drafts!NoFile
      BY <1>1, EmptyTypes
    <3>2. Drafts!NoDraft \in S
      BY <1>1 DEF Drafts!NoDraft
    <3>3. revs = Cardinality(Tabs)
      BY TabsCount DEF Drafts!Init
    <3> HIDE DEF S
    <3> QED BY <1>1, <3>1, <3>2, <3>3 DEF Archive
  <2>2. DrawnFrom(S)
    <3>1. \A t \in Tabs : draft[t] \in S
      BY <1>1, <1>2
    <3>2. Drafts!NoDraft \in S
      BY <1>1 DEF Drafts!NoDraft
    <3> HIDE DEF S
    <3> QED BY <3>1, <3>2 DEF Drafts!Init, DrawnFrom
  <2> QED BY <2>1, <2>2 DEF Archived
<1>6. OnceOK /\ PostsOK /\ FirstOK /\ TouchOK
  BY DEF Drafts!Init, OnceOK, PostsOK, FirstOK, TouchOK
<1> QED BY <1>4, <1>5, <1>6 DEF DraftInv

(***************************************************************************)
(* What a tab hears of, and what is left of it for a tab a step spares     *)
(***************************************************************************)
LEMMA ReportResult ==
  ASSUME DraftTypes, NEW t \in Tabs, NEW d \in Drafts!Drafts, NEW for \in Drafts!Reads \cup Drafts!Outcomes,
         for \in Drafts!Outcomes => d.rev # 0, Drafts!Reported(t, d, for)
  PROVE  /\ found' \in [Tabs -> Seq(Entries)]
         /\ \A u \in Tabs : u # t => found'[u] = found[u]
         /\ found'[t] # <<>> /\ DOMAIN found[t] \subseteq DOMAIN found'[t]
         /\ \A i \in DOMAIN found'[t] : i \in Nat \ {0}
         /\ \A i \in DOMAIN found'[t] : IF i \in DOMAIN found[t] THEN found'[t][i] = found[t][i]
                                        ELSE i = Len(found[t]) + 1 /\ found'[t][i].draft = d /\ found'[t][i].for = for
         /\ Len(found[t]) + 1 \in DOMAIN found'[t] /\ Len(found[t]) + 1 \notin DOMAIN found[t]
         /\ \A i \in DOMAIN found'[t] : i <= Len(found[t]) + 1
PROOF
<1> DEFINE e == [draft |-> d, for |-> for]
<1>1. e \in Entries /\ e.draft = d /\ e.for = for
  BY DEF Entries
<1>2. found' = [found EXCEPT ![t] = Append(found[t], e)] /\ found[t] \in Seq(Entries)
  BY DEF Drafts!Reported, DraftTypes
<1> HIDE DEF e
<1>3. found'[t] = Append(found[t], e) /\ \A u \in Tabs : u # t => found'[u] = found[u]
  BY <1>2 DEF DraftTypes
<1>4. /\ Append(found[t], e) \in Seq(Entries) /\ Append(found[t], e) # <<>>
      /\ \A i \in DOMAIN Append(found[t], e) :
            IF i \in DOMAIN found[t] THEN Append(found[t], e)[i] = found[t][i]
            ELSE i = Len(found[t]) + 1 /\ Append(found[t], e)[i] = e
      /\ DOMAIN found[t] \subseteq DOMAIN Append(found[t], e)
  BY <1>1, <1>2, Appended
<1>5. found' \in [Tabs -> Seq(Entries)]
  BY <1>2, <1>4 DEF DraftTypes
<1>6. /\ \A i \in DOMAIN found'[t] : i \in Nat \ {0} /\ i <= Len(found[t]) + 1
      /\ Len(found[t]) + 1 \in DOMAIN found'[t] /\ Len(found[t]) + 1 \notin DOMAIN found[t]
  BY <1>1, <1>2, <1>3, <1>4
<1> QED BY <1>1, <1>3, <1>4, <1>5, <1>6

(* A report behind the first read keeps it first.                          *)
LEMMA ReportFirst ==
  ASSUME DraftTypes, FirstOK, NEW t \in Tabs, NEW d \in Drafts!Drafts, NEW for \in Drafts!Reads \cup Drafts!Outcomes,
         for \in Drafts!Outcomes => d.rev # 0, Drafts!Reported(t, d, for), Drafts!Open(t), for # "first", page' = page
  PROVE  FirstOK'
PROOF
<1>1. /\ \A u \in Tabs : u # t => found'[u] = found[u]
      /\ found'[t] # <<>>
      /\ \A i \in DOMAIN found'[t] : IF i \in DOMAIN found[t] THEN found'[t][i] = found[t][i]
                                     ELSE i = Len(found[t]) + 1 /\ found'[t][i].draft = d /\ found'[t][i].for = for
  BY ReportResult
<1>2. ASSUME NEW u \in Tabs, u # t
      PROVE  /\ page'[u] \in {"opening", "closed"} => found'[u] = <<>>
             /\ page'[u] = "reading" => found'[u] # <<>>
             /\ \A i \in DOMAIN found'[u] : found'[u][i].for = "first" <=> page'[u] = "reading" /\ i = 1
  BY <1>1, <1>2 DEF FirstOK
<1>3. ASSUME NEW i \in DOMAIN found'[t] PROVE found'[t][i].for = "first" <=> page'[t] = "reading" /\ i = 1
  <2>1. CASE i \in DOMAIN found[t]
    BY <1>1, <2>1 DEF FirstOK
  <2>2. CASE i \notin DOMAIN found[t]
    <3>1. found'[t][i].for # "first" /\ i = Len(found[t]) + 1
      BY <1>1, <2>2
    <3>2. page[t] = "reading" => i # 1
      <4>1. page[t] = "reading" => found[t] # <<>>
        BY DEF FirstOK
      <4>2. found[t] \in Seq(Entries)
        BY DEF DraftTypes
      <4> QED BY <3>1, <4>1, <4>2
    <3> QED BY <3>1, <3>2
  <2> QED BY <2>1, <2>2
<1> QED BY <1>1, <1>2, <1>3 DEF FirstOK, Drafts!Open

LEMMA WillHearKept ==
  ASSUME NEW u \in Tabs, mail'[u] = mail[u], store' = store,
         \A v \in Tabs \ {u} : \A i \in DOMAIN found[v] :
           found[v][i].for = "saved" => \E j \in DOMAIN found'[v] : found'[v][j] = found[v][i]
  PROVE  WillHear(u) => WillHear(u)'
PROOF
<1>1. CASE \E i \in DOMAIN mail[u] : mail[u][i] = store.rev
  BY <1>1 DEF WillHear
<1>2. ASSUME NEW v \in Tabs \ {u}, NEW i \in DOMAIN found[v], found[v][i].for = "saved", found[v][i].draft.rev = store.rev
      PROVE  WillHear(u)'
  <2>1. PICK j \in DOMAIN found'[v] : found'[v][j] = found[v][i]
    BY <1>2
  <2> QED BY <1>2, <2>1 DEF WillHear
<1> QED BY <1>1, <1>2 DEF WillHear

LEMMA LeftKept ==
  ASSUME NEW u \in Tabs, Left(u), page'[u] = page[u], draft'[u] = draft[u], conflict'[u] = conflict[u], actions'[u] = actions[u],
         found'[u] = found[u], store' = store, lapsed \subseteq lapsed',
         WillHear(u) => WillHear(u)' \/ store.rev \in lapsed'
  PROVE  Left(u)'
PROOF
<1>1. WillShow(u) => WillShow(u)'
  BY DEF WillShow, Finds, Hides
<1>2. Lapses(u) => Lapses(u)'
  BY DEF Lapses
<1>3. WillHear(u) => WillHear(u)' \/ Lapses(u)'
  BY DEF Lapses
<1> QED BY <1>1, <1>2, <1>3 DEF Left

(***************************************************************************)
(* Edits                                                                   *)
(***************************************************************************)
\* The composer of t changes to d, with new ids
Marks(t, d) ==
  /\ d \in Drafts!Drafts /\ d.rev = revs + 1 /\ d.text <= d.rev
  /\ d.text = revs + 1 \/ d.text = draft[t].text
  /\ "file" \notin draftActs'.kinds => d.file = Drafts!NoFile /\ d.text = d.rev /\ uploads' = uploads
  /\ revs' = revs + 1
  /\ draft' = [draft EXCEPT ![t] = d]
  /\ touched' = [touched EXCEPT ![t] = TRUE]
  /\ timer' = [timer EXCEPT ![t] = TRUE]
  /\ uploads' \in [Tabs -> SUBSET Nat]
  /\ KindsGrow
  /\ UNCHANGED <<page, conflict, actions, submitted, pending, submissions, accepted, found, mail, store, home, lapsed>>

LEMMA MarksKeeps ==
  ASSUME DraftInv, NEW t \in Tabs, NEW d, Marks(t, d)
  PROVE  DraftInv'
PROOF
<1> USE DEF DraftInv
<1>1. DraftTypes'
  BY DEF DraftTypes, Marks
<1>2. \A u \in Tabs : draft'[u] = (IF u = t THEN d ELSE draft[u]) /\ (u # t => touched'[u] = touched[u] /\ timer'[u] = timer[u])
  BY DEF DraftTypes, Marks
<1>3. timer'[t]
  BY DEF DraftTypes, Marks
<1>4. Archived'
  <2>1. PICK S : Archive(S) /\ DrawnFrom(S)
    BY DEF Archived
  <2>2. Archive(S \cup {d})'
    BY <2>1, ArchiveGrows DEF DraftTypes, Marks
  <2>3. DrawnFrom(S \cup {d})'
    BY <1>2, <2>1 DEF DrawnFrom, Marks
  <2> QED BY <2>2, <2>3 DEF Archived
<1>5. OnceOK' /\ PostsOK' /\ FirstOK'
  BY DEF OnceOK, PostsOK, FirstOK, Marks, KindsGrow
<1>6. TouchOK'
  <2>1. \A u \in Tabs : conflict'[u] # Drafts!NoDraft => actions'[u]
    BY DEF TouchOK, Marks
  <2>2. "home" \notin draftActs'.kinds => "home" \notin draftActs.kinds /\ home' = Drafts!NoDraft
    BY DEF TouchOK, Marks, KindsGrow
  <2>3. ASSUME NEW u \in Tabs, "home" \notin draftActs'.kinds, touched'[u], ~timer'[u] PROVE Left(u)'
    <3>1. u # t
      BY <1>3, <2>3
    <3>2. touched[u] /\ ~timer[u] /\ draft'[u] = draft[u]
      BY <1>2, <2>3, <3>1
    <3>3. Left(u)
      BY <2>2, <2>3, <3>2 DEF TouchOK
    <3>4. WillHear(u) => WillHear(u)'
      BY WillHearKept DEF Marks
    <3> QED BY <3>2, <3>3, <3>4, LeftKept DEF Marks
  <2> QED BY <2>1, <2>2, <2>3 DEF TouchOK
<1> QED BY <1>1, <1>4, <1>5, <1>6

LEMMA EditKeeps ==
  ASSUME DraftInv, NEW t \in Tabs,
         \/ Drafts!Type(t) \/ Drafts!AddFile(t) \/ Drafts!RemoveFile(t)
         \/ \E id \in uploads[t], st \in {"ready", "failed"} : Drafts!UploadSettles(t, id, st)
  PROVE  DraftInv'
PROOF
<1> USE DEF DraftInv
<1>0. draft[t] \in Drafts!Drafts /\ revs \in Nat /\ revs + 1 \in Nat /\ uploads[t] \in SUBSET Nat
  BY DEF DraftTypes
<1>1. draft[t].rev <= revs /\ draft[t].text <= draft[t].rev /\ ("file" \notin draftActs.kinds => draft[t].file = Drafts!NoFile)
  BY DEF Archived, Archive, DrawnFrom
<1>2. "file" \notin draftActs.kinds => uploads[t] = {}
  BY DEF OnceOK
<1>3. ASSUME NEW file \in [id : Nat, st : {"none", "uploading", "ready", "failed"}], NEW kinds,
             draftActs'.kinds = draftActs.kinds \cup kinds,
             "file" \notin draftActs'.kinds => file = Drafts!NoFile /\ uploads' = uploads,
             uploads' \in [Tabs -> SUBSET Nat],
             Drafts!MarkChanged(t, Drafts!Edited(t, file)),
             UNCHANGED <<page, conflict, actions, submitted, pending, submissions, accepted, found, mail, store, home, lapsed>>
      PROVE  DraftInv'
  <2> DEFINE d == [Drafts!Edited(t, file) EXCEPT !.rev = revs + 1]
  <2>1. d \in Drafts!Drafts /\ d.rev = revs + 1 /\ d.text = revs + 1 /\ d.file = file
    BY <1>0 DEF Drafts!Edited, Drafts!Drafts
  <2>2. draft' = [draft EXCEPT ![t] = d]
    BY <1>3 DEF Drafts!MarkChanged
  <2> HIDE DEF d
  <2>3. revs' = revs + 1 /\ touched' = [touched EXCEPT ![t] = TRUE] /\ timer' = [timer EXCEPT ![t] = TRUE]
    BY <1>3 DEF Drafts!MarkChanged
  <2>4. d.text <= d.rev /\ KindsGrow
    BY <1>0, <1>3, <2>1 DEF KindsGrow
  <2>5. "file" \notin draftActs'.kinds => d.file = Drafts!NoFile /\ d.text = d.rev /\ uploads' = uploads
    BY <1>3, <2>1
  <2>6. Marks(t, d)
    BY <1>3, <2>1, <2>2, <2>3, <2>4, <2>5 DEF Marks
  <2> QED BY <2>6, MarksKeeps
<1>4. CASE Drafts!Type(t)
  <2>1. draftActs'.kinds = draftActs.kinds \cup {}
    BY <1>4, ActsGrow DEF Drafts!Type
  <2>2. Drafts!MarkChanged(t, Drafts!Edited(t, draft[t].file)) /\ uploads' = uploads
    BY <1>4 DEF Drafts!Type
  <2>3. draft[t].file \in [id : Nat, st : {"none", "uploading", "ready", "failed"}]
    BY <1>0 DEF Drafts!Drafts
  <2>4. UNCHANGED <<page, conflict, actions, submitted, pending, submissions, accepted, found, mail, store, home, lapsed>>
    BY <1>4 DEF Drafts!Type, Drafts!reportVars, Drafts!submitVars, Drafts!dbVars
  <2> QED BY <1>1, <1>3, <2>1, <2>2, <2>3, <2>4 DEF DraftTypes
<1>5. CASE Drafts!AddFile(t)
  <2> DEFINE file == [id |-> revs + 1, st |-> "uploading"]
  <2>1. draftActs'.kinds = draftActs.kinds \cup {"file"}
    BY <1>5, ActsGrow DEF Drafts!AddFile
  <2>2. Drafts!MarkChanged(t, Drafts!Edited(t, file)) /\ uploads' = [uploads EXCEPT ![t] = @ \cup {revs + 1}]
    BY <1>5 DEF Drafts!AddFile
  <2>3. file \in [id : Nat, st : {"none", "uploading", "ready", "failed"}] /\ uploads' \in [Tabs -> SUBSET Nat]
    BY <1>0, <2>2 DEF DraftTypes
  <2>4. UNCHANGED <<page, conflict, actions, submitted, pending, submissions, accepted, found, mail, store, home, lapsed>>
    BY <1>5 DEF Drafts!AddFile, Drafts!reportVars, Drafts!submitVars, Drafts!dbVars
  <2> HIDE DEF file
  <2> QED BY <1>3, <2>1, <2>2, <2>3, <2>4
<1>6. CASE Drafts!RemoveFile(t)
  <2>1. draftActs'.kinds = draftActs.kinds \cup {}
    BY <1>6, ActsGrow DEF Drafts!RemoveFile
  <2>2. Drafts!MarkChanged(t, Drafts!Edited(t, Drafts!NoFile)) /\ uploads' = uploads
    BY <1>6 DEF Drafts!RemoveFile
  <2>3. UNCHANGED <<page, conflict, actions, submitted, pending, submissions, accepted, found, mail, store, home, lapsed>>
    BY <1>6 DEF Drafts!RemoveFile, Drafts!reportVars, Drafts!submitVars, Drafts!dbVars
  <2> QED BY <1>3, <2>1, <2>2, <2>3, EmptyTypes DEF DraftTypes
<1>7. ASSUME NEW id \in uploads[t], NEW st \in {"ready", "failed"}, Drafts!UploadSettles(t, id, st)
      PROVE  DraftInv'
  <2> DEFINE e == IF draft[t].file.id = id THEN [draft[t] EXCEPT !.file.st = st] ELSE draft[t]
             d == [e EXCEPT !.rev = revs + 1]
  <2>1. e \in Drafts!Drafts /\ e.text = draft[t].text
    BY <1>0, <1>7 DEF Drafts!Drafts
  <2>2. Drafts!MarkChanged(t, e) /\ uploads' = [uploads EXCEPT ![t] = @ \ {id}] /\ draftActs' = draftActs
    BY <1>7 DEF Drafts!UploadSettles
  <2> HIDE DEF e
  <2>3. d \in Drafts!Drafts /\ d.rev = revs + 1 /\ d.text = draft[t].text
    BY <1>0, <2>1 DEF Drafts!Drafts
  <2>4. draft' = [draft EXCEPT ![t] = d]
    BY <2>2 DEF Drafts!MarkChanged
  <2> HIDE DEF d
  <2>5. d.text <= d.rev
    BY <1>0, <1>1, <2>3 DEF Drafts!Drafts
  <2>6. uploads' \in [Tabs -> SUBSET Nat] /\ "file" \in draftActs.kinds
    BY <1>2, <1>7, <2>2 DEF DraftTypes
  <2>7. UNCHANGED <<page, conflict, actions, submitted, pending, submissions, accepted, found, mail, store, home, lapsed>>
    BY <1>7 DEF Drafts!UploadSettles, Drafts!reportVars, Drafts!submitVars, Drafts!dbVars
  <2>8. Marks(t, d)
    BY <2>2, <2>3, <2>4, <2>5, <2>6, <2>7 DEF Marks, Drafts!MarkChanged, KindsGrow
  <2> QED BY <2>8, MarksKeeps
<1> QED BY <1>4, <1>5, <1>6, <1>7

(***************************************************************************)
(* Saves                                                                   *)
(***************************************************************************)
LEMMA SaveTypes ==
  ASSUME DraftTypes, FirstOK, NEW t \in Tabs, NEW d \in Drafts!Drafts, d.rev # 0, NEW how \in Drafts!Outcomes, Drafts!Save(t, d, how),
         page' = page
  PROVE  /\ timer' \in [Tabs -> BOOLEAN] /\ actions' \in [Tabs -> BOOLEAN]
         /\ store' \in Drafts!Drafts /\ found' \in [Tabs -> Seq(Entries)]
         /\ \A u \in Tabs : u # t => timer'[u] = timer[u] /\ actions'[u] = actions[u] /\ found'[u] = found[u]
         /\ store' = IF how = "saved" THEN d ELSE store
         /\ \A u \in Tabs : actions[u] => actions'[u]
         /\ Drafts!Open(t) \/ (how = "failed" /\ actions'[t])
         /\ Drafts!Open(t) => Drafts!Reported(t, d, how)
         /\ \A i \in DOMAIN found'[t] : (i \in DOMAIN found[t] /\ found'[t][i] = found[t][i]) \/ found'[t][i].draft = d
         /\ \A i \in DOMAIN found[t] : i \in DOMAIN found'[t] /\ found'[t][i] = found[t][i]
         /\ FirstOK'
PROOF
<1>1. timer' = [timer EXCEPT ![t] = FALSE] /\ timer' \in [Tabs -> BOOLEAN]
  BY DEF DraftTypes, Drafts!Save
<1>2. store' = (IF how = "saved" THEN d ELSE store) /\ store' \in Drafts!Drafts
  BY DEF DraftTypes, Drafts!Save
<1>3. CASE Drafts!Open(t)
  <2>1. Drafts!Reported(t, d, how) /\ actions' = actions
    BY <1>3 DEF Drafts!Save
  <2>2. how # "first"
    BY DEF Drafts!Outcomes
  <2>3. FirstOK'
    BY <1>3, <2>1, <2>2, ReportFirst
  <2>4. /\ found' \in [Tabs -> Seq(Entries)]
        /\ \A u \in Tabs : u # t => found'[u] = found[u]
        /\ DOMAIN found[t] \subseteq DOMAIN found'[t]
        /\ \A i \in DOMAIN found'[t] : IF i \in DOMAIN found[t] THEN found'[t][i] = found[t][i]
                                       ELSE i = Len(found[t]) + 1 /\ found'[t][i].draft = d /\ found'[t][i].for = how
    BY <2>1, ReportResult
  <2> QED BY <1>1, <1>2, <1>3, <2>1, <2>3, <2>4 DEF DraftTypes
<1>4. CASE ~Drafts!Open(t)
  <2>1. actions' = [actions EXCEPT ![t] = TRUE] /\ found' = found /\ how = "failed"
    BY <1>4 DEF Drafts!Save
  <2>2. actions' \in [Tabs -> BOOLEAN] /\ actions'[t] /\ \A u \in Tabs : u # t => actions'[u] = actions[u]
    BY <2>1 DEF DraftTypes
  <2>3. FirstOK'
    BY <2>1 DEF FirstOK
  <2> QED BY <1>1, <1>2, <1>4, <2>1, <2>2, <2>3 DEF DraftTypes
<1> QED BY <1>3, <1>4

(* A draft that is saved is the record, or will be marked as unsaved, or   *)
(* lapses; the other tabs will hear of it.                                 *)
LEMMA SaveTouches ==
  ASSUME DraftInv, NEW t \in Tabs, NEW d \in Drafts!Drafts, d.rev # 0, NEW how \in Drafts!Outcomes, Drafts!Save(t, d, how),
         draft'[t] = d, \A u \in Tabs : (u # t => draft'[u] = draft[u]) /\ (touched'[u] => touched[u]),
         UNCHANGED <<page, conflict, mail, home, lapsed>>, KindsGrow
  PROVE  TouchOK'
PROOF
<1> USE DEF DraftInv
<1>0. /\ \A u \in Tabs : u # t => timer'[u] = timer[u] /\ actions'[u] = actions[u] /\ found'[u] = found[u]
      /\ store' = IF how = "saved" THEN d ELSE store
      /\ \A u \in Tabs : actions[u] => actions'[u]
      /\ Drafts!Open(t) \/ (how = "failed" /\ actions'[t])
      /\ Drafts!Open(t) => Drafts!Reported(t, d, how)
      /\ \A i \in DOMAIN found[t] : i \in DOMAIN found'[t] /\ found'[t][i] = found[t][i]
  BY SaveTypes
<1>1. "home" \notin draftActs'.kinds => "home" \notin draftActs.kinds /\ home' = Drafts!NoDraft
  BY DEF TouchOK, KindsGrow
<1>2. \A u \in Tabs : conflict'[u] # Drafts!NoDraft => actions'[u]
  BY <1>0 DEF TouchOK
<1>3. ASSUME Drafts!Open(t)
      PROVE  \E i \in DOMAIN found'[t] : /\ found'[t][i].draft = d /\ found'[t][i].for = how
                                        /\ \A j \in DOMAIN found'[t] : ~(j > i)
  <2>1. /\ Len(found[t]) + 1 \in DOMAIN found'[t] /\ Len(found[t]) + 1 \notin DOMAIN found[t]
        /\ \A i \in DOMAIN found'[t] : IF i \in DOMAIN found[t] THEN found'[t][i] = found[t][i]
                                       ELSE i = Len(found[t]) + 1 /\ found'[t][i].draft = d /\ found'[t][i].for = how
        /\ \A i \in DOMAIN found'[t] : i <= Len(found[t]) + 1 /\ i \in Nat \ {0}
    BY <1>0, <1>3, ReportResult
  <2>2. Len(found[t]) + 1 \in Nat
    BY <2>1
  <2>3. \A j \in DOMAIN found'[t] : ~(j > Len(found[t]) + 1)
    BY <2>1, <2>2
  <2> QED BY <2>1, <2>3
<1>4. ASSUME NEW u \in Tabs, "home" \notin draftActs'.kinds, touched'[u], ~timer'[u] PROVE Left(u)'
  <2>1. CASE u = t /\ ~Drafts!Open(t)
    BY <1>0, <2>1 DEF Left, Drafts!Open
  <2>2. CASE u = t /\ Drafts!Open(t)
    <3>1. CASE how = "saved"
      BY <1>0, <2>2, <3>1 DEF Left, Drafts!Open
    <3>2. CASE how = "failed"
      <4>1. WillShow(t)'
        BY <1>3, <2>2, <3>2 DEF WillShow
      <4> QED BY <2>2, <4>1 DEF Left, Drafts!Open
    <3>3. CASE how = "aborted"
      <4>1. Lapses(t)'
        BY <1>3, <2>2, <3>3 DEF Lapses
      <4> QED BY <2>2, <4>1 DEF Left, Drafts!Open
    <3> QED BY <3>1, <3>2, <3>3 DEF Drafts!Outcomes
  <2>3. CASE u # t
    <3>1. touched[u] /\ ~timer[u]
      BY <1>0, <1>4, <2>3
    <3>2. Left(u)
      BY <1>1, <1>4, <3>1 DEF TouchOK
    <3>3. CASE how = "saved"
      <4>1. WillHear(u)'
        <5>1. t \in Tabs \ {u} /\ store' = d
          BY <1>0, <2>3, <3>3
        <5>2. PICK i \in DOMAIN found'[t] : found'[t][i].draft = d /\ found'[t][i].for = "saved"
          BY <1>0, <1>3, <3>3
        <5> QED BY <5>1, <5>2 DEF WillHear
      <4> QED BY <1>0, <2>3, <3>2, <4>1 DEF Left
    <3>4. CASE how # "saved"
      <4>1. store' = store
        BY <1>0, <3>4
      <4>2. ASSUME NEW v \in Tabs \ {u}, NEW i \in DOMAIN found[v] PROVE \E j \in DOMAIN found'[v] : found'[v][j] = found[v][i]
        BY <1>0, <4>2
      <4>3. WillHear(u) => WillHear(u)'
        BY <4>1, <4>2, WillHearKept
      <4> QED BY <1>0, <2>3, <3>2, <4>1, <4>3, LeftKept
    <3> QED BY <3>3, <3>4
  <2> QED BY <2>1, <2>2, <2>3
<1> QED BY <1>1, <1>2, <1>4 DEF TouchOK

LEMMA ResaveKeeps ==
  ASSUME DraftInv, NEW t \in Tabs, Drafts!SaveTimer(t) \/ Drafts!Reconnect(t)
  PROVE  DraftInv'
PROOF
<1> USE DEF DraftInv
<1>1. PICK how \in Drafts!Outcomes : Drafts!Save(t, draft[t], how) /\ \E n : Drafts!Acts(n, {})
  BY DEF Drafts!SaveTimer, Drafts!Reconnect
<1>2. UNCHANGED <<page, draft, touched, conflict, uploads, submitted, pending, submissions, accepted, mail, home, lapsed, revs>>
  BY DEF Drafts!SaveTimer, Drafts!Reconnect, Drafts!submitVars
<1>3. KindsGrow /\ draftActs'.kinds = draftActs.kinds
  BY <1>1, ActsGrow DEF KindsGrow
<1>4. draft[t] \in Drafts!Drafts /\ draft[t].rev # 0
  BY DEF DraftTypes
<1>5. /\ timer' \in [Tabs -> BOOLEAN] /\ actions' \in [Tabs -> BOOLEAN]
      /\ store' \in Drafts!Drafts /\ found' \in [Tabs -> Seq(Entries)]
      /\ \A u \in Tabs : u # t => found'[u] = found[u]
      /\ \A i \in DOMAIN found'[t] : (i \in DOMAIN found[t] /\ found'[t][i] = found[t][i]) \/ found'[t][i].draft = draft[t]
      /\ store' = IF how = "saved" THEN draft[t] ELSE store
      /\ FirstOK'
  BY <1>1, <1>2, <1>4, SaveTypes
<1>6. DraftTypes'
  BY <1>2, <1>5 DEF DraftTypes
<1>7. Archived'
  <2>1. PICK S : Archive(S) /\ DrawnFrom(S)
    BY DEF Archived
  <2>2. Archive(S)'
    BY <1>2, <1>3, <2>1, ArchiveKept
  <2>3. \A u \in Tabs : \A i \in DOMAIN found'[u] : found'[u][i].draft \in S
    BY <1>5, <2>1 DEF DrawnFrom
  <2>4. store' \in S
    BY <1>5, <2>1 DEF DrawnFrom
  <2>5. DrawnFrom(S)'
    BY <1>2, <2>1, <2>3, <2>4 DEF DrawnFrom
  <2> QED BY <2>2, <2>5 DEF Archived
<1>8. OnceOK' /\ PostsOK'
  BY <1>2, <1>3 DEF OnceOK, PostsOK
<1>9. TouchOK'
  BY <1>1, <1>2, <1>3, <1>4, SaveTouches
<1> QED BY <1>5, <1>6, <1>7, <1>8, <1>9

(* A tab hears of a save: marked, or announced, or lapsed.                 *)
LEMMA SaveHeardKeeps ==
  ASSUME DraftInv, NEW t \in Tabs, Drafts!SaveHeard(t)
  PROVE  DraftInv'
PROOF
<1> USE DEF DraftInv
<1>1. PICK e : e = Head(found[t])
  OBVIOUS
<1>2. /\ UNCHANGED <<page, draft, touched, timer, conflict, uploads, submitted, pending, submissions, accepted, store, home,
                     revs, draftActs>>
      /\ found[t] # <<>> /\ e.for \in Drafts!Outcomes /\ found' = [found EXCEPT ![t] = Tail(found[t])]
      /\ actions' = [actions EXCEPT ![t] = e.for = "failed" \/ (actions[t] /\ conflict[t] # Drafts!NoDraft)]
      /\ mail' = [u \in Tabs |-> IF e.for # "failed" /\ u # t THEN Append(mail[u], e.draft.rev) ELSE mail[u]]
      /\ lapsed' = IF e.for = "aborted" THEN lapsed \cup {e.draft.rev} ELSE lapsed
  BY <1>1 DEF Drafts!SaveHeard, Drafts!inputVars, Drafts!submitVars
<1>3. found[t] \in Seq(Entries)
  BY DEF DraftTypes
<1>4. /\ e \in Entries /\ e = found[t][1] /\ Tail(found[t]) \in Seq(Entries) /\ 1 \in DOMAIN found[t]
      /\ \A i \in DOMAIN Tail(found[t]) : i \in Nat \ {0} /\ i + 1 \in DOMAIN found[t] /\ Tail(found[t])[i] = found[t][i + 1]
      /\ \A i \in DOMAIN found[t] : i # 1 => i - 1 \in DOMAIN Tail(found[t]) /\ Tail(found[t])[i - 1] = found[t][i]
      /\ \A i \in DOMAIN found[t] : i \in Nat \ {0}
  BY <1>1, <1>2, <1>3, Rest
<1>5. found' \in [Tabs -> Seq(Entries)] /\ found'[t] = Tail(found[t]) /\ \A u \in Tabs : u # t => found'[u] = found[u]
  BY <1>2, <1>4 DEF DraftTypes
<1>6. e.draft \in Drafts!Drafts /\ e.draft.rev \in Nat \ {0}
  BY <1>2, <1>4 DEF Entries, Drafts!Drafts
<1>7. /\ actions' \in [Tabs -> BOOLEAN]
      /\ actions'[t] = (e.for = "failed" \/ (actions[t] /\ conflict[t] # Drafts!NoDraft))
      /\ \A u \in Tabs : u # t => actions'[u] = actions[u]
  BY <1>2 DEF DraftTypes
<1>8. \A u \in Tabs : /\ mail[u] \in Seq(Nat \ {0}) /\ mail'[u] \in Seq(Nat \ {0})
                      /\ \A i \in DOMAIN mail[u] : i \in DOMAIN mail'[u] /\ mail'[u][i] = mail[u][i]
  <2> SUFFICES ASSUME NEW u \in Tabs
               PROVE  /\ mail[u] \in Seq(Nat \ {0}) /\ mail'[u] \in Seq(Nat \ {0})
                      /\ \A i \in DOMAIN mail[u] : i \in DOMAIN mail'[u] /\ mail'[u][i] = mail[u][i]
    OBVIOUS
  <2>1. mail[u] \in Seq(Nat \ {0})
    BY DEF DraftTypes
  <2>2. mail'[u] \in {mail[u], Append(mail[u], e.draft.rev)}
    BY <1>2
  <2>3. /\ Append(mail[u], e.draft.rev) \in Seq(Nat \ {0})
        /\ \A i \in DOMAIN mail[u] : i \in DOMAIN Append(mail[u], e.draft.rev) /\ Append(mail[u], e.draft.rev)[i] = mail[u][i]
    BY <1>6, <2>1, Appended
  <2>4. CASE mail'[u] = mail[u]
    BY <2>1, <2>4
  <2>5. CASE mail'[u] = Append(mail[u], e.draft.rev)
    <3> QED BY <2>1, <2>3, <2>5
  <2> QED BY <2>2, <2>4, <2>5
<1>9. mail' \in [Tabs -> Seq(Nat \ {0})]
  BY <1>2, <1>8
<1>10. lapsed \subseteq lapsed' /\ lapsed' \subseteq Nat
  BY <1>2, <1>6 DEF DraftTypes
<1>11. DraftTypes'
  BY <1>2, <1>5, <1>7, <1>9, <1>10 DEF DraftTypes
<1>12. Archived'
  <2>1. PICK S : Archive(S) /\ DrawnFrom(S)
    BY DEF Archived
  <2>2. Archive(S)'
    BY <1>2, <2>1, ArchiveKept DEF KindsGrow
  <2>3. \A u \in Tabs : \A i \in DOMAIN found'[u] : found'[u][i].draft \in S
    <3>1. ASSUME NEW i \in DOMAIN found'[t] PROVE found'[t][i].draft \in S
      <4>1. i + 1 \in DOMAIN found[t] /\ found'[t][i] = found[t][i + 1]
        BY <1>4, <1>5
      <4> QED BY <2>1, <4>1 DEF DrawnFrom
    <3>2. ASSUME NEW u \in Tabs, u # t, NEW i \in DOMAIN found'[u] PROVE found'[u][i].draft \in S
      BY <1>5, <2>1, <3>2 DEF DrawnFrom
    <3> QED BY <3>1, <3>2
  <2>4. DrawnFrom(S)'
    BY <1>2, <2>1, <2>3 DEF DrawnFrom
  <2> QED BY <2>2, <2>4 DEF Archived
<1>13. OnceOK' /\ PostsOK'
  BY <1>2 DEF OnceOK, PostsOK
<1>14. FirstOK'
  <2>1. page[t] # "reading" /\ page[t] \notin {"opening", "closed"}
    BY <1>2, <1>4 DEF FirstOK, Drafts!Outcomes
  <2>2. ASSUME NEW u \in Tabs, u # t
        PROVE  /\ page'[u] \in {"opening", "closed"} => found'[u] = <<>>
               /\ page'[u] = "reading" => found'[u] # <<>>
               /\ \A i \in DOMAIN found'[u] : found'[u][i].for = "first" <=> page'[u] = "reading" /\ i = 1
    BY <1>2, <1>5, <2>2 DEF FirstOK
  <2>3. ASSUME NEW i \in DOMAIN found'[t] PROVE found'[t][i].for # "first"
    <3>1. i + 1 \in DOMAIN found[t] /\ found'[t][i] = found[t][i + 1]
      BY <1>4, <1>5
    <3> QED BY <2>1, <3>1 DEF FirstOK
  <2> QED BY <1>2, <2>1, <2>2, <2>3 DEF FirstOK
<1>15. TouchOK'
  <2>1. \A u \in Tabs : conflict'[u] # Drafts!NoDraft => actions'[u]
    BY <1>2, <1>7 DEF TouchOK
  <2>2. ASSUME NEW u \in Tabs, "home" \notin draftActs'.kinds, touched'[u], ~timer'[u] PROVE Left(u)'
    <3>1. Left(u)
      BY <1>2, <2>2 DEF TouchOK
    <3>2. WillHear(u) => WillHear(u)'
      <4>1. CASE \E i \in DOMAIN mail[u] : mail[u][i] = store.rev
        BY <1>2, <1>8, <4>1 DEF WillHear
      <4>2. ASSUME NEW v \in Tabs \ {u}, NEW i \in DOMAIN found[v], found[v][i].for = "saved", found[v][i].draft.rev = store.rev
            PROVE  WillHear(u)'
        <5>1. CASE v # t
          BY <1>2, <1>5, <4>2, <5>1 DEF WillHear
        <5>2. CASE v = t /\ i # 1
          <6>1. i - 1 \in DOMAIN found'[t] /\ found'[t][i - 1] = found[t][i]
            BY <1>4, <1>5, <4>2, <5>2
          <6> QED BY <1>2, <4>2, <5>2, <6>1 DEF WillHear
        <5>3. CASE v = t /\ i = 1
          <6>1. e.for = "saved" /\ e.draft.rev = store.rev /\ u # t
            BY <1>4, <4>2, <5>3
          <6>2. mail'[u] = Append(mail[u], store.rev)
            BY <1>2, <6>1
          <6>3. Len(mail'[u]) \in DOMAIN mail'[u] /\ mail'[u][Len(mail'[u])] = store.rev
            <7>1. store.rev \in Nat \ {0} /\ mail[u] \in Seq(Nat \ {0})
              BY <1>6, <1>8, <6>1
            <7>2. mail'[u] # <<>> /\ mail'[u] \in Seq(Nat \ {0}) /\ mail'[u][Len(mail'[u])] = store.rev
              BY <6>2, <7>1, Appended
            <7> QED BY <7>2
          <6> QED BY <1>2, <6>3 DEF WillHear
        <5> QED BY <5>1, <5>2, <5>3
      <4> QED BY <4>1, <4>2 DEF WillHear
    <3>3. CASE u # t
      BY <1>2, <1>5, <1>7, <1>10, <3>1, <3>2, <3>3, LeftKept
    <3>4. CASE u = t
      <4>1. WillShow(t) => WillShow(t)'
        <5>1. CASE conflict[t] # Drafts!NoDraft
          BY <1>2, <5>1 DEF WillShow
        <5>2. CASE Finds(t)
          <6>1. PICK i \in DOMAIN found[t] : found[t][i].for \in Drafts!Reads /\ found[t][i].draft # Drafts!NoDraft
            BY <5>2 DEF Finds
          <6>2. i # 1
            BY <1>2, <1>4, <6>1 DEF Drafts!Reads, Drafts!Outcomes
          <6>3. i - 1 \in DOMAIN found'[t] /\ found'[t][i - 1] = found[t][i]
            BY <1>4, <1>5, <6>2
          <6> QED BY <6>1, <6>3 DEF WillShow, Finds
        <5>3. CASE actions[t] /\ \A i \in DOMAIN found[t] : ~Hides(t, i)
          <6>1. e.for = "failed"
            BY <1>2, <1>4, <5>3 DEF Hides, Drafts!Outcomes
          <6>2. \A i \in DOMAIN found'[t] : ~Hides(t, i)'
            BY <1>4, <1>5, <5>3 DEF Hides
          <6> QED BY <1>7, <6>1, <6>2 DEF WillShow
        <5>4. ASSUME NEW i \in DOMAIN found[t], found[t][i].for = "failed", \A j \in DOMAIN found[t] : j > i => ~Hides(t, j)
              PROVE  WillShow(t)'
          <6>1. \A j \in DOMAIN found'[t] : j + 1 > i => ~Hides(t, j)'
            BY <1>4, <1>5, <5>4 DEF Hides
          <6>2. CASE i = 1
            <7>1. \A j \in DOMAIN found'[t] : ~Hides(t, j)'
              <8>1. \A j \in DOMAIN found'[t] : j + 1 > i
                BY <1>4, <1>5, <6>2
              <8> QED BY <6>1, <8>1
            <7> QED BY <1>4, <1>7, <5>4, <6>2, <7>1 DEF WillShow
          <6>3. CASE i # 1
            <7>1. i - 1 \in DOMAIN found'[t] /\ found'[t][i - 1].for = "failed"
              BY <1>4, <1>5, <5>4, <6>3
            <7>2. \A j \in DOMAIN found'[t] : j > i - 1 => ~Hides(t, j)'
              <8>1. \A j \in DOMAIN found'[t] : j > i - 1 => j + 1 > i
                BY <1>4, <1>5
              <8> QED BY <6>1, <8>1
            <7> QED BY <7>1, <7>2 DEF WillShow
          <6> QED BY <6>2, <6>3
        <5> QED BY <5>1, <5>2, <5>3, <5>4 DEF WillShow
      <4>2. Lapses(t) => Lapses(t)'
        <5>1. CASE draft[t].rev \in lapsed \/ store.rev \in lapsed
          BY <1>2, <1>10, <5>1 DEF Lapses
        <5>2. ASSUME NEW i \in DOMAIN found[t], found[t][i].for = "aborted", found[t][i].draft.rev = draft[t].rev PROVE Lapses(t)'
          <6>1. CASE i = 1
            <7>1. draft'[t].rev \in lapsed'
              BY <1>2, <1>4, <5>2, <6>1
            <7> QED BY <7>1 DEF Lapses
          <6>2. CASE i # 1
            <7>1. i - 1 \in DOMAIN found'[t] /\ found'[t][i - 1] = found[t][i]
              BY <1>4, <1>5, <6>2
            <7> QED BY <1>2, <5>2, <7>1 DEF Lapses
          <6> QED BY <6>1, <6>2
        <5> QED BY <5>1, <5>2 DEF Lapses
      <4>3. page[t] # "opening"
        BY <1>2 DEF FirstOK
      <4> QED BY <1>2, <3>1, <3>2, <3>4, <4>1, <4>2, <4>3 DEF Left
    <3> QED BY <3>3, <3>4
  <2> QED BY <1>2, <2>1, <2>2 DEF TouchOK
<1> QED BY <1>11, <1>12, <1>13, <1>14, <1>15

(***************************************************************************)
(* Submissions                                                             *)
(***************************************************************************)
LEMMA SubmitKeeps ==
  ASSUME DraftInv, NEW t \in Tabs, Drafts!Submit(t)
  PROVE  DraftInv'
PROOF
<1> USE DEF DraftInv
<1> DEFINE new == [tab |-> t, draft |-> draft[t]]
<1>1. KindsGrow /\ draftActs'.kinds = draftActs.kinds
  <2>1. draftActs'.kinds = draftActs.kinds \cup {}
    BY ActsGrow DEF Drafts!Submit
  <2> QED BY <2>1 DEF KindsGrow
<1>2. /\ UNCHANGED <<page, draft, touched, timer, conflict, actions, uploads, found, mail, store, home, lapsed, accepted, revs>>
      /\ pending' = [pending EXCEPT ![t] = TRUE] /\ submitted' = [submitted EXCEPT ![t] = draft[t]]
      /\ submissions' = submissions \cup {new}
  BY DEF Drafts!Submit, Drafts!inputVars, Drafts!reportVars, Drafts!dbVars
<1>3. ~pending[t] /\ draft[t].text # 0
  BY DEF Drafts!Submit, Drafts!Submittable
<1>4. new \in Posts /\ new.tab = t /\ new.draft = draft[t]
  BY DEF DraftTypes, Posts
<1> HIDE DEF new
<1>5. \A u \in Tabs : /\ submitted'[u] = IF u = t THEN draft[t] ELSE submitted[u]
                      /\ u # t => pending'[u] = pending[u]
  BY <1>2 DEF DraftTypes
<1>6. pending'[t]
  BY <1>2 DEF DraftTypes
<1>7. DraftTypes'
  BY <1>2, <1>4 DEF DraftTypes
<1>8. Archived'
  <2>1. PICK S : Archive(S) /\ DrawnFrom(S)
    BY DEF Archived
  <2>2. Archive(S)'
    BY <1>1, <1>2, <2>1, ArchiveKept
  <2>3. DrawnFrom(S)'
    BY <1>2, <1>4, <1>5, <2>1 DEF DrawnFrom
  <2> QED BY <2>2, <2>3 DEF Archived
<1>9. OnceOK' /\ FirstOK'
  BY <1>1, <1>2, <1>3, <1>4 DEF OnceOK, FirstOK
<1>10. PostsOK'
  <2>1. ASSUME NEW m \in submissions', m.tab # Drafts!Gone PROVE pending'[m.tab] /\ m.draft = submitted'[m.tab]
    <3>1. CASE m = new
      BY <1>4, <1>5, <1>6, <3>1
    <3>2. CASE m # new
      <4>1. m \in submissions /\ pending[m.tab] /\ m.draft = submitted[m.tab] /\ m.tab \in Tabs
        BY <1>2, <2>1, <3>2 DEF PostsOK, DraftTypes, Posts
      <4>2. m.tab # t
        BY <1>3, <4>1
      <4> QED BY <1>5, <4>1, <4>2
    <3> QED BY <3>1, <3>2
  <2> QED BY <2>1 DEF PostsOK
<1>11. TouchOK'
  BY <1>1, <1>2 DEF TouchOK, Left, WillShow, Finds, Hides, WillHear, Lapses
<1> QED BY <1>7, <1>8, <1>9, <1>10, <1>11

\* The server's list of accepted drafts, with d or without
LEMMA AdmitOnce ==
  ASSUME DraftTypes, OnceOK, NEW d \in Drafts!Drafts, d.text # 0, accepted' \in {accepted, Drafts!Admit(d)}
  PROVE  /\ accepted' \in Seq(Drafts!Drafts)
         /\ \A i \in DOMAIN accepted' : accepted'[i].text # 0 /\ (accepted'[i] = d \/ \E j \in DOMAIN accepted : accepted'[i] = accepted[j])
         /\ \A i, j \in DOMAIN accepted' : accepted'[i].rev = accepted'[j].rev => i = j
         /\ accepted' = Drafts!Admit(d) => \E i \in DOMAIN accepted' : accepted'[i].rev = d.rev
PROOF
<1>0. accepted \in Seq(Drafts!Drafts)
  BY DEF DraftTypes
<1>1. CASE accepted' = accepted
  BY <1>0, <1>1 DEF OnceOK, Drafts!Admit
<1>2. CASE accepted' # accepted
  <2>1. accepted' = Append(accepted, d) /\ ~\E i \in DOMAIN accepted : accepted[i].rev = d.rev
    BY <1>2 DEF Drafts!Admit
  <2>2. \A i \in DOMAIN accepted' : IF i \in DOMAIN accepted THEN accepted'[i] = accepted[i] ELSE i = Len(accepted) + 1 /\ accepted'[i] = d
    BY <1>0, <2>1, Appended
  <2>3. accepted' \in Seq(Drafts!Drafts) /\ accepted' # <<>> /\ accepted'[Len(accepted')] = d
    BY <1>0, <2>1, Appended
  <2>4. Len(accepted') \in DOMAIN accepted'
    BY <2>3
  <2>5. \A i, j \in DOMAIN accepted' : accepted'[i].rev = accepted'[j].rev => i = j
    BY <2>1, <2>2 DEF OnceOK
  <2> QED BY <2>2, <2>3, <2>4, <2>5 DEF OnceOK
<1> QED BY <1>1, <1>2

LEMMA UnansweredKeeps ==
  ASSUME DraftInv, NEW m \in submissions, submissions' = submissions \ {m},
         pending' = [t \in Tabs |-> pending[t] /\ t # m.tab], accepted' \in {accepted, Drafts!Admit(m.draft)},
         UNCHANGED <<page, draft, touched, timer, conflict, actions, uploads, submitted, found, mail, store, home, lapsed, revs, draftActs>>
  PROVE  DraftInv'
PROOF
<1> USE DEF DraftInv
<1>1. KindsGrow /\ draftActs'.kinds = draftActs.kinds
  BY DEF KindsGrow
<1>2. m.draft \in Drafts!Drafts /\ m.draft.text # 0
  BY DEF DraftTypes, OnceOK, Posts
<1>3. /\ accepted' \in Seq(Drafts!Drafts)
      /\ \A i \in DOMAIN accepted' : accepted'[i].text # 0 /\ (accepted'[i] = m.draft \/ \E j \in DOMAIN accepted : accepted'[i] = accepted[j])
      /\ \A i, j \in DOMAIN accepted' : accepted'[i].rev = accepted'[j].rev => i = j
  BY <1>2, AdmitOnce
<1>4. pending' \in [Tabs -> BOOLEAN] /\ \A t \in Tabs : t # m.tab => pending'[t] = pending[t]
  BY DEF DraftTypes
<1>5. DraftTypes'
  BY <1>3, <1>4 DEF DraftTypes
<1>6. Archived'
  <2>1. PICK S : Archive(S) /\ DrawnFrom(S)
    BY DEF Archived
  <2>2. Archive(S)'
    BY <1>1, <2>1, ArchiveKept
  <2>3. \A i \in DOMAIN accepted' : accepted'[i] \in S
    BY <1>3, <2>1 DEF DrawnFrom
  <2>4. DrawnFrom(S)'
    BY <2>1, <2>3 DEF DrawnFrom
  <2> QED BY <2>2, <2>4 DEF Archived
<1>7. OnceOK' /\ FirstOK'
  BY <1>1, <1>3 DEF OnceOK, FirstOK
<1>8. PostsOK'
  <2>1. ASSUME NEW p \in submissions', p.tab # Drafts!Gone PROVE pending'[p.tab] /\ p.draft = submitted'[p.tab]
    <3>1. p \in submissions /\ p # m /\ pending[p.tab] /\ p.draft = submitted[p.tab] /\ p \in Posts /\ m \in Posts
      BY <2>1 DEF PostsOK, DraftTypes
    <3>2. p.tab # m.tab
      BY <2>1, <3>1 DEF PostsOK, Posts
    <3> QED BY <1>4, <2>1, <3>1, <3>2 DEF Posts
  <2> QED BY <2>1 DEF PostsOK
<1>9. TouchOK'
  BY <1>1 DEF TouchOK, Left, WillShow, Finds, Hides, WillHear, Lapses
<1> QED BY <1>5, <1>6, <1>7, <1>8, <1>9

LEMMA AcknowledgedKeeps ==
  ASSUME DraftInv, NEW m \in submissions, submissions' = submissions \ {m},
         pending' = [t \in Tabs |-> pending[t] /\ t # m.tab], accepted' = Drafts!Admit(m.draft),
         m.tab # Drafts!Gone, Drafts!Acknowledge(m.tab), UNCHANGED <<page, conflict, uploads, mail, home, lapsed>>
  PROVE  DraftInv'
PROOF
<1> USE DEF DraftInv
<1> DEFINE t == m.tab
           same == draft[t].rev = submitted[t].rev
<1>0. t \in Tabs /\ m \in Posts
  BY DEF DraftTypes, Posts
<1>a. PICK next : next = IF same THEN Drafts!Empty(revs + 1) ELSE draft[t]
  OBVIOUS
<1>1. PICK how \in Drafts!Outcomes : Drafts!Save(t, next, how) /\ \E n : Drafts!Acts(n, {})
  BY <1>a DEF Drafts!Acknowledge
<1>2. KindsGrow /\ draftActs'.kinds = draftActs.kinds
  <2>1. draftActs'.kinds = draftActs.kinds \cup {}
    BY <1>1, ActsGrow
  <2> QED BY <2>1 DEF KindsGrow
<1>3. /\ draft' = [draft EXCEPT ![t] = next]
      /\ revs' = IF same THEN revs + 1 ELSE revs
      /\ touched' = [touched EXCEPT ![t] = @ /\ ~same]
      /\ submitted' = [submitted EXCEPT ![t] = Drafts!NoDraft]
  BY <1>a DEF Drafts!Acknowledge
<1>4. revs \in Nat /\ draft[t] \in Drafts!Drafts /\ draft[t].rev # 0
  BY <1>0 DEF DraftTypes
<1>5. next \in Drafts!Drafts /\ next.rev # 0
  BY <1>a, <1>4, EmptyTypes
<1>6. /\ \A u \in Tabs : draft'[u] = IF u = t THEN next ELSE draft[u]
      /\ \A u \in Tabs : touched'[u] => touched[u]
      /\ \A u \in Tabs : submitted'[u] = IF u = t THEN Drafts!NoDraft ELSE submitted[u]
  BY <1>0, <1>3 DEF DraftTypes
<1>7. /\ timer' \in [Tabs -> BOOLEAN] /\ actions' \in [Tabs -> BOOLEAN]
      /\ store' \in Drafts!Drafts /\ found' \in [Tabs -> Seq(Entries)]
      /\ \A u \in Tabs : u # t => found'[u] = found[u]
      /\ \A i \in DOMAIN found'[t] : (i \in DOMAIN found[t] /\ found'[t][i] = found[t][i]) \/ found'[t][i].draft = next
      /\ store' = IF how = "saved" THEN next ELSE store
      /\ FirstOK'
  BY <1>0, <1>1, <1>5, SaveTypes
<1>8. m.draft \in Drafts!Drafts /\ m.draft.text # 0
  BY <1>0 DEF OnceOK, Posts
<1>9. /\ accepted' \in Seq(Drafts!Drafts)
      /\ \A i \in DOMAIN accepted' : accepted'[i].text # 0 /\ (accepted'[i] = m.draft \/ \E j \in DOMAIN accepted : accepted'[i] = accepted[j])
      /\ \A i, j \in DOMAIN accepted' : accepted'[i].rev = accepted'[j].rev => i = j
  BY <1>8, AdmitOnce
<1>10. pending' \in [Tabs -> BOOLEAN] /\ \A u \in Tabs : u # t => pending'[u] = pending[u]
  BY DEF DraftTypes
<1>11. DraftTypes'
  <2>1. draft' \in [Tabs -> Drafts!Drafts] /\ touched' \in [Tabs -> BOOLEAN] /\ submitted' \in [Tabs -> Drafts!Drafts]
    BY <1>3, <1>5, EmptyTypes DEF DraftTypes
  <2>2. revs' \in Nat /\ \A u \in Tabs : draft'[u].rev # 0
    BY <1>3, <1>4, <1>5, <1>6 DEF DraftTypes
  <2> QED BY <1>7, <1>9, <1>10, <2>1, <2>2 DEF DraftTypes
<1>12. \E S : Archive(S)' /\ DrawnFrom(S)'
  <2>1. PICK S : Archive(S) /\ DrawnFrom(S)
    BY DEF Archived
  <2>2. PICK T : S \subseteq T /\ next \in T /\ Archive(T)'
    <3>1. CASE same
      <4>1. next = Drafts!Empty(revs + 1) /\ revs' = revs + 1
        BY <1>a, <1>3, <3>1
      <4>2. next.rev = revs + 1 /\ next.text = 0 /\ next.file = Drafts!NoFile
        BY <1>4, <4>1, EmptyTypes
      <4>3. Archive(S \cup {next})'
        <5>1. next.text <= next.rev
          BY <1>4, <4>2
        <5> QED BY <1>2, <1>4, <1>5, <2>1, <4>1, <4>2, <5>1, ArchiveGrows
      <4>4. S \subseteq S \cup {next} /\ next \in S \cup {next}
        OBVIOUS
      <4> QED BY <4>3, <4>4
    <3>2. CASE ~same
      <4>1. next = draft[t] /\ revs' = revs
        BY <1>a, <1>3, <3>2
      <4>2. Archive(S)' /\ next \in S
        BY <1>0, <1>2, <2>1, <4>1, ArchiveKept DEF DrawnFrom
      <4> QED BY <4>2
    <3> QED BY <3>1, <3>2
  <2>3. \A i \in DOMAIN accepted' : accepted'[i] \in T
    BY <1>9, <2>1, <2>2 DEF DrawnFrom
  <2>4. Drafts!NoDraft \in T
    BY <2>1, <2>2 DEF Archive
  <2>5. \A u \in Tabs : \A i \in DOMAIN found'[u] : found'[u][i].draft \in T
    BY <1>7, <2>1, <2>2 DEF DrawnFrom
  <2>6. DrawnFrom(T)'
    BY <1>6, <1>7, <2>1, <2>2, <2>3, <2>4, <2>5 DEF DrawnFrom
  <2> QED BY <2>2, <2>6
<1>13. OnceOK' /\ FirstOK'
  BY <1>2, <1>7, <1>9 DEF OnceOK
<1>14. PostsOK'
  <2>1. ASSUME NEW p \in submissions', p.tab # Drafts!Gone PROVE pending'[p.tab] /\ p.draft = submitted'[p.tab]
    <3>1. p \in submissions /\ p # m /\ pending[p.tab] /\ p.draft = submitted[p.tab] /\ p \in Posts
      BY <2>1 DEF PostsOK, DraftTypes
    <3>2. p.tab # t
      BY <1>0, <2>1, <3>1 DEF PostsOK, Posts
    <3> QED BY <1>6, <1>10, <2>1, <3>1, <3>2 DEF Posts
  <2> QED BY <2>1 DEF PostsOK
<1>15. TouchOK'
  <2>1. draft'[t] = next /\ \A u \in Tabs : (u # t => draft'[u] = draft[u]) /\ (touched'[u] => touched[u])
    BY <1>0, <1>6
  <2>2. UNCHANGED <<page, conflict, mail, home, lapsed>>
    OBVIOUS
  <2> HIDE DEF t
  <2> QED BY <1>0, <1>1, <1>2, <1>5, <2>1, <2>2, SaveTouches
<1> QED BY <1>11, <1>12, <1>13, <1>14, <1>15 DEF Archived

LEMMA AnsweredKeeps ==
  ASSUME DraftInv, NEW m \in submissions, Drafts!Answered(m)
  PROVE  DraftInv'
PROOF
<1>1. submissions' = submissions \ {m} /\ pending' = [t \in Tabs |-> pending[t] /\ t # m.tab]
  BY DEF Drafts!Answered
<1>2. UNCHANGED <<page, conflict, uploads, mail, home, lapsed>>
  BY DEF Drafts!Answered
<1>3. CASE accepted' = Drafts!Admit(m.draft) /\ m.tab # Drafts!Gone /\ Drafts!Acknowledge(m.tab)
  BY <1>1, <1>2, <1>3, AcknowledgedKeeps
<1>4. CASE accepted' \in {accepted, Drafts!Admit(m.draft)}
           /\ UNCHANGED <<Drafts!inputVars, actions, submitted, found, store, revs, draftActs>>
  BY <1>1, <1>2, <1>4, UnansweredKeeps DEF Drafts!inputVars
<1> QED BY <1>3, <1>4 DEF Drafts!Answered

(***************************************************************************)
(* Reading, and loading a page                                             *)
(***************************************************************************)
LEMMA RecoverKeeps ==
  ASSUME DraftInv, NEW t \in Tabs, Drafts!Recover(t)
  PROVE  DraftInv'
PROOF
<1> USE DEF DraftInv
<1>1. /\ UNCHANGED <<page, timer, uploads, submitted, pending, submissions, accepted, found, mail, store, home, lapsed, revs, draftActs>>
      /\ draft' = [draft EXCEPT ![t] = conflict[t]] /\ touched' = [touched EXCEPT ![t] = FALSE]
      /\ conflict' = [conflict EXCEPT ![t] = Drafts!NoDraft] /\ actions' = [actions EXCEPT ![t] = FALSE]
      /\ conflict[t] # Drafts!NoDraft
  BY DEF Drafts!Recover, Drafts!Apply, Drafts!submitVars, Drafts!dbVars
<1>2. /\ \A u \in Tabs : draft'[u] = IF u = t THEN conflict[t] ELSE draft[u]
      /\ \A u \in Tabs : conflict'[u] = IF u = t THEN Drafts!NoDraft ELSE conflict[u]
      /\ \A u \in Tabs : u # t => touched'[u] = touched[u] /\ actions'[u] = actions[u]
  BY <1>1 DEF DraftTypes
<1>3. ~touched'[t]
  BY <1>1 DEF DraftTypes
<1>4. KindsGrow
  BY <1>1 DEF KindsGrow
<1>5. PICK S : Archive(S) /\ DrawnFrom(S)
  BY DEF Archived
<1>6. conflict[t].rev # 0
  BY <1>1, <1>5, EmptyTypes DEF Archive, DrawnFrom
<1>7. DraftTypes'
  <2>1. conflict[t] \in Drafts!Drafts
    BY DEF DraftTypes
  <2>2. \A u \in Tabs : draft'[u].rev # 0
    BY <1>2, <1>6 DEF DraftTypes
  <2> QED BY <1>1, <2>1, <2>2, EmptyTypes DEF DraftTypes
<1>8. Archive(S)'
  BY <1>1, <1>4, <1>5, ArchiveKept
<1>9. DrawnFrom(S)'
  BY <1>1, <1>2, <1>5 DEF DrawnFrom, Archive
<1>10. OnceOK' /\ PostsOK' /\ FirstOK'
  BY <1>1 DEF OnceOK, PostsOK, FirstOK
<1>11. TouchOK'
  <2>1. \A u \in Tabs : conflict'[u] # Drafts!NoDraft => actions'[u]
    BY <1>2 DEF TouchOK
  <2>2. ASSUME NEW u \in Tabs, "home" \notin draftActs'.kinds, touched'[u], ~timer'[u] PROVE Left(u)'
    <3>1. u # t /\ Left(u)
      BY <1>1, <1>2, <1>3, <2>2 DEF TouchOK
    <3>2. WillHear(u) => WillHear(u)'
      BY <1>1, WillHearKept
    <3> QED BY <1>1, <1>2, <3>1, <3>2, LeftKept
  <2> QED BY <1>1, <2>1, <2>2 DEF TouchOK
<1> QED BY <1>7, <1>8, <1>9, <1>10, <1>11 DEF Archived

LEMMA HomeKeeps ==
  ASSUME DraftInv, Drafts!HomeSave
  PROVE  DraftInv'
PROOF
<1> USE DEF DraftInv
<1>1. /\ UNCHANGED <<page, draft, touched, timer, conflict, actions, uploads, submitted, pending, submissions, accepted,
                     found, mail, store, lapsed>>
      /\ revs' = revs + 1
  BY DEF Drafts!HomeSave, Drafts!inputVars, Drafts!reportVars, Drafts!submitVars
<1>2. draftActs'.kinds = draftActs.kinds \cup {"home"} /\ KindsGrow
  BY ActsGrow DEF Drafts!HomeSave, KindsGrow
<1>3. PICK d : d = [Drafts!Empty(revs + 1) EXCEPT !.text = revs + 1]
  OBVIOUS
<1>4. d \in Drafts!Drafts /\ d.rev = revs + 1 /\ d.text = revs + 1 /\ d.file = Drafts!NoFile
  <2>1. revs + 1 \in Nat
    BY DEF DraftTypes
  <2> QED BY <1>3, <2>1, EmptyTypes DEF Drafts!Drafts
<1>5. home' = d
  BY <1>3 DEF Drafts!HomeSave
<1>6. DraftTypes'
  BY <1>1, <1>4, <1>5 DEF DraftTypes
<1>7. Archived'
  <2>1. PICK S : Archive(S) /\ DrawnFrom(S)
    BY DEF Archived
  <2>2. Archive(S \cup {d})'
    <3>1. revs \in Nat /\ d.text <= d.rev
      BY <1>4 DEF DraftTypes
    <3> QED BY <1>1, <1>2, <1>4, <2>1, <3>1, ArchiveGrows
  <2>3. DrawnFrom(S \cup {d})'
    BY <1>1, <1>5, <2>1 DEF DrawnFrom
  <2> QED BY <2>2, <2>3 DEF Archived
<1>8. OnceOK' /\ PostsOK' /\ FirstOK'
  BY <1>1, <1>2 DEF OnceOK, PostsOK, FirstOK
<1>9. TouchOK'
  BY <1>1, <1>2 DEF TouchOK
<1> QED BY <1>6, <1>7, <1>8, <1>9

LEMMA FailsKeeps ==
  ASSUME DraftInv, NEW t \in Tabs, Drafts!DatabaseFails(t)
  PROVE  DraftInv'
PROOF
<1> USE DEF DraftInv
<1>1. /\ UNCHANGED <<draft, touched, timer, conflict, uploads, submitted, pending, submissions, accepted, found, mail, store, home, lapsed, revs>>
      /\ page[t] = "opening" /\ page' = [page EXCEPT ![t] = "closed"] /\ actions' = [actions EXCEPT ![t] = TRUE]
  BY DEF Drafts!DatabaseFails, Drafts!inputVars, Drafts!submitVars, Drafts!dbVars
<1>2. KindsGrow /\ draftActs'.kinds = draftActs.kinds
  <2>1. draftActs'.kinds = draftActs.kinds \cup {}
    BY ActsGrow DEF Drafts!DatabaseFails
  <2> QED BY <2>1 DEF KindsGrow
<1>3. \A u \in Tabs : page'[u] = (IF u = t THEN "closed" ELSE page[u]) /\ (u # t => actions'[u] = actions[u])
  BY <1>1 DEF DraftTypes
<1>4. actions'[t]
  BY <1>1 DEF DraftTypes
<1>5. DraftTypes'
  BY <1>1 DEF DraftTypes
<1>6. Archived'
  <2>1. PICK S : Archive(S) /\ DrawnFrom(S)
    BY DEF Archived
  <2>2. Archive(S)' /\ DrawnFrom(S)'
    BY <1>1, <1>2, <2>1, ArchiveKept DEF DrawnFrom
  <2> QED BY <2>2 DEF Archived
<1>7. OnceOK' /\ PostsOK'
  BY <1>1, <1>2 DEF OnceOK, PostsOK
<1>8. FirstOK'
  BY <1>1, <1>3 DEF FirstOK
<1>9. TouchOK'
  <2>1. \A u \in Tabs : conflict'[u] # Drafts!NoDraft => actions'[u]
    BY <1>1, <1>3, <1>4 DEF TouchOK
  <2>2. ASSUME NEW u \in Tabs, "home" \notin draftActs'.kinds, touched'[u], ~timer'[u] PROVE Left(u)'
    <3>1. Left(u)
      BY <1>1, <1>2, <2>2 DEF TouchOK
    <3>2. CASE u = t
      BY <1>3, <3>2 DEF Left
    <3>3. CASE u # t
      <4>1. WillHear(u) => WillHear(u)'
        BY <1>1, WillHearKept
      <4> QED BY <1>1, <1>3, <3>1, <3>3, <4>1, LeftKept
    <3> QED BY <3>2, <3>3
  <2> QED BY <1>1, <1>2, <2>1, <2>2 DEF TouchOK
<1> QED BY <1>5, <1>6, <1>7, <1>8, <1>9

(* A tab reads the record.                                                 *)
LEMMA ReadResult ==
  ASSUME DraftTypes, NEW t \in Tabs, NEW for \in Drafts!Reads, Drafts!Read(t, for)
  PROVE  /\ found' \in [Tabs -> Seq(Entries)]
         /\ \A u \in Tabs : u # t => found'[u] = found[u]
         /\ found'[t] # <<>> /\ DOMAIN found[t] \subseteq DOMAIN found'[t]
         /\ \A i \in DOMAIN found'[t] : i \in Nat \ {0}
         /\ \A i \in DOMAIN found'[t] : IF i \in DOMAIN found[t] THEN found'[t][i] = found[t][i]
                                        ELSE i = Len(found[t]) + 1 /\ found'[t][i].draft = store /\ found'[t][i].for = for
         /\ \E i \in DOMAIN found'[t] : found'[t][i].draft = store /\ found'[t][i].for = for
PROOF
<1>1. store \in Drafts!Drafts /\ for \notin Drafts!Outcomes /\ Drafts!Reported(t, store, for)
  BY DEF DraftTypes, Drafts!Read, Drafts!Reads, Drafts!Outcomes
<1>2. /\ Len(found[t]) + 1 \in DOMAIN found'[t] /\ Len(found[t]) + 1 \notin DOMAIN found[t]
      /\ \A i \in DOMAIN found'[t] : IF i \in DOMAIN found[t] THEN found'[t][i] = found[t][i]
                                     ELSE i = Len(found[t]) + 1 /\ found'[t][i].draft = store /\ found'[t][i].for = for
  BY <1>1, ReportResult
<1> QED BY <1>1, <1>2, ReportResult

LEMMA OpensKeeps ==
  ASSUME DraftInv, NEW t \in Tabs, Drafts!DatabaseOpens(t)
  PROVE  DraftInv'
PROOF
<1> USE DEF DraftInv
<1>1. /\ UNCHANGED <<draft, touched, timer, conflict, actions, uploads, submitted, pending, submissions, accepted, mail, store, home,
                     lapsed, revs, draftActs>>
      /\ page[t] = "opening" /\ page' = [page EXCEPT ![t] = "reading"] /\ Drafts!Read(t, "first")
  BY DEF Drafts!DatabaseOpens, Drafts!inputVars, Drafts!reportVars, Drafts!submitVars
<1>2. \A u \in Tabs : page'[u] = IF u = t THEN "reading" ELSE page[u]
  BY <1>1 DEF DraftTypes
<1>3. /\ found' \in [Tabs -> Seq(Entries)]
      /\ \A u \in Tabs : u # t => found'[u] = found[u]
      /\ found'[t] # <<>>
      /\ \A i \in DOMAIN found'[t] : IF i \in DOMAIN found[t] THEN found'[t][i] = found[t][i]
                                     ELSE i = Len(found[t]) + 1 /\ found'[t][i].draft = store /\ found'[t][i].for = "first"
  BY <1>1, ReadResult DEF Drafts!Reads
<1>4. found[t] = <<>> /\ \A i \in DOMAIN found'[t] : i = 1 /\ found'[t][i].draft = store /\ found'[t][i].for = "first"
  <2>1. found[t] = <<>>
    BY <1>1 DEF FirstOK
  <2> QED BY <1>3, <2>1
<1>5. DraftTypes'
  BY <1>1, <1>3 DEF DraftTypes
<1>6. Archived'
  <2>1. PICK S : Archive(S) /\ DrawnFrom(S)
    BY DEF Archived
  <2>2. Archive(S)'
    BY <1>1, <2>1, ArchiveKept DEF KindsGrow
  <2>3. \A u \in Tabs : \A i \in DOMAIN found'[u] : found'[u][i].draft \in S
    BY <1>3, <1>4, <2>1 DEF DrawnFrom
  <2>4. DrawnFrom(S)'
    BY <1>1, <2>1, <2>3 DEF DrawnFrom
  <2> QED BY <2>2, <2>4 DEF Archived
<1>7. OnceOK' /\ PostsOK'
  BY <1>1 DEF OnceOK, PostsOK
<1>8. FirstOK'
  <2>1. ASSUME NEW u \in Tabs, u # t
        PROVE  /\ page'[u] \in {"opening", "closed"} => found'[u] = <<>>
               /\ page'[u] = "reading" => found'[u] # <<>>
               /\ \A i \in DOMAIN found'[u] : found'[u][i].for = "first" <=> page'[u] = "reading" /\ i = 1
    BY <1>2, <1>3, <2>1 DEF FirstOK
  <2> QED BY <1>2, <1>3, <1>4, <2>1 DEF FirstOK
<1>9. TouchOK'
  <2>1. ASSUME NEW u \in Tabs, "home" \notin draftActs'.kinds, touched'[u], ~timer'[u] PROVE Left(u)'
    <3>1. Left(u)
      BY <1>1, <2>1 DEF TouchOK
    <3>2. CASE u = t
      <4>1. actions'[t]
        BY <1>1, <3>1, <3>2 DEF Left
      <4>2. \A i \in DOMAIN found'[t] : ~Hides(t, i)'
        BY <1>4 DEF Hides
      <4> QED BY <1>2, <3>2, <4>1, <4>2 DEF Left, WillShow
    <3>3. CASE u # t
      <4>1. \A v \in Tabs \ {u} : \A i \in DOMAIN found[v] : i \in DOMAIN found'[v] /\ found'[v][i] = found[v][i]
        BY <1>3, <1>4
      <4>2. WillHear(u) => WillHear(u)'
        BY <1>1, <4>1, WillHearKept
      <4> QED BY <1>1, <1>2, <1>3, <3>1, <3>3, <4>2, LeftKept
    <3> QED BY <3>2, <3>3
  <2> QED BY <1>1, <2>1 DEF TouchOK
<1> QED BY <1>5, <1>6, <1>7, <1>8, <1>9

LEMMA ReceiveKeeps ==
  ASSUME DraftInv, NEW t \in Tabs, Drafts!ReceiveUpdate(t)
  PROVE  DraftInv'
PROOF
<1> USE DEF DraftInv
<1>1. /\ UNCHANGED <<page, draft, touched, timer, conflict, actions, uploads, submitted, pending, submissions, accepted, store, home,
                     lapsed, revs, draftActs>>
      /\ mail[t] # <<>> /\ mail' = [mail EXCEPT ![t] = Tail(mail[t])]
  BY DEF Drafts!ReceiveUpdate, Drafts!inputVars, Drafts!reportVars, Drafts!submitVars
<1>2. mail[t] \in Seq(Nat \ {0})
  BY DEF DraftTypes
<1>3. /\ Head(mail[t]) \in Nat \ {0} /\ Head(mail[t]) = mail[t][1] /\ Tail(mail[t]) \in Seq(Nat \ {0})
      /\ \A i \in DOMAIN mail[t] : i # 1 => i - 1 \in DOMAIN Tail(mail[t]) /\ Tail(mail[t])[i - 1] = mail[t][i]
      /\ \A i \in DOMAIN mail[t] : mail[t][i] \in Nat \ {0}
  BY <1>1, <1>2, Rest
<1>4. mail' \in [Tabs -> Seq(Nat \ {0})] /\ mail'[t] = Tail(mail[t]) /\ \A u \in Tabs : u # t => mail'[u] = mail[u]
  BY <1>1, <1>3 DEF DraftTypes
<1>a. ASSUME NEW u \in Tabs, WillHear(u),
             \A v \in Tabs : \A i \in DOMAIN found[v] : i \in DOMAIN found'[v] /\ found'[v][i] = found[v][i]
      PROVE  WillHear(u)' \/ (u = t /\ Head(mail[t]) = store.rev)
  <2>1. CASE \E v \in Tabs \ {u} : \E i \in DOMAIN found[v] : found[v][i].for = "saved" /\ found[v][i].draft.rev = store.rev
    BY <1>1, <1>a, <2>1 DEF WillHear
  <2>2. ASSUME NEW i \in DOMAIN mail[u], mail[u][i] = store.rev PROVE WillHear(u)' \/ (u = t /\ Head(mail[t]) = store.rev)
    <3>1. CASE u # t
      BY <1>1, <1>4, <2>2, <3>1 DEF WillHear
    <3>2. CASE u = t /\ i = 1
      BY <1>3, <2>2, <3>2
    <3>3. CASE u = t /\ i # 1
      <4>1. i - 1 \in DOMAIN mail'[t] /\ mail'[t][i - 1] = store.rev
        BY <1>3, <1>4, <2>2, <3>3
      <4> QED BY <1>1, <3>3, <4>1 DEF WillHear
    <3> QED BY <3>1, <3>2, <3>3
  <2> QED BY <1>a, <2>1, <2>2 DEF WillHear
<1>5. CASE UNCHANGED found /\ (~Drafts!Open(t) \/ Head(mail[t]) = draft[t].rev)
  <2>1. PICK S : Archive(S) /\ DrawnFrom(S)
    BY DEF Archived
  <2>2. DraftTypes'
    BY <1>1, <1>4, <1>5 DEF DraftTypes
  <2>3. Archived'
    <3>1. Archive(S)' /\ DrawnFrom(S)'
      BY <1>1, <1>5, <2>1, ArchiveKept DEF DrawnFrom, KindsGrow
    <3> QED BY <3>1 DEF Archived
  <2>4. OnceOK' /\ PostsOK' /\ FirstOK'
    BY <1>1, <1>5 DEF OnceOK, PostsOK, FirstOK
  <2>5. ASSUME NEW u \in Tabs, "home" \notin draftActs'.kinds, touched'[u], ~timer'[u] PROVE Left(u)'
    <3>1. Left(u)
      BY <1>1, <2>5 DEF TouchOK
    <3>2. CASE ~(u = t /\ Head(mail[t]) = store.rev)
      <4>1. WillHear(u) => WillHear(u)'
        BY <1>5, <1>a, <3>2
      <4> QED BY <1>1, <1>5, <3>1, <4>1, LeftKept
    <3>3. CASE u = t /\ Head(mail[t]) = store.rev
      <4>1. CASE ~Drafts!Open(t)
        BY <1>1, <3>1, <3>3, <4>1 DEF Left, Drafts!Open
      <4>2. CASE Head(mail[t]) = draft[t].rev
        <5>1. draft[t] = store
          BY <2>1, <3>3, <4>2 DEF Archive, DrawnFrom
        <5> QED BY <1>1, <3>1, <3>3, <5>1 DEF Left
      <4> QED BY <1>5, <4>1, <4>2
    <3> QED BY <3>2, <3>3
  <2>6. TouchOK'
    BY <1>1, <2>5 DEF TouchOK
  <2> QED BY <2>2, <2>3, <2>4, <2>6
<1>6. CASE Drafts!Read(t, "update") /\ Drafts!Open(t)
  <2>1. PICK S : Archive(S) /\ DrawnFrom(S)
    BY DEF Archived
  <2>2. /\ found' \in [Tabs -> Seq(Entries)]
        /\ \A u \in Tabs : u # t => found'[u] = found[u]
        /\ found'[t] # <<>> /\ DOMAIN found[t] \subseteq DOMAIN found'[t]
        /\ \A i \in DOMAIN found'[t] : IF i \in DOMAIN found[t] THEN found'[t][i] = found[t][i]
                                       ELSE i = Len(found[t]) + 1 /\ found'[t][i].draft = store /\ found'[t][i].for = "update"
        /\ \E i \in DOMAIN found'[t] : found'[t][i].draft = store /\ found'[t][i].for = "update"
    BY <1>6, ReadResult DEF Drafts!Reads
  <2>3. DraftTypes'
    BY <1>1, <1>4, <2>2 DEF DraftTypes
  <2>4. Archived'
    <3>1. Archive(S)'
      BY <1>1, <2>1, ArchiveKept DEF KindsGrow
    <3>2. \A u \in Tabs : \A i \in DOMAIN found'[u] : found'[u][i].draft \in S
      BY <2>1, <2>2 DEF DrawnFrom
    <3>3. DrawnFrom(S)'
      BY <1>1, <2>1, <3>2 DEF DrawnFrom
    <3> QED BY <3>1, <3>3 DEF Archived
  <2>5. OnceOK' /\ PostsOK'
    BY <1>1 DEF OnceOK, PostsOK
  <2>6. FirstOK'
    <3>1. store \in Drafts!Drafts /\ "update" \in Drafts!Reads \cup Drafts!Outcomes /\ "update" \notin Drafts!Outcomes
      BY DEF DraftTypes, Drafts!Reads, Drafts!Outcomes
    <3> QED BY <1>1, <1>6, <3>1, ReportFirst DEF Drafts!Read
  <2>7. ASSUME NEW u \in Tabs, "home" \notin draftActs'.kinds, touched'[u], ~timer'[u] PROVE Left(u)'
    <3>1. Left(u)
      BY <1>1, <2>7 DEF TouchOK
    <3>2. \A v \in Tabs : \A i \in DOMAIN found[v] : i \in DOMAIN found'[v] /\ found'[v][i] = found[v][i]
      BY <2>2
    <3>3. CASE u # t
      <4>1. WillHear(u) => WillHear(u)'
        BY <1>a, <3>2, <3>3
      <4> QED BY <1>1, <2>2, <3>1, <3>3, <4>1, LeftKept
    <3>4. CASE u = t
      <4>1. CASE store # Drafts!NoDraft
        <5>1. WillShow(t)'
          BY <2>2, <4>1 DEF WillShow, Finds, Drafts!Reads
        <5> QED BY <1>1, <3>1, <3>4, <5>1 DEF Left
      <4>2. CASE store = Drafts!NoDraft
        <5>1. WillHear(t) => WillHear(t)'
          BY <1>3, <1>a, <3>2, <4>2, EmptyTypes
        <5>2. Lapses(t) => Lapses(t)'
          BY <1>1, <3>2 DEF Lapses
        <5>3. \A i \in DOMAIN found'[t] : (i \in DOMAIN found[t] /\ found'[t][i] = found[t][i]) \/ ~Hides(t, i)'
          BY <2>2 DEF Hides
        <5>4. WillShow(t) => WillShow(t)'
          <6>1. Finds(t) => Finds(t)'
            BY <3>2 DEF Finds
          <6>2. \A i \in DOMAIN found'[t] : Hides(t, i)' => i \in DOMAIN found[t] /\ Hides(t, i)
            BY <5>3 DEF Hides
          <6>3. ASSUME NEW i \in DOMAIN found[t], found[t][i].for = "failed", \A j \in DOMAIN found[t] : j > i => ~Hides(t, j)
                PROVE  WillShow(t)'
            <7>1. i \in DOMAIN found'[t] /\ found'[t][i].for = "failed" /\ \A j \in DOMAIN found'[t] : j > i => ~Hides(t, j)'
              BY <3>2, <6>2, <6>3
            <7> QED BY <7>1 DEF WillShow
          <6>4. CASE actions[t] /\ \A i \in DOMAIN found[t] : ~Hides(t, i)
            BY <1>1, <6>2, <6>4 DEF WillShow
          <6> QED BY <1>1, <6>1, <6>3, <6>4 DEF WillShow
        <5> QED BY <1>1, <3>1, <3>4, <5>1, <5>2, <5>4 DEF Left
      <4> QED BY <4>1, <4>2
    <3> QED BY <3>3, <3>4
  <2>8. TouchOK'
    BY <1>1, <2>7 DEF TouchOK
  <2> QED BY <2>3, <2>4, <2>5, <2>6, <2>8
<1> QED BY <1>5, <1>6 DEF Drafts!ReceiveUpdate

LEMMA ReadDoneKeeps ==
  ASSUME DraftInv, NEW t \in Tabs, Drafts!ReadDone(t)
  PROVE  DraftInv'
PROOF
<1> USE DEF DraftInv
<1> DEFINE e == Head(found[t])
           d == IF e.draft = Drafts!NoDraft THEN home ELSE e.draft
<1>1. /\ UNCHANGED <<timer, uploads, submitted, pending, submissions, accepted, mail, lapsed, revs, draftActs>>
      /\ found[t] # <<>> /\ e.for \in Drafts!Reads /\ found' = [found EXCEPT ![t] = Tail(found[t])]
      /\ page' = IF e.for = "first" THEN [page EXCEPT ![t] = "ready"] ELSE page
      /\ IF e.draft = Drafts!NoDraft THEN Drafts!Transfer ELSE UNCHANGED <<store, home>>
      /\ Drafts!Take(t, d, e.for)
  BY DEF Drafts!ReadDone, Drafts!submitVars
<1>2. found[t] \in Seq(Entries)
  BY DEF DraftTypes
<1>3. /\ e \in Entries /\ e = found[t][1] /\ Tail(found[t]) \in Seq(Entries) /\ 1 \in DOMAIN found[t]
      /\ \A i \in DOMAIN Tail(found[t]) : i \in Nat \ {0} /\ i + 1 \in DOMAIN found[t] /\ Tail(found[t])[i] = found[t][i + 1]
      /\ \A i \in DOMAIN found[t] : i # 1 => i - 1 \in DOMAIN Tail(found[t]) /\ Tail(found[t])[i - 1] = found[t][i]
  BY <1>1, <1>2, Rest
<1>4. found' \in [Tabs -> Seq(Entries)] /\ found'[t] = Tail(found[t]) /\ \A u \in Tabs : u # t => found'[u] = found[u]
  BY <1>1, <1>3 DEF DraftTypes
<1>5. d \in Drafts!Drafts /\ e.draft \in Drafts!Drafts
  BY <1>3 DEF DraftTypes, Entries
<1>6. PICK S : Archive(S) /\ DrawnFrom(S)
  BY DEF Archived
<1>7. d \in S /\ Drafts!NoDraft \in S
  BY <1>3, <1>6 DEF Archive, DrawnFrom
<1>8. d # Drafts!NoDraft => d.rev # 0
  BY <1>6, <1>7, EmptyTypes DEF Archive
<1>9. /\ store' \in {store, home} /\ home' \in {home, Drafts!NoDraft}
      /\ home = Drafts!NoDraft => store' = store /\ home' = Drafts!NoDraft /\ d = e.draft
  BY <1>1 DEF Drafts!Transfer
<1> HIDE DEF d, e
<1>10. \/ draft' = draft /\ touched' = touched /\ conflict' = conflict /\ actions' = actions /\ d = Drafts!NoDraft
       \/ /\ d # Drafts!NoDraft /\ conflict' = conflict /\ actions' = actions
          /\ draft' = [draft EXCEPT ![t] = d] /\ touched' = [touched EXCEPT ![t] = FALSE]
       \/ /\ d # Drafts!NoDraft /\ draft' = draft /\ touched' = touched
          /\ conflict' = [conflict EXCEPT ![t] = d] /\ actions' = [actions EXCEPT ![t] = TRUE]
  BY <1>1 DEF Drafts!Take, Drafts!Apply, Drafts!reportVars
<1>11. /\ \A u \in Tabs : u # t => /\ draft'[u] = draft[u] /\ touched'[u] = touched[u]
                                   /\ conflict'[u] = conflict[u] /\ actions'[u] = actions[u]
       /\ draft'[t] \in {draft[t], d} /\ conflict'[t] \in {conflict[t], d}
       /\ draft'[t].rev # 0
  BY <1>8, <1>10 DEF DraftTypes
<1>12. DraftTypes'
  <2>1. draft' \in [Tabs -> Drafts!Drafts] /\ conflict' \in [Tabs -> Drafts!Drafts]
    <3>1. draft \in [Tabs -> Drafts!Drafts] /\ conflict \in [Tabs -> Drafts!Drafts]
      BY DEF DraftTypes
    <3> QED BY <1>5, <1>10, <3>1
  <2>2. touched' \in [Tabs -> BOOLEAN] /\ actions' \in [Tabs -> BOOLEAN]
    BY <1>10 DEF DraftTypes
  <2>3. page' \in [Tabs -> {"opening", "closed", "reading", "ready"}]
    BY <1>1 DEF DraftTypes
  <2>4. store' \in Drafts!Drafts /\ home' \in Drafts!Drafts
    BY <1>9, EmptyTypes DEF DraftTypes
  <2>5. \A u \in Tabs : draft'[u].rev # 0
    BY <1>11 DEF DraftTypes
  <2> QED BY <1>1, <1>4, <2>1, <2>2, <2>3, <2>4, <2>5 DEF DraftTypes
<1>13. Archived'
  <2>1. Archive(S)'
    BY <1>1, <1>6, ArchiveKept DEF KindsGrow
  <2>2. \A u \in Tabs : \A i \in DOMAIN found'[u] : found'[u][i].draft \in S
    <3>1. ASSUME NEW i \in DOMAIN found'[t] PROVE found'[t][i].draft \in S
      <4>1. i + 1 \in DOMAIN found[t] /\ found'[t][i] = found[t][i + 1]
        BY <1>3, <1>4
      <4> QED BY <1>6, <4>1 DEF DrawnFrom
    <3>2. ASSUME NEW u \in Tabs, u # t, NEW i \in DOMAIN found'[u] PROVE found'[u][i].draft \in S
      BY <1>4, <1>6, <3>2 DEF DrawnFrom
    <3> QED BY <3>1, <3>2
  <2>3. \A u \in Tabs : draft'[u] \in S /\ conflict'[u] \in S
    BY <1>6, <1>7, <1>11 DEF DrawnFrom
  <2>4. DrawnFrom(S)'
    BY <1>1, <1>6, <1>7, <1>9, <2>2, <2>3 DEF DrawnFrom
  <2> QED BY <2>1, <2>4 DEF Archived
<1>14. OnceOK' /\ PostsOK'
  BY <1>1 DEF OnceOK, PostsOK
<1>15. page[t] \in {"reading", "ready"} /\ (e.for = "first" <=> page[t] = "reading")
  <2>1. page[t] \in {"opening", "closed", "reading", "ready"}
    BY DEF DraftTypes
  <2> QED BY <1>1, <1>3, <2>1 DEF FirstOK
<1>16. page'[t] = "ready" /\ \A u \in Tabs : u # t => page'[u] = page[u]
  BY <1>1, <1>15 DEF DraftTypes
<1>17. FirstOK'
  <2>1. ASSUME NEW u \in Tabs, u # t
        PROVE  /\ page'[u] \in {"opening", "closed"} => found'[u] = <<>>
               /\ page'[u] = "reading" => found'[u] # <<>>
               /\ \A i \in DOMAIN found'[u] : found'[u][i].for = "first" <=> page'[u] = "reading" /\ i = 1
    BY <1>4, <1>16, <2>1 DEF FirstOK
  <2>2. ASSUME NEW i \in DOMAIN found'[t] PROVE found'[t][i].for # "first"
    <3>1. i + 1 \in DOMAIN found[t] /\ i + 1 # 1 /\ found'[t][i] = found[t][i + 1]
      BY <1>3, <1>4
    <3> QED BY <3>1 DEF FirstOK
  <2> QED BY <1>16, <2>1, <2>2 DEF FirstOK
<1>18. TouchOK'
  <2>1. \A u \in Tabs : conflict'[u] # Drafts!NoDraft => actions'[u]
    <3>1. ASSUME NEW u \in Tabs, conflict'[u] # Drafts!NoDraft PROVE actions'[u]
      <4>1. CASE actions' = [actions EXCEPT ![t] = TRUE] /\ u = t
        BY <4>1 DEF DraftTypes
      <4>2. CASE conflict'[u] = conflict[u] /\ actions'[u] = actions[u]
        BY <3>1, <4>2 DEF TouchOK
      <4> QED BY <1>10, <1>11, <4>1, <4>2
    <3> QED BY <3>1
  <2>2. "home" \notin draftActs'.kinds => home = Drafts!NoDraft
    BY <1>1 DEF TouchOK
  <2>3. ASSUME NEW u \in Tabs, "home" \notin draftActs'.kinds, touched'[u], ~timer'[u] PROVE Left(u)'
    <3>1. store' = store /\ d = e.draft
      BY <1>9, <2>2, <2>3
    <3>2. WillHear(u) => WillHear(u)'
      <4>1. ASSUME NEW v \in Tabs \ {u}, NEW i \in DOMAIN found[v], found[v][i].for = "saved"
            PROVE  \E j \in DOMAIN found'[v] : found'[v][j] = found[v][i]
        <5>1. CASE v # t
          BY <1>4, <5>1
        <5>2. CASE v = t
          <6>1. i # 1
            BY <1>1, <1>3, <4>1, <5>2 DEF Drafts!Reads
          <6> QED BY <1>3, <1>4, <5>2, <6>1
        <5> QED BY <5>1, <5>2
      <4> QED BY <1>1, <3>1, <4>1, WillHearKept
    <3>3. CASE u # t
      <4>1. touched[u] /\ ~timer[u]
        BY <1>1, <1>11, <2>3, <3>3
      <4>2. Left(u)
        BY <1>1, <2>3, <4>1 DEF TouchOK
      <4> QED BY <1>1, <1>4, <1>11, <1>16, <3>1, <3>2, <3>3, <4>2, LeftKept
    <3>4. CASE u = t
      <4>1. draft' = draft /\ touched' = touched
        <5>1. touched' # [touched EXCEPT ![t] = FALSE]
          BY <2>3, <3>4 DEF DraftTypes
        <5> QED BY <1>10, <5>1
      <4>2. draft[t] # store => WillShow(t) \/ WillHear(t) \/ Lapses(t)
        BY <1>1, <1>15, <2>3, <3>4, <4>1 DEF TouchOK, Left
      <4>3. ASSUME NEW i \in DOMAIN found[t], i # 1 PROVE i - 1 \in DOMAIN found'[t] /\ found'[t][i - 1] = found[t][i]
        BY <1>3, <1>4, <4>3
      <4>4. CASE d # Drafts!NoDraft
        <5>1. conflict'[t] # Drafts!NoDraft
          <6>1. touched' # [touched EXCEPT ![t] = FALSE]
            BY <2>3, <3>4 DEF DraftTypes
          <6> QED BY <1>10, <4>4, <6>1 DEF DraftTypes
        <5> QED BY <1>16, <3>4, <5>1 DEF Left, WillShow
      <4>5. CASE d = Drafts!NoDraft
        <5>1. conflict' = conflict /\ actions' = actions
          BY <1>10, <4>5
        <5>2. Lapses(t) => Lapses(t)'
          <6>1. ASSUME NEW i \in DOMAIN found[t], found[t][i].for = "aborted", found[t][i].draft.rev = draft[t].rev PROVE Lapses(t)'
            <7>1. i # 1
              BY <1>1, <1>3, <6>1 DEF Drafts!Reads
            <7> QED BY <4>1, <4>3, <6>1, <7>1 DEF Lapses
          <6> QED BY <1>1, <3>1, <4>1, <6>1 DEF Lapses
        <5>3. \A j \in DOMAIN found'[t] : j + 1 \in DOMAIN found[t] /\ (Hides(t, j)' => Hides(t, j + 1))
          BY <1>3, <1>4 DEF Hides
        <5>4. WillShow(t) => WillShow(t)'
          <6>1. Finds(t) => Finds(t)'
            <7>1. ASSUME NEW i \in DOMAIN found[t], found[t][i].for \in Drafts!Reads, found[t][i].draft # Drafts!NoDraft PROVE Finds(t)'
              <8>1. i # 1
                BY <1>3, <3>1, <4>5, <7>1
              <8> QED BY <4>3, <7>1, <8>1 DEF Finds
            <7> QED BY <7>1 DEF Finds
          <6>2. CASE actions[t] /\ \A i \in DOMAIN found[t] : ~Hides(t, i)
            BY <5>1, <5>3, <6>2 DEF WillShow
          <6>3. ASSUME NEW i \in DOMAIN found[t], found[t][i].for = "failed", \A j \in DOMAIN found[t] : j > i => ~Hides(t, j)
                PROVE  WillShow(t)'
            <7>1. i # 1
              BY <1>1, <1>3, <6>3 DEF Drafts!Reads
            <7>2. i - 1 \in DOMAIN found'[t] /\ found'[t][i - 1].for = "failed"
              BY <4>3, <6>3, <7>1
            <7>3. \A j \in DOMAIN found'[t] : j > i - 1 => ~Hides(t, j)'
              <8>1. \A j \in DOMAIN found'[t] : j \in Nat /\ i \in Nat
                BY <1>3, <1>4
              <8>2. \A j \in DOMAIN found'[t] : j > i - 1 => j + 1 > i
                BY <8>1
              <8> QED BY <5>3, <6>3, <8>2
            <7> QED BY <7>2, <7>3 DEF WillShow
          <6> QED BY <5>1, <6>1, <6>2, <6>3 DEF WillShow
        <5> QED BY <1>16, <3>1, <3>2, <3>4, <4>1, <4>2, <5>2, <5>4 DEF Left
      <4> QED BY <4>4, <4>5
    <3> QED BY <3>3, <3>4
  <2>4. "home" \notin draftActs'.kinds => home' = Drafts!NoDraft
    BY <1>9, <2>2
  <2> QED BY <2>1, <2>3, <2>4 DEF TouchOK
<1> QED BY <1>12, <1>13, <1>14, <1>17, <1>18

LEMMA ReloadKeeps ==
  ASSUME DraftInv, NEW t \in Tabs, Drafts!Reload(t)
  PROVE  DraftInv'
PROOF
<1> USE DEF DraftInv
<1>1. /\ UNCHANGED <<store, home, accepted>> /\ revs' = revs + 1
      /\ page' = [page EXCEPT ![t] = "opening"] /\ draft' = [draft EXCEPT ![t] = Drafts!Empty(revs + 1)]
      /\ touched' = [touched EXCEPT ![t] = FALSE] /\ timer' = [timer EXCEPT ![t] = FALSE]
      /\ conflict' = [conflict EXCEPT ![t] = Drafts!NoDraft] /\ actions' = [actions EXCEPT ![t] = FALSE]
      /\ uploads' = [uploads EXCEPT ![t] = {}] /\ submitted' = [submitted EXCEPT ![t] = Drafts!NoDraft]
      /\ pending' = [pending EXCEPT ![t] = FALSE]
      /\ found' = [found EXCEPT ![t] = <<>>] /\ mail' = [mail EXCEPT ![t] = <<>>]
      /\ lapsed' = lapsed \cup Drafts!Unannounced(t)
      /\ submissions' = {IF m.tab = t THEN [m EXCEPT !.tab = Drafts!Gone] ELSE m : m \in submissions}
  BY DEF Drafts!Reload
<1>2. draftActs'.kinds = draftActs.kinds \cup {"reload"} /\ KindsGrow
  BY ActsGrow DEF Drafts!Reload, KindsGrow
<1>3. PICK d : d = Drafts!Empty(revs + 1)
  OBVIOUS
<1>4. revs \in Nat /\ d \in Drafts!Drafts /\ d.rev = revs + 1 /\ d.text = 0 /\ d.file = Drafts!NoFile
  <2>1. revs \in Nat /\ revs + 1 \in Nat
    BY DEF DraftTypes
  <2> QED BY <1>3, <2>1, EmptyTypes
<1>5. /\ \A u \in Tabs : u # t => /\ page'[u] = page[u] /\ draft'[u] = draft[u] /\ touched'[u] = touched[u]
                                  /\ timer'[u] = timer[u] /\ conflict'[u] = conflict[u] /\ actions'[u] = actions[u]
                                  /\ uploads'[u] = uploads[u] /\ submitted'[u] = submitted[u] /\ pending'[u] = pending[u]
                                  /\ found'[u] = found[u] /\ mail'[u] = mail[u]
  BY <1>1 DEF DraftTypes
<1>6. /\ page'[t] = "opening" /\ draft'[t] = d /\ conflict'[t] = Drafts!NoDraft /\ uploads'[t] = {}
      /\ submitted'[t] = Drafts!NoDraft /\ found'[t] = <<>>
  BY <1>1, <1>3 DEF DraftTypes
<1>7. ~touched'[t]
  BY <1>1 DEF DraftTypes
<1>a. /\ \A i \in DOMAIN found[t] : found[t][i].for = "saved" => found[t][i].draft.rev \in lapsed'
      /\ lapsed \subseteq lapsed' /\ lapsed' \subseteq Nat
  <2>1. found[t] \in Seq(Entries)
    BY DEF DraftTypes
  <2>2. Drafts!ToSet(found[t]) = {found[t][i] : i \in DOMAIN found[t]}
    BY DEF Drafts!ToSet
  <2>3. \A i \in DOMAIN found[t] : found[t][i] \in Entries /\ found[t][i].draft.rev \in Nat
    BY <2>1 DEF Entries, Drafts!Drafts
  <2>4. Drafts!Unannounced(t) \subseteq Nat
    BY <2>2, <2>3 DEF Drafts!Unannounced
  <2>5. \A i \in DOMAIN found[t] : found[t][i].for = "saved" => found[t][i].draft.rev \in Drafts!Unannounced(t)
    BY <2>2 DEF Drafts!Unannounced
  <2> QED BY <1>1, <2>4, <2>5 DEF DraftTypes
<1>8. \A p \in submissions' : \E m \in submissions :
        /\ p.draft = m.draft /\ p \in Posts
        /\ p.tab = Drafts!Gone \/ (p = m /\ p.tab # t /\ (p.tab \in Tabs \/ p.tab = Drafts!Gone))
  <2>1. ASSUME NEW m \in submissions
        PROVE  LET p == IF m.tab = t THEN [m EXCEPT !.tab = Drafts!Gone] ELSE m IN
               /\ p.draft = m.draft /\ p \in Posts
               /\ p.tab = Drafts!Gone \/ (p = m /\ p.tab # t /\ (p.tab \in Tabs \/ p.tab = Drafts!Gone))
    BY <2>1 DEF DraftTypes, Posts
  <2> QED BY <1>1, <2>1
<1>9. DraftTypes'
  <2>1. /\ page' \in [Tabs -> {"opening", "closed", "reading", "ready"}]
        /\ draft' \in [Tabs -> Drafts!Drafts] /\ conflict' \in [Tabs -> Drafts!Drafts] /\ submitted' \in [Tabs -> Drafts!Drafts]
    BY <1>1, <1>3, <1>4, EmptyTypes DEF DraftTypes
  <2>2. /\ touched' \in [Tabs -> BOOLEAN] /\ timer' \in [Tabs -> BOOLEAN]
        /\ actions' \in [Tabs -> BOOLEAN] /\ pending' \in [Tabs -> BOOLEAN] /\ uploads' \in [Tabs -> SUBSET Nat]
    BY <1>1 DEF DraftTypes
  <2>3. found' \in [Tabs -> Seq(Entries)] /\ mail' \in [Tabs -> Seq(Nat \ {0})]
    <3>1. <<>> \in Seq(Entries) /\ <<>> \in Seq(Nat \ {0})
      OBVIOUS
    <3> QED BY <1>1, <3>1 DEF DraftTypes
  <2>4. submissions' \subseteq Posts
    BY <1>8
  <2>5. revs' \in Nat /\ \A u \in Tabs : draft'[u].rev # 0
    BY <1>1, <1>4, <1>5, <1>6 DEF DraftTypes
  <2> QED BY <1>1, <1>a, <2>1, <2>2, <2>3, <2>4, <2>5 DEF DraftTypes
<1>10. Archived'
  <2>1. PICK S : Archive(S) /\ DrawnFrom(S)
    BY DEF Archived
  <2>2. Archive(S \cup {d})'
    <3>1. d.text <= d.rev
      BY <1>4
    <3> QED BY <1>1, <1>2, <1>4, <2>1, <3>1, ArchiveGrows
  <2>3. Drafts!NoDraft \in S
    BY <2>1 DEF Archive
  <2>4. \A u \in Tabs : /\ draft'[u] \in S \cup {d} /\ conflict'[u] \in S /\ submitted'[u] \in S
                        /\ \A i \in DOMAIN found'[u] : found'[u][i].draft \in S
    <3>1. ASSUME NEW u \in Tabs, u # t
          PROVE  /\ draft'[u] \in S \cup {d} /\ conflict'[u] \in S /\ submitted'[u] \in S
                 /\ \A i \in DOMAIN found'[u] : found'[u][i].draft \in S
      BY <1>5, <2>1, <3>1 DEF DrawnFrom
    <3> QED BY <1>6, <2>3, <3>1
  <2>5. \A p \in submissions' : p.draft \in S
    BY <1>8, <2>1 DEF DrawnFrom
  <2>6. DrawnFrom(S \cup {d})'
    BY <1>1, <2>1, <2>4, <2>5 DEF DrawnFrom
  <2> QED BY <2>2, <2>6 DEF Archived
<1>11. OnceOK'
  <2>1. "file" \notin draftActs'.kinds => \A u \in Tabs : uploads'[u] = {}
    BY <1>2, <1>5, <1>6 DEF OnceOK
  <2>2. \A p \in submissions' : p.draft.text # 0
    BY <1>8 DEF OnceOK
  <2> QED BY <1>1, <2>1, <2>2 DEF OnceOK
<1>12. PostsOK'
  <2>1. ASSUME NEW p \in submissions', p.tab # Drafts!Gone PROVE pending'[p.tab] /\ p.draft = submitted'[p.tab]
    <3>1. p \in submissions /\ p.tab # t /\ p.tab \in Tabs
      BY <1>8, <2>1
    <3> QED BY <1>5, <2>1, <3>1 DEF PostsOK
  <2> QED BY <2>1 DEF PostsOK
<1>13. FirstOK'
  <2>1. ASSUME NEW u \in Tabs, u # t
        PROVE  /\ page'[u] \in {"opening", "closed"} => found'[u] = <<>>
               /\ page'[u] = "reading" => found'[u] # <<>>
               /\ \A i \in DOMAIN found'[u] : found'[u][i].for = "first" <=> page'[u] = "reading" /\ i = 1
    BY <1>5, <2>1 DEF FirstOK
  <2> QED BY <1>6, <2>1 DEF FirstOK
<1>14. TouchOK'
  <2>1. \A u \in Tabs : conflict'[u] # Drafts!NoDraft => actions'[u]
    BY <1>5, <1>6 DEF TouchOK
  <2>2. ASSUME NEW u \in Tabs, "home" \notin draftActs'.kinds, touched'[u], ~timer'[u] PROVE Left(u)'
    <3>1. u # t
      BY <1>7, <2>2
    <3>2. Left(u)
      BY <1>2, <1>5, <2>2, <3>1 DEF TouchOK
    <3>3. CASE store.rev \in lapsed'
      BY <1>1, <1>5, <1>a, <3>1, <3>2, <3>3, LeftKept
    <3>4. CASE store.rev \notin lapsed'
      <4>1. CASE \E i \in DOMAIN mail[u] : mail[u][i] = store.rev
        <5>1. WillHear(u)'
          BY <1>1, <1>5, <3>1, <4>1 DEF WillHear
        <5> QED BY <1>1, <1>5, <1>a, <3>1, <3>2, <5>1, LeftKept
      <4>2. CASE ~\E i \in DOMAIN mail[u] : mail[u][i] = store.rev
        <5>1. WillHear(u) => WillHear(u)'
          <6>1. ASSUME NEW v \in Tabs \ {u}, NEW i \in DOMAIN found[v], found[v][i].for = "saved", found[v][i].draft.rev = store.rev
                PROVE  WillHear(u)'
            <7>1. v # t
              BY <1>a, <3>4, <6>1
            <7> QED BY <1>1, <1>5, <6>1, <7>1 DEF WillHear
          <6> QED BY <4>2, <6>1 DEF WillHear
        <5> QED BY <1>1, <1>5, <1>a, <3>1, <3>2, <5>1, LeftKept
      <4> QED BY <4>1, <4>2
    <3> QED BY <3>3, <3>4
  <2>3. "home" \notin draftActs'.kinds => home' = Drafts!NoDraft
    BY <1>1, <1>2 DEF TouchOK
  <2> QED BY <2>1, <2>2, <2>3 DEF TouchOK
<1> QED BY <1>9, <1>10, <1>11, <1>12, <1>13, <1>14

-----------------------------------------------------------------------------
LEMMA DraftInvStep ==
  ASSUME DraftInv, [Drafts!Next]_draftVars
  PROVE  DraftInv'
PROOF
<1>1. CASE UNCHANGED draftVars
  <2>1. UNCHANGED <<page, draft, touched, timer, conflict, actions, uploads, submitted, pending, found, mail, store, home,
                    lapsed, submissions, accepted, revs, draftActs>>
    BY <1>1 DEF draftVars
  <2>2. DraftTypes' /\ OnceOK' /\ PostsOK' /\ FirstOK'
    BY <2>1 DEF DraftInv, DraftTypes, OnceOK, PostsOK, FirstOK
  <2>3. TouchOK'
    BY <2>1 DEF DraftInv, TouchOK, Left, WillShow, Finds, Hides, WillHear, Lapses
  <2>4. Archived'
    BY <2>1 DEF DraftInv, Archived, Archive, DrawnFrom
  <2> QED BY <2>2, <2>3, <2>4 DEF DraftInv
<1>2. ASSUME NEW t \in Tabs, Drafts!User(t) PROVE DraftInv'
  BY <1>2, EditKeeps, RecoverKeeps, SubmitKeeps, ReloadKeeps, ResaveKeeps DEF Drafts!User
<1>3. ASSUME NEW t \in Tabs, Drafts!Page(t) PROVE DraftInv'
  BY <1>3, EditKeeps, ResaveKeeps, OpensKeeps, FailsKeeps, ReceiveKeeps, ReadDoneKeeps, SaveHeardKeeps DEF Drafts!Page
<1> QED BY <1>1, <1>2, <1>3, HomeKeeps, AnsweredKeeps DEF Drafts!Next

(* A step of the page is one of the drafts, or leaves them alone.          *)
LEMMA PageIsDrafts == [PageNext]_chatVars => [Drafts!Next]_draftVars
BY DEF PageNext, FeedsNext, ViewNext, DraftsNext, chatVars

LEMMA DraftInvariant == PageSpec => []DraftInv
PROOF
<1>1. PageInit => DraftInv
  BY DraftInvInit DEF PageInit
<1>2. DraftInv /\ [PageNext]_chatVars => DraftInv'
  BY PageIsDrafts, DraftInvStep
<1> QED BY <1>1, <1>2, PTL DEF PageSpec

\* However a draft is sent again, after a lost answer, by another tab or from a page loaded
\* anew, the server accepts it once (an upload aside)
THEOREM DraftsAcceptedOnce == PageSpec => []AcceptedOnce
PROOF
<1>1. ASSUME DraftInv, "file" \notin draftActs.kinds, NEW i \in DOMAIN accepted, NEW j \in DOMAIN accepted,
             accepted[i].text = accepted[j].text
      PROVE  i = j
  <2>1. PICK S : Archive(S) /\ DrawnFrom(S)
    BY <1>1 DEF DraftInv, Archived
  <2>2. accepted[i] \in S /\ accepted[j] \in S /\ accepted[i].text # 0 /\ accepted[j].text # 0
    BY <1>1, <2>1 DEF DrawnFrom, DraftInv, OnceOK
  <2>3. accepted[i].rev = accepted[j].rev
    BY <1>1, <2>1, <2>2 DEF Archive
  <2> QED BY <1>1, <2>3 DEF DraftInv, OnceOK
<1>2. DraftInv => AcceptedOnce
  BY <1>1 DEF AcceptedOnce, Drafts!AcceptedOnce
<1> QED BY <1>2, DraftInvariant, PTL

\* A draft the user touched is, once nothing is outstanding, the record, or the tab shows
\* that it is not (aside from a save reported before it was aborted, a record whose page was
\* left before it announced it, and a provisional draft moved over the record)
THEOREM TouchedDraftsKept == PageSpec => []TouchedIsStoredOrShown
PROOF
<1>1. ASSUME DraftInv PROVE Drafts!DraftsTypeOK
  <2>1. PICK S : Archive(S) /\ DrawnFrom(S)
    BY <1>1 DEF DraftInv, Archived
  <2>2. \A t \in Tabs : draft[t].text <= draft[t].rev /\ draft[t].rev <= revs
    BY <2>1 DEF Archive, DrawnFrom
  <2> QED BY <1>1, <2>2 DEF DraftInv, DraftTypes, Drafts!DraftsTypeOK
<1>2. ASSUME DraftInv, \A t \in Tabs : found[t] = <<>> /\ mail[t] = <<>> /\ ~timer[t], "home" \notin draftActs.kinds,
             NEW t \in Tabs, page[t] = "ready", touched[t]
      PROVE  draft[t] = store \/ actions[t] \/ draft[t].rev \in lapsed \/ store.rev \in lapsed
  <2>1. draft[t] # store => WillShow(t) \/ WillHear(t) \/ Lapses(t)
    BY <1>2 DEF DraftInv, TouchOK, Left
  <2>2. WillShow(t) => actions[t]
    BY <1>2 DEF DraftInv, TouchOK, WillShow, Finds
  <2>3. ~WillHear(t)
    BY <1>2 DEF WillHear
  <2> QED BY <1>2, <2>1, <2>2, <2>3 DEF Lapses
<1>3. DraftInv => TouchedIsStoredOrShown
  BY <1>1, <1>2 DEF TouchedIsStoredOrShown, Drafts!TouchedIsStoredOrShown
<1> QED BY <1>3, DraftInvariant, PTL

LEMMA TypedStep ==
  ASSUME DraftInv, Drafts!Next, NEW t \in Tabs
  PROVE  Drafts!TypedKept(t)
PROOF
<1> SUFFICES ASSUME page[t] = "ready", page'[t] = "ready", touched[t], draft'[t].text # draft[t].text
             PROVE  \/ draft'[t].text = revs + 1
                    \/ draft'[t].text = 0 /\ \E i \in DOMAIN accepted' : accepted'[i].text = draft[t].text
                    \/ conflict[t] # Drafts!NoDraft /\ draft'[t] = conflict[t]
  BY DEF Drafts!TypedKept
<1>0. DraftTypes
  BY DEF DraftInv
<1>1. draft'[t] # draft[t]
  OBVIOUS
<1>2. ASSUME NEW u \in Tabs, NEW d, draft' = [draft EXCEPT ![u] = d] PROVE u = t /\ draft'[t] = d
  BY <1>0, <1>1, <1>2 DEF DraftTypes
<1>3. ASSUME NEW u \in Tabs, Drafts!Type(u) \/ Drafts!AddFile(u) \/ Drafts!RemoveFile(u)
      PROVE  draft'[t].text = revs + 1
  <2>1. PICK file : Drafts!MarkChanged(u, Drafts!Edited(u, file))
    BY <1>3 DEF Drafts!Type, Drafts!AddFile, Drafts!RemoveFile
  <2>2. draft' = [draft EXCEPT ![u] = [Drafts!Edited(u, file) EXCEPT !.rev = revs + 1]]
    BY <2>1 DEF Drafts!MarkChanged
  <2>3. draft'[t] = [Drafts!Edited(u, file) EXCEPT !.rev = revs + 1]
    BY <1>2, <2>2
  <2>4. draft[u] \in Drafts!Drafts
    BY <1>0 DEF DraftTypes
  <2> QED BY <2>3, <2>4 DEF Drafts!Edited, Drafts!Drafts
<1>4. ASSUME NEW u \in Tabs, NEW id \in uploads[u], NEW st \in {"ready", "failed"}, Drafts!UploadSettles(u, id, st) PROVE FALSE
  <2> DEFINE e == IF draft[u].file.id = id THEN [draft[u] EXCEPT !.file.st = st] ELSE draft[u]
  <2>1. draft[u] \in Drafts!Drafts
    BY <1>0 DEF DraftTypes
  <2>2. e \in Drafts!Drafts /\ e.text = draft[u].text
    BY <2>1 DEF Drafts!Drafts
  <2>3. Drafts!MarkChanged(u, e)
    BY <1>4 DEF Drafts!UploadSettles
  <2> HIDE DEF e
  <2>4. draft' = [draft EXCEPT ![u] = [e EXCEPT !.rev = revs + 1]]
    BY <2>3 DEF Drafts!MarkChanged
  <2>5. u = t /\ draft'[t] = [e EXCEPT !.rev = revs + 1]
    BY <1>2, <2>4
  <2> QED BY <2>2, <2>5 DEF Drafts!Drafts
<1>5. ASSUME NEW u \in Tabs, Drafts!ReadDone(u) PROVE FALSE
  <2> DEFINE e == Head(found[u])
             d == IF e.draft = Drafts!NoDraft THEN home ELSE e.draft
  <2>1. Drafts!Take(u, d, e.for) /\ found[u] # <<>>
    BY <1>5 DEF Drafts!ReadDone
  <2>2. found[u] \in Seq(Entries)
    BY <1>0 DEF DraftTypes
  <2>3. e = found[u][1] /\ 1 \in DOMAIN found[u]
    BY <2>1, <2>2, Rest
  <2> HIDE DEF d, e
  <2>4. draft' = [draft EXCEPT ![u] = d] /\ (e.for = "first" \/ ~touched[u])
    BY <1>1, <2>1 DEF Drafts!Take, Drafts!Apply
  <2>5. u = t
    BY <1>2, <2>4
  <2> QED BY <2>3, <2>4, <2>5 DEF DraftInv, FirstOK
<1>6. ASSUME NEW u \in Tabs, Drafts!Recover(u) PROVE conflict[t] # Drafts!NoDraft /\ draft'[t] = conflict[t]
  <2>1. draft' = [draft EXCEPT ![u] = conflict[u]] /\ conflict[u] # Drafts!NoDraft
    BY <1>6 DEF Drafts!Recover, Drafts!Apply
  <2> QED BY <1>2, <2>1
<1>7. ASSUME NEW u \in Tabs, Drafts!Reload(u) PROVE FALSE
  <2>1. draft' = [draft EXCEPT ![u] = Drafts!Empty(revs + 1)] /\ page' = [page EXCEPT ![u] = "opening"]
    BY <1>7 DEF Drafts!Reload
  <2>2. u = t
    BY <1>2, <2>1
  <2> QED BY <1>0, <2>1, <2>2 DEF DraftTypes
<1>8. ASSUME NEW m \in submissions, Drafts!Answered(m)
      PROVE  draft'[t].text = 0 /\ \E i \in DOMAIN accepted' : accepted'[i].text = draft[t].text
  <2>1. accepted' = Drafts!Admit(m.draft) /\ m.tab # Drafts!Gone /\ Drafts!Acknowledge(m.tab)
    BY <1>1, <1>8 DEF Drafts!Answered, Drafts!inputVars
  <2>2. m.tab \in Tabs /\ m.draft \in Drafts!Drafts /\ m.draft.text # 0
    BY <1>0, <2>1 DEF DraftTypes, Posts, DraftInv, OnceOK
  <2>3. draft' = [draft EXCEPT ![m.tab] = IF draft[m.tab].rev = submitted[m.tab].rev THEN Drafts!Empty(revs + 1) ELSE draft[m.tab]]
    BY <2>1 DEF Drafts!Acknowledge
  <2>4. m.tab = t /\ draft[t].rev = submitted[t].rev /\ draft'[t] = Drafts!Empty(revs + 1)
    BY <1>1, <1>2, <2>2, <2>3
  <2>5. PICK S : Archive(S) /\ DrawnFrom(S)
    BY DEF DraftInv, Archived
  <2>6. submitted[t] = m.draft
    BY <2>1, <2>4 DEF DraftInv, PostsOK
  <2>7. draft[t] = m.draft
    BY <2>4, <2>5, <2>6 DEF Archive, DrawnFrom
  <2>8. /\ \A i \in DOMAIN accepted' : accepted'[i] = m.draft \/ \E j \in DOMAIN accepted : accepted'[i] = accepted[j]
        /\ \E i \in DOMAIN accepted' : accepted'[i].rev = m.draft.rev
    BY <1>0, <2>1, <2>2, AdmitOnce DEF DraftInv
  <2>9. \A i \in DOMAIN accepted' : accepted'[i] \in S
    BY <2>5, <2>7, <2>8 DEF DrawnFrom
  <2>10. \E i \in DOMAIN accepted' : accepted'[i] = m.draft
    BY <2>5, <2>7, <2>8, <2>9 DEF Archive, DrawnFrom
  <2>11. draft'[t].text = 0
    <3>1. revs + 1 \in Nat
      BY <1>0 DEF DraftTypes
    <3> QED BY <2>4, <3>1, EmptyTypes
  <2> QED BY <2>7, <2>10, <2>11
<1>9. ASSUME NEW u \in Tabs, \/ Drafts!Submit(u) \/ Drafts!Reconnect(u) \/ Drafts!SaveTimer(u) \/ Drafts!SaveHeard(u)
                             \/ Drafts!DatabaseOpens(u) \/ Drafts!DatabaseFails(u) \/ Drafts!ReceiveUpdate(u)
      PROVE  FALSE
  BY <1>1, <1>9 DEF Drafts!Submit, Drafts!Reconnect, Drafts!SaveTimer, Drafts!SaveHeard, Drafts!DatabaseOpens, Drafts!DatabaseFails,
     Drafts!ReceiveUpdate, Drafts!inputVars
<1>10. CASE Drafts!HomeSave
  BY <1>1, <1>10 DEF Drafts!HomeSave, Drafts!inputVars
<1> QED BY <1>3, <1>4, <1>5, <1>6, <1>7, <1>8, <1>9, <1>10 DEF Drafts!Next, Drafts!User, Drafts!Page

\* Once the first read is over, typed text leaves the composer only by the user's hand, or
\* because exactly it was accepted, or for the conflicting draft that is shown
THEOREM TypedTextStays == PageSpec => TypedTextKept
PROOF
<1>1. DraftInv /\ [PageNext]_chatVars => [\A t \in Tabs : Drafts!TypedKept(t)]_chatVars
  <2> SUFFICES ASSUME DraftInv, [PageNext]_chatVars PROVE \A t \in Tabs : Drafts!TypedKept(t)
    OBVIOUS
  <2>1. CASE Drafts!Next
    BY <2>1, TypedStep
  <2>2. CASE UNCHANGED draftVars
    BY <2>2 DEF draftVars, Drafts!TypedKept
  <2> QED BY <2>1, <2>2, PageIsDrafts
<1> QED BY <1>1, DraftInvariant, PTL DEF PageSpec, TypedTextKept

(***************************************************************************)
(* The turns of the page (ChatTurn)                                        *)
(***************************************************************************)
\* The fields of the server's state and of an answer
ServerFields(W, Q, O) == [rev : Nat, work : W, queued : Q, out : O]
ServerShape(s) == \E W, Q, O : s \in ServerFields(W, Q, O)
AnswerShape(a) == \E C, S : a \in [call : C, ok : BOOLEAN, s : S]

TurnShapes ==
  /\ ServerShape(turnSrv) /\ turnRev \in Nat
  /\ \A a \in turnAnswers : AnswerShape(a)

\* A fetched state that is as new as the server's has its submission under way
StateTold(s) == s.rev \in Nat /\ s.rev <= turnSrv.rev /\ (s.rev = turnSrv.rev => s.work = turnSrv.work)

\* What is held of a turn was so at a revision the server had
TurnKnown(turn, at) == at \in Nat /\ at <= turnSrv.rev /\ Turn!IsTurnAt(turn, at)

SteerInv ==
  /\ TurnShapes
  /\ TurnKnown(activeTurn, turnRev)
  /\ \A c \in turnCalls : c.kind = "steer" => TurnKnown(c.turn, c.rev)
  /\ \A a \in turnAnswers : a.call.kind = "state" /\ a.ok => StateTold(a.s)
  /\ \A s \in steered : s.stopped = s.shown

\* The server's next state: whatever changes the submission under way is a new revision
RevisionMoves ==
  /\ ServerShape(turnSrv')
  /\ \/ turnSrv'.rev > turnSrv.rev
     \/ turnSrv'.rev = turnSrv.rev /\ turnSrv'.work = turnSrv.work

Newer(s, u) == ServerShape(u) /\ u.rev > s.rev

LEMMA ShapeRev == ASSUME NEW s, ServerShape(s) PROVE s.rev \in Nat /\ s.rev + 1 \in Nat
BY DEF ServerShape, ServerFields

LEMMA DispatchNewer ==
  ASSUME NEW s, ServerShape(s)
  PROVE  Newer(s, Turn!Dispatch(s))
PROOF
<1> DEFINE t == Turn!Latest(s) + 1
           p == [s.out EXCEPT ![t] = "running"]
           u == [s EXCEPT !.rev = s.rev + 1, !.work = t, !.out = p]
<1>1. PICK W, Q, O : s \in ServerFields(W, Q, O)
  BY DEF ServerShape
<1>2. Turn!Dispatch(s) = u
  BY DEF Turn!Dispatch
<1> HIDE DEF t, p
<1>3. u \in ServerFields({t}, Q, {p}) /\ u.rev = s.rev + 1
  BY <1>1, ShapeRev DEF ServerFields
<1> HIDE DEF u
<1> QED BY <1>2, <1>3, ShapeRev DEF Newer, ServerShape

LEMMA AdmitNewer ==
  ASSUME NEW s, ServerShape(s)
  PROVE  Newer(s, Turn!Admit(s))
PROOF
<1> DEFINE n == s.queued + 1
           u == [s EXCEPT !.rev = s.rev + 1, !.queued = n]
<1>1. PICK W, Q, O : s \in ServerFields(W, Q, O)
  BY DEF ServerShape
<1>2. Turn!Admit(s) = u \/ Turn!Admit(s) = Turn!Dispatch(s)
  BY DEF Turn!Admit
<1> HIDE DEF n
<1>3. u \in ServerFields(W, {n}, O) /\ u.rev = s.rev + 1
  BY <1>1, ShapeRev DEF ServerFields
<1> HIDE DEF u
<1>4. Newer(s, u)
  BY <1>3, ShapeRev DEF Newer, ServerShape
<1> QED BY <1>2, <1>4, DispatchNewer

LEMMA StoppedNewer ==
  ASSUME NEW s, ServerShape(s), NEW t, NEW e
  PROVE  Newer(s, Turn!Stopped(s, t, e))
PROOF
<1> DEFINE p == [s.out EXCEPT ![t] = e]
           u == [s EXCEPT !.rev = s.rev + 1, !.work = 0, !.queued = 0, !.out = p]
<1>1. PICK W, Q, O : s \in ServerFields(W, Q, O)
  BY DEF ServerShape
<1>2. Turn!Stopped(s, t, e) = u
  BY DEF Turn!Stopped
<1> HIDE DEF p
<1>3. u \in ServerFields({0}, {0}, {p}) /\ u.rev = s.rev + 1
  BY <1>1, ShapeRev DEF ServerFields
<1> HIDE DEF u
<1> QED BY <1>2, <1>3, ShapeRev DEF Newer, ServerShape

\* A settled submission: nothing is under way, and what waits is one fewer or none
LEMMA SettledNewer ==
  ASSUME NEW s, ServerShape(s), NEW n
  PROVE  LET over == [s EXCEPT !.rev = @ + 1, !.work = 0] IN Newer(s, over) /\ Newer(s, [over EXCEPT !.queued = n])
PROOF
<1> DEFINE u == [s EXCEPT !.rev = s.rev + 1, !.work = 0]
           v == [u EXCEPT !.queued = n]
<1>1. PICK W, Q, O : s \in ServerFields(W, Q, O)
  BY DEF ServerShape
<1>2. u \in ServerFields({0}, Q, O) /\ u.rev = s.rev + 1
  BY <1>1, ShapeRev DEF ServerFields
<1> HIDE DEF u
<1>3. v \in ServerFields({0}, {n}, O) /\ v.rev = s.rev + 1
  BY <1>2 DEF ServerFields
<1> HIDE DEF v
<1>4. Newer(s, u) /\ Newer(s, v)
  BY <1>2, <1>3, ShapeRev DEF Newer, ServerShape
<1> QED BY <1>4 DEF u, v

\* What ends a turn and settles nothing
LEMMA EndedSame ==
  ASSUME NEW s, ServerShape(s), NEW t, NEW e
  PROVE  LET u == [s EXCEPT !.out = [@ EXCEPT ![t] = e]] IN ServerShape(u) /\ u.rev = s.rev /\ u.work = s.work
PROOF
<1> DEFINE p == [s.out EXCEPT ![t] = e]
           u == [s EXCEPT !.out = p]
<1>1. PICK W, Q, O : s \in ServerFields(W, Q, O)
  BY DEF ServerShape
<1> HIDE DEF p
<1>2. u \in ServerFields(W, Q, {p}) /\ u.rev = s.rev /\ u.work = s.work
  BY <1>1 DEF ServerFields
<1> HIDE DEF u
<1>3. ServerShape(u)
  BY <1>2 DEF ServerShape
<1> QED BY <1>2, <1>3 DEF u, p

\* What was known of a turn stays known as the server goes on
LEMMA KnownStays ==
  ASSUME ServerShape(turnSrv), RevisionMoves
  PROVE  /\ \A t, k : TurnKnown(t, k) => k \in Nat /\ k <= turnSrv'.rev /\ Turn!IsTurnAt(t, k)'
         /\ \A s : StateTold(s) => StateTold(s)'
PROOF
<1>1. ASSUME NEW t, NEW k, TurnKnown(t, k) PROVE k \in Nat /\ k <= turnSrv'.rev /\ Turn!IsTurnAt(t, k)'
  BY <1>1, ShapeRev DEF RevisionMoves, TurnKnown, Turn!IsTurnAt
<1>2. ASSUME NEW s, StateTold(s) PROVE StateTold(s)'
  BY <1>2, ShapeRev DEF RevisionMoves, StateTold
<1> QED BY <1>1, <1>2

\* Every action moves the server so
LEMMA StepServer ==
  ASSUME TurnShapes, [Turn!Next]_(Turn!vars)
  PROVE  RevisionMoves
PROOF
<1> DEFINE s == turnSrv
<1>0. ServerShape(s) /\ s.rev \in Nat
  BY ShapeRev DEF TurnShapes
<1>1. ASSUME UNCHANGED turnSrv PROVE RevisionMoves
  BY <1>0, <1>1 DEF RevisionMoves
<1>2. ASSUME Newer(s, turnSrv') PROVE RevisionMoves
  BY <1>2 DEF Newer, RevisionMoves
<1>3. ASSUME Turn!Announce(Turn!Admit(s)) PROVE RevisionMoves
  BY <1>0, <1>2, <1>3, AdmitNewer DEF Turn!Announce
<1>4. CASE Turn!TurnEnds
  <2>1. PICK e : turnSrv' = [s EXCEPT !.out = [@ EXCEPT ![Turn!Latest(s)] = e]]
    BY <1>4 DEF Turn!TurnEnds
  <2>2. ServerShape(turnSrv') /\ turnSrv'.rev = s.rev /\ turnSrv'.work = s.work
    BY <1>0, <2>1, EndedSame
  <2> QED BY <2>2 DEF RevisionMoves
<1>5. CASE Turn!Settle
  <2> DEFINE over == [s EXCEPT !.rev = @ + 1, !.work = 0]
  <2>1. \/ turnSrv' = Turn!Dispatch([over EXCEPT !.queued = @ - 1])
        \/ turnSrv' = over
        \/ turnSrv' = [over EXCEPT !.queued = 0]
    BY <1>5 DEF Turn!Settle, Turn!Announce
  <2>4. Newer(s, over) /\ Newer(s, [over EXCEPT !.queued = @ - 1]) /\ Newer(s, [over EXCEPT !.queued = 0])
    BY <1>0, SettledNewer
  <2> HIDE DEF over
  <2>5. Newer([over EXCEPT !.queued = @ - 1], Turn!Dispatch([over EXCEPT !.queued = @ - 1]))
    BY <2>4, DispatchNewer DEF Newer
  <2>6. Newer(s, Turn!Dispatch([over EXCEPT !.queued = @ - 1]))
    BY <1>0, <2>4, <2>5, ShapeRev DEF Newer
  <2> QED BY <1>2, <2>1, <2>4, <2>6
<1>6. ASSUME NEW c \in turnCalls, Turn!Serve(c) PROVE RevisionMoves
  <2>1. CASE Turn!ServeRead(c)
    BY <1>1, <2>1 DEF Turn!ServeRead, Turn!Ignore
  <2>2. CASE Turn!ServeSend(c)
    BY <1>3, <2>2 DEF Turn!ServeSend
  <2>3. CASE Turn!ServeCancel(c)
    <3>1. \/ UNCHANGED turnSrv
          \/ \E e : turnSrv' = Turn!Stopped(s, c.turn, e)
      BY <2>3 DEF Turn!ServeCancel, Turn!Announce
    <3> QED BY <1>0, <1>1, <1>2, <3>1, StoppedNewer
  <2>4. CASE Turn!ServeSteer(c)
    <3>1. \/ UNCHANGED turnSrv
          \/ turnSrv' = Turn!Stopped(s, s.work, "completed")
          \/ turnSrv' = Turn!Dispatch(Turn!Stopped(s, s.work, "cancelled"))
      BY <2>4 DEF Turn!ServeSteer, Turn!Announce, Turn!Ignore
    <3>2. Newer(s, Turn!Stopped(s, s.work, "completed")) /\ Newer(s, Turn!Stopped(s, s.work, "cancelled"))
      BY <1>0, StoppedNewer
    <3>3. Newer(Turn!Stopped(s, s.work, "cancelled"), Turn!Dispatch(Turn!Stopped(s, s.work, "cancelled")))
      BY <3>2, DispatchNewer DEF Newer
    <3>4. Newer(s, Turn!Dispatch(Turn!Stopped(s, s.work, "cancelled")))
      BY <1>0, <3>2, <3>3, ShapeRev DEF Newer
    <3> QED BY <1>1, <1>2, <3>1, <3>2, <3>4
  <2> QED BY <1>6, <2>1, <2>2, <2>3, <2>4 DEF Turn!Serve
<1>7. CASE Turn!OtherViewer
  BY <1>3, <1>7 DEF Turn!OtherViewer
<1>8. CASE \/ Turn!HearChange \/ Turn!Poll \/ Turn!PollAnswered \/ Turn!Send \/ Turn!Steer \/ Turn!Stop \/ Turn!Lose
           \/ Turn!EventsLost
           \/ \E t \in Turn!Turns : Turn!StreamOpens(t) \/ Turn!StreamEnds(t) \/ Turn!StreamRefused(t)
           \/ \E c \in turnCalls : Turn!Refreshed(c)
           \/ \E a \in turnAnswers : Turn!Answered(a)
           \/ UNCHANGED Turn!vars
  BY <1>1, <1>8
     DEF Turn!HearChange, Turn!Poll, Turn!PollTick, Turn!PollAnswered, Turn!Send, Turn!Steer, Turn!Stop, Turn!Lose,
         Turn!EventsLost, Turn!StreamOpens, Turn!StreamEnds, Turn!StreamRefused, Turn!Refreshed, Turn!Answered, Turn!SendAnswered,
         Turn!SteerAnswered, Turn!StateAnswered, Turn!StopAnswered, Turn!CancelAnswered, Turn!vars
<1> QED
  BY <1>4, <1>5, <1>6, <1>7, <1>8 DEF Turn!Next, Turn!Progress, Turn!PollRound

LEMMA ReplyShape ==
  ASSUME NEW c, NEW ok \in BOOLEAN, NEW s
  PROVE  AnswerShape([call |-> c, ok |-> ok, s |-> s])
BY DEF AnswerShape

\* A request made by a step is a steer only when the user's hand makes it
NewCalls ==
  \A c \in turnCalls' : c \in turnCalls \/ (c.kind = "steer" => c.turn = activeTurn /\ c.rev = turnRev)

\* An answer made by a step tells the state the server has
NewAnswers ==
  \A a \in turnAnswers' :
    \/ a \in turnAnswers
    \/ AnswerShape(a) /\ (a.call.kind = "state" /\ a.ok => a.s = Turn!Snapshot(turnSrv) /\ UNCHANGED turnSrv)

LEMMA ReplyAnswers ==
  ASSUME NEW c, NEW ok \in BOOLEAN, NEW s, Turn!Reply(c, ok, s),
         c.kind = "state" /\ ok => s = Turn!Snapshot(turnSrv) /\ UNCHANGED turnSrv
  PROVE  NewCalls /\ NewAnswers
BY ReplyShape DEF Turn!Reply, NewCalls, NewAnswers

LEMMA FewerCalls ==
  ASSUME turnCalls' \subseteq turnCalls, turnAnswers' \subseteq turnAnswers
  PROVE  NewCalls /\ NewAnswers
BY DEF NewCalls, NewAnswers

LEMMA NewCall ==
  ASSUME NEW kind, NEW turn, NEW defer, kind # "steer",
         \A c \in turnCalls' :
           c \in turnCalls \/ c = [kind |-> kind, turn |-> turn, rev |-> 0, defer |-> defer],
         turnAnswers' \subseteq turnAnswers
  PROVE  NewCalls /\ NewAnswers
BY DEF NewCalls, NewAnswers

LEMMA StepCalls ==
  ASSUME TurnShapes, [Turn!Next]_(Turn!vars)
  PROVE  NewCalls /\ NewAnswers
PROOF
<1>1. ASSUME NEW c \in turnCalls, Turn!Serve(c) PROVE NewCalls /\ NewAnswers
  <2>1. CASE Turn!ServeRead(c)
    BY <2>1, ReplyAnswers DEF Turn!ServeRead, Turn!Ignore
  <2>2. CASE Turn!ServeSend(c)
    BY <2>2, ReplyAnswers DEF Turn!ServeSend
  <2>3. CASE Turn!ServeCancel(c)
    <3>1. c.kind = "cancel" /\ \E ok \in BOOLEAN : \E s : Turn!Reply(c, ok, s)
      BY <2>3 DEF Turn!ServeCancel, Turn!Answer
    <3> QED BY <3>1, ReplyAnswers
  <2>4. CASE Turn!ServeSteer(c)
    <3>1. c.kind = "steer" /\ \E ok \in BOOLEAN : \E s : Turn!Reply(c, ok, s)
      BY <2>4 DEF Turn!ServeSteer, Turn!Answer
    <3> QED BY <3>1, ReplyAnswers
  <2> QED BY <1>1, <2>1, <2>2, <2>3, <2>4 DEF Turn!Serve
<1>2. CASE Turn!Lose
  <2>1. CASE \E c \in turnCalls : Turn!Answer(c, FALSE)
    BY <2>1, ReplyAnswers DEF Turn!Answer
  <2>2. CASE \E a \in turnAnswers :
               turnAnswers' = (turnAnswers \ {a}) \cup {[a EXCEPT !.ok = FALSE]} /\ UNCHANGED turnCalls
    <3>1. PICK a \in turnAnswers :
               turnAnswers' = (turnAnswers \ {a}) \cup {[a EXCEPT !.ok = FALSE]} /\ UNCHANGED turnCalls
      BY <2>2
    <3>2. PICK C, S : a \in [call : C, ok : BOOLEAN, s : S]
      BY DEF TurnShapes, AnswerShape
    <3> DEFINE b == [a EXCEPT !.ok = FALSE]
    <3>3. b \in [call : C, ok : BOOLEAN, s : S] /\ b.ok = FALSE
      BY <3>2
    <3> HIDE DEF b
    <3>4. AnswerShape(b)
      BY <3>3 DEF AnswerShape
    <3>5. turnAnswers' = (turnAnswers \ {a}) \cup {b}
      BY <3>1 DEF b
    <3> QED BY <3>1, <3>3, <3>4, <3>5 DEF NewCalls, NewAnswers
  <2> QED BY <1>2, <2>1, <2>2 DEF Turn!Lose
<1>3. CASE Turn!Steer
  <2>1. /\ turnCalls' = turnCalls \cup {[Turn!Call("steer", activeTurn) EXCEPT !.rev = turnRev]}
        /\ UNCHANGED turnAnswers
    BY <1>3 DEF Turn!Steer
  <2>2. LET c == [Turn!Call("steer", activeTurn) EXCEPT !.rev = turnRev] IN c.turn = activeTurn /\ c.rev = turnRev
    BY DEF Turn!Call
  <2> QED BY <2>1, <2>2 DEF NewCalls, NewAnswers
<1>4. ASSUME NEW defer \in BOOLEAN, Turn!Finalize(defer), turnAnswers' \subseteq turnAnswers PROVE NewCalls /\ NewAnswers
  <2>1. \A c \in turnCalls' : c \in turnCalls \/ c = [kind |-> "messages", turn |-> 0, rev |-> 0, defer |-> defer]
    BY <1>4 DEF Turn!Finalize, Turn!Messages, Turn!Call
  <2> QED BY <1>4, <2>1, NewCall
<1>5. ASSUME NEW a \in turnAnswers, Turn!Answered(a) PROVE NewCalls /\ NewAnswers
  <2>1. turnAnswers' \subseteq turnAnswers
    BY <1>5 DEF Turn!Answered, Turn!SendAnswered, Turn!SteerAnswered, Turn!StateAnswered, Turn!StopAnswered,
                Turn!CancelAnswered
  <2>2. CASE Turn!SendAnswered(a) \/ Turn!SteerAnswered(a)
    <3>1. \A c \in turnCalls' : c \in turnCalls \/ c = [kind |-> "state", turn |-> 0, rev |-> 0, defer |-> FALSE]
      BY <2>2 DEF Turn!SendAnswered, Turn!SteerAnswered, Turn!GetState, Turn!Call, Turn!ctlVars
    <3> QED BY <2>1, <3>1, NewCall
  <2>3. CASE Turn!StateAnswered(a)
    BY <2>1, <2>3, FewerCalls DEF Turn!StateAnswered
  <2>4. CASE Turn!StopAnswered(a)
    <3>1. \A c \in turnCalls' :
            c \in turnCalls \/ c = [kind |-> "cancel", turn |-> a.s.turn, rev |-> 0, defer |-> FALSE]
      BY <2>4 DEF Turn!StopAnswered, Turn!Call
    <3> QED BY <2>1, <3>1, NewCall
  <2>5. CASE Turn!CancelAnswered(a)
    <3>1. CASE a.ok /\ Turn!Finalize(recovery # 0)
      BY <1>4, <2>1, <3>1
    <3>2. CASE UNCHANGED turnCalls
      BY <2>1, <3>2, FewerCalls
    <3> QED BY <2>5, <3>1, <3>2 DEF Turn!CancelAnswered
  <2> QED BY <1>5, <2>2, <2>3, <2>4, <2>5 DEF Turn!Answered
<1>6. ASSUME NEW t \in Turn!Turns, Turn!StreamEnds(t) PROVE NewCalls /\ NewAnswers
  BY <1>4, <1>6 DEF Turn!StreamEnds
<1>7. CASE Turn!HearChange
  <2>1. \A c \in turnCalls' : c \in turnCalls \/ c = [kind |-> "state", turn |-> 0, rev |-> 0, defer |-> FALSE]
    BY <1>7 DEF Turn!HearChange, Turn!GetState, Turn!Call
  <2> QED BY <1>7, <2>1, NewCall DEF Turn!HearChange
<1>8. CASE Turn!PollAnswered
  <2>1. \A c \in turnCalls' : c \in turnCalls \/ c = [kind |-> "messages", turn |-> 0, rev |-> 0, defer |-> TRUE]
    BY <1>8 DEF Turn!PollAnswered, Turn!Messages, Turn!Call
  <2>2. UNCHANGED turnAnswers
    BY <1>8 DEF Turn!PollAnswered
  <2> QED BY <2>1, <2>2 DEF NewCalls, NewAnswers
<1>9. CASE Turn!Send \/ Turn!Stop
  <2>1. \A c \in turnCalls' : \/ c \in turnCalls
                             \/ c = [kind |-> "send", turn |-> 0, rev |-> 0, defer |-> FALSE]
                             \/ c = [kind |-> "stop", turn |-> activeTurn, rev |-> 0, defer |-> FALSE]
    BY <1>9 DEF Turn!Send, Turn!Stop, Turn!Call
  <2>2. UNCHANGED turnAnswers
    BY <1>9 DEF Turn!Send, Turn!Stop
  <2> QED BY <2>1, <2>2 DEF NewCalls, NewAnswers
<1>10. CASE \/ Turn!TurnEnds \/ Turn!Settle \/ Turn!OtherViewer \/ Turn!Poll \/ Turn!EventsLost
            \/ \E t \in Turn!Turns : Turn!StreamOpens(t) \/ Turn!StreamRefused(t)
            \/ \E c \in turnCalls : Turn!Refreshed(c)
            \/ UNCHANGED Turn!vars
  <2>1. turnCalls' \subseteq turnCalls /\ turnAnswers' \subseteq turnAnswers
    BY <1>10 DEF Turn!TurnEnds, Turn!Settle, Turn!OtherViewer, Turn!Poll, Turn!PollTick, Turn!EventsLost,
                 Turn!StreamOpens, Turn!StreamRefused, Turn!Refreshed, Turn!vars
  <2> QED BY <2>1, FewerCalls
<1> QED
  BY <1>1, <1>2, <1>3, <1>5, <1>6, <1>7, <1>8, <1>9, <1>10 DEF Turn!Next, Turn!Progress, Turn!PollRound

\* What the page holds of a turn comes from a fetched state, and is kept or comes whole
LEMMA StepShown ==
  ASSUME SteerInv, [Turn!Next]_(Turn!vars)
  PROVE  TurnKnown(activeTurn', turnRev') /\ turnRev' \in Nat
PROOF
<1>1. ASSUME UNCHANGED <<turnRev, activeTurn>> PROVE TurnKnown(activeTurn', turnRev') /\ turnRev' \in Nat
  BY <1>1 DEF SteerInv, TurnShapes
<1>2. ASSUME NEW a \in turnAnswers, Turn!StateAnswered(a) PROVE TurnKnown(activeTurn', turnRev') /\ turnRev' \in Nat
  <2>1. CASE UNCHANGED <<turnRev, activeTurn>>
    BY <1>1, <2>1
  <2>2. CASE a.ok /\ a.s.rev >= turnRev
    <3>1. turnRev' = a.s.rev /\ StateTold(a.s)
      BY <1>2, <2>2, ShapeRev DEF Turn!StateAnswered, SteerInv, StateTold, TurnShapes
    <3>2. CASE Turn!Busy(a.s)
      <4>1. activeTurn' = Turn!ShownTurn(a.s)
        BY <1>2, <2>2, <3>2, ShapeRev, <3>1 DEF Turn!StateAnswered, SteerInv, StateTold, TurnShapes
      <4> QED BY <3>1, <4>1 DEF StateTold, TurnKnown, Turn!IsTurnAt, Turn!ShownTurn
    <3>3. CASE ~Turn!Busy(a.s)
      BY <3>1, <3>3 DEF StateTold, TurnKnown, Turn!IsTurnAt, Turn!Busy
    <3> QED BY <3>2, <3>3
  <2>3. ~a.ok \/ (a.ok /\ a.s.rev < turnRev) \/ (a.ok /\ a.s.rev >= turnRev)
    BY <1>2 DEF Turn!StateAnswered
  <2> QED BY <1>2, <2>1, <2>2, <2>3 DEF Turn!StateAnswered, Turn!turnVars
<1>3. ASSUME NEW a \in turnAnswers, Turn!Answered(a), ~Turn!StateAnswered(a) PROVE UNCHANGED <<turnRev, activeTurn>>
  <2>1. ASSUME NEW d, Turn!Finalize(d) PROVE UNCHANGED activeTurn
    BY <2>1 DEF Turn!Finalize, Turn!EnableInput, Turn!ctlVars, Turn!turnVars
  <2> QED BY <1>3, <2>1
       DEF Turn!Answered, Turn!SendAnswered, Turn!SteerAnswered, Turn!StopAnswered, Turn!CancelAnswered,
           Turn!DisableInput, Turn!ctlVars, Turn!turnVars
<1>4. ASSUME NEW t \in Turn!Turns, Turn!StreamEnds(t) PROVE UNCHANGED <<turnRev, activeTurn>>
  BY <1>4 DEF Turn!StreamEnds, Turn!Finalize, Turn!EnableInput, Turn!ctlVars, Turn!turnVars
<1>5. ASSUME NEW c \in turnCalls, Turn!Serve(c) \/ Turn!Refreshed(c) PROVE UNCHANGED <<turnRev, activeTurn>>
  BY <1>5 DEF Turn!Serve, Turn!Refreshed, Turn!EnableInput, Turn!pageVars, Turn!ctlVars, Turn!turnVars
<1>6. CASE \/ Turn!TurnEnds \/ Turn!Settle \/ Turn!OtherViewer \/ Turn!Poll \/ Turn!PollAnswered \/ Turn!HearChange
           \/ Turn!Send \/ Turn!Steer \/ Turn!Stop \/ Turn!Lose \/ Turn!EventsLost \/ UNCHANGED Turn!vars
           \/ \E t \in Turn!Turns : Turn!StreamOpens(t) \/ Turn!StreamRefused(t)
  BY <1>1, <1>6
     DEF Turn!TurnEnds, Turn!Settle, Turn!OtherViewer, Turn!Poll, Turn!PollTick, Turn!PollAnswered, Turn!HearChange,
         Turn!Send, Turn!Steer, Turn!Stop, Turn!Lose, Turn!EventsLost, Turn!StreamOpens, Turn!StreamRefused, Turn!vars, Turn!pageVars,
         Turn!ctlVars, Turn!turnVars
<1> QED
  BY <1>1, <1>2, <1>3, <1>4, <1>5, <1>6 DEF Turn!Next, Turn!Progress, Turn!PollRound

\* A steer that stops a turn stops the one it names
LEMMA StepSteered ==
  ASSUME SteerInv, [Turn!Next]_(Turn!vars)
  PROVE  \A s \in steered' : s.stopped = s.shown
PROOF
<1>1. ASSUME UNCHANGED steered PROVE \A s \in steered' : s.stopped = s.shown
  BY <1>1 DEF SteerInv
<1>2. ASSUME NEW c \in turnCalls, Turn!Serve(c) PROVE \A s \in steered' : s.stopped = s.shown
  <2>1. CASE UNCHANGED steered
    BY <1>1, <2>1
  <2>2. CASE Turn!Steers(c) /\ steered' = steered \cup {[stopped |-> turnSrv.work, shown |-> c.turn]}
    BY <2>2 DEF Turn!Steers, SteerInv
  <2> QED BY <1>2, <2>1, <2>2
       DEF Turn!Serve, Turn!ServeRead, Turn!ServeSend, Turn!ServeCancel, Turn!ServeSteer, Turn!Ignore
<1>3. CASE UNCHANGED steered
  BY <1>1, <1>3
<1>4. UNCHANGED steered \/ \E c \in turnCalls : Turn!Serve(c)
  BY DEF Turn!Next, Turn!Progress, Turn!PollRound,
         Turn!TurnEnds, Turn!Settle, Turn!OtherViewer, Turn!Poll, Turn!PollTick, Turn!PollAnswered, Turn!HearChange,
         Turn!Send, Turn!Steer, Turn!Stop, Turn!Lose, Turn!EventsLost, Turn!StreamOpens, Turn!StreamRefused, Turn!StreamEnds,
         Turn!Refreshed, Turn!Answered, Turn!SendAnswered, Turn!SteerAnswered, Turn!StateAnswered, Turn!StopAnswered,
         Turn!CancelAnswered, Turn!vars
<1> QED BY <1>2, <1>3, <1>4

LEMMA InitSteer == Turn!Init => SteerInv
PROOF
<1> SUFFICES ASSUME Turn!Init PROVE SteerInv
  OBVIOUS
<1>1. PICK w, o : turnSrv = [rev |-> 1, work |-> w, queued |-> 0, out |-> o] /\ activeTurn = turnSrv.work
  BY DEF Turn!Init
<1>2. turnSrv \in ServerFields({w}, {0}, {o}) /\ turnSrv.rev = 1
  BY <1>1 DEF ServerFields
<1>3. ServerShape(turnSrv)
  BY <1>2 DEF ServerShape
<1> QED BY <1>1, <1>2, <1>3 DEF Turn!Init, SteerInv, TurnShapes, TurnKnown, Turn!IsTurnAt

LEMMA StepSteer == SteerInv /\ [Turn!Next]_(Turn!vars) => SteerInv'
PROOF
<1> SUFFICES ASSUME SteerInv, [Turn!Next]_(Turn!vars) PROVE SteerInv'
  OBVIOUS
<1>1. TurnShapes /\ ServerShape(turnSrv)
  BY DEF SteerInv, TurnShapes
<1>2. RevisionMoves
  BY <1>1, StepServer
<1>3. NewCalls /\ NewAnswers
  BY <1>1, StepCalls
<1>4. TurnKnown(activeTurn', turnRev') /\ turnRev' \in Nat
  BY StepShown
<1>5. TurnShapes'
  BY <1>1, <1>2, <1>3, <1>4 DEF RevisionMoves, NewAnswers, TurnShapes
<1>6. TurnKnown(activeTurn, turnRev)'
  BY <1>1, <1>2, <1>4, KnownStays DEF TurnKnown
<1>7. ASSUME NEW c \in turnCalls', c.kind = "steer" PROVE TurnKnown(c.turn, c.rev)'
  <2>1. TurnKnown(c.turn, c.rev)
    BY <1>3, <1>7 DEF NewCalls, SteerInv
  <2> QED BY <1>1, <1>2, <2>1, KnownStays DEF TurnKnown
<1>8. ASSUME NEW a \in turnAnswers', a.call.kind = "state", a.ok PROVE StateTold(a.s)'
  <2>1. StateTold(a.s)
    <3>1. CASE a \in turnAnswers
      BY <1>8, <3>1 DEF SteerInv
    <3>2. CASE a.s = Turn!Snapshot(turnSrv)
      <4>1. a.s.rev = turnSrv.rev /\ a.s.work = turnSrv.work
        BY <3>2 DEF Turn!Snapshot, Turn!Status
      <4> QED BY <1>1, <4>1, ShapeRev DEF StateTold
    <3> QED BY <1>3, <1>8, <3>1, <3>2 DEF NewAnswers
  <2> QED BY <1>1, <1>2, <2>1, KnownStays
<1>9. \A s \in steered' : s.stopped = s.shown
  BY StepSteered
<1> QED BY <1>5, <1>6, <1>7, <1>8, <1>9 DEF SteerInv

\* SteerHitsDisplayedTurn: a steer stops no turn but the one its user saw, and the revision it
\* names tells that turn already, however sends, stops, other viewers, lost requests and late
\* answers come between (refreshConversationState, steer, ConversationService._submitLocked)
THEOREM SteersHitTheDisplayedTurn == TurnSpec => []SteerHitsDisplayedTurn
PROOF
<1>1. SteerInv => SteerHitsDisplayedTurn
  BY DEF SteerInv, TurnKnown, SteerHitsDisplayedTurn, Turn!SteerHitsDisplayedTurn
<1> QED BY InitSteer, StepSteer, <1>1, PTL DEF TurnSpec, Turn!Spec
=============================================================================
