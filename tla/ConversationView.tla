---------------------------- MODULE ConversationView ----------------------------
(***************************************************************************)
(* How a chat page (dc_chat_controller.js) follows the conversation state  *)
(* that the server keeps: the next-turn context shown in the composer's    *)
(* controls, the pending-turn queue, and the revision that every mutation  *)
(* must name.  The page learns of changes by an event stream, by fetching  *)
(* conversation-state, and from the answers to its own mutations; requests *)
(* and answers may overtake each other.  Other viewers and the turns act   *)
(* on the server directly.                                                 *)
(***************************************************************************)
EXTENDS Naturals, SequencesExt

CONSTANTS Dirs,      \* working directories; a move to another project changes it too
          BadDirs,   \* directories the server refuses
          Unlisted,  \* providers set up after the page was rendered, which it has no option
                     \* for; a project of the kind has the same effect
          MaxActs    \* bound: acts of the user and of the others, and lost requests

Options == {"p", "q"}
Providers == Options \cup Unlisted

\* The models an option of the provider picker carries; "default" is always offered
Offered(provider) == IF provider = "p" THEN {"default", "m"} ELSE {"default"}

Contexts == {c \in [dir : Dirs, provider : Providers, model : {"default", "m"}] :
               c.model \in Offered(c.provider)}

Fields == {"dir", "provider", "model"}

VARIABLES
  srv,       \* the server's conversation state: revision, next_context, queue (named by the
             \* revision of its last change), and whether a message is beyond the read boundary
  rev,       \* conversationRevision
  applied,   \* appliedContextSnapshot
  shown,     \* what the context controls show
  rejected,  \* directoryRejected
  applying,  \* contextApplying
  waiting,   \* contextApplyQueued
  moving,    \* confirmMove awaits its commit
  ready,     \* conversationReady
  queue,     \* the queue rows shown
  calls,     \* requests on their way
  answers,   \* answers on their way
  events,    \* conversation_changed events on the stream: revisions
  live,      \* the event stream is connected, and the shell says so
  missed,    \* ghost: what nothing has made up for since: "change", an event or a fetched state
             \* was lost; "revision", the answer to a read took the revision back;
             \* "context", a state was fetched that the controls could not show
  picked,    \* ghost: fields the user changed since the controls last showed the applied context
  acts       \* acts so far

ctlVars  == <<rev, applied, shown, rejected, picked>>
flagVars == <<applying, waiting, moving>>
pageVars == <<ready, queue>>
netVars  == <<calls, answers>>
vars == <<srv, ctlVars, flagVars, pageVars, netVars, events, live, missed, acts>>

Max2(a, b) == IF a > b THEN a ELSE b

Act == acts < MaxActs /\ acts' = acts + 1

(***************************************************************************)
(* The server.  Every persisted change raises the revision by one and is   *)
(* broadcast; a mutation must name the current revision.                   *)
(***************************************************************************)
Persist(s) ==
  /\ srv' = [s EXCEPT !.rev = srv.rev + 1]
  /\ events' = IF live THEN Append(events, srv.rev + 1) ELSE events
  /\ missed' = IF live THEN missed ELSE missed \cup {"change"}

Answer(c, ok, state) ==
  /\ calls' = calls \ {c}
  /\ answers' = answers \cup {[call |-> c, ok |-> ok, state |-> state]}

Refuse(c) == Answer(c, FALSE, srv) /\ UNCHANGED <<srv, events, missed>>

\* ConversationService._updateContext
ServeCommit(c) ==
  /\ c.kind \in {"commit", "move"}
  /\ \/ /\ c.rev = srv.rev /\ c.ctx.dir \notin BadDirs /\ c.ctx # srv.ctx
        /\ Persist([srv EXCEPT !.ctx = c.ctx])
        /\ Answer(c, TRUE, srv')
     \/ /\ c.rev = srv.rev /\ c.ctx = srv.ctx
        /\ Answer(c, TRUE, srv)
        /\ UNCHANGED <<srv, events, missed>>
     \/ /\ c.rev # srv.rev \/ c.ctx.dir \in BadDirs
        /\ Refuse(c)

\* editQueueItem, removeQueueItem, releaseNext
ServeQueue(c) ==
  /\ c.kind = "queue"
  /\ \/ /\ c.rev = srv.rev
        /\ Persist([srv EXCEPT !.queue = srv.rev + 1])
        /\ Answer(c, TRUE, srv')
     \/ c.rev # srv.rev /\ Refuse(c)

\* InboxService.advanceRead
ServeRead(c) ==
  /\ c.kind = "read"
  /\ \/ c.rev = srv.rev /\ srv.unread /\ Persist([srv EXCEPT !.unread = FALSE]) /\ Answer(c, TRUE, srv')
     \/ (c.rev # srv.rev \/ ~srv.unread) /\ Refuse(c)

ServeGet(c) == c.kind = "get" /\ Answer(c, TRUE, srv) /\ UNCHANGED <<srv, events, missed>>

Serve ==
  /\ \E c \in calls : ServeCommit(c) \/ ServeQueue(c) \/ ServeRead(c) \/ ServeGet(c)
  /\ UNCHANGED <<ctlVars, flagVars, pageVars, live, acts>>

\* The request fails on its way there, or its answer on the way back
Lose ==
  /\ Act
  /\ \/ \E c \in calls : Refuse(c)
     \/ \E a \in answers : answers' = (answers \ {a}) \cup {[a EXCEPT !.ok = FALSE]} /\ UNCHANGED <<srv, calls, events, missed>>
  /\ UNCHANGED <<ctlVars, flagVars, pageVars, live>>

\* Another viewer commits a context, or a submission or a turn changes the queue
OtherViewer ==
  /\ Act
  /\ \/ \E x \in Contexts : x.dir \notin BadDirs /\ x # srv.ctx /\ Persist([srv EXCEPT !.ctx = x])
     \/ Persist([srv EXCEPT !.queue = srv.rev + 1, !.unread = TRUE])
  /\ UNCHANGED <<ctlVars, flagVars, ready, queue, netVars, live>>

(***************************************************************************)
(* Following the server                                                    *)
(***************************************************************************)
NoCtx == CHOOSE x \in Contexts : TRUE
\* behind (ghost): the fields may be older than the revision they are sent with
Send(kind, r, ctx, behind, fields) ==
  [kind |-> kind, rev |-> r, ctx |-> ctx, behind |-> behind, picked |-> fields]

Get == Send("get", 0, NoCtx, FALSE, {})

Listed(s) == s.ctx.provider \in Options

\* reconcileContext: the controls follow a state; a refused directory stays in its field to be
\* corrected.  A state the controls have no option for is not applied at all
Reconcile(s, rej) ==
  \/ /\ Listed(s)
     /\ applied' = s
     /\ shown' = [s.ctx EXCEPT !.dir = IF rej THEN shown.dir ELSE @]
     /\ picked' = {}
  \/ ~Listed(s) /\ UNCHANGED <<applied, shown, picked>>

\* handleConversationChanged
HearEvent ==
  /\ events # <<>>
  /\ events' = Tail(events)
  /\ calls' = IF Head(events) > rev THEN calls \cup {Get} ELSE calls
  /\ UNCHANGED <<srv, ctlVars, flagVars, pageVars, answers, live, missed, acts>>

\* Mutant: a fetched state advances the revision and leaves the controls alone
TakeRevision(s) ==
  /\ rev' = s.rev
  /\ applied' = s
  /\ UNCHANGED <<shown, picked>>

\* While a commit is on its way or waits, the controls keep what it will send
TakeContext(s) ==
  /\ rev' = s.rev
  /\ \/ applying /\ applied' = s /\ UNCHANGED <<shown, picked>>
     \/ ~applying /\ Reconcile(s, rejected)

\* Mutant: whatever state arrives last is taken
TakesAny(s) == TRUE

\* An older state than the one known is dropped
Takes(s) == s.rev >= rev

\* The rows are rendered anew from every state taken
RenderQueue(s) == queue' = s.queue

\* refreshConversationState
Fetched(a) ==
  /\ a.call.kind = "get" /\ a.ok
  /\ answers' = answers \ {a}
  /\ \/ /\ Takes(a.state)
        /\ TakeContext(a.state)
        /\ ready' = TRUE
        /\ RenderQueue(a.state)
        /\ missed' = IF ~Listed(a.state) THEN missed \cup {"context"}
                     ELSE IF a.state.rev < srv.rev THEN missed ELSE {}
     \/ ~Takes(a.state) /\ UNCHANGED <<rev, applied, shown, picked, ready, queue, missed>>
  /\ UNCHANGED <<srv, rejected, flagVars, calls, events, live, acts>>

FetchFailed(a) ==
  /\ a.call.kind = "get" /\ ~a.ok
  /\ answers' = answers \ {a}
  /\ ready' = FALSE
  /\ missed' = missed \cup {"change"}
  /\ UNCHANGED <<srv, ctlVars, flagVars, queue, calls, events, live, acts>>

\* handleVisibleReadBoundary: the boundary is sent with the revision the page knows, and the
\* revision in the answer is taken as it is
ReadBoundary ==
  /\ ready
  /\ Act
  /\ calls' = calls \cup {Send("read", rev, NoCtx, FALSE, {})}
  /\ UNCHANGED <<srv, ctlVars, flagVars, pageVars, answers, events, live, missed>>

BoundaryAnswered(a) ==
  /\ a.call.kind = "read"
  /\ answers' = answers \ {a}
  /\ rev' = IF a.ok THEN a.state.rev ELSE rev
  /\ missed' = IF rev' < rev THEN missed \cup {"revision"} ELSE missed
  /\ UNCHANGED <<srv, applied, shown, rejected, picked, flagVars, pageVars, calls, events, live, acts>>

\* The stream breaks and is connected again by the browser: the shell marks the connection
\* lost and live; what was broadcast in between is not asked for
StreamBreaks ==
  /\ live /\ Act
  /\ live' = FALSE
  /\ missed' = IF events = <<>> THEN missed ELSE missed \cup {"change"}
  /\ events' = <<>>
  /\ UNCHANGED <<srv, ctlVars, flagVars, pageVars, netVars>>

StreamOpens ==
  /\ ~live
  /\ live' = TRUE
  /\ UNCHANGED <<srv, ctlVars, flagVars, pageVars, netVars, events, missed, acts>>

\* The browser is back online (handleConnectivityChange)
Online ==
  /\ Act
  /\ calls' = calls \cup {Get}
  /\ UNCHANGED <<srv, ctlVars, flagVars, pageVars, answers, events, live, missed>>

(***************************************************************************)
(* Committing a context                                                    *)
(***************************************************************************)
\* sendContext states every field the controls show; a refused directory is no value anyone
\* applied, so the applied one goes in its place
Payload(ctl, base, rej) == [ctl EXCEPT !.dir = IF rej THEN base.ctx.dir ELSE @]

\* contextProviderChanged: a model the new provider does not offer falls back to the default
PickedContexts ==
  {[shown EXCEPT !.provider = p, !.model = IF @ \in Offered(p) THEN @ ELSE "default"] : p \in Options}
    \cup {[shown EXCEPT !.model = m] : m \in Offered(shown.provider)}
    \cup {[shown EXCEPT !.dir = d] : d \in Dirs}

\* What the controls show may be older than the revision known
Behind == missed \cap {"revision", "context"} # {}

Changed(ctx) == picked \cup {f \in Fields : ctx[f] # shown[f]}

\* applyContext: one request at a time; a pick made meanwhile waits for it.  A directory
\* typed is no longer the refused one
Pick ==
  /\ Act
  /\ \E ctx \in PickedContexts \ {shown} :
       LET rej == rejected /\ ctx.dir = shown.dir IN
       /\ shown' = ctx
       /\ rejected' = rej
       /\ picked' = Changed(ctx)
       /\ \/ applying /\ waiting' = TRUE /\ UNCHANGED <<applying, calls>>
          \/ /\ ~applying
             /\ applying' = TRUE
             /\ calls' = calls \cup {Send("commit", rev, Payload(ctx, applied, rej), Behind, Changed(ctx))}
             /\ UNCHANGED waiting
  /\ UNCHANGED <<srv, rev, applied, moving, pageVars, answers, events, live, missed>>

\* confirmMove does not take part in that order: it only refuses to start beside a commit
ConfirmMove ==
  /\ Act
  /\ ~applying /\ ~moving
  /\ \E d \in Dirs :
       LET ctx == [shown EXCEPT !.dir = d] IN
       /\ ctx # shown
       /\ shown' = ctx
       /\ picked' = Changed(ctx)
       /\ calls' = calls \cup {Send("move", rev, ctx, Behind, Changed(ctx))}
  /\ rejected' = FALSE
  /\ moving' = TRUE
  /\ UNCHANGED <<srv, rev, applied, applying, waiting, pageVars, answers, events, live, missed>>

Finish(kind) ==
  \/ kind = "move" /\ moving' = FALSE /\ UNCHANGED <<applying, waiting>>
  \/ kind = "commit" /\ applying' = FALSE /\ waiting' = FALSE /\ UNCHANGED moving

\* sendContext, accepted.  A refresh that landed meanwhile may be newer than the answer.
\* Where a pick waits, the controls already show it and applyContext sends it at once
Accepted(a) ==
  /\ a.ok
  /\ rejected' = FALSE
  /\ LET latest == IF a.state.rev >= rev THEN a.state ELSE applied
         next   == waiting /\ a.call.kind = "commit" IN
     /\ rev' = IF waiting \/ Listed(latest) THEN latest.rev ELSE rev
     /\ \/ waiting /\ applied' = latest /\ UNCHANGED <<shown, picked>>
        \/ ~waiting /\ Reconcile(latest, FALSE)
     /\ \/ /\ next
           /\ calls' = calls \cup {Send("commit", latest.rev, shown, TRUE, picked)}
           /\ waiting' = FALSE
           /\ UNCHANGED <<applying, moving>>
        \/ ~next /\ Finish(a.call.kind) /\ UNCHANGED calls

\* Mutant: the controls keep what was refused
RejectedInPlace(a) ==
  /\ ~a.ok
  /\ calls' = IF a.call.kind = "move" THEN calls \cup {Get} ELSE calls
  /\ Finish(a.call.kind)
  /\ UNCHANGED ctlVars

\* rejectContext: the selects go back to the applied context, a directory that differs stays
\* and is marked; the revision does not go back.  A refused move restores its directory and
\* fetches the state
Rejected(a) ==
  /\ ~a.ok
  /\ LET rej == a.call.kind = "commit" /\ (rejected \/ shown.dir # applied.ctx.dir) IN
     /\ rejected' = rej
     /\ \/ (a.call.kind = "commit" \/ Listed(applied)) /\ Reconcile(applied, rej)
        \/ /\ a.call.kind = "move" /\ ~Listed(applied)
           /\ shown' = [shown EXCEPT !.dir = applied.ctx.dir]
           /\ UNCHANGED <<applied, picked>>
  /\ rev' = IF Listed(applied) THEN Max2(rev, applied.rev) ELSE rev
  /\ calls' = IF a.call.kind = "move" THEN calls \cup {Get} ELSE calls
  /\ Finish(a.call.kind)

CommitAnswered(a) ==
  /\ a.call.kind \in {"commit", "move"}
  /\ answers' = answers \ {a}
  /\ Accepted(a) \/ Rejected(a)
  /\ UNCHANGED <<srv, pageVars, events, live, missed, acts>>

(***************************************************************************)
(* Changing the queue                                                      *)
(***************************************************************************)
\* queueMutation by an edit, a removal or a release
MutateQueue ==
  /\ Act
  /\ calls' = calls \cup {Send("queue", rev, NoCtx, FALSE, {})}
  /\ UNCHANGED <<srv, ctlVars, flagVars, pageVars, answers, events, live, missed>>

\* Whatever came of it, the state is fetched
QueueAnswered(a) ==
  /\ a.call.kind = "queue"
  /\ answers' = answers \ {a}
  /\ calls' = calls \cup {Get}
  /\ UNCHANGED <<srv, ctlVars, flagVars, pageVars, events, live, missed, acts>>

\* Until the first state arrives the context the page was rendered with is the applied one
Seeded == [srv EXCEPT !.rev = 0]

\* The page is rendered with the context of that moment (seedAppliedContext) and fetches the
\* state (initializeConversationState)
Init ==
  /\ srv = [rev |-> 1, ctx |-> [dir |-> CHOOSE d \in Dirs \ BadDirs : TRUE, provider |-> "p", model |-> "m"],
            queue |-> 1, unread |-> TRUE]
  /\ rev = 0
  /\ applied = Seeded
  /\ shown = srv.ctx
  /\ rejected = FALSE /\ applying = FALSE /\ waiting = FALSE /\ moving = FALSE
  /\ ready = FALSE /\ queue = 0
  /\ calls = {Get}
  /\ answers = {} /\ events = <<>>
  /\ live = TRUE /\ missed = {}
  /\ picked = {}
  /\ acts = 0

Next ==
  \/ Serve \/ Lose \/ OtherViewer \/ StreamBreaks \/ StreamOpens
  \/ HearEvent \/ ReadBoundary \/ Online \/ Pick \/ ConfirmMove \/ MutateQueue
  \/ \E a \in answers : Fetched(a) \/ FetchFailed(a) \/ BoundaryAnswered(a) \/ CommitAnswered(a) \/ QueueAnswered(a)

Spec == Init /\ [][Next]_vars

(***************************************************************************)
(* Properties                                                              *)
(***************************************************************************)
Quiet == calls = {} /\ answers = {} /\ events = <<>>

\* The controls show the server's next-turn context (a refused directory aside) and the rows
\* its queue
Current ==
  /\ shown = [srv.ctx EXCEPT !.dir = IF rejected THEN shown.dir ELSE @]
  /\ queue = srv.queue

\* Whatever order events, fetched states and the answers to commits, moves, reads and queue
\* mutations arrive in, a ready page that waits for nothing and missed nothing is current
\* (refreshConversationState, sendContext, rejectContext).  (A page that was given a state its
\* controls cannot show has missed it until it takes a later one that they can.)
AtRestCurrent == Quiet /\ ready /\ missed = {} => Current

\* Outside a commit the controls show the context the page takes to be applied: a refused or
\* lost commit leaves no value behind that was not applied (rejectContext).  (Unless the
\* state to go back to is one the controls cannot show.)
NoUnappliedValueShown ==
  ~applying /\ ~moving /\ Listed(applied) =>
     /\ shown.provider = applied.ctx.provider /\ shown.model = applied.ctx.model
     /\ shown.dir = applied.ctx.dir \/ rejected

\* A commit changes no field of the server's context but those the user picked here: a viewer
\* whose page is behind is refused (conversation_revision).  (Three pages name a revision newer
\* than their fields, and do overwrite: a commit that waited for another, since a state fetched
\* meanwhile advances its revision and not its fields; a page given a state that its controls
\* cannot show; and a page whose revision the answer to a read took back, which takes an older
\* state then, and a newer revision beside it from the answer to a later read.)
NoSilentOverwrite ==
  [][\A c \in calls \ calls' :
       c.kind \in {"commit", "move"} /\ ~c.behind /\ srv'.ctx # srv.ctx =>
         \A f \in Fields \ c.picked : srv'.ctx[f] = srv.ctx[f]]_vars
=============================================================================
