-------------------------------- MODULE ChatTurn --------------------------------
(***************************************************************************)
(* What a chat page (dc_chat_controller.js) does while turns run: sending, *)
(* queueing, steering and stopping, the live response of a turn, the       *)
(* status polls that stand in for it when it breaks, and the controls that *)
(* offer Stop.  The server runs one turn of the session at a time; other   *)
(* viewers may submit as well.  What the drafts do is in ChatDrafts, what  *)
(* the context and the queue rows do in ConversationView.                  *)
(***************************************************************************)
EXTENDS Naturals, FiniteSetsExt

CONSTANTS MaxTurns,  \* bound: turns of the session, beside one more that a steer may start
          MaxActs,   \* bound: sends, stops, steers, other viewers' sends, lost requests
          MaxReads   \* bound: fetches of the state on their way when a change is heard

Turns == 1..MaxTurns + 1
Ended == {"completed", "failed", "cancelled"}

VARIABLES
  srv,       \* revision, out[t]: what became of turn t, work: the turn whose submission has
             \* not settled, queued: submissions that wait
  told,      \* what was broadcast and is not heard of: the latest revision, or 0, and
             \* whether a turn's own event is among it; ghost: an event was lost, and the
             \* current state has not been fetched since
  rev,       \* conversationRevision
  streaming, canCancel, activeTurn,   \* the controls
  finalized, \* turnFinalized
  recovery,  \* streamRecoveryTurnId
  poll,      \* whether the timer of status polls runs, and the answer on its way; a new
             \* turnStatusPollGeneration drops what the one before it asked
  streams,   \* streams[t]: the live response of turn t in the transcript
  sending,   \* chatRequestPending, and for what
  stopOff,   \* Stop was pressed and no update of the controls enabled it again
  calls, answers,   \* requests and answers on their way
  steered,   \* ghost: turns that a steer stopped, with the turn its user saw
  acts

turnVars == <<streaming, canCancel, activeTurn>>
ctlVars  == <<turnVars, finalized, recovery, poll, stopOff>>
pageVars == <<rev, ctlVars, streams, sending>>
vars == <<srv, told, pageVars, calls, answers, steered, acts>>

Act == acts < MaxActs /\ acts' = acts + 1

(***************************************************************************)
(* The server                                                              *)
(***************************************************************************)
Started(s) == {t \in Turns : s.out[t] # "none"}
Running(s, t) == t # 0 /\ s.out[t] = "running"
Latest(s) == Max(Started(s) \cup {0})
CanAdmit == Cardinality(Started(srv)) + srv.queued < MaxTurns

\* TurnManager.turnStatus: the active turn, or the one that ended last
Status(s) ==
  [rev |-> 0, work |-> 0, turn |-> Latest(s), state |-> IF Latest(s) = 0 THEN "idle" ELSE s.out[Latest(s)]]

\* conversation-state: the revision, the submission under way, and the turn status
Snapshot(s) == [Status(s) EXCEPT !.rev = s.rev, !.work = s.work]

None == [rev |-> 0, work |-> 0, turn |-> 0, state |-> "none"]

Dispatch(s) ==
  LET t == Latest(s) + 1 IN
  [s EXCEPT !.rev = @ + 1, !.work = t, !.out = [@ EXCEPT ![t] = "running"]]

Heard == told.rev = 0 /\ ~told.turn

Announce(s) == srv' = s /\ told' = [told EXCEPT !.rev = s.rev]

\* _submitLocked: dispatched, or queued behind a turn that runs or has not settled
Admit(s) ==
  IF Running(s, Latest(s)) \/ s.work # 0
    THEN [s EXCEPT !.rev = @ + 1, !.queued = @ + 1]
    ELSE Dispatch(s)

\* _stopLocked of a turn that runs, ended as o; what waits is held
Stopped(s, t, o) ==
  [s EXCEPT !.rev = @ + 1, !.work = 0, !.queued = 0, !.out = [@ EXCEPT ![t] = o]]

TurnEnds ==
  /\ Running(srv, Latest(srv))
  /\ \E o \in {"completed", "failed"} : srv' = [srv EXCEPT !.out = [@ EXCEPT ![Latest(srv)] = o]]
  /\ told' = [told EXCEPT !.turn = TRUE]
  /\ UNCHANGED <<pageVars, calls, answers, steered, acts>>

\* _observeOutcome: a completed turn lets the next submission start, any other holds them
Settle ==
  /\ srv.work # 0 /\ srv.out[srv.work] \in Ended
  /\ LET over == [srv EXCEPT !.rev = @ + 1, !.work = 0] IN
     \/ srv.out[srv.work] = "completed" /\ srv.queued > 0 /\ Announce(Dispatch([over EXCEPT !.queued = @ - 1]))
     \/ srv.out[srv.work] = "completed" /\ srv.queued = 0 /\ Announce(over)
     \/ srv.out[srv.work] # "completed" /\ Announce([over EXCEPT !.queued = 0])
  /\ UNCHANGED <<pageVars, calls, answers, steered, acts>>

OtherViewer ==
  /\ Act
  /\ CanAdmit
  /\ Announce(Admit(srv))
  /\ UNCHANGED <<pageVars, calls, answers, steered>>

Reply(c, ok, s) ==
  /\ calls' = calls \ {c}
  /\ answers' = answers \cup {[call |-> c, ok |-> ok, s |-> s]}

Answer(c, ok) == Reply(c, ok, None)

Ignore == UNCHANGED <<srv, told, steered>>

ServeRead(c) ==
  /\ \/ c.kind = "state" /\ Reply(c, TRUE, Snapshot(srv))
     \/ c.kind = "stop" /\ Reply(c, TRUE, Status(srv))
  /\ Ignore

\* The answer to a send names the turn it started, if it did
ServeSend(c) ==
  /\ c.kind = "send"
  /\ CanAdmit
  /\ Announce(Admit(srv))
  /\ Reply(c, TRUE, [None EXCEPT !.turn = IF srv'.queued > srv.queued THEN 0 ELSE srv'.work])
  /\ UNCHANGED steered

\* conversation.stop: of a turn that runs, of one that has yet to settle, of one that has
ServeCancel(c) ==
  /\ c.kind = "cancel"
  /\ UNCHANGED steered
  /\ \/ Running(srv, c.turn) /\ Announce(Stopped(srv, c.turn, "cancelled")) /\ Answer(c, TRUE)
     \/ /\ srv.work = c.turn /\ srv.out[c.turn] = "completed"
        /\ Announce(Stopped(srv, c.turn, "completed")) /\ Answer(c, TRUE)
     \/ srv.work = c.turn /\ srv.out[c.turn] = "failed" /\ Answer(c, FALSE) /\ UNCHANGED <<srv, told>>
     \/ srv.work # c.turn /\ Answer(c, TRUE) /\ UNCHANGED <<srv, told>>

\* Mutant: whatever turn runs is stopped
SteersAny(c) == Running(srv, srv.work)

Steers(c) == c.rev = srv.rev /\ srv.work = c.turn /\ Running(srv, c.turn)

\* A steer stops the displayed turn and submits; where the turn completes first it is refused
ServeSteer(c) ==
  /\ c.kind = "steer"
  /\ \/ /\ Steers(c) /\ Cardinality(Started(srv)) <= MaxTurns
        /\ steered' = steered \cup {[stopped |-> srv.work, shown |-> c.turn]}
        /\ Announce(Dispatch(Stopped(srv, srv.work, "cancelled")))
        /\ Answer(c, TRUE)
     \/ /\ Steers(c)
        /\ Announce(Stopped(srv, srv.work, "completed"))
        /\ Answer(c, FALSE)
        /\ UNCHANGED steered
     \/ ~Steers(c) /\ Answer(c, FALSE) /\ Ignore

Serve(c) ==
  /\ ServeRead(c) \/ ServeSend(c) \/ ServeCancel(c) \/ ServeSteer(c)
  /\ UNCHANGED <<pageVars, acts>>

\* A request does not arrive, or its answer does not.  A lost read is the same either way, and
\* a lost poll the same as a slow one
Mutations == {"send", "steer", "cancel"}

Lose ==
  /\ Act
  /\ \/ \E c \in calls : c.kind \in Mutations \cup {"state", "stop"} /\ Answer(c, FALSE)
     \/ \E a \in answers :
          /\ a.call.kind \in Mutations /\ a.ok
          /\ answers' = (answers \ {a}) \cup {[a EXCEPT !.ok = FALSE]}
          /\ UNCHANGED calls
  /\ UNCHANGED <<srv, told, pageVars, steered>>

(***************************************************************************)
(* The controls                                                            *)
(***************************************************************************)
Call(kind, turn) == [kind |-> kind, turn |-> turn, rev |-> 0, defer |-> FALSE]
GetState == Call("state", 0)
Messages(defer) == [Call("messages", 0) EXCEPT !.defer = defer]

\* disableInput and _startTurnStatusPolling
DisableInput ==
  /\ streaming' = TRUE /\ canCancel' = FALSE /\ finalized' = FALSE
  /\ poll' = [on |-> TRUE, status |-> None]
  /\ stopOff' = FALSE
  /\ UNCHANGED <<activeTurn, recovery>>

\* enableInput and _stopTurnStatusPolling
EnableInput ==
  /\ streaming' = FALSE /\ canCancel' = FALSE
  /\ poll' = [on |-> FALSE, status |-> None]
  /\ stopOff' = FALSE
  /\ UNCHANGED activeTurn

\* finalizeTurn: once per activation; the transcript is fetched again, and after a recovery
\* the controls wait for it
Finalize(defer) ==
  \/ finalized /\ UNCHANGED <<ctlVars, calls>>
  \/ /\ ~finalized
     /\ finalized' = TRUE
     /\ recovery' = 0
     /\ calls' = calls \cup {Messages(defer)}
     /\ \/ defer /\ UNCHANGED <<turnVars, poll, stopOff>>
        \/ ~defer /\ EnableInput

(***************************************************************************)
(* Sending, queueing and steering                                          *)
(***************************************************************************)
Send ==
  /\ sending = "none" /\ Act /\ CanAdmit
  /\ sending' = "send"
  /\ calls' = calls \cup {Call("send", 0)}
  /\ UNCHANGED <<srv, told, rev, ctlVars, streams, answers, steered>>

Displayed == {t \in Turns : streams[t] # "none"}

\* handleFinallyRequest: the answer to a dispatched submission puts its live response in the
\* transcript; with none there the state is fetched
SendAnswered(a) ==
  /\ a.call.kind = "send"
  /\ answers' = answers \ {a}
  /\ sending' = "none"
  /\ LET new == {a.s.turn} \ {0} IN
     /\ streams' = [t \in Turns |-> IF a.ok /\ t \in new THEN "connecting" ELSE streams[t]]
     /\ \/ ~a.ok /\ stopOff' = FALSE /\ UNCHANGED <<turnVars, finalized, recovery, poll, calls>>
        \/ a.ok /\ Displayed \cup new # {} /\ DisableInput /\ UNCHANGED calls
        \/ a.ok /\ Displayed \cup new = {} /\ calls' = calls \cup {GetState} /\ UNCHANGED ctlVars
  /\ UNCHANGED <<srv, told, rev, steered, acts>>

Steer ==
  /\ sending = "none" /\ canCancel /\ activeTurn # 0 /\ streaming
  /\ Act
  /\ sending' = "steer"
  /\ calls' = calls \cup {[Call("steer", activeTurn) EXCEPT !.rev = rev]}
  /\ UNCHANGED <<srv, told, rev, ctlVars, streams, answers, steered>>

SteerAnswered(a) ==
  /\ a.call.kind = "steer"
  /\ answers' = answers \ {a}
  /\ sending' = "none"
  /\ \/ a.ok /\ DisableInput /\ calls' = calls \cup {GetState}
     \/ ~a.ok /\ stopOff' = FALSE /\ calls' = calls \cup {GetState} /\ UNCHANGED <<turnVars, finalized, recovery, poll>>
  /\ UNCHANGED <<srv, told, rev, streams, steered, acts>>

(***************************************************************************)
(* The live response                                                       *)
(***************************************************************************)
StreamOpens(t) ==
  /\ streams[t] = "connecting"
  /\ streams' = [streams EXCEPT ![t] = "open"]
  /\ UNCHANGED <<srv, told, rev, ctlVars, sending, calls, answers, steered, acts>>

\* A refused connection takes the response out of the transcript and leaves its turn to the polls
StreamRefused(t) ==
  /\ streams[t] = "connecting"
  /\ Act
  /\ streams' = [streams EXCEPT ![t] = "none"]
  /\ recovery' = t
  /\ UNCHANGED <<srv, told, rev, turnVars, finalized, poll, stopOff, sending, calls, answers, steered>>

\* The last message of the stream: processSseMessage, handleSseClose
StreamEnds(t) ==
  /\ streams[t] = "open" /\ srv.out[t] \in Ended
  /\ streams' = [streams EXCEPT ![t] = "closed"]
  /\ Finalize(FALSE)
  /\ UNCHANGED <<srv, told, rev, sending, answers, steered, acts>>

\* The transcript replaces every message, live responses included; where it fails they stay.
\* Its answer carries nothing the model tells apart, so it is not kept apart from the request
Refreshed(c) ==
  /\ c.kind = "messages"
  /\ calls' = calls \ {c}
  /\ \/ streams' = [t \in Turns |-> "none"] /\ UNCHANGED acts
     \/ Act /\ UNCHANGED streams
  /\ \/ c.defer /\ EnableInput
     \/ ~c.defer /\ UNCHANGED <<turnVars, poll, stopOff>>
  /\ UNCHANGED <<srv, told, rev, finalized, recovery, sending, answers, steered>>

(***************************************************************************)
(* Following the turn                                                      *)
(***************************************************************************)
\* The timer fires and the server answers; nothing is asked while the controls show no turn.
\* The code drops an answer older than the last one applied: here a poll waits for the one
\* before it
PollTick ==
  /\ poll.on /\ streaming /\ poll.status = None
  /\ poll' = [poll EXCEPT !.status = Status(srv)]
  /\ UNCHANGED <<srv, told, rev, turnVars, finalized, recovery, stopOff, streams, sending, calls, answers, steered, acts>>

\* Mutant: the timer stops once the live response is broken
PollUntilBroken == PollTick /\ recovery = 0

Poll == PollTick

Recovered == recovery # 0 /\ poll.status.turn = recovery /\ poll.status.state \in Ended

\* _reconcileStreamRecovery: the poll that finds the turn of a broken response ended
\* finalizes it; any other decides whether Stop is offered
PollAnswered ==
  /\ poll.status # None
  /\ poll' = [poll EXCEPT !.status = None]
  /\ \/ ~streaming /\ UNCHANGED <<turnVars, finalized, recovery, stopOff, calls>>
     \/ /\ streaming /\ Recovered /\ ~finalized
        /\ finalized' = TRUE /\ recovery' = 0
        /\ calls' = calls \cup {Messages(TRUE)}
        /\ UNCHANGED <<turnVars, stopOff>>
     \/ /\ streaming /\ Recovered /\ finalized
        /\ recovery' = 0
        /\ UNCHANGED <<turnVars, finalized, stopOff, calls>>
     \/ /\ streaming /\ ~Recovered
        /\ canCancel' = (poll.status.state = "running")
        /\ stopOff' = (stopOff /\ canCancel' = canCancel)
        /\ UNCHANGED <<streaming, activeTurn, finalized, recovery, calls>>
  /\ UNCHANGED <<srv, told, rev, streams, sending, answers, steered, acts>>

\* handleConversationChanged: a turn's own event counts whatever its revision
HearChange ==
  /\ ~Heard
  /\ Cardinality({c \in calls \cup {a.call : a \in answers} : c.kind = "state"}) < MaxReads
  /\ told' = [told EXCEPT !.rev = 0, !.turn = FALSE]
  /\ calls' = IF told.turn \/ told.rev > rev THEN calls \cup {GetState} ELSE calls
  /\ UNCHANGED <<srv, pageVars, answers, steered, acts>>

\* The shell's event stream breaks: what was broadcast is not asked for when it opens again
EventsLost ==
  /\ ~Heard /\ Act
  /\ told' = [rev |-> 0, turn |-> FALSE, lost |-> TRUE]
  /\ UNCHANGED <<srv, pageVars, calls, answers, steered>>

Busy(s) == s.work # 0 \/ s.state = "running"

\* Mutant: a turn is shown until the controls are turned back
KeptTurn(s) == IF activeTurn # 0 THEN activeTurn ELSE s.turn

ShownTurn(s) == IF s.work # 0 THEN s.work ELSE s.turn

\* refreshConversationState: a submission under way or a running turn turns the controls to
\* Stop; with neither, and no live response or recovery, they are turned back
StateAnswered(a) ==
  /\ a.call.kind = "state"
  /\ answers' = answers \ {a}
  /\ \/ ~a.ok /\ stopOff' = FALSE /\ UNCHANGED <<told, rev, turnVars>>
     \/ a.ok /\ a.s.rev < rev /\ UNCHANGED <<told, rev, turnVars, stopOff>>
     \/ /\ a.ok /\ a.s.rev >= rev
        /\ rev' = a.s.rev
        /\ told' = [told EXCEPT !.lost = @ /\ a.s.rev # srv.rev]
        /\ stopOff' = FALSE
        /\ \/ /\ Busy(a.s)
              /\ streaming' = TRUE
              /\ canCancel' = (a.s.state = "running")
              /\ activeTurn' = ShownTurn(a.s)
           \/ /\ ~Busy(a.s) /\ Displayed = {} /\ recovery = 0
              /\ streaming' = FALSE /\ canCancel' = FALSE /\ activeTurn' = 0
           \/ ~Busy(a.s) /\ (Displayed # {} \/ recovery # 0) /\ UNCHANGED turnVars
  /\ UNCHANGED <<srv, finalized, recovery, poll, streams, sending, calls, steered, acts>>

(***************************************************************************)
(* Stopping                                                                *)
(***************************************************************************)
\* stopTurn asks which turn runs and cancels that one
Stop ==
  /\ streaming /\ canCancel /\ ~stopOff
  /\ Act
  /\ stopOff' = TRUE
  /\ calls' = calls \cup {Call("stop", activeTurn)}
  /\ UNCHANGED <<srv, told, rev, turnVars, finalized, recovery, poll, streams, sending, answers, steered>>

\* Mutant: the button stays disabled
StopStays == UNCHANGED stopOff

StopGivenUp == stopOff' = FALSE

StopAnswered(a) ==
  /\ a.call.kind = "stop"
  /\ answers' = answers \ {a}
  /\ \/ /\ a.ok /\ a.s.state = "running"
        /\ calls' = calls \cup {Call("cancel", a.s.turn)}
        /\ UNCHANGED stopOff
     \/ /\ ~a.ok \/ a.s.state # "running"
        /\ StopGivenUp
        /\ UNCHANGED calls
  /\ UNCHANGED <<srv, told, rev, turnVars, finalized, recovery, poll, streams, sending, steered, acts>>

CancelAnswered(a) ==
  /\ a.call.kind = "cancel"
  /\ answers' = answers \ {a}
  /\ \/ a.ok /\ Finalize(recovery # 0)
     \/ ~a.ok /\ StopGivenUp /\ UNCHANGED <<turnVars, finalized, recovery, poll, calls>>
  /\ UNCHANGED <<srv, told, rev, streams, sending, steered, acts>>

\* The page shows a conversation at rest, or one whose next turn somebody else started; it may
\* have finalized a turn before those
Init ==
  /\ \E busy \in BOOLEAN :
       /\ srv = [rev |-> 1, work |-> IF busy THEN 1 ELSE 0, queued |-> 0,
                 out |-> [t \in Turns |-> IF busy /\ t = 1 THEN "running" ELSE "none"]]
       /\ streaming = busy /\ canCancel = busy /\ activeTurn = srv.work
  /\ told = [rev |-> 0, turn |-> FALSE, lost |-> FALSE] /\ rev = 1
  /\ finalized \in BOOLEAN /\ recovery = 0
  /\ poll = [on |-> FALSE, status |-> None]
  /\ streams = [t \in Turns |-> "none"]
  /\ sending = "none" /\ stopOff = FALSE
  /\ calls = {} /\ answers = {} /\ steered = {}
  /\ acts = 0

Answered(a) ==
  \/ SendAnswered(a) \/ SteerAnswered(a) \/ StateAnswered(a) \/ StopAnswered(a) \/ CancelAnswered(a)

\* What goes on by itself: turns end and settle, what was asked is served and answered
Progress ==
  \/ TurnEnds \/ Settle \/ HearChange
  \/ \E t \in Turns : StreamOpens(t) \/ StreamEnds(t)
  \/ \E c \in calls : Serve(c) \/ Refreshed(c)
  \/ \E a \in answers : Answered(a)

\* One status poll after the other
PollRound == Poll \/ PollAnswered

Next ==
  \/ Progress \/ PollRound
  \/ Send \/ Steer \/ Stop \/ OtherViewer \/ Lose \/ EventsLost
  \/ \E t \in Turns : StreamRefused(t)

\* Neither the server and the network nor the timer stops.  Every step of Progress uses up a
\* request, an answer, an event or a turn, and polls make none of these
Fairness == WF_vars(Progress) /\ WF_vars(PollRound)

Spec == Init /\ [][Next]_vars /\ Fairness

(***************************************************************************)
(* Properties                                                              *)
(***************************************************************************)
\* At the server's revision, the turn whose submission has not settled is this one
IsTurnAt(turn, at) == at = srv.rev /\ srv.work # 0 => turn = srv.work

\* A steer stops no turn but the one its user saw, whatever other viewers and the queue did
\* meanwhile; and the revision it names already tells that turn, on the page and in a request on
\* its way, so that either of the two checks the server makes would keep it from another turn
SteerHitsDisplayedTurn ==
  /\ \A s \in steered : s.stopped = s.shown
  /\ IsTurnAt(activeTurn, rev)
  /\ \A c \in calls : c.kind = "steer" => IsTurnAt(c.turn, c.rev)

\* The turn of a broken live response is seen to end, as long as it is the session's last
\* (streamRecoveryTurnId and the status polls)
BrokenResponseSettles ==
  LET awaited == recovery # 0 /\ recovery = Latest(srv) /\ poll.on /\ streaming IN
  awaited ~> ~awaited

\* A Stop that was pressed comes back: its button does not stay disabled (stopTurn), though the
\* turn it was pressed for may be gone, and the turn it stops finalized before.  finalizeTurn does
\* nothing a second time, and then the conversation's event alone brings the button back: it may
\* stay disabled where that event was lost with the stream
StopSettles == stopOff ~> ~stopOff \/ (finalized /\ told.lost)
=============================================================================
