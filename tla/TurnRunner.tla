----------------------------- MODULE TurnRunner -----------------------------
(***************************************************************************)
(* Turns on one TurnRunner (dartclaw_runtime, turn_runner*.dart) and its   *)
(* Claude harness: reservation under an execution lease, preparation, the  *)
(* provider turn, the answer, cancellation with its worker restart,        *)
(* settlement, and the return of the lease by TurnManager or by the task   *)
(* executor (turn_manager.dart, task_executor_helpers.dart).               *)
(*                                                                         *)
(* An action is the code between two awaits.  The runner serves the        *)
(* primary lane, a worker that is cached between leases, or a worker built *)
(* for one workflow step.                                                  *)
(***************************************************************************)
EXTENDS ClaudeHarness, FiniteSets

CONSTANTS
  Turns,     \* turns, each reserved once
  Sessions,
  Lanes      \* the lanes the runner may serve

ASSUME TurnAssumption ==
  /\ Lanes \subseteq {"primary", "cached", "scoped"}
  /\ None \notin Turns \cup Sessions

VARIABLES
  lane,      \* the lane this runner serves
  lease,     \* the turn whose execution lease holds the runner
  gone,      \* the worker was handed to _tearDownWorker
  session,   \* per turn: the session it was reserved for
  stage,     \* per turn: the await it is at
  active,    \* _activeTurns
  marks,     \* per turn: the sets of the runner it is in
  recovery,  \* _acceptedCancelRecovery: per session the turn whose restart counts
  awaited,   \* per turn: the recovery it awaits
  restart,   \* per turn: how far _restartWorkerAfterAcceptedCancel is
  resolved,  \* per turn: the local "outcome" of _runTurnInner
  outcome,   \* per turn: the outcome its waiters were told
  answer,    \* per turn: the assistant message it left in the transcript
  reusable,  \* _isReusable
  harness

leaseVars == <<lane, lease, gone, session>>
turnVars == <<stage, marks, resolved>>
runVars == <<leaseVars, turnVars, active, recovery, awaited, restart, outcome, answer,
             reusable, harness>>

Stages == {"new", "refused", "reserved", "released", "preparing", "recovering",
           "accounting", "respawning", "entering", "reviving", "ready", "driving",
           "timingOut", "tracking", "answering", "noting", "closing", "settling", "settled"}

\* _cancelledTurns and _externallyCompletedTurns, filled together;
\* _acceptedCancelCleanupPending; _postProviderTurns.
Marks == {"cancelled", "cleanupPending", "postProvider"}
Outcomes == {"none", "completed", "failed", "cancelled"}

\* A note tells of a failure; "untouched" is an answer that was stored, while
\* touching its session failed.
Messages == {"none", "answer", "note", "untouched"}

TurnTypeOK ==
  /\ lane \in Lanes /\ lease \in Turns \cup {None} /\ gone \in BOOLEAN
  /\ session \in [Turns -> Sessions \cup {None}]
  /\ stage \in [Turns -> Stages]
  /\ active \in Turns \cup {None}
  /\ marks \in [Turns -> SUBSET Marks]
  /\ recovery \in [Sessions -> Turns \cup {None}]
  /\ awaited \in [Turns -> Turns \cup {None}]
  /\ restart \in [Turns -> {"none", "cancel", "stop", "stopped", "starting", "done", "failed"}]
  /\ resolved \in [Turns -> Outcomes] /\ outcome \in [Turns -> Outcomes]
  /\ answer \in [Turns -> Messages]
  /\ reusable \in BOOLEAN
  /\ harness \in Harnesses(Turns, Sessions)
  /\ \A i \in 2..Len(harness.jobs) : ~harness.jobs[i].begun

RunnerInit ==
  /\ lane \in Lanes /\ lease = None /\ gone = FALSE
  /\ session = [t \in Turns |-> None]
  /\ stage = [t \in Turns |-> "new"]
  /\ active = None
  /\ marks = [t \in Turns |-> {}]
  /\ recovery = [s \in Sessions |-> None]
  /\ awaited = [t \in Turns |-> None]
  /\ restart = [t \in Turns |-> "none"]
  /\ resolved = [t \in Turns |-> "none"] /\ outcome = [t \in Turns |-> "none"]
  /\ answer = [t \in Turns |-> "none"]
  /\ reusable = TRUE
  /\ harness = StartedHarness

-----------------------------------------------------------------------------
(* Leases.                                                                 *)

\* _tearDownWorker: stop and dispose the harness.
TearDown == gone' = TRUE /\ harness' = RequestStop(harness, "teardown", None)

\* _release of the execution lease: a worker is kept when it is idle and not
\* known to be bad, the worker of a step never is.
GiveLeaseBack(fit) ==
  /\ lease' = None
  /\ IF lane = "scoped" \/ (lane = "cached" /\ ~(fit /\ harness.state = "idle"))
     THEN TearDown ELSE UNCHANGED <<gone, harness>>
  /\ UNCHANGED <<lane, session>>

\* The coordinator leases the runner to a turn and _reserveTurnState installs
\* it, unless the runner still has an active turn.
Reserve(t, s) ==
  /\ stage[t] = "new" /\ lease = None /\ ~gone
  /\ lane # "primary" => harness.state = "idle"
  /\ session' = [session EXCEPT ![t] = s]
  /\ IF active = None
     THEN lease' = t /\ active' = t /\ stage' = [stage EXCEPT ![t] = "reserved"]
     ELSE stage' = [stage EXCEPT ![t] = "refused"] /\ UNCHANGED <<lease, active>>
  /\ UNCHANGED <<lane, gone, marks, resolved, recovery, awaited, restart, outcome, answer,
                 reusable, harness>>

Execute(t) ==
  /\ stage[t] = "reserved"
  /\ stage' = [stage EXCEPT ![t] = "preparing"]
  /\ UNCHANGED <<leaseVars, marks, resolved, active, recovery, awaited, restart, outcome,
                 answer, reusable, harness>>

\* TurnManager.releaseTurn: the caller could not start what it reserved.
Release(t) ==
  /\ stage[t] = "reserved" /\ lane # "scoped"
  /\ stage' = [stage EXCEPT ![t] = "released"]
  /\ active' = IF active # None /\ session[active] = session[t] THEN None ELSE active
  /\ GiveLeaseBack(reusable)
  /\ UNCHANGED <<marks, resolved, recovery, awaited, restart, outcome, answer, reusable>>

\* A cached worker is evicted, or found not idle by an acquisition.
Evict ==
  /\ lane = "cached" /\ lease = None /\ ~gone
  /\ TearDown
  /\ UNCHANGED <<lane, lease, session, turnVars, active, recovery, awaited, restart, outcome,
                 answer, reusable>>

-----------------------------------------------------------------------------
(* _runTurnInner.                                                          *)

\* The catch block: a cancelled turn goes straight to the finally block, any
\* other leaves a message first.  "passed" is what the inner finally adds.
Throw(t, passed) ==
  /\ resolved' = [resolved EXCEPT ![t] = IF "cancelled" \in marks[t] THEN "cancelled" ELSE "failed"]
  /\ stage' = [stage EXCEPT ![t] = IF marks[t] \cap {"cancelled", "cleanupPending"} # {}
                                   THEN "closing" ELSE "noting"]
  /\ marks' = [marks EXCEPT ![t] = (@ \cup passed) \ {"cancelled"}]

Return(t, result) ==
  /\ resolved' = [resolved EXCEPT ![t] = result]
  /\ stage' = [stage EXCEPT ![t] = "closing"]

Move(t, next) == stage' = [stage EXCEPT ![t] = next] /\ UNCHANGED <<marks, resolved>>

\* Past the recovery: a turn cancelled in the meantime goes no further.
Begin(t) ==
  IF "cancelled" \in marks[t] THEN Return(t, "cancelled") /\ UNCHANGED marks
  ELSE Move(t, "accounting")

\* Mutant: the turn does not wait for a recovery of its session.
PrepareAtOnce(t) ==
  /\ stage[t] = "preparing"
  /\ Begin(t)
  /\ UNCHANGED <<leaseVars, active, recovery, awaited, restart, outcome, answer, reusable, harness>>

\* Guards, prompt, then the recovery of the session.
Prepare(t) ==
  /\ stage[t] = "preparing"
  /\ LET pending == recovery[session[t]] IN
     /\ awaited' = [awaited EXCEPT ![t] = pending]
     /\ IF pending = None THEN Begin(t) ELSE Move(t, "recovering")
  /\ UNCHANGED <<leaseVars, active, recovery, restart, outcome, answer, reusable, harness>>

\* A message guard blocks the turn.
Blocked(t) ==
  /\ stage[t] = "preparing"
  /\ Return(t, "failed")
  /\ UNCHANGED <<leaseVars, marks, active, recovery, awaited, restart, outcome, answer, reusable, harness>>

PrepareFails(t) ==
  /\ stage[t] = "preparing"
  /\ Throw(t, {})
  /\ UNCHANGED <<leaseVars, active, recovery, awaited, restart, outcome, answer, reusable, harness>>

Recovered(t) ==
  /\ stage[t] = "recovering" /\ restart[awaited[t]] \in {"done", "failed"}
  /\ IF restart[awaited[t]] = "done" THEN Begin(t) ELSE Throw(t, {})
  /\ UNCHANGED <<leaseVars, active, recovery, awaited, restart, outcome, answer, reusable, harness>>

\* _beginSessionAccounting returns and the harness is called: a process that
\* is stopped or serves another session is replaced first.
Accounted(t) ==
  LET s == session[t]  other == harness.bound \notin {None, s} IN
  /\ stage[t] = "accounting"
  /\ IF other \/ harness.state = "stopped"
     THEN /\ harness' = Chain(harness, IF other THEN "rebind" ELSE "respawn", t)
          /\ Move(t, "respawning")
     ELSE Move(t, "entering") /\ UNCHANGED harness
  /\ UNCHANGED <<leaseVars, active, recovery, awaited, restart, outcome, answer, reusable>>

AccountingFails(t) ==
  /\ stage[t] = "accounting"
  /\ Throw(t, {"postProvider"})
  /\ UNCHANGED <<leaseVars, active, recovery, awaited, restart, outcome, answer, reusable, harness>>

\* turn() past _restartForExecution: recoverFromCrash, unless its retries are
\* used up, then the message goes to an idle process.
Enter(t, retries) ==
  LET crashed == stage[t] = "entering" /\ harness.state = "crashed" IN
  /\ stage[t] \in {"entering", "ready"}
  /\ IF crashed /\ retries
     THEN harness' = Chain(harness, "revive", t) /\ Move(t, "reviving")
     ELSE IF ~crashed /\ harness.state = "idle"
     THEN harness' = Driven(harness, t, session[t]) /\ Move(t, "driving")
     ELSE /\ harness' = IF crashed THEN harness ELSE [harness EXCEPT !.bound = session[t]]
          /\ Throw(t, {"postProvider"})
  /\ UNCHANGED <<leaseVars, active, recovery, awaited, restart, outcome, answer, reusable>>

ProviderAnswers(t) ==
  /\ stage[t] = "driving" /\ harness.turn = t /\ harness.process
  /\ harness' = Finished(harness)
  /\ Move(t, "tracking")
  /\ UNCHANGED <<leaseVars, active, recovery, awaited, restart, outcome, answer, reusable>>

\* The harness's own timeout comes a minute after the runner's limit, so only
\* a turn that was cancelled already meets it.
HarnessTimeout(t) ==
  /\ stage[t] = "driving" /\ "cancelled" \in marks[t]
  /\ harness' = RequestStop(harness, "timeout", t)
  /\ Move(t, "timingOut")
  /\ UNCHANGED <<leaseVars, active, recovery, awaited, restart, outcome, answer, reusable>>

\* Usage is stored; from here on a cancel comes too late, and one that came
\* before wins.
Tracked(t) ==
  /\ stage[t] = "tracking"
  /\ marks' = [marks EXCEPT ![t] = (@ \cup {"postProvider"}) \ {"cancelled"}]
  /\ IF "cancelled" \in marks[t] THEN Return(t, "cancelled")
     ELSE stage' = [stage EXCEPT ![t] = "answering"] /\ UNCHANGED resolved
  /\ UNCHANGED <<leaseVars, active, recovery, awaited, restart, outcome, answer, reusable, harness>>

\* The answer, or the provider's error, passes the guards and is stored.
Answer(t, result, message) ==
  /\ stage[t] = "answering"
  /\ answer' = [answer EXCEPT ![t] = message]
  /\ Return(t, result)
  /\ UNCHANGED <<leaseVars, marks, active, recovery, awaited, restart, outcome, reusable, harness>>

\* A guard or the store throws, or touchUpdatedAt does once the answer or the
\* error is stored.
AnswerFails(t, message) ==
  /\ stage[t] = "answering"
  /\ answer' = [answer EXCEPT ![t] = message]
  /\ Throw(t, {})
  /\ UNCHANGED <<leaseVars, active, recovery, awaited, restart, outcome, reusable, harness>>

\* The failure note of the catch block is stored, or that fails as well; it
\* does not replace what is in the transcript.
Noted(t, message) ==
  /\ stage[t] = "noting"
  /\ answer' = [answer EXCEPT ![t] = IF @ = "none" THEN message ELSE @]
  /\ Move(t, "closing")
  /\ UNCHANGED <<leaseVars, active, recovery, awaited, restart, outcome, reusable, harness>>

\* The finally block: the outcome of an accepted cancel stands.
Close(t) ==
  LET kept == "cleanupPending" \in marks[t] IN
  /\ stage[t] = "closing"
  /\ outcome' = [outcome EXCEPT ![t] = IF kept THEN @ ELSE resolved[t]]
  /\ active' = IF active = t /\ ~kept THEN None ELSE active
  /\ awaited' = [awaited EXCEPT ![t] = recovery[session[t]]]
  /\ stage' = [stage EXCEPT ![t] = "settling"]
  /\ marks' = [marks EXCEPT ![t] = {}]
  /\ UNCHANGED <<leaseVars, resolved, recovery, restart, answer, reusable, harness>>

\* Mutant: TurnManager returns the lease when the outcome is told.
SettleOnOutcome(t) ==
  /\ lane # "scoped" /\ lease = t /\ outcome[t] # "none"
  /\ GiveLeaseBack(reusable)
  /\ UNCHANGED <<turnVars, active, recovery, awaited, restart, outcome, answer, reusable>>

\* _runTurnAndSettle waits for the recovery; TurnManager then returns the lease.
Settle(t) ==
  LET end == IF awaited[t] = None THEN "done" ELSE restart[awaited[t]]
      fit == reusable /\ end = "done"
  IN /\ stage[t] = "settling" /\ end \in {"done", "failed"}
     /\ reusable' = fit
     /\ stage' = [stage EXCEPT ![t] = "settled"]
     /\ IF lane = "scoped" THEN UNCHANGED <<leaseVars, harness>> ELSE GiveLeaseBack(fit)
     /\ UNCHANGED <<marks, resolved, active, recovery, awaited, restart, outcome, answer>>

\* runStepTurn returns with the outcome, and _runLeasedTask gives the worker back.
StepReturns(t) ==
  /\ lane = "scoped" /\ lease = t /\ outcome[t] # "none"
  /\ GiveLeaseBack(reusable)
  /\ UNCHANGED <<turnVars, active, recovery, awaited, restart, outcome, answer, reusable>>

-----------------------------------------------------------------------------
(* Cancellation and the restart of the worker.                             *)

\* Mutant: a turn whose provider has answered is still cancelled.
CancelLate(t) ==
  /\ active = t
  /\ outcome' = [outcome EXCEPT ![t] = "cancelled"]
  /\ active' = None
  /\ marks' = [marks EXCEPT ![t] = @ \cup {"cancelled", "cleanupPending"}]
  /\ recovery' = [recovery EXCEPT ![session[t]] = t]
  /\ restart' = [restart EXCEPT ![t] = "cancel"]
  /\ UNCHANGED <<leaseVars, stage, resolved, awaited, answer, reusable, harness>>

\* cancelTurnById is accepted, for an operator, a limit or a detected loop:
\* the turn's waiters are told at once.
Cancel(t) ==
  /\ active = t /\ "postProvider" \notin marks[t]
  /\ outcome' = [outcome EXCEPT ![t] = "cancelled"]
  /\ active' = None
  /\ marks' = [marks EXCEPT ![t] = @ \cup {"cancelled", "cleanupPending"}]
  /\ recovery' = [recovery EXCEPT ![session[t]] = t]
  /\ restart' = [restart EXCEPT ![t] = "cancel"]
  /\ UNCHANGED <<leaseVars, stage, resolved, awaited, answer, reusable, harness>>

\* cancel() has signalled the process, or stop() has returned: the next call.
Restart(t) ==
  /\ \/ /\ restart[t] = "cancel"
        /\ restart' = [restart EXCEPT ![t] = "stop"]
        /\ harness' = RequestStop(harness, "stop", t)
     \/ /\ restart[t] = "stopped"
        /\ restart' = [restart EXCEPT ![t] = "starting"]
        /\ harness' = Chain(harness, "start", t)
  /\ UNCHANGED <<leaseVars, turnVars, active, recovery, awaited, outcome, answer, reusable>>

\* Mutant: a failed restart does not complete the recovery.
RestartedSilently(t, ok) ==
  /\ restart' = [restart EXCEPT ![t] = IF ok THEN "done" ELSE @]
  /\ recovery' = [s \in Sessions |-> IF ok /\ recovery[s] = t THEN None ELSE recovery[s]]

\* A failed recovery stays where later turns of the session find it.
Restarted(t, ok) ==
  /\ restart' = [restart EXCEPT ![t] = IF ok THEN "done" ELSE "failed"]
  /\ recovery' = [s \in Sessions |-> IF ok /\ recovery[s] = t THEN None ELSE recovery[s]]

-----------------------------------------------------------------------------
(* The lifecycle lock of the harness.                                      *)

Job == Head(harness.jobs)

\* The turn that the harness drives gets an error, if it still listens.
Interrupt(t) ==
  IF t # None /\ stage[t] = "driving" THEN Throw(t, {"postProvider"}) ELSE UNCHANGED turnVars

\* A stop or a respawn reaches the head of the chain.  A respawn is refused
\* by a busy harness and needless when the process was started meanwhile.
Halt ==
  /\ AtJob(harness, StopKinds \cup RespawnKinds, FALSE)
  /\ IF Job.kind \in RespawnKinds /\ harness.state = "busy"
     THEN harness' = Done(harness) /\ Throw(Job.by, {"postProvider"})
     ELSE IF Job.kind = "respawn" /\ harness.state # "stopped"
     THEN harness' = Done(harness) /\ Move(Job.by, "entering")
     ELSE harness' = Halted(harness) /\ Interrupt(harness.turn)
  /\ UNCHANGED <<leaseVars, active, recovery, awaited, restart, outcome, answer, reusable>>

\* stop() returns to whoever called it; dispose() stops once more.
StopDone ==
  /\ AtJob(harness, StopKinds, TRUE)
  /\ harness' = CASE Job.kind = "teardown" -> RequestStop(Down(harness), "dispose", None)
                  [] Job.kind = "reset" -> [Down(harness) EXCEPT !.bound = None]
                  [] OTHER -> Down(harness)
  /\ restart' = IF Job.kind = "stop" THEN [restart EXCEPT ![Job.by] = "stopped"] ELSE restart
  /\ IF Job.kind = "timeout" THEN Throw(Job.by, {"postProvider"}) ELSE UNCHANGED turnVars
  /\ UNCHANGED <<leaseVars, active, recovery, awaited, outcome, answer, reusable>>

RespawnDone(ok) ==
  /\ AtJob(harness, RespawnKinds, TRUE)
  /\ IF ok THEN harness' = Up(harness) /\ Move(Job.by, "entering")
     ELSE harness' = NotUp(harness) /\ Throw(Job.by, {"postProvider"})
  /\ UNCHANGED <<leaseVars, active, recovery, awaited, restart, outcome, answer, reusable>>

\* The locked part of recoverFromCrash.
Revive(ok) ==
  /\ AtJob(harness, {"revive"}, FALSE)
  /\ CASE harness.state = "stopped" -> harness' = Done(harness) /\ Throw(Job.by, {"postProvider"})
       [] harness.state = "crashed" /\ ~ok -> harness' = NotUp(harness) /\ Throw(Job.by, {"postProvider"})
       [] harness.state = "crashed" /\ ok -> harness' = Up(harness) /\ Move(Job.by, "ready")
       [] OTHER -> harness' = Done(harness) /\ Move(Job.by, "ready")
  /\ UNCHANGED <<leaseVars, active, recovery, awaited, restart, outcome, answer, reusable>>

\* start(): nothing to do for an idle harness, refused by a busy one or while
\* a process is left.
StartBegins ==
  /\ AtJob(harness, {"start"}, FALSE)
  /\ IF harness.state \in {"idle", "busy"} \/ harness.process
     THEN harness' = Done(harness) /\ Restarted(Job.by, harness.state = "idle")
     ELSE harness' = [Begun(harness) EXCEPT !.stopping = FALSE] /\ UNCHANGED <<restart, recovery>>
  /\ UNCHANGED <<leaseVars, turnVars, active, awaited, outcome, answer, reusable>>

StartDone(ok) ==
  /\ AtJob(harness, {"start"}, TRUE)
  /\ harness' = IF ok THEN Up(harness) ELSE NotUp(harness)
  /\ Restarted(Job.by, ok)
  /\ UNCHANGED <<leaseVars, turnVars, active, awaited, outcome, answer, reusable>>

\* resetSessionContinuity of a session without a turn, whose conversation the
\* process carries.
Reset(s) ==
  /\ ~gone /\ harness.bound = s /\ harness.state # "busy"
  /\ \A t \in {active, lease} \ {None} : session[t] # s
  /\ \A i \in 1..Len(harness.jobs) : harness.jobs[i].kind # "reset"
  /\ harness' = RequestStop(harness, "reset", s)
  /\ UNCHANGED <<leaseVars, turnVars, active, recovery, awaited, restart, outcome, answer, reusable>>

\* The process exits, on its own or by a signal.
ProcessExits ==
  /\ harness.process
  /\ harness' = Exited(harness)
  /\ IF harness.state = "stopped" \/ harness.stopping THEN UNCHANGED turnVars
     ELSE Interrupt(harness.turn)
  /\ UNCHANGED <<leaseVars, active, recovery, awaited, restart, outcome, answer, reusable>>

-----------------------------------------------------------------------------
Answers == {<<"completed", "answer">>, <<"failed", "note">>, <<"failed", "none">>}

TurnStep(t) ==
  \/ Execute(t) \/ Release(t) \/ Prepare(t) \/ Blocked(t) \/ PrepareFails(t) \/ Recovered(t)
  \/ Accounted(t) \/ AccountingFails(t) \/ (\E retries \in BOOLEAN : Enter(t, retries))
  \/ ProviderAnswers(t) \/ HarnessTimeout(t) \/ Tracked(t)
  \/ (\E a \in Answers : Answer(t, a[1], a[2]))
  \/ (\E m \in Messages \ {"answer"} : AnswerFails(t, m))
  \/ (\E m \in {"note", "none"} : Noted(t, m)) \/ Close(t) \/ Settle(t)

JobStep ==
  Halt \/ StopDone \/ StartBegins \/ \E ok \in BOOLEAN : RespawnDone(ok) \/ Revive(ok) \/ StartDone(ok)

RunnerNext ==
  \/ \E t \in Turns : (\E s \in Sessions : Reserve(t, s)) \/ TurnStep(t) \/ StepReturns(t) \/ Cancel(t) \/ Restart(t)
  \/ \E s \in Sessions : Reset(s)
  \/ JobStep \/ ProcessExits \/ Evict

\* Handlers run on, lifecycle operations end (each has a grace period or a
\* timeout), and a driven turn is answered or meets a limit of its own.
RunnerFairness ==
  /\ \A t \in Turns : /\ WF_runVars(TurnStep(t) \/ (stage[t] = "driving" /\ Cancel(t)))
                     /\ WF_runVars(Restart(t)) /\ WF_runVars(StepReturns(t))
  /\ WF_runVars(JobStep)

RunnerSpec == RunnerInit /\ [][RunnerNext]_runVars /\ RunnerFairness

-----------------------------------------------------------------------------
(* Properties.                                                             *)

\* What the waiters of a turn were told is final: the finally block of a turn
\* that was cancelled under way does not replace it.
OutcomeIsFinal ==
  [][\A t \in Turns : outcome[t] # "none" => outcome'[t] = outcome[t]]_runVars

\* The transcript agrees with what was told: the answer of a turn is in it
\* exactly when the turn completed, also when a cancel races the provider.  A
\* failed turn may leave its answer when the session could not be touched
\* afterwards; a cancelled one never leaves any.
OutcomeMatchesTranscript ==
  \A t \in Turns : outcome[t] # "none" =>
    /\ outcome[t] = "completed" <=> answer[t] = "answer"
    /\ answer[t] = "untouched" => outcome[t] = "failed"

\* One turn per worker at a time: the turn that is active and the turn the
\* harness drives hold the lease, so that no reservation meets an active turn;
\* a worker that was given back to be torn down may still drive its last one.
\* No stop, restart or crash leaves that turn waiting for a harness that is no
\* longer busy with it.
OneTurnPerWorker ==
  /\ active # None => lease = active
  /\ harness.turn # None => harness.state = "busy" /\ (lease = harness.turn \/ gone)
  /\ \A t \in Turns : stage[t] # "refused"

\* An accepted cancel blocks its session: no later turn of the session reaches
\* the provider before the restart has succeeded.
RecoveryBeforeNextTurn ==
  [][\A t \in Turns :
       harness'.turn = t /\ harness.turn # t /\ "cancelled" \notin marks[t]
         => recovery[session[t]] = None]_runVars

\* A turn that TurnManager started keeps its lease until the restart of its
\* worker is over, so that no other session meets that restart.
Restarting(t) == restart[t] \notin {"none", "done", "failed"}
RecoveryUnderLease ==
  \A t \in Turns :
    lane # "scoped" /\ Restarting(t) /\ stage[t] # "released" => lease = t

\* A turn that was started settles, whatever is cancelled, crashes, fails to
\* restart or is reset.
TurnsSettle == \A t \in Turns : stage[t] = "preparing" ~> stage[t] = "settled"

\* The lease outlives whatever still uses the worker: the turn that is active,
\* the turn that the harness drives, and the restart after a cancel.
LeaseKept == TurnTypeOK /\ OneTurnPerWorker /\ RecoveryUnderLease

\* A cancel has the last word: its outcome is not replaced, and the session's
\* next turn waits for the restart it asked for.
CancelStands == OutcomeIsFinal /\ RecoveryBeforeNextTurn

\* The exit handler tells an unexpected exit from an intended one: a process
\* that died while nobody was stopping it is noticed.
CrashIsNoticed ==
  (~harness.process /\ harness.jobs = <<>> /\ \A t \in Turns : ~Restarting(t))
    => harness.state \in {"stopped", "crashed"}

=============================================================================
