---------------------------- MODULE ClaudeHarness ----------------------------
(***************************************************************************)
(* One Claude process and the lock that serialises its lifecycle           *)
(* (dartclaw_core, claude_code_harness.dart, base_harness.dart and         *)
(* process_lifecycle.dart), as operators on a record:                      *)
(*   state     WorkerState                                                 *)
(*   stopping  isStopping                                                  *)
(*   process   currentProcess is alive                                     *)
(*   bound     _conversationSessionId                                      *)
(*   turn      the turn that awaits _turnCompleter                         *)
(*   jobs      the operations chained by withLock, the first one running;  *)
(*             "begun" tells whether it has passed its first effect        *)
(* A signalled process exits before the grace period ends.                 *)
(***************************************************************************)
EXTENDS Integers, Sequences

CONSTANT None

StartedHarness ==
  [state |-> "idle", stopping |-> FALSE, process |-> TRUE,
   bound |-> None, turn |-> None, jobs |-> <<>>]

\* stop() called by a restart, the harness timeout, a continuity reset and
\* twice by a teardown.
StopKinds == {"stop", "timeout", "reset", "teardown", "dispose"}
\* _restartForExecution: the process is stopped, or serves another session.
RespawnKinds == {"respawn", "rebind"}
JobKinds == StopKinds \cup RespawnKinds \cup {"revive", "start"}

Harnesses(turns, sessions) ==
  [state : {"stopped", "idle", "busy", "crashed"}, stopping : BOOLEAN, process : BOOLEAN,
   bound : sessions \cup {None}, turn : turns \cup {None},
   jobs : Seq([kind : JobKinds, by : turns \cup sessions \cup {None}, begun : BOOLEAN])]

\* withLock: the operation runs when those before it have ended.
Chain(g, kind, by) ==
  [g EXCEPT !.jobs = Append(@, [kind |-> kind, by |-> by, begun |-> FALSE])]

\* stop() raises the flag before it queues.
RequestStop(g, kind, by) == [Chain(g, kind, by) EXCEPT !.stopping = TRUE]

AtJob(g, kinds, begun) ==
  g.jobs # <<>> /\ Head(g.jobs).kind \in kinds /\ Head(g.jobs).begun = begun
Begun(g) == [g EXCEPT !.jobs[1].begun = TRUE]
Done(g) == [g EXCEPT !.jobs = Tail(@)]

\* _stopInternal up to the kill, and (Down) its end.
Halted(g) == [Begun(g) EXCEPT !.state = "stopped", !.turn = None]
Down(g) == Done([g EXCEPT !.process = FALSE])

\* _startWithCleanup succeeds or fails.
Up(g) == Done([g EXCEPT !.state = "idle", !.process = TRUE, !.bound = None])
NotUp(g) == Done([g EXCEPT !.state = "stopped", !.process = FALSE])

\* turn(): the message is written, and its result arrives.
Driven(g, t, s) == [g EXCEPT !.state = "busy", !.turn = t, !.bound = s]
Finished(g) == [g EXCEPT !.turn = None, !.state = IF @ = "stopped" THEN @ ELSE "idle"]

\* The process exits: unless a stop is under way, that is a crash.
Exited(g) ==
  IF g.state = "stopped" \/ g.stopping THEN [g EXCEPT !.process = FALSE]
  ELSE [g EXCEPT !.process = FALSE, !.state = "crashed", !.turn = None]
=============================================================================
