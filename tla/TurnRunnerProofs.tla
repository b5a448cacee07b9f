--------------------------- MODULE TurnRunnerProofs ---------------------------
(***************************************************************************)
(* What holds of every turn runner, for any number of turns and sessions:  *)
(* the lease outlives whatever uses the worker, an outcome is final and    *)
(* agrees with the transcript, and a cancelled session waits for its       *)
(* restart.  All of it follows from one inductive invariant.               *)
(***************************************************************************)
EXTENDS TurnRunner, TLAPS

-----------------------------------------------------------------------------
(* The inductive invariant.                                                *)

\* The stages in which a turn is under way, from reservation to settlement.
LiveStages == Stages \ {"new", "refused", "released", "settled"}
Live(t) == stage[t] \in LiveStages

\* The stages on the way from a finished recovery to the provider.
Outbound == {"accounting", "respawning", "entering", "reviving", "ready"}

\* The stages after which no answer can follow.
Ended == {"closing", "settling", "settled"}

\* One turn is under way at a time.  It holds the lease, unless it is a
\* workflow step whose worker is being torn down.
HoldOK ==
  /\ active # None => lease = active
  /\ \A t \in Turns : Live(t) => lease = t \/ (lane = "scoped" /\ gone)
  /\ \A t, u \in Turns : Live(t) /\ Live(u) => t = u

\* A turn that is active has not been cancelled nor told its outcome.
ActiveOK(t) ==
  /\ active = t => /\ Live(t) /\ stage[t] # "settling"
                   /\ marks[t] \cap {"cancelled", "cleanupPending"} = {}
                   /\ outcome[t] = "none" /\ restart[t] = "none"
  /\ stage[t] = "new" => marks[t] = {} /\ restart[t] = "none" /\ outcome[t] = "none"
  /\ stage[t] # "new" => session[t] \in Sessions
  /\ stage[t] # "refused"

\* An outcome that is known before the finally block is that of a cancel,
\* and the mark that makes the finally block keep it is still there.
MarksOK(t) ==
  /\ outcome[t] # "none" => "cleanupPending" \in marks[t] \/ stage[t] \in {"settling", "settled"}
  /\ "cleanupPending" \in marks[t]
       => "cancelled" \in marks[t] \/ stage[t] \in {"noting", "closing"}

\* What is in the transcript, and which outcome it leads to.
AnswerOK(t) ==
  /\ stage[t] \notin Ended => answer[t] # "answer" /\ resolved[t] # "completed" /\ outcome[t] # "completed"
  /\ stage[t] \notin Ended \cup {"noting"} => answer[t] = "none"
  /\ stage[t] = "answering" => "postProvider" \in marks[t] /\ marks[t] \cap {"cancelled", "cleanupPending"} = {}
  /\ stage[t] = "closing" =>
       /\ resolved[t] = "completed" <=> answer[t] = "answer"
       /\ answer[t] = "answer" => "postProvider" \in marks[t] /\ "cleanupPending" \notin marks[t]
       /\ outcome[t] # "completed"
  /\ stage[t] \in {"noting", "closing"} /\ answer[t] = "untouched" =>
       resolved[t] = "failed" /\ "postProvider" \in marks[t] /\ "cleanupPending" \notin marks[t]
  /\ stage[t] \in {"settling", "settled"} =>
       /\ outcome[t] = "completed" <=> answer[t] = "answer"
       /\ answer[t] = "untouched" => outcome[t] = "failed"

\* The restart a cancel asked for is the one its session waits for, until it
\* has succeeded; the turn itself does not settle before.
RestartOK(t) ==
  /\ Restarting(t) => Live(t) \/ stage[t] = "released"
  /\ Restarting(t) /\ Live(t) => recovery[session[t]] = t
  /\ Restarting(t) /\ stage[t] = "settling" => awaited[t] = t
  /\ restart[t] = "done" => \A s \in Sessions : recovery[s] # t
  /\ stage[t] = "recovering" /\ "cancelled" \notin marks[t]
       => recovery[session[t]] \in {awaited[t], None}
  /\ stage[t] \in Outbound /\ "cancelled" \notin marks[t] => recovery[session[t]] = None

\* The turn the harness drives is at the provider, and the harness is busy
\* with it; the operation that has begun left it without one.
DrivenOK ==
  /\ harness.turn # None =>
       /\ harness.state = "busy"
       /\ stage[harness.turn] \in {"driving", "timingOut"}
       /\ lease = harness.turn \/ gone
  /\ harness.jobs # <<>> /\ harness.jobs[1].begun
       => harness.turn = None /\ harness.state \in {"stopped", "crashed"}

\* Whoever asked for an operation on the harness still waits for it, and for
\* no other.
TurnKinds == RespawnKinds \cup {"revive", "timeout"}
RestartKinds == {"stop", "start"}
AwaitedBy(job, at, restarts) ==
  /\ job.kind \in TurnKinds \cup RestartKinds => job.by \in Turns
  /\ job.kind \in RespawnKinds => at[job.by] = "respawning"
  /\ job.kind = "revive" => at[job.by] = "reviving"
  /\ job.kind = "timeout" => at[job.by] = "timingOut"
  /\ job.kind = "stop" => restarts[job.by] = "stop"
  /\ job.kind = "start" => restarts[job.by] = "starting"
JobsIn(q, at, restarts) ==
  /\ \A i \in 1..Len(q) : AwaitedBy(q[i], at, restarts)
  /\ \A i, k \in 1..Len(q) :
       i # k /\ q[i].by = q[k].by => /\ ~(q[i].kind \in TurnKinds /\ q[k].kind \in TurnKinds)
                                     /\ ~(q[i].kind \in RestartKinds /\ q[k].kind \in RestartKinds)
JobsOK == JobsIn(harness.jobs, stage, restart)

TurnOK(t) == ActiveOK(t) /\ MarksOK(t) /\ AnswerOK(t) /\ RestartOK(t)
RunnerInv ==
  TurnTypeOK /\ HoldOK /\ (\A t \in Turns : TurnOK(t)) /\ DrivenOK /\ JobsOK

-----------------------------------------------------------------------------
(* The harness as a record: what each of its operators changes.            *)

Requests == [kind : JobKinds, by : Turns \cup Sessions \cup {None}, begun : BOOLEAN]

\* The fields of a harness.
LEMMA HarnessFields ==
  ASSUME NEW g \in Harnesses(Turns, Sessions)
  PROVE  /\ g.state \in {"stopped", "idle", "busy", "crashed"}
         /\ g.stopping \in BOOLEAN /\ g.process \in BOOLEAN
         /\ g.bound \in Sessions \cup {None} /\ g.turn \in Turns \cup {None}
         /\ g.jobs \in Seq(Requests)
PROOF
  BY DEF Harnesses, Requests

\* A request joins the end of the chain.
LEMMA Chained ==
  ASSUME NEW g \in Harnesses(Turns, Sessions), NEW kind \in JobKinds,
         NEW by \in Turns \cup Sessions \cup {None},
         NEW h, h \in {Chain(g, kind, by), RequestStop(g, kind, by)}
  PROVE  /\ h \in Harnesses(Turns, Sessions)
         /\ h.state = g.state /\ h.turn = g.turn
         /\ h.jobs = Append(g.jobs, [kind |-> kind, by |-> by, begun |-> FALSE])
PROOF
<1> DEFINE j == [kind |-> kind, by |-> by, begun |-> FALSE]
<1>1. j \in Requests
  BY DEF Requests
<1>2. Append(g.jobs, j) \in Seq(Requests)
  BY <1>1, HarnessFields
<1>3. Chain(g, kind, by) = [g EXCEPT !.jobs = Append(g.jobs, j)]
  BY DEF Chain
<1>4. RequestStop(g, kind, by) = [[g EXCEPT !.jobs = Append(g.jobs, j)] EXCEPT !.stopping = TRUE]
  BY <1>3 DEF RequestStop
<1> HIDE DEF j
<1>5. CASE h = Chain(g, kind, by)
  BY <1>2, <1>3, <1>5 DEF Harnesses, Requests, j
<1>6. CASE h = RequestStop(g, kind, by)
  BY <1>2, <1>4, <1>6 DEF Harnesses, Requests, j
<1> QED BY <1>5, <1>6

\* The first request of the chain has ended.
LEMMA Ended1 ==
  ASSUME NEW g \in Harnesses(Turns, Sessions), g.jobs # <<>>
  PROVE  /\ Done(g) \in Harnesses(Turns, Sessions)
         /\ Done(g).state = g.state /\ Done(g).turn = g.turn /\ Done(g).jobs = Tail(g.jobs)
         /\ Down(g) \in Harnesses(Turns, Sessions)
         /\ Down(g).state = g.state /\ Down(g).turn = g.turn /\ Down(g).jobs = Tail(g.jobs)
         /\ Up(g) \in Harnesses(Turns, Sessions)
         /\ Up(g).state = "idle" /\ Up(g).turn = g.turn /\ Up(g).jobs = Tail(g.jobs)
         /\ NotUp(g) \in Harnesses(Turns, Sessions)
         /\ NotUp(g).state = "stopped" /\ NotUp(g).turn = g.turn /\ NotUp(g).jobs = Tail(g.jobs)
PROOF
<1>1. Tail(g.jobs) \in Seq(Requests)
  BY HarnessFields
<1> QED BY <1>1 DEF Harnesses, Requests, Done, Down, Up, NotUp

\* The first request of the chain has begun.
LEMMA Begun1 ==
  ASSUME NEW g \in Harnesses(Turns, Sessions), g.jobs # <<>>
  PROVE  /\ Begun(g) \in Harnesses(Turns, Sessions) /\ Halted(g) \in Harnesses(Turns, Sessions)
         /\ Begun(g).state = g.state /\ Begun(g).turn = g.turn
         /\ Halted(g).state = "stopped" /\ Halted(g).turn = None
         /\ Halted(g).jobs = Begun(g).jobs
         /\ Len(Begun(g).jobs) = Len(g.jobs)
         /\ \A i \in 1..Len(g.jobs) : /\ Begun(g).jobs[i].kind = g.jobs[i].kind
                                      /\ Begun(g).jobs[i].by = g.jobs[i].by
                                      /\ i > 1 => Begun(g).jobs[i] = g.jobs[i]
PROOF
<1> DEFINE q == [g.jobs EXCEPT ![1] = [@ EXCEPT !.begun = TRUE]]
<1>1. g.jobs \in Seq(Requests) /\ Len(g.jobs) \in Nat /\ Len(g.jobs) > 0
  BY HarnessFields
<1>2. g.jobs[1] \in Requests
  BY <1>1
<1>3. [g.jobs[1] EXCEPT !.begun = TRUE] \in Requests
  BY <1>2 DEF Requests
<1>4. q \in Seq(Requests) /\ Len(q) = Len(g.jobs)
  BY <1>1, <1>3
<1>5. \A i \in 1..Len(g.jobs) : q[i].kind = g.jobs[i].kind /\ q[i].by = g.jobs[i].by /\ (i > 1 => q[i] = g.jobs[i])
  <2>1. q[1] = [g.jobs[1] EXCEPT !.begun = TRUE]
    BY <1>1
  <2>2. q[1].kind = g.jobs[1].kind /\ q[1].by = g.jobs[1].by
    BY <2>1, <1>2 DEF Requests
  <2>3. \A i \in 1..Len(g.jobs) : i > 1 => q[i] = g.jobs[i]
    BY <1>1
  <2> QED BY <1>1, <2>2, <2>3
<1>6. Begun(g) = [g EXCEPT !.jobs = q]
  BY <1>1 DEF Begun, Harnesses
<1> HIDE DEF q
<1>7. Begun(g) \in Harnesses(Turns, Sessions) /\ Begun(g).state = g.state /\ Begun(g).turn = g.turn
      /\ Begun(g).jobs = q
  BY <1>4, <1>6 DEF Harnesses, Requests
<1>8. /\ Halted(g) \in Harnesses(Turns, Sessions)
      /\ Halted(g).state = "stopped" /\ Halted(g).turn = None /\ Halted(g).jobs = q
  BY <1>7 DEF Halted, Harnesses
<1> QED BY <1>4, <1>5, <1>7, <1>8

\* The turn of the harness changes, its chain stays.
LEMMA Turned ==
  ASSUME NEW g \in Harnesses(Turns, Sessions)
  PROVE  /\ Finished(g) \in Harnesses(Turns, Sessions)
         /\ Finished(g).turn = None /\ Finished(g).jobs = g.jobs
         /\ Finished(g).state \in {g.state, "idle"}
         /\ Exited(g) \in Harnesses(Turns, Sessions) /\ Exited(g).jobs = g.jobs
         /\ IF g.state = "stopped" \/ g.stopping
            THEN Exited(g).turn = g.turn /\ Exited(g).state = g.state
            ELSE Exited(g).turn = None /\ Exited(g).state = "crashed"
PROOF
  BY DEF Harnesses, Finished, Exited

\* A harness that is handed a turn is busy with it.
LEMMA DrivenFields ==
  ASSUME NEW g \in Harnesses(Turns, Sessions), NEW t \in Turns, NEW s \in Sessions
  PROVE  /\ Driven(g, t, s) \in Harnesses(Turns, Sessions)
         /\ Driven(g, t, s).state = "busy" /\ Driven(g, t, s).turn = t
         /\ Driven(g, t, s).jobs = g.jobs
PROOF
  BY DEF Harnesses, Driven

-----------------------------------------------------------------------------
(* What a step leaves alone.                                               *)

\* A request of the chain is a request, and only the first has begun.
LEMMA Requested ==
  ASSUME TurnTypeOK, NEW i \in 1..Len(harness.jobs)
  PROVE  /\ harness.jobs[i] \in Requests /\ Len(harness.jobs) \in Nat
         /\ i > 1 => ~harness.jobs[i].begun
PROOF
<1>1. harness.jobs \in Seq(Requests)
  BY HarnessFields DEF TurnTypeOK
<1> QED BY <1>1 DEF TurnTypeOK

\* The step leaves whoever waits for this request where it is.
KeptFor(job) ==
  /\ job.kind \in TurnKinds => stage'[job.by] = stage[job.by]
  /\ job.kind \in RestartKinds => restart'[job.by] = restart[job.by]

\* A request whose asker stays where it was is still awaited.
LEMMA StillAwaited ==
  ASSUME NEW job, AwaitedBy(job, stage, restart), KeptFor(job),
         NEW new, new.kind = job.kind, new.by = job.by
  PROVE  AwaitedBy(new, stage', restart')
PROOF
  BY DEF AwaitedBy, KeptFor, TurnKinds, RestartKinds, RespawnKinds

\* The chain stays, its first request begins, or its first request leaves it.
LEMMA JobsKept ==
  ASSUME TurnTypeOK, JobsOK, NEW d \in {0, 1},
         NEW q \in Seq(Requests), Len(q) = Len(harness.jobs) - d,
         \A i \in 1..Len(q) : /\ q[i].kind = harness.jobs[i + d].kind
                                          /\ q[i].by = harness.jobs[i + d].by,
         \A i \in 1 + d..Len(harness.jobs) : KeptFor(harness.jobs[i])
  PROVE  JobsIn(q, stage', restart')
PROOF
<1>1. Len(harness.jobs) \in Nat
  BY HarnessFields DEF TurnTypeOK
<1>2. \A i \in 1..Len(q) : i + d \in 1..Len(harness.jobs) /\ i + d \in 1 + d..Len(harness.jobs)
  BY <1>1
<1>3. ASSUME NEW i \in 1..Len(q)
      PROVE  AwaitedBy(q[i], stage', restart')
  <2>1. i + d \in 1..Len(harness.jobs) /\ KeptFor(harness.jobs[i + d])
    BY <1>2
  <2>2. AwaitedBy(harness.jobs[i + d], stage, restart)
    <3>1. \A k \in 1..Len(harness.jobs) : AwaitedBy(harness.jobs[k], stage, restart)
      BY DEF JobsOK, JobsIn
    <3> QED BY ONLY <2>1, <3>1
  <2>3. q[i].kind = harness.jobs[i + d].kind /\ q[i].by = harness.jobs[i + d].by
    OBVIOUS
  <2> QED BY <2>1, <2>2, <2>3, StillAwaited
<1>4. ASSUME NEW i \in 1..Len(q), NEW k \in 1..Len(q),
             i # k, q[i].by = q[k].by
      PROVE  /\ ~(q[i].kind \in TurnKinds /\ q[k].kind \in TurnKinds)
             /\ ~(q[i].kind \in RestartKinds /\ q[k].kind \in RestartKinds)
  <2>1. i + d \in 1..Len(harness.jobs) /\ k + d \in 1..Len(harness.jobs) /\ i + d # k + d
    <3>1. i + d \in 1..Len(harness.jobs) /\ k + d \in 1..Len(harness.jobs)
      BY ONLY <1>2, i \in 1..Len(q), k \in 1..Len(q)
    <3>2. i \in Int /\ k \in Int /\ d \in Int /\ i # k
      BY <1>4
    <3> QED BY ONLY <3>1, <3>2
  <2>2. harness.jobs[i + d].by = harness.jobs[k + d].by
    BY <1>4
  <2> QED BY <2>1, <2>2 DEF JobsOK, JobsIn
<1> QED BY <1>3, <1>4 DEF JobsIn

\* So is every request of the chain when nobody moves who waits for one.
LEMMA ChainKept ==
  ASSUME TurnTypeOK, JobsOK, harness'.jobs = harness.jobs,
         \A i \in 1..Len(harness.jobs) : KeptFor(harness.jobs[i])
  PROVE  JobsOK'
PROOF
<1>1. harness.jobs \in Seq(Requests)
  BY HarnessFields DEF TurnTypeOK
<1> QED BY <1>1, JobsKept DEF JobsOK

\* A request joins the chain, of somebody who waits for it and for no other.
LEMMA JobAdded ==
  ASSUME TurnTypeOK, JobsOK, NEW job \in Requests,
         harness'.jobs = Append(harness.jobs, job),
         \A i \in 1..Len(harness.jobs) : KeptFor(harness.jobs[i]),
         AwaitedBy(job, stage', restart'),
         job.kind \in TurnKinds => stage[job.by] \notin {"respawning", "reviving", "timingOut"},
         job.kind \in RestartKinds => restart[job.by] \notin {"stop", "starting"}
  PROVE  JobsOK'
PROOF
<1>1. harness.jobs \in Seq(Requests)
  BY HarnessFields DEF TurnTypeOK
<1> DEFINE n == Len(harness.jobs)
<1>2. n \in Nat /\ Len(harness'.jobs) = n + 1 /\ harness'.jobs[n + 1] = job
      /\ \A i \in 1..n : harness'.jobs[i] = harness.jobs[i]
  BY <1>1
<1>3. \A i \in 1..Len(harness'.jobs) : i \in 1..n \/ i = n + 1
  BY <1>2
<1> HIDE DEF n
<1>4. ASSUME NEW i \in 1..n
      PROVE  AwaitedBy(harness'.jobs[i], stage', restart')
  <2>1. AwaitedBy(harness.jobs[i], stage, restart) /\ KeptFor(harness.jobs[i]) /\ harness'.jobs[i] = harness.jobs[i]
    BY <1>2 DEF JobsOK, JobsIn, n
  <2> QED BY <2>1, StillAwaited
<1>5. AwaitedBy(harness'.jobs[n + 1], stage', restart')
  BY <1>2
<1>6. ASSUME NEW i \in 1..n
      PROVE  harness.jobs[i].by = job.by =>
               /\ ~(harness.jobs[i].kind \in TurnKinds /\ job.kind \in TurnKinds)
               /\ ~(harness.jobs[i].kind \in RestartKinds /\ job.kind \in RestartKinds)
  <2>1. AwaitedBy(harness.jobs[i], stage, restart)
    BY DEF JobsOK, JobsIn, n
  <2> QED BY <2>1 DEF AwaitedBy, TurnKinds, RestartKinds
<1>7. ASSUME NEW i \in 1..Len(harness'.jobs), NEW k \in 1..Len(harness'.jobs),
             i # k, harness'.jobs[i].by = harness'.jobs[k].by
      PROVE  /\ ~(harness'.jobs[i].kind \in TurnKinds /\ harness'.jobs[k].kind \in TurnKinds)
             /\ ~(harness'.jobs[i].kind \in RestartKinds /\ harness'.jobs[k].kind \in RestartKinds)
  <2>1. CASE i \in 1..n /\ k \in 1..n
    BY <1>2, <1>7, <2>1 DEF JobsOK, JobsIn, n
  <2>2. CASE i \in 1..n /\ k = n + 1
    BY <1>2, <1>6, <1>7, <2>2
  <2>3. CASE i = n + 1 /\ k \in 1..n
    BY <1>2, <1>6, <1>7, <2>3
  <2> QED BY <1>3, <1>7, <2>1, <2>2, <2>3
<1>8. \A i \in 1..Len(harness'.jobs) : AwaitedBy(harness'.jobs[i], stage', restart')
  BY <1>3, <1>4, <1>5
<1> QED BY <1>7, <1>8 DEF JobsOK, JobsIn

\* Everything about turn u stays.
SameTurn(u) ==
  /\ session'[u] = session[u] /\ stage'[u] = stage[u] /\ marks'[u] = marks[u]
  /\ resolved'[u] = resolved[u] /\ outcome'[u] = outcome[u] /\ answer'[u] = answer[u]
  /\ awaited'[u] = awaited[u] /\ restart'[u] = restart[u]

\* What holds of a turn still does when another turn takes a step and no
\* recovery begins.
LEMMA OtherTurn ==
  ASSUME TurnTypeOK, NEW u \in Turns, TurnOK(u), SameTurn(u), active' # u \/ active' = active,
         \A s \in Sessions : recovery'[s] = recovery[s] \/ (recovery'[s] = None /\ recovery[s] # u)
  PROVE  TurnOK(u)'
PROOF
<1> USE DEF SameTurn
<1>1. ActiveOK(u)'
  BY DEF TurnOK, ActiveOK, Live
<1>2. MarksOK(u)' /\ AnswerOK(u)'
  BY DEF TurnOK, MarksOK, AnswerOK
<1>3. RestartOK(u)'
  <2> DEFINE s == session[u]
  <2>1. stage[u] # "new" => s \in Sessions
    BY DEF TurnOK, ActiveOK
  <2>2. s \in Sessions => recovery'[s] = recovery[s] \/ (recovery'[s] = None /\ recovery[s] # u)
    OBVIOUS
  <2>3. RestartOK(u)
    BY DEF TurnOK
  <2>4. Live(u) => stage[u] # "new"
    BY DEF Live, LiveStages
  <2>5. u # None /\ "new" \notin Outbound /\ "new" # "recovering"
    BY TurnAssumption DEF Outbound
  <2> HIDE DEF s
  <2>6. Restarting(u)' <=> Restarting(u)
    BY DEF Restarting
  <2>7. Live(u)' <=> Live(u)
    BY DEF Live
  <2>8. session'[u] = s /\ session[u] = s
    BY DEF s
  <2>9. restart'[u] = "done" => \A r \in Sessions : recovery'[r] # u
    BY <2>3, <2>5 DEF RestartOK
  <2> QED BY <2>1, <2>2, <2>3, <2>4, <2>5, <2>6, <2>7, <2>8, <2>9 DEF RestartOK
<1> QED BY <1>1, <1>2, <1>3 DEF TurnOK

\* The same of every turn but one.
LEMMA OtherTurns ==
  ASSUME RunnerInv, NEW t \in Turns, \A u \in Turns \ {t} : SameTurn(u),
         active' \in {active, None},
         \A s \in Sessions : recovery'[s] = recovery[s] \/ (recovery'[s] = None /\ recovery[s] = t),
         TurnOK(t)'
  PROVE  \A u \in Turns : TurnOK(u)'
PROOF
<1> SUFFICES ASSUME NEW u \in Turns \ {t} PROVE TurnOK(u)'
  OBVIOUS
<1>1. active' # u \/ active' = active
  BY TurnAssumption
<1>2. TurnOK(u) /\ SameTurn(u) /\ TurnTypeOK
  BY DEF RunnerInv
<1>3. \A s \in Sessions : recovery'[s] = recovery[s] \/ (recovery'[s] = None /\ recovery[s] # u)
  OBVIOUS
<1> QED BY <1>1, <1>2, <1>3, OtherTurn

\* The lease stays with the turn that takes the step.
LEMMA HoldStands ==
  ASSUME HoldOK, NEW t \in Turns, UNCHANGED leaseVars, active' \in {active, None},
         \A u \in Turns \ {t} : SameTurn(u), Live(t)' => Live(t)
  PROVE  HoldOK'
PROOF
<1>1. \A u \in Turns : Live(u)' => Live(u)
  BY DEF Live, SameTurn
<1>2. lane' = lane /\ lease' = lease /\ gone' = gone
  BY DEF leaseVars
<1> QED BY <1>1, <1>2 DEF HoldOK

\* The harness stays as well.
LEMMA HarnessStands ==
  ASSUME RunnerInv, NEW t \in Turns, UNCHANGED <<leaseVars, restart, harness>>,
         stage[t] \notin {"respawning", "reviving", "driving", "timingOut"},
         \A u \in Turns \ {t} : SameTurn(u)
  PROVE  DrivenOK' /\ JobsOK'
PROOF
<1> USE DEF RunnerInv, leaseVars
<1>1. DrivenOK'
  BY DEF DrivenOK, SameTurn, TurnTypeOK, Harnesses
<1>2. JobsOK'
  <2>1. \A i \in 1..Len(harness.jobs) : KeptFor(harness.jobs[i])
    BY DEF KeptFor, JobsOK, JobsIn, AwaitedBy, SameTurn, TurnKinds, RespawnKinds
  <2>2. harness.jobs \in Seq(Requests)
    BY HarnessFields DEF TurnTypeOK
  <2> QED BY <2>1, <2>2, JobsKept DEF JobsOK
<1> QED BY <1>1, <1>2

-----------------------------------------------------------------------------
(* How a turn goes on by itself.                                           *)

\* The stages whose code may throw into the catch block.
Throwing == {"preparing", "recovering", "accounting", "respawning", "entering", "reviving",
             "ready", "driving", "timingOut", "answering"}

\* An exception leaves the turn cancelled or failed, with no answer.
LEMMA Thrown ==
  ASSUME RunnerInv, NEW t \in Turns, stage[t] \in Throwing,
         NEW passed \in SUBSET {"postProvider"}, Throw(t, passed),
         UNCHANGED <<session, active, recovery, awaited, restart, outcome, answer>>
  PROVE  /\ stage' \in [Turns -> Stages] /\ marks' \in [Turns -> SUBSET Marks]
         /\ resolved' \in [Turns -> Outcomes]
         /\ \A u \in Turns \ {t} : SameTurn(u)
         /\ Live(t)' /\ TurnOK(t)'
PROOF
<1> USE DEF RunnerInv, TurnTypeOK
<1>1. PICK n \in {"closing", "noting"} : stage' = [stage EXCEPT ![t] = n]
  BY DEF Throw
<1>2. PICK r \in {"cancelled", "failed"} : resolved' = [resolved EXCEPT ![t] = r]
  BY DEF Throw
<1>3. marks' = [marks EXCEPT ![t] = (marks[t] \cup passed) \ {"cancelled"}]
  BY DEF Throw
<1>4. /\ n = "noting" => marks[t] \cap {"cancelled", "cleanupPending"} = {}
      /\ stage'[t] = n /\ resolved'[t] = r /\ marks'[t] = (marks[t] \cup passed) \ {"cancelled"}
  BY <1>1, <1>2, <1>3 DEF Throw
<1>5. /\ stage' \in [Turns -> Stages] /\ resolved' \in [Turns -> Outcomes]
  BY <1>1, <1>2 DEF Stages, Outcomes
<1>6. marks' \in [Turns -> SUBSET Marks]
  <2>1. (marks[t] \cup passed) \ {"cancelled"} \in SUBSET Marks
    BY DEF Marks
  <2> QED BY <1>3, <2>1
<1>7. \A u \in Turns \ {t} : SameTurn(u)
  BY <1>1, <1>2, <1>3 DEF SameTurn
<1>8. Live(t) /\ Live(t)' /\ stage[t] \notin {"new", "released", "settling", "refused"}
  BY <1>4 DEF Live, LiveStages, Stages, Throwing
<1>9. TurnOK(t) /\ stage[t] \notin Ended /\ stage'[t] \notin {"new", "settling", "refused", "answering", "settled", "recovering"}
  BY <1>4 DEF Throwing, Ended
<1>10. ActiveOK(t)'
  BY <1>4, <1>8, <1>9 DEF TurnOK, ActiveOK
<1>11. MarksOK(t)'
  BY <1>4, <1>8, <1>9 DEF TurnOK, MarksOK, Ended
<1>12. AnswerOK(t)'
  <2>1. answer'[t] = "none" /\ outcome'[t] # "completed"
    BY <1>9 DEF TurnOK, AnswerOK, Ended, Throwing
  <2> QED BY <1>4, <1>8, <1>9, <2>1 DEF AnswerOK, Ended
<1>13. RestartOK(t)'
  BY <1>4, <1>8, <1>9 DEF TurnOK, RestartOK, Restarting, Outbound
<1> QED BY <1>5, <1>6, <1>7, <1>8, <1>10, <1>11, <1>12, <1>13 DEF TurnOK

\* The turn moves on, on the way to the provider or back from it.
Forward == {"preparing", "recovering", "accounting", "respawning", "entering", "reviving",
            "ready", "driving", "timingOut", "tracking"}
\* A turn that moves on from one await to the next keeps its invariant.
LEMMA Moved ==
  ASSUME RunnerInv, NEW t \in Turns, stage[t] \in Forward \cup {"reserved"},
         NEW next \in Forward, Move(t, next),
         UNCHANGED <<session, active, recovery, restart, outcome, answer>>,
         \A u \in Turns \ {t} : awaited'[u] = awaited[u],
         next \in Outbound /\ stage[t] \notin Outbound /\ "cancelled" \notin marks[t]
           => recovery[session[t]] = None,
         next = "recovering" => recovery[session[t]] \in {awaited'[t], None}
  PROVE  /\ stage' \in [Turns -> Stages] /\ marks' \in [Turns -> SUBSET Marks]
         /\ resolved' \in [Turns -> Outcomes]
         /\ \A u \in Turns \ {t} : SameTurn(u)
         /\ Live(t)' /\ TurnOK(t)'
PROOF
<1> USE DEF RunnerInv, TurnTypeOK
<1>1. stage' = [stage EXCEPT ![t] = next] /\ stage'[t] = next /\ marks' = marks /\ resolved' = resolved
  BY DEF Move
<1>2. stage' \in [Turns -> Stages] /\ next \in LiveStages
  BY <1>1 DEF Forward, Stages, LiveStages
<1>3. \A u \in Turns \ {t} : SameTurn(u)
  BY <1>1 DEF SameTurn
<1>4. Live(t) /\ Live(t)'
  BY <1>1, <1>2 DEF Live, LiveStages, Stages, Forward
<1>5. TurnOK(t)
  OBVIOUS
<1>6. /\ stage[t] \notin Ended \cup {"new", "settling", "refused", "answering", "noting", "settled", "released"}
      /\ next \notin Ended \cup {"new", "settling", "refused", "answering", "noting", "settled", "released"}
  BY DEF Forward, Ended
<1>10. ActiveOK(t)'
  BY <1>1, <1>4, <1>5, <1>6 DEF TurnOK, ActiveOK
<1>11. MarksOK(t)'
  BY <1>1, <1>5, <1>6 DEF TurnOK, MarksOK, Ended
<1>12. AnswerOK(t)'
  BY <1>1, <1>5, <1>6 DEF TurnOK, AnswerOK, Ended
<1>13. RestartOK(t)'
  BY <1>1, <1>4, <1>5, <1>6 DEF TurnOK, RestartOK, Restarting
<1> QED BY <1>1, <1>2, <1>3, <1>4, <1>10, <1>11, <1>12, <1>13 DEF TurnOK

\* The turn goes to its finally block with an outcome other than "completed".
LEMMA Returned ==
  ASSUME RunnerInv, NEW t \in Turns, stage[t] \in {"preparing", "recovering", "tracking"},
         NEW result \in {"cancelled", "failed"}, Return(t, result),
         marks' \in {marks, [marks EXCEPT ![t] = (@ \cup {"postProvider"}) \ {"cancelled"}]},
         UNCHANGED <<session, active, recovery, restart, outcome, answer>>,
         \A u \in Turns \ {t} : awaited'[u] = awaited[u]
  PROVE  /\ stage' \in [Turns -> Stages] /\ marks' \in [Turns -> SUBSET Marks]
         /\ resolved' \in [Turns -> Outcomes]
         /\ \A u \in Turns \ {t} : SameTurn(u)
         /\ Live(t)' /\ TurnOK(t)'
PROOF
<1> USE DEF RunnerInv, TurnTypeOK
<1>1. stage' = [stage EXCEPT ![t] = "closing"] /\ stage'[t] = "closing"
      /\ resolved' = [resolved EXCEPT ![t] = result] /\ resolved'[t] = result
      /\ marks'[t] \in {marks[t], (marks[t] \cup {"postProvider"}) \ {"cancelled"}}
  BY DEF Return
<1>2. stage' \in [Turns -> Stages] /\ resolved' \in [Turns -> Outcomes] /\ marks' \in [Turns -> SUBSET Marks]
  <2>1. (marks[t] \cup {"postProvider"}) \ {"cancelled"} \in SUBSET Marks
    BY DEF Marks
  <2> QED BY <1>1, <2>1 DEF Stages, Outcomes
<1>3. \A u \in Turns \ {t} : SameTurn(u)
  BY <1>1 DEF SameTurn
<1>4. Live(t) /\ Live(t)'
  BY <1>1 DEF Live, LiveStages, Stages
<1>5. TurnOK(t)
  OBVIOUS
<1>10. ActiveOK(t)'
  BY <1>1, <1>4, <1>5 DEF TurnOK, ActiveOK
<1>11. MarksOK(t)'
  BY <1>1, <1>5 DEF TurnOK, MarksOK
<1>12. AnswerOK(t)'
  BY <1>1, <1>5 DEF TurnOK, AnswerOK, Ended
<1>13. RestartOK(t)'
  BY <1>1, <1>4, <1>5 DEF TurnOK, RestartOK, Restarting, Outbound
<1> QED BY <1>2, <1>3, <1>4, <1>10, <1>11, <1>12, <1>13 DEF TurnOK

-----------------------------------------------------------------------------
(* The handlers of a turn that leave harness and lease alone.              *)

\* Away from the provider, a restart under way concerns the turn as before.
LEMMA RestartStays ==
  ASSUME NEW t \in Turns, TurnOK(t), Live(t),
         UNCHANGED <<session, recovery, restart, awaited>>,
         stage'[t] \notin Outbound \cup {"recovering", "settling"}, Live(t)'
  PROVE  RestartOK(t)'
PROOF
<1>1. RestartOK(t) /\ (Restarting(t)' <=> Restarting(t))
  BY DEF TurnOK, Restarting
<1>2. session'[t] = session[t] /\ recovery' = recovery /\ restart'[t] = restart[t]
  OBVIOUS
<1> QED BY <1>1, <1>2 DEF RestartOK

\* A handler that touches no turn but its own.
OwnTurn(t) ==
  /\ UNCHANGED <<leaseVars, recovery, restart, reusable>>
  /\ active' \in {active, None}
  /\ stage' \in [Turns -> Stages] /\ marks' \in [Turns -> SUBSET Marks] /\ resolved' \in [Turns -> Outcomes]
  /\ outcome' \in [Turns -> Outcomes] /\ answer' \in [Turns -> Messages]
  /\ awaited' \in [Turns -> Turns \cup {None}]
  /\ \A u \in Turns \ {t} : SameTurn(u)

\* The handlers that leave the harness alone.
LEMMA OwnTurnStep ==
  ASSUME RunnerInv, NEW t \in Turns, OwnTurn(t), Live(t), Live(t)', TurnOK(t)',
         stage[t] \notin {"respawning", "reviving", "driving", "timingOut"},
         UNCHANGED harness
  PROVE  RunnerInv'
PROOF
<1>1. TurnTypeOK'
  BY DEF RunnerInv, TurnTypeOK, OwnTurn, leaseVars
<1>2. HoldOK'
  BY HoldStands DEF RunnerInv, OwnTurn
<1>3. \A u \in Turns : TurnOK(u)'
  BY OtherTurns DEF OwnTurn
<1>4. DrivenOK' /\ JobsOK'
  BY HarnessStands DEF OwnTurn
<1> QED BY <1>1, <1>2, <1>3, <1>4 DEF RunnerInv

\* The handlers that ask something of the harness, or hear from it.
LEMMA HarnessStep ==
  ASSUME RunnerInv, NEW t \in Turns, OwnTurn(t), Live(t)' => Live(t), TurnOK(t)',
         harness' \in Harnesses(Turns, Sessions),
         \A i \in 2..Len(harness'.jobs) : ~harness'.jobs[i].begun,
         DrivenOK', JobsOK'
  PROVE  RunnerInv'
PROOF
<1>1. TurnTypeOK'
  BY DEF RunnerInv, TurnTypeOK, OwnTurn, leaseVars
<1>2. HoldOK'
  BY HoldStands DEF RunnerInv, OwnTurn
<1>3. \A u \in Turns : TurnOK(u)'
  BY OtherTurns DEF OwnTurn
<1> QED BY <1>1, <1>2, <1>3 DEF RunnerInv

\* executeTurn: the turn leaves its reservation.
LEMMA StepExecute ==
  ASSUME RunnerInv, NEW t \in Turns, Execute(t)
  PROVE  RunnerInv'
PROOF
<1>1. /\ stage[t] = "reserved" /\ Move(t, "preparing")
      /\ UNCHANGED <<leaseVars, active, recovery, awaited, restart, outcome, answer, reusable, harness>>
  BY DEF Execute, Move
<1>2. /\ stage' \in [Turns -> Stages] /\ marks' \in [Turns -> SUBSET Marks]
      /\ resolved' \in [Turns -> Outcomes]
      /\ \A u \in Turns \ {t} : SameTurn(u)
      /\ Live(t)' /\ TurnOK(t)'
  BY <1>1, Moved DEF Forward, Outbound, leaseVars
<1>3. OwnTurn(t)
  BY <1>1, <1>2 DEF OwnTurn, RunnerInv, TurnTypeOK
<1>4. Live(t)
  BY <1>1 DEF Live, LiveStages, Stages
<1> QED BY <1>1, <1>2, <1>3, <1>4, OwnTurnStep

\* Past the recovery, for the actions that end it.
LEMMA Begins ==
  ASSUME RunnerInv, NEW t \in Turns, stage[t] \in {"preparing", "recovering"}, Begin(t),
         UNCHANGED <<session, active, recovery, restart, outcome, answer>>,
         \A u \in Turns \ {t} : awaited'[u] = awaited[u],
         "cancelled" \notin marks[t] => recovery[session[t]] = None
  PROVE  /\ stage' \in [Turns -> Stages] /\ marks' \in [Turns -> SUBSET Marks]
         /\ resolved' \in [Turns -> Outcomes]
         /\ \A u \in Turns \ {t} : SameTurn(u)
         /\ Live(t)' /\ TurnOK(t)'
PROOF
<1>1. CASE "cancelled" \in marks[t]
  <2>1. Return(t, "cancelled") /\ marks' = marks
    BY <1>1 DEF Begin
  <2> QED BY <2>1, Returned
<1>2. CASE "cancelled" \notin marks[t]
  <2>1. Move(t, "accounting")
    BY <1>2 DEF Begin
  <2> QED BY <1>2, <2>1, Moved DEF Forward
<1> QED BY <1>1, <1>2

\* Guards and prompt are done: the turn begins, or awaits its session's recovery.
LEMMA StepPrepare ==
  ASSUME RunnerInv, NEW t \in Turns, Prepare(t)
  PROVE  RunnerInv'
PROOF
<1> DEFINE pending == recovery[session[t]]
<1>1. /\ stage[t] = "preparing" /\ awaited' = [awaited EXCEPT ![t] = pending]
      /\ IF pending = None THEN Begin(t) ELSE Move(t, "recovering")
      /\ UNCHANGED <<leaseVars, active, recovery, restart, outcome, answer, reusable, harness>>
  BY DEF Prepare
<1>2. awaited \in [Turns -> Turns \cup {None}] /\ session[t] \in Sessions /\ pending \in Turns \cup {None}
  BY <1>1 DEF RunnerInv, TurnTypeOK, TurnOK, ActiveOK
<1>3. awaited'[t] = pending /\ awaited' \in [Turns -> Turns \cup {None}] /\ \A u \in Turns \ {t} : awaited'[u] = awaited[u]
  BY <1>1, <1>2
<1>4. /\ stage' \in [Turns -> Stages] /\ marks' \in [Turns -> SUBSET Marks]
      /\ resolved' \in [Turns -> Outcomes]
      /\ \A u \in Turns \ {t} : SameTurn(u)
      /\ Live(t)' /\ TurnOK(t)'
  <2>1. CASE pending = None
    BY <1>1, <1>3, <2>1, Begins DEF leaseVars
  <2>2. CASE pending # None
    <3>1. Move(t, "recovering") /\ recovery[session[t]] \in {awaited'[t], None}
      BY <1>1, <1>3, <2>2
    <3> QED BY <1>1, <1>3, <3>1, Moved DEF Forward, Outbound, leaseVars
  <2> QED BY <2>1, <2>2
<1>5. OwnTurn(t)
  BY <1>1, <1>3, <1>4 DEF OwnTurn, RunnerInv, TurnTypeOK
<1>6. Live(t)
  BY <1>1 DEF Live, LiveStages, Stages
<1> QED BY <1>1, <1>4, <1>5, <1>6, OwnTurnStep

\* The recovery a turn awaited is over.
LEMMA StepRecovered ==
  ASSUME RunnerInv, NEW t \in Turns, Recovered(t)
  PROVE  RunnerInv'
PROOF
<1>1. /\ stage[t] = "recovering" /\ restart[awaited[t]] \in {"done", "failed"}
      /\ IF restart[awaited[t]] = "done" THEN Begin(t) ELSE Throw(t, {})
      /\ UNCHANGED <<leaseVars, active, recovery, awaited, restart, outcome, answer, reusable, harness>>
  BY DEF Recovered
<1>2. /\ stage' \in [Turns -> Stages] /\ marks' \in [Turns -> SUBSET Marks]
      /\ resolved' \in [Turns -> Outcomes]
      /\ \A u \in Turns \ {t} : SameTurn(u)
      /\ Live(t)' /\ TurnOK(t)'
  <2>1. CASE restart[awaited[t]] = "done"
    <3>1. TurnOK(t) /\ session[t] \in Sessions /\ awaited[t] \in Turns \cup {None}
      BY <1>1 DEF RunnerInv, TurnTypeOK, TurnOK, ActiveOK
    <3>2. "cancelled" \notin marks[t] => recovery[session[t]] \in {awaited[t], None}
      BY <1>1, <3>1 DEF TurnOK, RestartOK
    <3>3. awaited[t] \in Turns => recovery[session[t]] # awaited[t]
      BY <2>1, <3>1 DEF RunnerInv, TurnOK, RestartOK
    <3> QED BY <1>1, <2>1, <3>1, <3>2, <3>3, Begins DEF leaseVars
  <2>2. CASE restart[awaited[t]] # "done"
    BY <1>1, <2>2, Thrown DEF Throwing, leaseVars
  <2> QED BY <2>1, <2>2
<1>3. OwnTurn(t)
  BY <1>1, <1>2 DEF OwnTurn, RunnerInv, TurnTypeOK
<1>4. Live(t)
  BY <1>1 DEF Live, LiveStages, Stages
<1> QED BY <1>1, <1>2, <1>3, <1>4, OwnTurnStep

\* A message guard blocks the turn.
LEMMA StepBlocked ==
  ASSUME RunnerInv, NEW t \in Turns, Blocked(t)
  PROVE  RunnerInv'
PROOF
<1>1. /\ stage[t] = "preparing" /\ Return(t, "failed")
      /\ UNCHANGED <<leaseVars, marks, active, recovery, awaited, restart, outcome, answer, reusable, harness>>
  BY DEF Blocked
<1>3. /\ stage' \in [Turns -> Stages] /\ marks' \in [Turns -> SUBSET Marks]
      /\ resolved' \in [Turns -> Outcomes]
      /\ \A u \in Turns \ {t} : SameTurn(u)
      /\ Live(t)' /\ TurnOK(t)'
  BY <1>1, Returned DEF leaseVars
<1>4. OwnTurn(t)
  BY <1>1, <1>3 DEF OwnTurn, RunnerInv, TurnTypeOK
<1>5. Live(t)
  BY <1>1 DEF Live, LiveStages, Stages
<1> QED BY <1>1, <1>3, <1>4, <1>5, OwnTurnStep

\* The handlers that only throw.
LEMMA StepFails ==
  ASSUME RunnerInv, NEW t \in Turns, PrepareFails(t) \/ AccountingFails(t)
  PROVE  RunnerInv'
PROOF
<1>1. /\ stage[t] \in {"preparing", "accounting"}
      /\ Throw(t, {}) \/ Throw(t, {"postProvider"})
      /\ UNCHANGED <<leaseVars, active, recovery, awaited, restart, outcome, answer, reusable, harness>>
  BY DEF PrepareFails, AccountingFails
<1>2. stage[t] \in Throwing /\ session' = session
  BY <1>1 DEF Throwing, leaseVars
<1>3. /\ stage' \in [Turns -> Stages] /\ marks' \in [Turns -> SUBSET Marks]
      /\ resolved' \in [Turns -> Outcomes]
      /\ \A u \in Turns \ {t} : SameTurn(u)
      /\ Live(t)' /\ TurnOK(t)'
  <2>1. CASE Throw(t, {})
    BY <1>1, <1>2, <2>1, Thrown
  <2>2. CASE Throw(t, {"postProvider"})
    BY <1>1, <1>2, <2>2, Thrown
  <2> QED BY <1>1, <2>1, <2>2
<1>4. OwnTurn(t)
  BY <1>1, <1>3 DEF OwnTurn, RunnerInv, TurnTypeOK
<1>5. Live(t)
  BY <1>1 DEF Live, LiveStages, Stages
<1> QED BY <1>1, <1>3, <1>4, <1>5, OwnTurnStep

\* Storing the answer throws, before or after it is in the transcript.
LEMMA StepAnswerFails ==
  ASSUME RunnerInv, NEW t \in Turns, NEW m \in Messages \ {"answer"}, AnswerFails(t, m)
  PROVE  RunnerInv'
PROOF
<1>1. TurnOK(t) /\ stage[t] = "answering"
  BY DEF RunnerInv, AnswerFails
<1>2. "postProvider" \in marks[t] /\ "cleanupPending" \notin marks[t]
  BY <1>1 DEF TurnOK, AnswerOK
<1>3. PICK r \in {"cancelled", "failed"} : resolved' = [resolved EXCEPT ![t] = r]
  BY DEF AnswerFails, Throw
<1>4. PICK n \in {"closing", "noting"} : stage' = [stage EXCEPT ![t] = n]
  BY DEF AnswerFails, Throw
<1>5. /\ marks' = [marks EXCEPT ![t] = marks[t] \ {"cancelled"}]
      /\ answer' = [answer EXCEPT ![t] = m]
      /\ UNCHANGED <<leaseVars, active, recovery, awaited, restart, outcome, reusable, harness>>
  BY DEF AnswerFails, Throw
<1>6. /\ r = "cancelled" => "cancelled" \in marks[t]
      /\ n = "noting" => marks[t] \cap {"cancelled", "cleanupPending"} = {}
  BY <1>3, <1>4 DEF AnswerFails, Throw, RunnerInv, TurnTypeOK
<1>7. "cancelled" \notin marks[t]
  BY <1>1 DEF TurnOK, AnswerOK
<1>8. /\ stage' \in [Turns -> Stages] /\ resolved' \in [Turns -> Outcomes]
      /\ marks' \in [Turns -> SUBSET Marks] /\ answer' \in [Turns -> Messages]
      /\ stage'[t] = n /\ resolved'[t] = "failed" /\ answer'[t] = m /\ marks'[t] = marks[t]
  BY <1>3, <1>4, <1>5, <1>6, <1>7 DEF RunnerInv, TurnTypeOK, Stages, Outcomes
<1>9. \A u \in Turns \ {t} : SameTurn(u)
  BY <1>3, <1>4, <1>5 DEF SameTurn, leaseVars, RunnerInv, TurnTypeOK
<1>10. Live(t) /\ Live(t)'
  BY <1>1, <1>8 DEF Live, LiveStages, Stages
<1>11. ActiveOK(t)'
  BY <1>1, <1>5, <1>8, <1>10 DEF TurnOK, ActiveOK, leaseVars
<1>12. MarksOK(t)' /\ AnswerOK(t)'
  BY <1>1, <1>2, <1>5, <1>8 DEF TurnOK, MarksOK, AnswerOK, Ended
<1>13. RestartOK(t)'
  BY <1>1, <1>5, <1>8, <1>10, RestartStays DEF Outbound, leaseVars
<1>14. OwnTurn(t) /\ TurnOK(t)'
  BY <1>5, <1>8, <1>9, <1>11, <1>12, <1>13 DEF OwnTurn, RunnerInv, TurnTypeOK, TurnOK
<1> QED BY <1>1, <1>5, <1>10, <1>14, OwnTurnStep

\* The answer of the provider comes back to the runner.
LEMMA StepTracked ==
  ASSUME RunnerInv, NEW t \in Turns, Tracked(t)
  PROVE  RunnerInv'
PROOF
<1> DEFINE set == (marks[t] \cup {"postProvider"}) \ {"cancelled"}
<1>1. /\ stage[t] = "tracking" /\ marks' = [marks EXCEPT ![t] = set]
      /\ IF "cancelled" \in marks[t] THEN Return(t, "cancelled")
         ELSE stage' = [stage EXCEPT ![t] = "answering"] /\ UNCHANGED resolved
      /\ UNCHANGED <<leaseVars, active, recovery, awaited, restart, outcome, answer, reusable, harness>>
  BY DEF Tracked
<1>2. set \in SUBSET Marks
  BY DEF Marks, RunnerInv, TurnTypeOK
<1>3. Live(t)
  BY <1>1 DEF Live, LiveStages, Stages
<1>4. /\ stage' \in [Turns -> Stages] /\ marks' \in [Turns -> SUBSET Marks]
      /\ resolved' \in [Turns -> Outcomes]
      /\ \A u \in Turns \ {t} : SameTurn(u)
      /\ Live(t)' /\ TurnOK(t)'
  <2>1. CASE "cancelled" \in marks[t]
    BY <1>1, <2>1, Returned DEF leaseVars
  <2>2. CASE "cancelled" \notin marks[t]
    <3>1. /\ stage' = [stage EXCEPT ![t] = "answering"] /\ stage' \in [Turns -> Stages]
          /\ marks' \in [Turns -> SUBSET Marks] /\ resolved' = resolved /\ resolved' \in [Turns -> Outcomes]
          /\ stage'[t] = "answering" /\ marks'[t] = set
      BY <1>1, <1>2, <2>2 DEF RunnerInv, TurnTypeOK, Stages
    <3>2. \A u \in Turns \ {t} : SameTurn(u)
      BY <1>1, <3>1 DEF SameTurn, leaseVars, RunnerInv, TurnTypeOK
    <3>3. Live(t)'
      BY <3>1 DEF Live, LiveStages, Stages
    <3>4. TurnOK(t)
      BY DEF RunnerInv
    <3>5. ActiveOK(t)'
      BY <1>1, <3>1, <3>3, <3>4 DEF TurnOK, ActiveOK, leaseVars
    <3>6. MarksOK(t)' /\ AnswerOK(t)'
      BY <1>1, <2>2, <3>1, <3>4 DEF TurnOK, MarksOK, AnswerOK, Ended
    <3>7. RestartOK(t)'
      BY <1>1, <1>3, <3>1, <3>3, <3>4, RestartStays DEF Outbound, leaseVars
    <3> QED BY <3>1, <3>2, <3>3, <3>5, <3>6, <3>7 DEF TurnOK
  <2> QED BY <2>1, <2>2
<1>5. OwnTurn(t)
  BY <1>1, <1>4 DEF OwnTurn, RunnerInv, TurnTypeOK
<1> QED BY <1>1, <1>3, <1>4, <1>5, OwnTurnStep

\* The answer goes to the transcript.
LEMMA StepAnswer ==
  ASSUME RunnerInv, NEW t \in Turns, NEW a \in Answers, Answer(t, a[1], a[2])
  PROVE  RunnerInv'
PROOF
<1> DEFINE result == a[1]
           message == a[2]
<1>1. Answer(t, result, message)
  OBVIOUS
<1>2. /\ result \in Outcomes /\ message \in {"none", "answer", "note"}
      /\ result = "completed" <=> message = "answer"
  BY DEF Answers, Outcomes
<1> HIDE DEF result, message
<1>3. /\ stage[t] = "answering" /\ answer' = [answer EXCEPT ![t] = message]
      /\ stage' = [stage EXCEPT ![t] = "closing"] /\ resolved' = [resolved EXCEPT ![t] = result]
      /\ UNCHANGED <<leaseVars, marks, active, recovery, awaited, restart, outcome, reusable, harness>>
  BY <1>1 DEF Answer, Return
<1>4. /\ stage' \in [Turns -> Stages] /\ marks' \in [Turns -> SUBSET Marks]
      /\ resolved' \in [Turns -> Outcomes] /\ answer' \in [Turns -> Messages]
      /\ stage'[t] = "closing" /\ resolved'[t] = result /\ answer'[t] = message
  BY <1>2, <1>3 DEF RunnerInv, TurnTypeOK, Stages, Messages
<1>5. \A u \in Turns \ {t} : SameTurn(u)
  BY <1>3 DEF SameTurn, leaseVars, RunnerInv, TurnTypeOK
<1>6. Live(t) /\ Live(t)'
  BY <1>3, <1>4 DEF Live, LiveStages, Stages
<1>7. TurnOK(t)
  BY DEF RunnerInv
<1>8. ActiveOK(t)'
  BY <1>3, <1>4, <1>6, <1>7 DEF TurnOK, ActiveOK, leaseVars
<1>9. MarksOK(t)' /\ AnswerOK(t)'
  BY <1>2, <1>3, <1>4, <1>7 DEF TurnOK, MarksOK, AnswerOK, Ended
<1>10. RestartOK(t)'
  BY <1>3, <1>4, <1>6, <1>7, RestartStays DEF Outbound, leaseVars
<1>11. OwnTurn(t) /\ TurnOK(t)'
  BY <1>3, <1>4, <1>5, <1>8, <1>9, <1>10 DEF OwnTurn, RunnerInv, TurnTypeOK, TurnOK
<1> QED BY <1>3, <1>6, <1>11, OwnTurnStep

\* The note about a failure or a cancel is in the transcript.
LEMMA StepNoted ==
  ASSUME RunnerInv, NEW t \in Turns, NEW m \in {"note", "none"}, Noted(t, m)
  PROVE  RunnerInv'
PROOF
<1>3. /\ stage[t] = "noting" /\ answer' = [answer EXCEPT ![t] = IF answer[t] = "none" THEN m ELSE answer[t]]
      /\ stage' = [stage EXCEPT ![t] = "closing"]
      /\ UNCHANGED <<leaseVars, marks, resolved, active, recovery, awaited, restart, outcome, reusable, harness>>
  BY DEF Noted, Move
<1>4. /\ stage' \in [Turns -> Stages] /\ marks' \in [Turns -> SUBSET Marks]
      /\ resolved' \in [Turns -> Outcomes] /\ answer' \in [Turns -> Messages]
      /\ stage'[t] = "closing" /\ answer'[t] \in {m, answer[t]} /\ m \notin {"answer", "untouched"}
  BY <1>3 DEF RunnerInv, TurnTypeOK, Stages, Messages
<1>5. \A u \in Turns \ {t} : SameTurn(u)
  BY <1>3 DEF SameTurn, leaseVars, RunnerInv, TurnTypeOK
<1>6. Live(t) /\ Live(t)'
  BY <1>3, <1>4 DEF Live, LiveStages, Stages
<1>7. TurnOK(t)
  BY DEF RunnerInv
<1>8. ActiveOK(t)'
  BY <1>3, <1>4, <1>6, <1>7 DEF TurnOK, ActiveOK, leaseVars
<1>9. MarksOK(t)' /\ AnswerOK(t)'
  BY <1>3, <1>4, <1>7 DEF TurnOK, MarksOK, AnswerOK, Ended
<1>10. RestartOK(t)'
  BY <1>3, <1>4, <1>6, <1>7, RestartStays DEF Outbound, leaseVars
<1>11. OwnTurn(t) /\ TurnOK(t)'
  BY <1>3, <1>4, <1>5, <1>8, <1>9, <1>10 DEF OwnTurn, RunnerInv, TurnTypeOK, TurnOK
<1> QED BY <1>3, <1>6, <1>11, OwnTurnStep

\* The finally block tells the outcome, unless a cancel did.
LEMMA StepClose ==
  ASSUME RunnerInv, NEW t \in Turns, Close(t)
  PROVE  RunnerInv'
PROOF
<1> DEFINE kept == "cleanupPending" \in marks[t]
<1> USE DEF RunnerInv, TurnTypeOK
<1>1. /\ stage[t] = "closing"
      /\ outcome' = [outcome EXCEPT ![t] = IF kept THEN outcome[t] ELSE resolved[t]]
      /\ active' = IF active = t /\ ~kept THEN None ELSE active
      /\ awaited' = [awaited EXCEPT ![t] = recovery[session[t]]]
      /\ stage' = [stage EXCEPT ![t] = "settling"]
      /\ marks' = [marks EXCEPT ![t] = {}]
      /\ UNCHANGED <<leaseVars, resolved, recovery, restart, answer, reusable, harness>>
  BY DEF Close
<1>2. TurnOK(t) /\ session[t] \in Sessions /\ recovery[session[t]] \in Turns \cup {None}
  BY <1>1 DEF TurnOK, ActiveOK
<1>3. /\ stage' \in [Turns -> Stages] /\ marks' \in [Turns -> SUBSET Marks]
      /\ resolved' \in [Turns -> Outcomes] /\ outcome' \in [Turns -> Outcomes]
      /\ awaited' \in [Turns -> Turns \cup {None}]
  BY <1>1, <1>2 DEF Stages
<1>4. /\ stage'[t] = "settling" /\ marks'[t] = {} /\ awaited'[t] = recovery[session[t]]
      /\ outcome'[t] = IF kept THEN outcome[t] ELSE resolved[t]
  BY <1>1
<1>5. \A u \in Turns \ {t} : SameTurn(u)
  BY <1>1 DEF SameTurn, leaseVars
<1>6. Live(t) /\ Live(t)'
  BY <1>1, <1>4 DEF Live, LiveStages, Stages
<1>7. active' # t /\ active' \in {active, None}
  BY <1>1, <1>2, TurnAssumption DEF TurnOK, ActiveOK
<1>8. ActiveOK(t)'
  BY <1>1, <1>2, <1>4, <1>7 DEF ActiveOK, leaseVars
<1>9. MarksOK(t)' /\ AnswerOK(t)'
  BY <1>1, <1>2, <1>4 DEF TurnOK, MarksOK, AnswerOK, Ended
<1>10. RestartOK(t)'
  BY <1>1, <1>2, <1>4, <1>6 DEF TurnOK, RestartOK, Restarting, Outbound, leaseVars
<1>11. OwnTurn(t) /\ TurnOK(t)'
  BY <1>1, <1>3, <1>5, <1>7, <1>8, <1>9, <1>10 DEF OwnTurn, TurnOK
<1> QED BY <1>1, <1>6, <1>11, OwnTurnStep

-----------------------------------------------------------------------------
(* The handlers of a turn that ask something of the harness.               *)

\* The chain with one more request.
LEMMA Asked ==
  ASSUME TurnTypeOK, NEW kind \in JobKinds, NEW by \in Turns \cup Sessions \cup {None},
         NEW h, h \in {Chain(harness, kind, by), RequestStop(harness, kind, by)}
  PROVE  /\ h \in Harnesses(Turns, Sessions) /\ h.turn = harness.turn /\ h.state = harness.state
         /\ h.jobs = Append(harness.jobs, [kind |-> kind, by |-> by, begun |-> FALSE])
         /\ [kind |-> kind, by |-> by, begun |-> FALSE] \in Requests
         /\ h.jobs \in Seq(Requests)
         /\ \A i \in 2..Len(h.jobs) : ~h.jobs[i].begun
         /\ h.jobs # <<>> /\ h.jobs[1].begun => harness.jobs # <<>> /\ harness.jobs[1].begun
PROOF
<1> DEFINE j == [kind |-> kind, by |-> by, begun |-> FALSE]
<1>1. harness \in Harnesses(Turns, Sessions) /\ harness.jobs \in Seq(Requests)
  BY HarnessFields DEF TurnTypeOK
<1>2. h \in Harnesses(Turns, Sessions) /\ h.turn = harness.turn /\ h.state = harness.state
      /\ h.jobs = Append(harness.jobs, j)
  BY <1>1, Chained
<1>3. j \in Requests /\ ~j.begun
  BY DEF Requests
<1>4. h.jobs \in Seq(Requests)
  BY <1>2, HarnessFields
<1> HIDE DEF j
<1>5. \A i \in 1..Len(h.jobs) : \/ h.jobs[i] = harness.jobs[i] /\ i \in 1..Len(harness.jobs)
                                \/ h.jobs[i] = j
  BY <1>1, <1>2, <1>3
<1>6. \A i \in 2..Len(h.jobs) : ~h.jobs[i].begun
  <2>1. \A i \in 2..Len(harness.jobs) : ~harness.jobs[i].begun
    BY DEF TurnTypeOK
  <2> QED BY <1>3, <1>4, <1>5, <2>1, <1>1
<1>7. h.jobs # <<>> /\ h.jobs[1].begun => harness.jobs # <<>> /\ harness.jobs[1].begun
  BY <1>1, <1>3, <1>4, <1>5
<1> QED BY <1>2, <1>3, <1>4, <1>6, <1>7 DEF j

\* The harness keeps its turn, or is left without one.
LEMMA DrivenStands ==
  ASSUME RunnerInv, NEW t \in Turns, \A u \in Turns \ {t} : SameTurn(u), UNCHANGED leaseVars,
         harness' \in Harnesses(Turns, Sessions),
         harness'.turn \in {harness.turn, None},
         harness'.turn # None => harness'.state = harness.state,
         harness'.turn = t => stage'[t] \in {"driving", "timingOut"},
         harness'.jobs # <<>> /\ harness'.jobs[1].begun
           => harness'.turn = None /\ harness'.state \in {"stopped", "crashed"}
  PROVE  DrivenOK'
PROOF
<1>1. harness.turn \in Turns \cup {None} /\ DrivenOK
  BY HarnessFields DEF RunnerInv, TurnTypeOK
<1>2. \A u \in Turns \ {t} : stage'[u] = stage[u]
  BY DEF SameTurn
<1>3. lease' = lease /\ gone' = gone
  BY DEF leaseVars
<1> QED BY <1>1, <1>2, <1>3 DEF DrivenOK

\* A turn that waits for no request yet does now.
LEMMA TurnAsks ==
  ASSUME RunnerInv, NEW t \in Turns, NEW kind \in TurnKinds,
         harness' \in {Chain(harness, kind, t), RequestStop(harness, kind, t)},
         \A u \in Turns \ {t} : SameTurn(u), UNCHANGED <<leaseVars, restart>>,
         stage[t] \notin {"respawning", "reviving", "timingOut"},
         kind \in RespawnKinds => stage'[t] = "respawning",
         kind = "revive" => stage'[t] = "reviving",
         kind = "timeout" => stage'[t] = "timingOut",
         harness.turn = t => stage'[t] = "timingOut"
  PROVE  /\ harness' \in Harnesses(Turns, Sessions)
         /\ \A i \in 2..Len(harness'.jobs) : ~harness'.jobs[i].begun
         /\ DrivenOK' /\ JobsOK'
PROOF
<1>1. TurnTypeOK /\ kind \in JobKinds /\ JobsOK /\ DrivenOK /\ t \in Turns \cup Sessions \cup {None}
  BY DEF RunnerInv, TurnKinds, JobKinds, StopKinds, RespawnKinds
<1> DEFINE job == [kind |-> kind, by |-> t, begun |-> FALSE]
<1>2. /\ harness' \in Harnesses(Turns, Sessions) /\ harness'.turn = harness.turn /\ harness'.state = harness.state
      /\ harness'.jobs = Append(harness.jobs, job) /\ job \in Requests
      /\ \A i \in 2..Len(harness'.jobs) : ~harness'.jobs[i].begun
      /\ harness'.jobs # <<>> /\ harness'.jobs[1].begun => harness.jobs # <<>> /\ harness.jobs[1].begun
  BY <1>1, Asked
<1>3. DrivenOK'
  BY <1>1, <1>2, DrivenStands DEF DrivenOK
<1>4. AwaitedBy(job, stage', restart')
  BY DEF AwaitedBy, TurnKinds, RespawnKinds
<1>5. /\ job.kind \in TurnKinds => stage[job.by] \notin {"respawning", "reviving", "timingOut"}
      /\ job.kind \in RestartKinds => restart[job.by] \notin {"stop", "starting"}
  BY DEF TurnKinds, RestartKinds, RespawnKinds
<1>6. \A i \in 1..Len(harness.jobs) : KeptFor(harness.jobs[i])
  BY <1>1 DEF KeptFor, JobsOK, JobsIn, AwaitedBy, SameTurn, TurnKinds, RespawnKinds
<1> HIDE DEF job
<1>7. JobsOK'
  BY <1>1, <1>2, <1>4, <1>5, <1>6, JobAdded
<1> QED BY <1>2, <1>3, <1>7

\* Nothing but the turn of the harness and its state changes.
LEMMA ChainStands ==
  ASSUME RunnerInv, NEW t \in Turns, harness' \in Harnesses(Turns, Sessions),
         harness'.jobs = harness.jobs,
         \A u \in Turns \ {t} : SameTurn(u), UNCHANGED restart,
         stage[t] \notin {"respawning", "reviving", "timingOut"}
  PROVE  JobsOK' /\ \A i \in 2..Len(harness'.jobs) : ~harness'.jobs[i].begun
PROOF
<1>1. TurnTypeOK /\ JobsOK /\ harness'.jobs \in Seq(Requests) /\ Len(harness.jobs) \in Nat
  BY HarnessFields DEF RunnerInv, TurnTypeOK
<1>2. \A i \in 1..Len(harness.jobs) : KeptFor(harness.jobs[i])
  BY <1>1 DEF KeptFor, JobsOK, JobsIn, AwaitedBy, SameTurn, TurnKinds, RespawnKinds
<1>3. JobsOK'
  BY <1>1, <1>2, JobsKept DEF JobsOK
<1> QED BY <1>1, <1>3 DEF TurnTypeOK

\* The accounting is over; the provider's process may have to respawn first.
LEMMA StepAccounted ==
  ASSUME RunnerInv, NEW t \in Turns, Accounted(t)
  PROVE  RunnerInv'
PROOF
<1> DEFINE other == harness.bound \notin {None, session[t]}
           replaced == other \/ harness.state = "stopped"
           kind == IF other THEN "rebind" ELSE "respawn"
           next == IF replaced THEN "respawning" ELSE "entering"
<1>1. /\ stage[t] = "accounting" /\ Move(t, next)
      /\ IF replaced THEN harness' = Chain(harness, kind, t) ELSE UNCHANGED harness
      /\ UNCHANGED <<leaseVars, active, recovery, awaited, restart, outcome, answer, reusable>>
  BY DEF Accounted
<1>2. next \in Forward /\ stage[t] \in Outbound /\ stage[t] \in Forward /\ next # "recovering"
  BY <1>1 DEF Forward, Outbound
<1>3. /\ stage' \in [Turns -> Stages] /\ marks' \in [Turns -> SUBSET Marks]
      /\ resolved' \in [Turns -> Outcomes]
      /\ \A u \in Turns \ {t} : SameTurn(u)
      /\ Live(t)' /\ TurnOK(t)'
  BY <1>1, <1>2, Moved DEF leaseVars
<1>4. OwnTurn(t)
  BY <1>1, <1>3 DEF OwnTurn, RunnerInv, TurnTypeOK
<1>5. Live(t)
  BY <1>1 DEF Live, LiveStages, Stages
<1>6. CASE replaced
  <2>1. kind \in TurnKinds /\ kind \in RespawnKinds /\ stage'[t] = "respawning" /\ harness' = Chain(harness, kind, t)
    BY <1>1, <1>6 DEF Move, TurnKinds, RespawnKinds, RunnerInv, TurnTypeOK
  <2>2. harness.turn # t
    BY <1>1, TurnAssumption DEF RunnerInv, DrivenOK
  <2> HIDE DEF kind, replaced
  <2>3. kind # "revive" /\ kind # "timeout"
    BY <2>1 DEF RespawnKinds
  <2>4. /\ harness' \in Harnesses(Turns, Sessions)
        /\ \A i \in 2..Len(harness'.jobs) : ~harness'.jobs[i].begun
        /\ DrivenOK' /\ JobsOK'
    BY <1>1, <1>3, <2>1, <2>2, <2>3, TurnAsks
  <2> QED BY <1>3, <1>4, <1>5, <2>4, HarnessStep
<1>7. CASE ~replaced
  BY <1>1, <1>3, <1>4, <1>5, <1>7, OwnTurnStep
<1> QED BY <1>6, <1>7

\* The harness hears from its provider.
LEMMA StepProviderAnswers ==
  ASSUME RunnerInv, NEW t \in Turns, ProviderAnswers(t)
  PROVE  RunnerInv'
PROOF
<1>1. /\ stage[t] = "driving" /\ harness.turn = t /\ harness' = Finished(harness) /\ Move(t, "tracking")
      /\ UNCHANGED <<leaseVars, active, recovery, awaited, restart, outcome, answer, reusable>>
  BY DEF ProviderAnswers
<1>3. /\ stage' \in [Turns -> Stages] /\ marks' \in [Turns -> SUBSET Marks]
      /\ resolved' \in [Turns -> Outcomes]
      /\ \A u \in Turns \ {t} : SameTurn(u)
      /\ Live(t)' /\ TurnOK(t)'
  BY <1>1, Moved DEF leaseVars, Forward, Outbound
<1>4. OwnTurn(t)
  BY <1>1, <1>3 DEF OwnTurn, RunnerInv, TurnTypeOK
<1>5. Live(t)
  BY <1>1 DEF Live, LiveStages, Stages
<1>6. harness \in Harnesses(Turns, Sessions) /\ DrivenOK
  BY DEF RunnerInv, TurnTypeOK
<1>7. harness' \in Harnesses(Turns, Sessions) /\ harness'.turn = None /\ harness'.jobs = harness.jobs
  BY <1>1, <1>6, Turned
<1>8. DrivenOK'
  BY <1>1, <1>3, <1>6, <1>7, TurnAssumption DEF DrivenOK
<1>9. JobsOK' /\ \A i \in 2..Len(harness'.jobs) : ~harness'.jobs[i].begun
  BY <1>1, <1>3, <1>7, ChainStands
<1> QED BY <1>3, <1>4, <1>5, <1>7, <1>8, <1>9, HarnessStep

\* The harness's own timeout asks for a stop.
LEMMA StepHarnessTimeout ==
  ASSUME RunnerInv, NEW t \in Turns, HarnessTimeout(t)
  PROVE  RunnerInv'
PROOF
<1>1. /\ stage[t] = "driving" /\ harness' = RequestStop(harness, "timeout", t) /\ Move(t, "timingOut")
      /\ UNCHANGED <<leaseVars, active, recovery, awaited, restart, outcome, answer, reusable>>
  BY DEF HarnessTimeout
<1>3. /\ stage' \in [Turns -> Stages] /\ marks' \in [Turns -> SUBSET Marks]
      /\ resolved' \in [Turns -> Outcomes]
      /\ \A u \in Turns \ {t} : SameTurn(u)
      /\ Live(t)' /\ TurnOK(t)'
  BY <1>1, Moved DEF leaseVars, Forward, Outbound
<1>4. OwnTurn(t)
  BY <1>1, <1>3 DEF OwnTurn, RunnerInv, TurnTypeOK
<1>5. Live(t) /\ stage'[t] = "timingOut"
  BY <1>1 DEF Live, LiveStages, Stages, Move, RunnerInv, TurnTypeOK
<1>6. "timeout" \in TurnKinds /\ "timeout" \notin RespawnKinds
  BY DEF TurnKinds, RespawnKinds
<1>7. /\ harness' \in Harnesses(Turns, Sessions)
      /\ \A i \in 2..Len(harness'.jobs) : ~harness'.jobs[i].begun
      /\ DrivenOK' /\ JobsOK'
  BY <1>1, <1>3, <1>5, <1>6, TurnAsks
<1> QED BY <1>3, <1>4, <1>5, <1>7, HarnessStep

\* turn() of the harness: it drives the turn, revives a crashed process, or throws.
LEMMA StepEnter ==
  ASSUME RunnerInv, NEW t \in Turns, NEW retries, retries \in BOOLEAN, Enter(t, retries)
  PROVE  RunnerInv'
PROOF
<1> DEFINE crashed == stage[t] = "entering" /\ harness.state = "crashed"
<1>1. /\ stage[t] \in {"entering", "ready"}
      /\ UNCHANGED <<leaseVars, active, recovery, awaited, restart, outcome, answer, reusable>>
  BY DEF Enter
<1>2. harness \in Harnesses(Turns, Sessions) /\ DrivenOK /\ TurnOK(t) /\ session[t] \in Sessions
  BY <1>1 DEF RunnerInv, TurnTypeOK, TurnOK, ActiveOK
<1>3. Live(t) /\ harness.turn # t
  BY <1>1, <1>2, TurnAssumption DEF Live, LiveStages, Stages, DrivenOK
<1>4. CASE crashed /\ retries
  <2>1. harness' = Chain(harness, "revive", t) /\ Move(t, "reviving")
    BY <1>4 DEF Enter
  <2>2. /\ stage' \in [Turns -> Stages] /\ marks' \in [Turns -> SUBSET Marks]
        /\ resolved' \in [Turns -> Outcomes]
        /\ \A u \in Turns \ {t} : SameTurn(u)
        /\ Live(t)' /\ TurnOK(t)'
    BY <1>1, <2>1, Moved DEF leaseVars, Forward, Outbound
  <2>3. OwnTurn(t) /\ stage'[t] = "reviving"
    BY <1>1, <2>1, <2>2 DEF OwnTurn, RunnerInv, TurnTypeOK, Move
  <2>4. "revive" \in TurnKinds /\ "revive" \notin RespawnKinds
    BY DEF TurnKinds, RespawnKinds
  <2>5. /\ harness' \in Harnesses(Turns, Sessions)
        /\ \A i \in 2..Len(harness'.jobs) : ~harness'.jobs[i].begun
        /\ DrivenOK' /\ JobsOK'
    BY <1>1, <1>3, <2>1, <2>2, <2>3, <2>4, TurnAsks
  <2> QED BY <1>3, <2>2, <2>3, <2>5, HarnessStep
<1>5. CASE ~(crashed /\ retries) /\ ~crashed /\ harness.state = "idle"
  <2>1. harness' = Driven(harness, t, session[t]) /\ Move(t, "driving")
    BY <1>5 DEF Enter
  <2>2. /\ stage' \in [Turns -> Stages] /\ marks' \in [Turns -> SUBSET Marks]
        /\ resolved' \in [Turns -> Outcomes]
        /\ \A u \in Turns \ {t} : SameTurn(u)
        /\ Live(t)' /\ TurnOK(t)'
    BY <1>1, <2>1, Moved DEF leaseVars, Forward, Outbound
  <2>3. OwnTurn(t) /\ stage'[t] = "driving"
    BY <1>1, <2>1, <2>2 DEF OwnTurn, RunnerInv, TurnTypeOK, Move
  <2>4. /\ harness' \in Harnesses(Turns, Sessions) /\ harness'.state = "busy" /\ harness'.turn = t
        /\ harness'.jobs = harness.jobs
    BY <1>2, <2>1, DrivenFields
  <2>5. lease' = t \/ gone'
    BY <1>1, <1>3 DEF RunnerInv, HoldOK, leaseVars
  <2>6. DrivenOK'
    BY <1>2, <1>5, <2>3, <2>4, <2>5 DEF DrivenOK
  <2>7. JobsOK' /\ \A i \in 2..Len(harness'.jobs) : ~harness'.jobs[i].begun
    BY <1>1, <2>2, <2>4, ChainStands
  <2> QED BY <1>3, <2>2, <2>3, <2>4, <2>6, <2>7, HarnessStep
<1>6. CASE ~(crashed /\ retries) /\ ~(~crashed /\ harness.state = "idle")
  <2>1. /\ harness' = IF crashed THEN harness ELSE [harness EXCEPT !.bound = session[t]]
        /\ Throw(t, {"postProvider"})
    BY <1>6 DEF Enter
  <2>2. /\ stage' \in [Turns -> Stages] /\ marks' \in [Turns -> SUBSET Marks]
        /\ resolved' \in [Turns -> Outcomes]
        /\ \A u \in Turns \ {t} : SameTurn(u)
        /\ Live(t)' /\ TurnOK(t)'
    BY <1>1, <2>1, Thrown DEF leaseVars, Throwing
  <2>3. OwnTurn(t)
    BY <1>1, <2>2 DEF OwnTurn, RunnerInv, TurnTypeOK
  <2>4. /\ harness' \in Harnesses(Turns, Sessions) /\ harness'.state = harness.state
        /\ harness'.turn = harness.turn /\ harness'.jobs = harness.jobs
    BY <1>2, <2>1 DEF Harnesses
  <2>5. DrivenOK'
    BY <1>1, <1>2, <1>3, <2>2, <2>4, DrivenStands DEF DrivenOK
  <2>6. JobsOK' /\ \A i \in 2..Len(harness'.jobs) : ~harness'.jobs[i].begun
    BY <1>1, <2>2, <2>4, ChainStands
  <2> QED BY <1>3, <2>2, <2>3, <2>4, <2>5, <2>6, HarnessStep
<1> QED BY <1>4, <1>5, <1>6

-----------------------------------------------------------------------------
(* The lifecycle lock.                                                     *)

\* An operation that has not begun yet begins, or one ends: the chain keeps
\* its order, and the turn that waited for the operation may go on.
LEMMA Worked ==
  ASSUME RunnerInv, harness.jobs # <<>>, NEW u,
         NEW q,
         \/ q = Tail(harness.jobs)
         \/ q = Begun(harness).jobs,
         \A v \in Turns \ {u} : stage'[v] = stage[v],
         \/ stage'[u] = stage[u]
         \/ stage[u] = "driving"
         \/ q = Tail(harness.jobs) /\ Job.kind \in TurnKinds /\ Job.by = u,
         \A v \in Turns : \/ restart'[v] = restart[v]
                          \/ q = Tail(harness.jobs) /\ Job.kind \in RestartKinds /\ Job.by = v
  PROVE  JobsIn(q, stage', restart') /\ \A i \in 2..Len(q) : ~q[i].begun
PROOF
<1>1. /\ TurnTypeOK /\ JobsOK /\ harness.jobs \in Seq(Requests)
      /\ harness \in Harnesses(Turns, Sessions) /\ Len(harness.jobs) \in Nat \ {0}
      /\ Job = harness.jobs[1]
  <2>1. TurnTypeOK /\ JobsOK /\ harness \in Harnesses(Turns, Sessions) /\ harness.jobs # <<>>
    BY DEF RunnerInv, TurnTypeOK
  <2>2. harness.jobs \in Seq(Requests)
    BY ONLY <2>1, HarnessFields
  <2>3. Len(harness.jobs) \in Nat \ {0} /\ Head(harness.jobs) = harness.jobs[1]
    BY ONLY <2>1, <2>2
  <2> QED BY ONLY <2>1, <2>2, <2>3 DEF Job
<1>5. q \in Seq(Requests)
  <2>1. harness.jobs # <<>>
    OBVIOUS
  <2>2. Begun(harness) \in Harnesses(Turns, Sessions)
    BY ONLY <1>1, <2>1, Begun1
  <2>3. Begun(harness).jobs \in Seq(Requests)
    BY ONLY <2>2, HarnessFields
  <2>4. Tail(harness.jobs) \in Seq(Requests)
    BY ONLY <1>1, <2>1
  <2> QED BY <2>3, <2>4
<1>2. \A i \in 1..Len(harness.jobs) : AwaitedBy(harness.jobs[i], stage, restart)
  BY <1>1 DEF JobsOK, JobsIn
<1>3. CASE q = Tail(harness.jobs)
  <2>1. /\ Len(q) = Len(harness.jobs) - 1
        /\ \A i \in 1..Len(q) : q[i] = harness.jobs[i + 1] /\ i + 1 \in 2..Len(harness.jobs)
    BY <1>1, <1>3
  <2>2. ASSUME NEW i \in 2..Len(harness.jobs)
        PROVE  KeptFor(harness.jobs[i])
    <3>1. i \in 1..Len(harness.jobs) /\ 1 \in 1..Len(harness.jobs) /\ i # 1
      BY <1>1
    <3>2. harness.jobs[i].by = Job.by =>
            /\ ~(harness.jobs[i].kind \in TurnKinds /\ Job.kind \in TurnKinds)
            /\ ~(harness.jobs[i].kind \in RestartKinds /\ Job.kind \in RestartKinds)
      BY <1>1, <3>1 DEF JobsOK, JobsIn
    <3>3. AwaitedBy(harness.jobs[i], stage, restart)
      BY <1>2, <3>1
    <3> QED BY <3>2, <3>3 DEF KeptFor, AwaitedBy, TurnKinds
  <2>3. JobsIn(q, stage', restart')
    <3> DEFINE d == 1
    <3>1. \A i \in 1 + d..Len(harness.jobs) : KeptFor(harness.jobs[i])
      BY <2>2
    <3>2. /\ Len(q) = Len(harness.jobs) - d
          /\ \A i \in 1..Len(q) : /\ q[i].kind = harness.jobs[i + d].kind
                                              /\ q[i].by = harness.jobs[i + d].by
      BY <2>1
    <3>3. d \in {0, 1}
      OBVIOUS
    <3> HIDE DEF d
    <3> QED BY <1>1, <1>5, <3>1, <3>2, <3>3, JobsKept
  <2>4. \A i \in 2..Len(q) : ~q[i].begun
    BY <1>1, <2>1 DEF TurnTypeOK
  <2> QED BY <2>3, <2>4
<1>4. CASE q = Begun(harness).jobs /\ q # Tail(harness.jobs)
  <2>1. /\ Len(q) = Len(harness.jobs)
        /\ \A i \in 1..Len(harness.jobs) : /\ q[i].kind = harness.jobs[i].kind
                                           /\ q[i].by = harness.jobs[i].by
                                           /\ i > 1 => q[i] = harness.jobs[i]
    BY <1>1, <1>4, Begun1
  <2>2. \A i \in 1..Len(harness.jobs) : KeptFor(harness.jobs[i])
    BY <1>2, <1>4 DEF KeptFor, AwaitedBy, TurnKinds, RestartKinds
  <2>3. JobsIn(q, stage', restart')
    BY <1>1, <1>5, <2>1, <2>2, JobsKept
  <2>4. \A i \in 2..Len(q) : ~q[i].begun
    BY <1>1, <2>1 DEF TurnTypeOK
  <2> QED BY <2>3, <2>4
<1> QED BY <1>3, <1>4

\* What the operation at the head of the chain says about the turns.
LEMMA AtHead ==
  ASSUME RunnerInv, NEW kinds, NEW begun, AtJob(harness, kinds, begun)
  PROVE  /\ harness \in Harnesses(Turns, Sessions) /\ harness.jobs # <<>>
         /\ Job.kind \in kinds /\ Job.begun = begun /\ Job = harness.jobs[1]
         /\ AwaitedBy(Job, stage, restart) /\ Job \in Requests
PROOF
<1>1. harness \in Harnesses(Turns, Sessions) /\ harness.jobs \in Seq(Requests) /\ JobsOK
  BY HarnessFields DEF RunnerInv, TurnTypeOK
<1>2. harness.jobs # <<>> /\ Job.kind \in kinds /\ Job.begun = begun /\ Job = Head(harness.jobs)
  BY DEF AtJob, Job
<1>3. 1 \in 1..Len(harness.jobs) /\ Job = harness.jobs[1] /\ Job \in Requests
  BY <1>1, <1>2
<1> QED BY <1>1, <1>2, <1>3 DEF JobsOK, JobsIn

\* The operation after it has not begun.
LEMMA NextIsFresh ==
  ASSUME RunnerInv, harness.jobs # <<>>, harness'.jobs = Tail(harness.jobs)
  PROVE  ~(harness'.jobs # <<>> /\ harness'.jobs[1].begun)
PROOF
<1>1. harness.jobs \in Seq(Requests)
  BY HarnessFields DEF RunnerInv, TurnTypeOK
<1>2. harness'.jobs # <<>> => harness'.jobs[1] = harness.jobs[2] /\ 2 \in 2..Len(harness.jobs)
  BY <1>1
<1> QED BY <1>2 DEF RunnerInv, TurnTypeOK

\* A step of the harness that no turn notices.
LEMMA SilentStep ==
  ASSUME RunnerInv,
         UNCHANGED <<leaseVars, turnVars, active, recovery, awaited, restart, outcome, answer, reusable>>,
         harness' \in Harnesses(Turns, Sessions),
         \A i \in 2..Len(harness'.jobs) : ~harness'.jobs[i].begun,
         DrivenOK', JobsOK'
  PROVE  RunnerInv'
PROOF
<1> USE DEF RunnerInv, leaseVars, turnVars
<1>1. TurnTypeOK'
  BY DEF TurnTypeOK
<1>2. HoldOK'
  BY DEF HoldOK, Live
<1>3. ASSUME NEW u \in Turns PROVE TurnOK(u)'
  <2>1. TurnOK(u) /\ SameTurn(u) /\ TurnTypeOK
    BY DEF SameTurn
  <2> QED BY <2>1, OtherTurn
<1> QED BY <1>1, <1>2, <1>3

\* An operation at the head of the chain begins: the process is shut down.
LEMMA StepHalt ==
  ASSUME RunnerInv, Halt
  PROVE  RunnerInv'
PROOF
<1>1. /\ AtJob(harness, StopKinds \cup RespawnKinds, FALSE)
      /\ UNCHANGED <<leaseVars, active, recovery, awaited, restart, outcome, answer, reusable>>
  BY DEF Halt
<1>2. /\ harness \in Harnesses(Turns, Sessions) /\ harness.jobs # <<>>
      /\ AwaitedBy(Job, stage, restart) /\ DrivenOK
  BY <1>1, AtHead DEF RunnerInv
\* A respawn that is refused or needless.
<1>3. CASE Job.kind \in RespawnKinds /\ (harness.state = "busy" \/ (Job.kind = "respawn" /\ harness.state # "stopped"))
  <2>1. harness' = Done(harness) /\ (Throw(Job.by, {"postProvider"}) \/ Move(Job.by, "entering"))
    BY <1>3 DEF Halt
  <2>2. PICK t \in Turns : t = Job.by
    BY <1>2, <1>3 DEF AwaitedBy, TurnKinds
  <2>3. stage[t] = "respawning" /\ stage[t] \in Throwing /\ stage[t] \in Forward /\ stage[t] \in Outbound
    BY <1>2, <1>3, <2>2 DEF AwaitedBy, Throwing, Forward, Outbound
  <2>4. Live(t) /\ harness.turn # t /\ Job.kind \in TurnKinds
    BY <1>2, <1>3, <2>3, TurnAssumption DEF TurnKinds, Live, LiveStages, Stages, DrivenOK
  <2>5. /\ stage' \in [Turns -> Stages] /\ marks' \in [Turns -> SUBSET Marks]
        /\ resolved' \in [Turns -> Outcomes]
        /\ \A u \in Turns \ {t} : SameTurn(u)
        /\ Live(t)' /\ TurnOK(t)'
    <3>1. CASE Throw(t, {"postProvider"})
      BY <1>1, <2>3, <3>1, Thrown DEF leaseVars
    <3>2. CASE Move(t, "entering")
      BY <1>1, <2>3, <3>2, Moved DEF leaseVars, Forward
    <3> QED BY <2>1, <2>2, <3>1, <3>2
  <2>6. /\ harness' \in Harnesses(Turns, Sessions) /\ harness'.state = harness.state
        /\ harness'.turn = harness.turn /\ harness'.jobs = Tail(harness.jobs)
    BY <1>2, <2>1, Ended1
  <2>7. ~(harness'.jobs # <<>> /\ harness'.jobs[1].begun)
    BY <1>2, <2>6, NextIsFresh
  <2>8. OwnTurn(t)
    BY <1>1, <2>5 DEF OwnTurn, RunnerInv, TurnTypeOK
  <2>9. \A v \in Turns \ {t} : stage'[v] = stage[v]
    BY <2>5 DEF SameTurn
  <2>10. JobsOK' /\ \A i \in 2..Len(harness'.jobs) : ~harness'.jobs[i].begun
    BY <1>1, <1>2, <2>2, <2>4, <2>6, <2>9, Worked DEF JobsOK
  <2>11. DrivenOK'
    BY <1>1, <2>4, <2>5, <2>6, <2>7, DrivenStands
  <2> QED BY <2>4, <2>5, <2>6, <2>8, <2>10, <2>11, HarnessStep
\* The process is stopped; the turn it served gets an error.
<1>4. CASE ~(Job.kind \in RespawnKinds /\ (harness.state = "busy" \/ (Job.kind = "respawn" /\ harness.state # "stopped")))
  <2>1. harness' = Halted(harness) /\ Interrupt(harness.turn)
    BY <1>4 DEF Halt, RespawnKinds
  <2>2. /\ harness' \in Harnesses(Turns, Sessions) /\ harness'.state = "stopped" /\ harness'.turn = None
        /\ harness'.jobs = Begun(harness).jobs
    BY <1>2, <2>1, Begun1
  <2>3. DrivenOK'
    BY <2>2 DEF DrivenOK
  <2>4. PICK u \in Turns \cup {None} : u = harness.turn
    BY <1>2, HarnessFields
  <2>5. CASE u # None /\ stage[u] = "driving"
    <3>1. u \in Turns /\ Throw(u, {"postProvider"}) /\ stage[u] \in Throwing /\ Live(u)
      BY <2>1, <2>4, <2>5 DEF Interrupt, Throwing, Live, LiveStages, Stages
    <3>2. /\ stage' \in [Turns -> Stages] /\ marks' \in [Turns -> SUBSET Marks]
          /\ resolved' \in [Turns -> Outcomes]
          /\ \A v \in Turns \ {u} : SameTurn(v)
          /\ Live(u)' /\ TurnOK(u)'
      BY <1>1, <3>1, Thrown DEF leaseVars
    <3>3. OwnTurn(u)
      BY <1>1, <3>2 DEF OwnTurn, RunnerInv, TurnTypeOK
    <3>4. \A v \in Turns \ {u} : stage'[v] = stage[v]
      BY <3>2 DEF SameTurn
    <3>5. JobsOK' /\ \A i \in 2..Len(harness'.jobs) : ~harness'.jobs[i].begun
      BY <1>1, <1>2, <2>2, <2>5, <3>4, Worked DEF JobsOK
    <3> QED BY <2>2, <2>3, <3>1, <3>2, <3>3, <3>5, HarnessStep
  <2>6. CASE ~(u # None /\ stage[u] = "driving")
    <3>1. UNCHANGED turnVars
      BY <2>1, <2>4, <2>6 DEF Interrupt
    <3>2. JobsOK' /\ \A i \in 2..Len(harness'.jobs) : ~harness'.jobs[i].begun
      BY <1>1, <1>2, <2>2, <3>1, Worked DEF JobsOK, turnVars
    <3> QED BY <1>1, <2>2, <2>3, <3>1, <3>2, SilentStep
  <2> QED BY <2>5, <2>6
<1> QED BY <1>3, <1>4

\* A step of the restart of a cancelled turn.
LEMMA RestartStep ==
  ASSUME RunnerInv, NEW t \in Turns, Restarting(t),
         NEW next \in {"stop", "stopped", "starting", "done", "failed"},
         restart' = [restart EXCEPT ![t] = next],
         recovery' \in [Sessions -> Turns \cup {None}],
         \A s \in Sessions : recovery'[s] = IF next = "done" /\ recovery[s] = t THEN None ELSE recovery[s],
         UNCHANGED <<leaseVars, turnVars, active, awaited, outcome, answer, reusable>>,
         harness' \in Harnesses(Turns, Sessions),
         \A i \in 2..Len(harness'.jobs) : ~harness'.jobs[i].begun,
         DrivenOK', JobsOK'
  PROVE  RunnerInv'
PROOF
<1> USE DEF RunnerInv, leaseVars, turnVars
<1>1. TurnTypeOK'
  BY DEF TurnTypeOK
<1>2. HoldOK'
  BY DEF HoldOK, Live
<1>3. \A u \in Turns \ {t} : SameTurn(u)
  BY DEF SameTurn, TurnTypeOK
<1>4. TurnOK(t) /\ restart'[t] = next /\ restart[t] \notin {"none", "done", "failed"}
  BY DEF TurnTypeOK, Restarting
<1>5. ActiveOK(t)' /\ MarksOK(t)' /\ AnswerOK(t)'
  BY <1>4 DEF TurnOK, ActiveOK, MarksOK, AnswerOK, Live
<1>6. RestartOK(t)'
  <2>1. RestartOK(t) /\ (Restarting(t)' => next # "done") /\ (Live(t)' <=> Live(t))
    BY <1>4 DEF TurnOK, Restarting, Live
  <2>2. stage[t] # "new" => session[t] \in Sessions
    BY <1>4 DEF TurnOK, ActiveOK
  <2>3. next = "done" => \A s \in Sessions : recovery'[s] # t
    BY TurnAssumption
  <2>4. next # "done" => \A s \in Sessions : recovery'[s] = recovery[s]
    OBVIOUS
  <2>5. \A s \in Sessions : recovery'[s] \in {recovery[s], None}
    OBVIOUS
  <2>6. Live(t) \/ stage[t] \in Outbound \/ stage[t] = "recovering" => stage[t] # "new"
    BY DEF Live, LiveStages, Outbound
  <2> QED BY <1>4, <2>1, <2>2, <2>3, <2>4, <2>5, <2>6 DEF RestartOK
<1>7. \A u \in Turns : TurnOK(u)'
  BY <1>3, <1>5, <1>6, OtherTurns DEF TurnOK
<1> QED BY <1>1, <1>2, <1>7

\* An operation of the harness that has begun found it without a turn.
LEMMA NoTurnAtWork ==
  ASSUME RunnerInv, NEW kinds, AtJob(harness, kinds, TRUE)
  PROVE  harness.turn = None /\ harness.state \in {"stopped", "crashed"}
PROOF
  BY AtHead DEF RunnerInv, DrivenOK

\* A stop is over: a reset, a teardown, a timeout or a cancel goes on.
LEMMA StepStopDone ==
  ASSUME RunnerInv, StopDone
  PROVE  RunnerInv'
PROOF
<1>1. /\ AtJob(harness, StopKinds, TRUE)
      /\ harness' = CASE Job.kind = "teardown" -> RequestStop(Down(harness), "dispose", None)
                      [] Job.kind = "reset" -> [Down(harness) EXCEPT !.bound = None]
                      [] OTHER -> Down(harness)
      /\ restart' = IF Job.kind = "stop" THEN [restart EXCEPT ![Job.by] = "stopped"] ELSE restart
      /\ IF Job.kind = "timeout" THEN Throw(Job.by, {"postProvider"}) ELSE UNCHANGED turnVars
      /\ UNCHANGED <<leaseVars, active, recovery, awaited, outcome, answer, reusable>>
  BY DEF StopDone
<1>2. /\ harness \in Harnesses(Turns, Sessions) /\ harness.jobs # <<>> /\ TurnTypeOK
      /\ AwaitedBy(Job, stage, restart) /\ DrivenOK /\ harness.turn = None
  BY <1>1, AtHead, NoTurnAtWork DEF RunnerInv
<1> DEFINE d == Down(harness)
<1>3. d \in Harnesses(Turns, Sessions) /\ d.turn = None /\ d.jobs = Tail(harness.jobs)
  BY <1>2, Ended1
<1>4. d.jobs \in Seq(Requests) /\ ~(d.jobs # <<>> /\ d.jobs[1].begun)
      /\ \A i \in 2..Len(d.jobs) : ~d.jobs[i].begun
  <2>1. d.jobs \in Seq(Requests) /\ harness.jobs \in Seq(Requests)
    BY <1>2, <1>3, HarnessFields
  <2>2. \A i \in 1..Len(d.jobs) : d.jobs[i] = harness.jobs[i + 1] /\ i + 1 \in 2..Len(harness.jobs)
    BY <1>2, <1>3, <2>1
  <2>3. \A i \in 2..Len(harness.jobs) : ~harness.jobs[i].begun
    BY <1>2 DEF TurnTypeOK
  <2>4. \A i \in 1..Len(d.jobs) : ~d.jobs[i].begun
    BY <2>2, <2>3
  <2>5. d.jobs # <<>> => 1 \in 1..Len(d.jobs)
    BY <2>1
  <2>6. \A i \in 2..Len(d.jobs) : i \in 1..Len(d.jobs)
    BY <2>1
  <2> HIDE DEF d
  <2> QED BY <2>1, <2>4, <2>5, <2>6
<1> HIDE DEF d
\* What is left of the chain is as it was for those who wait.
<1>5. JobsIn(d.jobs, stage', restart')
  <2>1. CASE Job.kind = "timeout"
    <3>1. Job.by \in Turns /\ Job.kind \in TurnKinds
      BY <1>2, <2>1 DEF AwaitedBy, TurnKinds
    <3>2. /\ \A v \in Turns \ {Job.by} : stage'[v] = stage[v]
          /\ restart' = restart
      BY <1>1, <1>2, <2>1 DEF Throw, TurnTypeOK
    <3> DEFINE u == Job.by
    <3>3. \A v \in Turns \ {u} : stage'[v] = stage[v]
      BY <3>2
    <3>4. Job.by = u
      OBVIOUS
    <3> HIDE DEF u
    <3> QED BY <1>2, <1>3, <3>1, <3>2, <3>3, <3>4, Worked
  <2>2. CASE Job.kind = "stop"
    <3>1. stage' = stage /\ Job.kind \in RestartKinds
      BY <1>1, <2>2 DEF turnVars, RestartKinds
    <3>2. \A v \in Turns : restart'[v] = restart[v] \/ Job.by = v
      BY <1>1, <1>2, <2>2 DEF TurnTypeOK
    <3> QED BY <1>2, <1>3, <3>1, <3>2, Worked
  <2>3. CASE Job.kind \notin {"stop", "timeout"}
    <3>1. stage' = stage /\ restart' = restart
      BY <1>1, <2>3 DEF turnVars
    <3> QED BY <1>2, <1>3, <3>1, Worked
  <2> QED BY <2>1, <2>2, <2>3
<1>6. /\ harness' \in Harnesses(Turns, Sessions)
      /\ \A i \in 2..Len(harness'.jobs) : ~harness'.jobs[i].begun
      /\ DrivenOK' /\ JobsOK'
  <2>1. CASE Job.kind = "teardown"
    <3> DEFINE j == [kind |-> "dispose", by |-> None, begun |-> FALSE]
    <3>1. harness' = RequestStop(d, "dispose", None)
      BY <1>1, <2>1 DEF d
    <3>2. "dispose" \in JobKinds /\ j \in Requests
      BY DEF JobKinds, StopKinds, Requests
    <3>3. harness' \in Harnesses(Turns, Sessions) /\ harness'.turn = None /\ harness'.jobs = Append(d.jobs, j)
      <4>1. /\ d \in Harnesses(Turns, Sessions) /\ d.turn = None /\ "dispose" \in JobKinds
            /\ None \in Turns \cup Sessions \cup {None} /\ harness' = RequestStop(d, "dispose", None)
        BY <1>3, <3>1, <3>2
      <4> HIDE DEF d
      <4>2. /\ harness' \in Harnesses(Turns, Sessions) /\ harness'.turn = d.turn
            /\ harness'.jobs = Append(d.jobs, [kind |-> "dispose", by |-> None, begun |-> FALSE])
        BY ONLY <4>1, Chained
      <4> QED BY ONLY <4>1, <4>2 DEF j
    <3>4. /\ Len(d.jobs) \in Nat /\ Len(harness'.jobs) = Len(d.jobs) + 1 /\ harness'.jobs[Len(d.jobs) + 1] = j
          /\ \A i \in 1..Len(d.jobs) : harness'.jobs[i] = d.jobs[i]
      BY <1>4, <3>3, <3>2
    <3>5. j.kind \notin TurnKinds /\ j.kind \notin RestartKinds /\ ~j.begun
      BY DEF TurnKinds, RestartKinds, RespawnKinds
    <3> HIDE DEF j
    <3>6. \A i \in 1..Len(harness'.jobs) :
             harness'.jobs[i] = j \/ (i \in 1..Len(d.jobs) /\ harness'.jobs[i] = d.jobs[i])
      BY <3>4
    <3>7. AwaitedBy(j, stage', restart')
      BY <3>5 DEF AwaitedBy, TurnKinds, RestartKinds
    <3>8. \A i \in 1..Len(harness'.jobs) : AwaitedBy(harness'.jobs[i], stage', restart')
      BY <1>5, <3>6, <3>7 DEF JobsIn
    <3>9. \A i, k \in 1..Len(harness'.jobs) :
             i # k /\ harness'.jobs[i].by = harness'.jobs[k].by =>
               /\ ~(harness'.jobs[i].kind \in TurnKinds /\ harness'.jobs[k].kind \in TurnKinds)
               /\ ~(harness'.jobs[i].kind \in RestartKinds /\ harness'.jobs[k].kind \in RestartKinds)
      BY <1>5, <3>5, <3>6 DEF JobsIn
    <3>10. JobsOK'
      BY <3>8, <3>9 DEF JobsOK, JobsIn
    <3>11. harness'.jobs[1] = j \/ (d.jobs # <<>> /\ harness'.jobs[1] = d.jobs[1])
      BY <1>4, <3>4
    <3>12. DrivenOK'
      BY <1>4, <3>3, <3>5, <3>11 DEF DrivenOK
    <3>13. \A i \in 2..Len(harness'.jobs) : ~harness'.jobs[i].begun
      BY <1>4, <3>4, <3>5, <3>6
    <3> QED BY <3>3, <3>10, <3>12, <3>13
  <2>2. CASE Job.kind # "teardown"
    <3>1. harness' = d \/ harness' = [d EXCEPT !.bound = None]
      BY <1>1, <2>2 DEF d
    <3>2. harness' \in Harnesses(Turns, Sessions) /\ harness'.turn = None /\ harness'.jobs = d.jobs
      BY <1>3, <3>1 DEF Harnesses
    <3>3. DrivenOK'
      BY <1>4, <3>2 DEF DrivenOK
    <3> QED BY <1>4, <1>5, <3>2, <3>3 DEF JobsOK
  <2> QED BY <2>1, <2>2
<1>7. CASE Job.kind = "timeout"
  <2>1. PICK t \in Turns : t = Job.by /\ stage[t] = "timingOut"
    BY <1>2, <1>7 DEF AwaitedBy, TurnKinds
  <2>2. Throw(t, {"postProvider"}) /\ stage[t] \in Throwing /\ Live(t) /\ restart' = restart
    BY <1>1, <1>7, <2>1 DEF Throwing, Live, LiveStages, Stages
  <2>3. /\ stage' \in [Turns -> Stages] /\ marks' \in [Turns -> SUBSET Marks]
        /\ resolved' \in [Turns -> Outcomes]
        /\ \A v \in Turns \ {t} : SameTurn(v)
        /\ Live(t)' /\ TurnOK(t)'
    BY <1>1, <2>2, Thrown DEF leaseVars
  <2>4. OwnTurn(t)
    BY <1>1, <2>2, <2>3 DEF OwnTurn, RunnerInv, TurnTypeOK
  <2> QED BY <1>6, <2>2, <2>3, <2>4, HarnessStep
<1>8. CASE Job.kind = "stop"
  <2>1. PICK t \in Turns : t = Job.by /\ restart[t] = "stop"
    BY <1>2, <1>8 DEF AwaitedBy, RestartKinds
  <2>2. Restarting(t) /\ restart' = [restart EXCEPT ![t] = "stopped"] /\ recovery' = recovery
    BY <1>1, <1>8, <2>1 DEF Restarting
  <2>3. UNCHANGED turnVars
    BY <1>1, <1>8
  <2>4. recovery' \in [Sessions -> Turns \cup {None}]
    BY <1>2, <2>2 DEF TurnTypeOK
  <2> QED BY <1>1, <1>6, <2>2, <2>3, <2>4, RestartStep
<1>9. CASE Job.kind \notin {"stop", "timeout"}
  BY <1>1, <1>6, <1>9, SilentStep
<1> QED BY <1>7, <1>8, <1>9

\* The turn that waits for the operation at the head of the chain goes on when
\* it ends, on its way to the provider or with an error.
LEMMA TurnServed ==
  ASSUME RunnerInv, NEW t \in Turns, harness.jobs # <<>>, Job.by = t,
         Job.kind \in TurnKinds, stage[t] \in {"respawning", "reviving"},
         Throw(t, {"postProvider"}) \/ Move(t, "entering") \/ Move(t, "ready"),
         harness' \in Harnesses(Turns, Sessions), harness'.jobs = Tail(harness.jobs),
         harness'.turn = harness.turn,
         harness.turn # None => harness'.state = harness.state,
         UNCHANGED <<leaseVars, active, recovery, awaited, restart, outcome, answer, reusable>>
  PROVE  RunnerInv'
PROOF
<1>1. stage[t] \in Throwing /\ stage[t] \in Forward /\ stage[t] \in Outbound /\ Live(t)
  BY DEF Throwing, Forward, Outbound, Live, LiveStages, Stages
<1>2. /\ stage' \in [Turns -> Stages] /\ marks' \in [Turns -> SUBSET Marks]
      /\ resolved' \in [Turns -> Outcomes]
      /\ \A u \in Turns \ {t} : SameTurn(u)
      /\ Live(t)' /\ TurnOK(t)'
  <2>1. CASE Throw(t, {"postProvider"})
    BY <1>1, <2>1, Thrown DEF leaseVars
  <2>2. CASE Move(t, "entering")
    BY <1>1, <2>2, Moved DEF leaseVars, Forward
  <2>3. CASE Move(t, "ready")
    BY <1>1, <2>3, Moved DEF leaseVars, Forward
  <2> QED BY <2>1, <2>2, <2>3
<1>3. OwnTurn(t)
  BY <1>2 DEF OwnTurn, RunnerInv, TurnTypeOK
<1>4. harness.turn # t
  BY TurnAssumption DEF RunnerInv, DrivenOK
<1>5. ~(harness'.jobs # <<>> /\ harness'.jobs[1].begun)
  BY NextIsFresh
<1>6. DrivenOK'
  BY <1>2, <1>4, <1>5, TurnAssumption, DrivenStands
<1>7. \A v \in Turns \ {t} : stage'[v] = stage[v]
  BY <1>2 DEF SameTurn
<1>8. JobsOK' /\ \A i \in 2..Len(harness'.jobs) : ~harness'.jobs[i].begun
  BY <1>1, <1>7, Worked DEF JobsOK
<1> QED BY <1>1, <1>2, <1>3, <1>6, <1>8, HarnessStep

\* A respawn is over: its turn goes on or fails.
LEMMA StepRespawnDone ==
  ASSUME RunnerInv, NEW ok, ok \in BOOLEAN, RespawnDone(ok)
  PROVE  RunnerInv'
PROOF
<1>1. /\ AtJob(harness, RespawnKinds, TRUE)
      /\ \/ harness' = Up(harness) /\ Move(Job.by, "entering")
         \/ harness' = NotUp(harness) /\ Throw(Job.by, {"postProvider"})
      /\ UNCHANGED <<leaseVars, active, recovery, awaited, restart, outcome, answer, reusable>>
  BY DEF RespawnDone
<1>2. /\ harness \in Harnesses(Turns, Sessions) /\ harness.jobs # <<>>
      /\ AwaitedBy(Job, stage, restart) /\ harness.turn = None /\ Job.kind \in RespawnKinds
  BY <1>1, AtHead, NoTurnAtWork
<1>3. PICK t \in Turns : t = Job.by /\ stage[t] = "respawning"
  BY <1>2 DEF AwaitedBy, TurnKinds
<1>4. /\ harness' \in Harnesses(Turns, Sessions)
      /\ harness'.turn = harness.turn /\ harness'.jobs = Tail(harness.jobs)
      /\ harness.turn # None => harness'.state = harness.state
  BY <1>1, <1>2, Ended1
<1>5. Throw(t, {"postProvider"}) \/ Move(t, "entering")
  BY <1>1, <1>3
<1>6. Job.kind \in TurnKinds
  BY <1>2 DEF TurnKinds
<1> QED BY <1>1, <1>2, <1>3, <1>4, <1>5, <1>6, TurnServed

\* The recovery from a crash begins.
LEMMA StepRevive ==
  ASSUME RunnerInv, NEW ok, ok \in BOOLEAN, Revive(ok)
  PROVE  RunnerInv'
PROOF
<1>1. /\ AtJob(harness, {"revive"}, FALSE)
      /\ \/ harness' = Done(harness) /\ (Throw(Job.by, {"postProvider"}) \/ Move(Job.by, "ready"))
         \/ harness.state = "crashed" /\ harness' = Up(harness) /\ Move(Job.by, "ready")
         \/ harness.state = "crashed" /\ harness' = NotUp(harness) /\ Throw(Job.by, {"postProvider"})
      /\ UNCHANGED <<leaseVars, active, recovery, awaited, restart, outcome, answer, reusable>>
  BY DEF Revive
<1>2. /\ harness \in Harnesses(Turns, Sessions) /\ harness.jobs # <<>>
      /\ AwaitedBy(Job, stage, restart) /\ Job.kind \in {"revive"}
  BY <1>1, AtHead
<1>3. PICK t \in Turns : t = Job.by /\ stage[t] = "reviving"
  BY <1>2 DEF AwaitedBy, TurnKinds
<1>6. harness.state = "crashed" => harness.turn = None
  BY DEF RunnerInv, DrivenOK
<1>4. /\ harness' \in Harnesses(Turns, Sessions)
      /\ harness'.turn = harness.turn /\ harness'.jobs = Tail(harness.jobs)
      /\ harness.turn # None => harness'.state = harness.state
  BY <1>1, <1>2, <1>6, Ended1
<1>5. Throw(t, {"postProvider"}) \/ Move(t, "ready")
  BY <1>1, <1>3
<1>7. Job.kind \in TurnKinds
  BY <1>2 DEF TurnKinds
<1> QED BY <1>1, <1>2, <1>3, <1>4, <1>5, <1>7, TurnServed

\* A restart is told that its start() is over.
LEMMA StartServed ==
  ASSUME RunnerInv, NEW ok, ok \in BOOLEAN, NEW begun, AtJob(harness, {"start"}, begun),
         Restarted(Job.by, ok),
         harness' \in Harnesses(Turns, Sessions), harness'.jobs = Tail(harness.jobs),
         harness'.turn = harness.turn, harness.turn # None => harness'.state = harness.state,
         UNCHANGED <<leaseVars, turnVars, active, awaited, outcome, answer, reusable>>
  PROVE  RunnerInv'
PROOF
<1>1. /\ harness \in Harnesses(Turns, Sessions) /\ harness.jobs # <<>>
      /\ AwaitedBy(Job, stage, restart) /\ Job.kind = "start" /\ TurnTypeOK /\ DrivenOK
  BY AtHead DEF RunnerInv
<1>2. PICK t \in Turns : t = Job.by /\ restart[t] = "starting"
  BY <1>1 DEF AwaitedBy, RestartKinds
<1> DEFINE next == IF ok THEN "done" ELSE "failed"
<1>3. /\ Restarting(t) /\ next \in {"stop", "stopped", "starting", "done", "failed"} /\ restart' = [restart EXCEPT ![t] = next]
      /\ recovery' = [s \in Sessions |-> IF ok /\ recovery[s] = t THEN None ELSE recovery[s]]
  BY <1>2 DEF Restarted, Restarting
<1>4. next = "done" <=> ok
  OBVIOUS
<1> HIDE DEF next
<1>5. /\ recovery' \in [Sessions -> Turns \cup {None}]
      /\ \A s \in Sessions : recovery'[s] = IF next = "done" /\ recovery[s] = t THEN None ELSE recovery[s]
  BY <1>1, <1>3, <1>4 DEF TurnTypeOK
<1>6. ~(harness'.jobs # <<>> /\ harness'.jobs[1].begun)
  BY <1>1, NextIsFresh
<1>7. DrivenOK'
  BY <1>1, <1>6 DEF DrivenOK, leaseVars, turnVars
<1>8. /\ Job.kind \in RestartKinds /\ stage' = stage
      /\ \A v \in Turns : restart'[v] = restart[v] \/ Job.by = v
  BY <1>1, <1>2, <1>3 DEF turnVars, RestartKinds, TurnTypeOK
<1>9. JobsOK' /\ \A i \in 2..Len(harness'.jobs) : ~harness'.jobs[i].begun
  BY <1>1, <1>8, Worked DEF JobsOK
<1> QED BY <1>3, <1>5, <1>7, <1>9, RestartStep

\* A start() of the harness is over.
LEMMA StepStartDone ==
  ASSUME RunnerInv, NEW ok, ok \in BOOLEAN, StartDone(ok)
  PROVE  RunnerInv'
PROOF
<1>1. /\ AtJob(harness, {"start"}, TRUE) /\ (harness' = Up(harness) \/ harness' = NotUp(harness))
      /\ Restarted(Job.by, ok)
      /\ UNCHANGED <<leaseVars, turnVars, active, awaited, outcome, answer, reusable>>
  BY DEF StartDone
<1>2. harness \in Harnesses(Turns, Sessions) /\ harness.jobs # <<>> /\ harness.turn = None
  BY <1>1, AtHead, NoTurnAtWork
<1>3. /\ harness' \in Harnesses(Turns, Sessions)
      /\ harness'.turn = harness.turn /\ harness'.jobs = Tail(harness.jobs)
  BY <1>1, <1>2, Ended1
<1> QED BY <1>1, <1>2, <1>3, StartServed

\* start() finds the harness idle, or its process is spawned.
LEMMA StepStartBegins ==
  ASSUME RunnerInv, StartBegins
  PROVE  RunnerInv'
PROOF
<1>1. /\ AtJob(harness, {"start"}, FALSE)
      /\ UNCHANGED <<leaseVars, turnVars, active, awaited, outcome, answer, reusable>>
  BY DEF StartBegins
<1>2. harness \in Harnesses(Turns, Sessions) /\ harness.jobs # <<>> /\ DrivenOK
  BY <1>1, AtHead DEF RunnerInv
<1>3. CASE harness.state \in {"idle", "busy"} \/ harness.process
  <2>1. PICK ok \in BOOLEAN : harness' = Done(harness) /\ Restarted(Job.by, ok)
    BY <1>3 DEF StartBegins
  <2>2. /\ harness' \in Harnesses(Turns, Sessions) /\ harness'.state = harness.state
        /\ harness'.turn = harness.turn /\ harness'.jobs = Tail(harness.jobs)
    BY <1>2, <2>1, Ended1
  <2> QED BY <1>1, <2>1, <2>2, StartServed
<1>4. CASE ~(harness.state \in {"idle", "busy"} \/ harness.process)
  <2>1. harness' = [Begun(harness) EXCEPT !.stopping = FALSE] /\ UNCHANGED <<restart, recovery>>
    BY <1>4 DEF StartBegins
  <2>2. /\ Begun(harness) \in Harnesses(Turns, Sessions)
        /\ Begun(harness).state = harness.state /\ Begun(harness).turn = harness.turn
    BY <1>2, Begun1
  <2>3. /\ harness' \in Harnesses(Turns, Sessions) /\ harness'.state = harness.state
        /\ harness'.turn = harness.turn /\ harness'.jobs = Begun(harness).jobs
    BY <2>1, <2>2 DEF Harnesses
  <2>4. DrivenOK'
    BY <1>2, <1>4, <2>3, HarnessFields DEF DrivenOK
  <2>5. JobsOK' /\ \A i \in 2..Len(harness'.jobs) : ~harness'.jobs[i].begun
    BY <1>1, <1>2, <2>1, <2>3, Worked DEF JobsOK, turnVars
  <2> QED BY <1>1, <2>1, <2>3, <2>4, <2>5, SilentStep
<1> QED BY <1>3, <1>4

\* A stop that no turn waits for: a continuity reset, or a teardown.
LEMMA StopAsked ==
  ASSUME RunnerInv, NEW kind \in {"reset", "teardown"}, NEW by \in Sessions \cup {None},
         harness' = RequestStop(harness, kind, by),
         \A i \in 1..Len(harness.jobs) : KeptFor(harness.jobs[i])
  PROVE  /\ harness' \in Harnesses(Turns, Sessions)
         /\ harness'.turn = harness.turn /\ harness'.state = harness.state
         /\ \A i \in 2..Len(harness'.jobs) : ~harness'.jobs[i].begun
         /\ harness'.jobs # <<>> /\ harness'.jobs[1].begun => harness.jobs # <<>> /\ harness.jobs[1].begun
         /\ JobsOK'
PROOF
<1>1. TurnTypeOK /\ kind \in JobKinds /\ JobsOK /\ by \in Turns \cup Sessions \cup {None}
  BY DEF RunnerInv, JobKinds, StopKinds
<1> DEFINE job == [kind |-> kind, by |-> by, begun |-> FALSE]
<1>2. /\ harness' \in Harnesses(Turns, Sessions) /\ harness'.turn = harness.turn /\ harness'.state = harness.state
      /\ harness'.jobs = Append(harness.jobs, job) /\ job \in Requests
      /\ \A i \in 2..Len(harness'.jobs) : ~harness'.jobs[i].begun
      /\ harness'.jobs # <<>> /\ harness'.jobs[1].begun => harness.jobs # <<>> /\ harness.jobs[1].begun
  BY <1>1, Asked
<1>3. job.kind \notin TurnKinds /\ job.kind \notin RestartKinds
  BY DEF TurnKinds, RestartKinds, RespawnKinds
<1> HIDE DEF job
<1>4. AwaitedBy(job, stage', restart')
  BY <1>3 DEF AwaitedBy, TurnKinds, RestartKinds
<1>5. JobsOK'
  BY <1>1, <1>2, <1>3, <1>4, JobAdded
<1> QED BY <1>2, <1>5

\* A continuity reset of a session asks for a stop.
LEMMA StepReset ==
  ASSUME RunnerInv, NEW s \in Sessions, Reset(s)
  PROVE  RunnerInv'
PROOF
<1>1. /\ harness' = RequestStop(harness, "reset", s)
      /\ UNCHANGED <<leaseVars, turnVars, active, recovery, awaited, restart, outcome, answer, reusable>>
  BY DEF Reset
<1>2. /\ harness' \in Harnesses(Turns, Sessions)
      /\ harness'.turn = harness.turn /\ harness'.state = harness.state
      /\ \A i \in 2..Len(harness'.jobs) : ~harness'.jobs[i].begun
      /\ harness'.jobs # <<>> /\ harness'.jobs[1].begun => harness.jobs # <<>> /\ harness.jobs[1].begun
      /\ JobsOK'
  BY <1>1, StopAsked DEF KeptFor, turnVars
<1>3. DrivenOK'
  BY <1>1, <1>2 DEF RunnerInv, DrivenOK, leaseVars, turnVars
<1> QED BY <1>1, <1>2, <1>3, SilentStep

\* The process exits, and the turn it served fails.
LEMMA StepProcessExits ==
  ASSUME RunnerInv, ProcessExits
  PROVE  RunnerInv'
PROOF
<1> DEFINE intended == harness.state = "stopped" \/ harness.stopping
<1>1. /\ harness' = Exited(harness)
      /\ IF intended THEN UNCHANGED turnVars ELSE Interrupt(harness.turn)
      /\ UNCHANGED <<leaseVars, active, recovery, awaited, restart, outcome, answer, reusable>>
  BY DEF ProcessExits
<1>2. harness \in Harnesses(Turns, Sessions) /\ DrivenOK /\ TurnTypeOK
  BY DEF RunnerInv, TurnTypeOK
<1>3. /\ harness' \in Harnesses(Turns, Sessions) /\ harness'.jobs = harness.jobs
      /\ IF intended THEN harness'.turn = harness.turn /\ harness'.state = harness.state
                     ELSE harness'.turn = None /\ harness'.state = "crashed"
  BY <1>1, <1>2, Turned
<1> HIDE DEF intended
<1>4. PICK u \in Turns \cup {None} : u = harness.turn
  BY <1>2, HarnessFields
<1>5. CASE ~intended /\ u # None /\ stage[u] = "driving"
  <2>1. u \in Turns /\ Throw(u, {"postProvider"}) /\ stage[u] \in Throwing /\ Live(u)
    BY <1>1, <1>4, <1>5 DEF Interrupt, Throwing, Live, LiveStages, Stages
  <2>2. /\ stage' \in [Turns -> Stages] /\ marks' \in [Turns -> SUBSET Marks]
        /\ resolved' \in [Turns -> Outcomes]
        /\ \A v \in Turns \ {u} : SameTurn(v)
        /\ Live(u)' /\ TurnOK(u)'
    BY <1>1, <2>1, Thrown DEF leaseVars
  <2>3. OwnTurn(u)
    BY <1>1, <2>2 DEF OwnTurn, RunnerInv, TurnTypeOK
  <2>4. DrivenOK'
    BY <1>3, <1>5 DEF DrivenOK
  <2>5. JobsOK' /\ \A i \in 2..Len(harness'.jobs) : ~harness'.jobs[i].begun
    BY <1>1, <1>3, <1>5, <2>1, <2>2, ChainStands
  <2> QED BY <1>3, <2>1, <2>2, <2>3, <2>4, <2>5, HarnessStep
<1>6. CASE ~(~intended /\ u # None /\ stage[u] = "driving")
  <2>1. UNCHANGED turnVars
    BY <1>1, <1>4, <1>6 DEF Interrupt
  <2>2. DrivenOK'
    BY <1>1, <1>2, <1>3, <2>1 DEF DrivenOK, leaseVars, turnVars
  <2>3. \A i \in 2..Len(harness'.jobs) : ~harness'.jobs[i].begun
    BY <1>2, <1>3 DEF TurnTypeOK
  <2>4. JobsOK'
    BY <1>1, <1>3, <2>1 DEF RunnerInv, JobsOK, turnVars
  <2> QED BY <1>1, <1>3, <2>1, <2>2, <2>3, <2>4, SilentStep
<1> QED BY <1>5, <1>6

\* An accepted cancel asks for the stop of its restart.
LEMMA StepRestart ==
  ASSUME RunnerInv, NEW t \in Turns, Restart(t)
  PROVE  RunnerInv'
PROOF
<1>1. UNCHANGED <<leaseVars, turnVars, active, recovery, awaited, outcome, answer, reusable>>
  BY DEF Restart
<1>2. PICK kind \in {"stop", "start"}, next \in {"stop", "starting"} :
         /\ kind = "stop" <=> next = "stop"
         /\ restart[t] \in {"cancel", "stopped"} /\ restart' = [restart EXCEPT ![t] = next]
         /\ harness' \in {Chain(harness, kind, t), RequestStop(harness, kind, t)}
  <2>1. CASE restart[t] = "cancel"
    BY <2>1 DEF Restart
  <2>2. CASE restart[t] = "stopped"
    BY <2>2 DEF Restart
  <2> QED BY <2>1, <2>2 DEF Restart
<1>3. TurnTypeOK /\ kind \in JobKinds /\ JobsOK /\ DrivenOK /\ t \in Turns \cup Sessions \cup {None}
  BY DEF RunnerInv, JobKinds, StopKinds
<1> DEFINE job == [kind |-> kind, by |-> t, begun |-> FALSE]
<1>4. /\ harness' \in Harnesses(Turns, Sessions) /\ harness'.turn = harness.turn /\ harness'.state = harness.state
      /\ harness'.jobs = Append(harness.jobs, job) /\ job \in Requests
      /\ \A i \in 2..Len(harness'.jobs) : ~harness'.jobs[i].begun
      /\ harness'.jobs # <<>> /\ harness'.jobs[1].begun => harness.jobs # <<>> /\ harness.jobs[1].begun
  BY <1>2, <1>3, Asked
<1>5. DrivenOK'
  BY <1>1, <1>3, <1>4 DEF DrivenOK, leaseVars, turnVars
<1>6. restart'[t] = next /\ \A v \in Turns \ {t} : restart'[v] = restart[v]
  BY <1>2, <1>3 DEF TurnTypeOK
<1>7. AwaitedBy(job, stage', restart')
  BY <1>2, <1>6 DEF AwaitedBy, TurnKinds, RespawnKinds, RestartKinds
<1>8. /\ job.kind \in TurnKinds => stage[job.by] \notin {"respawning", "reviving", "timingOut"}
      /\ job.kind \in RestartKinds => restart[job.by] \notin {"stop", "starting"}
  BY <1>2 DEF TurnKinds, RespawnKinds
<1>9. \A i \in 1..Len(harness.jobs) : KeptFor(harness.jobs[i])
  BY <1>1, <1>2, <1>3, <1>6 DEF KeptFor, JobsOK, JobsIn, AwaitedBy, RestartKinds, turnVars
<1> HIDE DEF job
<1>10. JobsOK'
  BY <1>3, <1>4, <1>7, <1>8, <1>9, JobAdded
<1>11. /\ Restarting(t) /\ next # "done" /\ recovery' = recovery
       /\ recovery' \in [Sessions -> Turns \cup {None}]
  BY <1>1, <1>2, <1>3 DEF Restarting, TurnTypeOK
<1> QED BY <1>1, <1>2, <1>4, <1>5, <1>10, <1>11, RestartStep

-----------------------------------------------------------------------------
(* Cancellation.                                                           *)

\* cancelTurnById: the outcome is told and the restart promised.
LEMMA StepCancel ==
  ASSUME RunnerInv, NEW t \in Turns, Cancel(t)
  PROVE  RunnerInv'
PROOF
<1> USE DEF RunnerInv, TurnTypeOK
<1>1. /\ active = t /\ "postProvider" \notin marks[t]
      /\ outcome' = [outcome EXCEPT ![t] = "cancelled"] /\ active' = None
      /\ marks' = [marks EXCEPT ![t] = marks[t] \cup {"cancelled", "cleanupPending"}]
      /\ recovery' = [recovery EXCEPT ![session[t]] = t]
      /\ restart' = [restart EXCEPT ![t] = "cancel"]
      /\ UNCHANGED <<leaseVars, stage, resolved, awaited, answer, reusable, harness>>
  BY DEF Cancel
<1>2. /\ TurnOK(t) /\ ActiveOK(t) /\ Live(t) /\ Live(t)' /\ stage[t] # "settling" /\ restart[t] = "none"
      /\ session[t] \in Sessions
  BY <1>1 DEF TurnOK, ActiveOK, Live, LiveStages
<1>3. TurnTypeOK'
  <2>1. marks[t] \cup {"cancelled", "cleanupPending"} \in SUBSET Marks
    BY DEF Marks
  <2> QED BY <1>1, <1>2, <2>1 DEF Outcomes, leaseVars
<1>4. HoldOK'
  BY <1>1 DEF HoldOK, Live, leaseVars
<1>5. /\ outcome'[t] = "cancelled" /\ restart'[t] = "cancel" /\ recovery'[session[t]] = t
      /\ marks'[t] = marks[t] \cup {"cancelled", "cleanupPending"}
      /\ stage' = stage /\ session' = session /\ answer' = answer /\ resolved' = resolved /\ awaited' = awaited
  BY <1>1, <1>2 DEF leaseVars
<1>6. TurnOK(t)'
  <2>1. ActiveOK(t)'
    BY <1>1, <1>2, <1>5, TurnAssumption DEF ActiveOK, Live, LiveStages
  <2>2. MarksOK(t)'
    BY <1>5 DEF MarksOK
  <2>3. AnswerOK(t)'
    <3>1. AnswerOK(t) /\ stage[t] \notin {"settling", "settled"}
      BY <1>2 DEF TurnOK, Live, LiveStages
    <3> QED BY <1>1, <1>5, <3>1 DEF AnswerOK, Ended
  <2>4. RestartOK(t)'
    BY <1>2, <1>5 DEF RestartOK, Restarting
  <2> QED BY <2>1, <2>2, <2>3, <2>4 DEF TurnOK
<1>7. ASSUME NEW u \in Turns \ {t} PROVE TurnOK(u)'
  <2>1. ~Live(u)
    BY <1>2 DEF HoldOK
  <2>2. SameTurn(u) /\ TurnOK(u) /\ active' # u
    BY <1>1, TurnAssumption DEF SameTurn, leaseVars
  <2>3. ActiveOK(u)'
    BY <2>2 DEF SameTurn, TurnOK, ActiveOK, Live
  <2>4. MarksOK(u)' /\ AnswerOK(u)'
    BY <2>2 DEF SameTurn, TurnOK, MarksOK, AnswerOK
  <2>5. stage[u] \notin Outbound \cup {"recovering", "settling"}
    BY <2>1 DEF Live, LiveStages, Stages, Outbound
  <2>6. \A s \in Sessions : recovery'[s] \in {recovery[s], t}
    BY <1>1
  <2>7. ~Live(u)' /\ (Restarting(u)' <=> Restarting(u)) /\ restart'[u] = restart[u] /\ stage'[u] = stage[u]
    BY <2>1, <2>2 DEF SameTurn, Live, Restarting
  <2>8. RestartOK(u)'
    BY <2>1, <2>2, <2>5, <2>6, <2>7 DEF TurnOK, RestartOK
  <2> QED BY <2>3, <2>4, <2>8 DEF TurnOK
<1>8. DrivenOK'
  BY <1>1 DEF DrivenOK, leaseVars
<1>9. JobsOK'
  <2>1. \A i \in 1..Len(harness.jobs) : KeptFor(harness.jobs[i])
    BY <1>1, <1>2 DEF KeptFor, JobsOK, JobsIn, AwaitedBy, RestartKinds
  <2> QED BY <1>1, <2>1, ChainKept
<1> QED BY <1>3, <1>4, <1>6, <1>7, <1>8, <1>9

-----------------------------------------------------------------------------
(* The lease.                                                              *)

\* A turn is reserved with the lease.
LEMMA StepReserve ==
  ASSUME RunnerInv, NEW t \in Turns, NEW s \in Sessions, Reserve(t, s)
  PROVE  RunnerInv'
PROOF
<1> USE DEF RunnerInv, TurnTypeOK
<1>1. active = None /\ \A u \in Turns : ~Live(u)
  BY TurnAssumption DEF Reserve, HoldOK
<1>2. /\ stage[t] = "new" /\ session' = [session EXCEPT ![t] = s]
      /\ lease' = t /\ active' = t /\ stage' = [stage EXCEPT ![t] = "reserved"]
      /\ UNCHANGED <<lane, gone, marks, resolved, recovery, awaited, restart, outcome, answer, reusable, harness>>
  BY <1>1 DEF Reserve
<1>3. TurnTypeOK' /\ stage'[t] = "reserved" /\ session'[t] = s
  BY <1>2 DEF Stages
<1>4. \A u \in Turns \ {t} : SameTurn(u)
  BY <1>2 DEF SameTurn
<1>5. HoldOK'
  BY <1>1, <1>2, <1>4 DEF HoldOK, Live, SameTurn
<1>6. TurnOK(t)
  OBVIOUS
<1>7. Live(t)'
  BY <1>3 DEF Live, LiveStages, Stages
<1>8. ActiveOK(t)'
  BY <1>2, <1>3, <1>6, <1>7 DEF TurnOK, ActiveOK
<1>9. MarksOK(t)' /\ AnswerOK(t)'
  BY <1>2, <1>3, <1>6 DEF TurnOK, ActiveOK, MarksOK, AnswerOK, Ended
<1>10. RestartOK(t)'
  BY <1>2, <1>3, <1>6 DEF TurnOK, ActiveOK, RestartOK, Restarting, Outbound
<1>11. ASSUME NEW u \in Turns \ {t} PROVE TurnOK(u)'
  <2>1. TurnOK(u) /\ SameTurn(u) /\ active' # u
    BY <1>2, <1>4
  <2>2. \A r \in Sessions : recovery'[r] = recovery[r]
    BY <1>2
  <2> QED BY <2>1, <2>2, OtherTurn
<1>12. DrivenOK'
  <2>1. harness.turn = None
    BY <1>1, HarnessFields DEF DrivenOK, Live, LiveStages, Stages
  <2> QED BY <1>2, <2>1 DEF DrivenOK
<1>13. JobsOK'
  <2>1. \A i \in 1..Len(harness.jobs) : KeptFor(harness.jobs[i])
    BY <1>2 DEF KeptFor, JobsOK, JobsIn, AwaitedBy, TurnKinds, RespawnKinds
  <2> QED BY <1>2, <2>1, ChainKept
<1> QED BY <1>3, <1>5, <1>8, <1>9, <1>10, <1>11, <1>12, <1>13 DEF TurnOK

\* The lease goes back from a harness without a turn, or to a teardown.
LEMMA HarnessBack ==
  ASSUME RunnerInv, NEW fit, GiveLeaseBack(fit) \/ TearDown, UNCHANGED <<session, restart>>,
         harness.turn = None \/ TearDown,
         \A v \in Turns : stage'[v] = stage[v] \/ stage[v] \in {"reserved", "settling"}
  PROVE  /\ harness' \in Harnesses(Turns, Sessions) /\ gone' \in BOOLEAN
         /\ \A i \in 2..Len(harness'.jobs) : ~harness'.jobs[i].begun
         /\ JobsOK' /\ DrivenOK'
PROOF
<1>1. TurnTypeOK /\ JobsOK /\ DrivenOK /\ harness \in Harnesses(Turns, Sessions) /\ harness.jobs \in Seq(Requests)
  BY HarnessFields DEF RunnerInv, TurnTypeOK
<1>2. \A i \in 1..Len(harness.jobs) : KeptFor(harness.jobs[i])
  BY <1>1 DEF KeptFor, JobsOK, JobsIn, AwaitedBy, TurnKinds, RespawnKinds
<1>3. CASE TearDown
  <2>1. gone' = TRUE /\ harness' = RequestStop(harness, "teardown", None)
    BY <1>3 DEF TearDown
  <2>2. /\ harness' \in Harnesses(Turns, Sessions)
        /\ harness'.turn = harness.turn /\ harness'.state = harness.state
        /\ \A i \in 2..Len(harness'.jobs) : ~harness'.jobs[i].begun
        /\ harness'.jobs # <<>> /\ harness'.jobs[1].begun => harness.jobs # <<>> /\ harness.jobs[1].begun
        /\ JobsOK'
    BY <1>2, <2>1, StopAsked
  <2>3. harness.turn # None => stage'[harness.turn] \in {"driving", "timingOut"}
    BY <1>1, HarnessFields DEF DrivenOK
  <2> QED BY <1>1, <2>1, <2>2, <2>3 DEF DrivenOK
<1>4. CASE ~TearDown
  <2>1. harness' = harness /\ gone' = gone /\ harness.turn = None
    BY <1>4 DEF GiveLeaseBack
  <2>2. JobsOK'
    BY <1>1, <1>2, <2>1, JobsKept DEF JobsOK
  <2> QED BY <1>1, <2>1, <2>2 DEF DrivenOK, TurnTypeOK
<1> QED BY <1>3, <1>4

\* A turn that gives its lease back is not at the provider.
LEMMA NotDriven ==
  ASSUME RunnerInv, NEW t \in Turns, stage[t] \in {"reserved", "settling"}
  PROVE  harness.turn = None
PROOF
<1>1. harness.turn \in Turns \cup {None} /\ DrivenOK /\ HoldOK
  BY HarnessFields DEF RunnerInv, TurnTypeOK
<1>2. Live(t)
  BY DEF Live, LiveStages, Stages
<1>3. ASSUME NEW u \in Turns, stage[u] \in {"driving", "timingOut"} PROVE FALSE
  <2>1. Live(u)
    BY <1>3 DEF Live, LiveStages, Stages
  <2> QED BY <1>1, <1>2, <1>3, <2>1 DEF HoldOK
<1> QED BY <1>1, <1>3 DEF DrivenOK

\* releaseTurn: a reserved turn gives the lease back.
LEMMA StepRelease ==
  ASSUME RunnerInv, NEW t \in Turns, Release(t)
  PROVE  RunnerInv'
PROOF
<1>1. /\ stage[t] = "reserved" /\ lane # "scoped" /\ stage' = [stage EXCEPT ![t] = "released"]
      /\ active' = IF active # None /\ session[active] = session[t] THEN None ELSE active
      /\ GiveLeaseBack(reusable) /\ lease' = None /\ UNCHANGED <<lane, session>>
      /\ UNCHANGED <<marks, resolved, recovery, awaited, restart, outcome, answer, reusable>>
  BY DEF Release, GiveLeaseBack
<1>2. TurnTypeOK /\ HoldOK /\ TurnOK(t) /\ Live(t) /\ active \in Turns \cup {None}
  BY <1>1 DEF RunnerInv, TurnTypeOK, Live, LiveStages, Stages
<1>3. lease = t /\ \A u \in Turns : Live(u) => u = t
  BY <1>1, <1>2 DEF HoldOK
<1>4. active \in {t, None} /\ active' = None
  BY <1>1, <1>2, <1>3, TurnAssumption DEF HoldOK
<1>5. harness.turn = None
  BY <1>1, NotDriven
<1>6. /\ harness' \in Harnesses(Turns, Sessions) /\ gone' \in BOOLEAN
      /\ \A i \in 2..Len(harness'.jobs) : ~harness'.jobs[i].begun
      /\ JobsOK' /\ DrivenOK'
  <2>1. \A v \in Turns : stage'[v] = stage[v] \/ stage[v] \in {"reserved", "settling"}
    BY <1>1, <1>2 DEF TurnTypeOK
  <2> QED BY <1>1, <1>5, <2>1, HarnessBack
<1>7. TurnTypeOK' /\ stage'[t] = "released" /\ \A u \in Turns \ {t} : SameTurn(u)
  BY <1>1, <1>2, <1>4, <1>6 DEF TurnTypeOK, Stages, SameTurn
<1>8. \A u \in Turns : ~Live(u)'
  BY <1>3, <1>7 DEF Live, LiveStages, SameTurn
<1>9. HoldOK'
  BY <1>4, <1>8 DEF HoldOK
<1>10. TurnOK(t)'
  <2>1. ActiveOK(t)'
    BY <1>1, <1>2, <1>4, <1>7, TurnAssumption DEF TurnOK, ActiveOK
  <2>2. MarksOK(t)' /\ AnswerOK(t)'
    BY <1>1, <1>2, <1>7 DEF TurnOK, MarksOK, AnswerOK, Ended
  <2>3. RestartOK(t)'
    BY <1>1, <1>2, <1>7, <1>8 DEF TurnOK, RestartOK, Restarting, Outbound
  <2> QED BY <2>1, <2>2, <2>3 DEF TurnOK
<1>11. \A u \in Turns : TurnOK(u)'
  BY <1>1, <1>4, <1>7, <1>10, OtherTurns
<1> QED BY <1>6, <1>7, <1>9, <1>11 DEF RunnerInv

\* The settlement returns the lease and lets the turn go.
LEMMA StepSettle ==
  ASSUME RunnerInv, NEW t \in Turns, Settle(t)
  PROVE  RunnerInv'
PROOF
<1> DEFINE end == IF awaited[t] = None THEN "done" ELSE restart[awaited[t]]
           fit == reusable /\ end = "done"
<1>1. /\ stage[t] = "settling" /\ end \in {"done", "failed"}
      /\ reusable' = fit /\ stage' = [stage EXCEPT ![t] = "settled"]
      /\ \/ lane = "scoped" /\ UNCHANGED <<leaseVars, harness>>
         \/ lane # "scoped" /\ GiveLeaseBack(fit)
      /\ UNCHANGED <<marks, resolved, active, recovery, awaited, restart, outcome, answer>>
  BY DEF Settle
<1>2. TurnTypeOK /\ HoldOK /\ TurnOK(t) /\ Live(t) /\ active \in Turns \cup {None}
  BY <1>1 DEF RunnerInv, TurnTypeOK, Live, LiveStages, Stages
<1>3. /\ lane # "scoped" => lease = t
      /\ \A u \in Turns : Live(u) => u = t
  BY <1>2 DEF HoldOK
<1>4. active # t
  BY <1>1, <1>2 DEF TurnOK, ActiveOK
<1>5. harness.turn = None
  BY <1>1, NotDriven
\* The restart it waited for was its own, if it had one.
<1>6. ~Restarting(t)
  BY <1>1, <1>2, TurnAssumption DEF TurnOK, RestartOK, Restarting
<1> HIDE DEF end, fit
<1>7. \A v \in Turns : stage'[v] = stage[v] \/ stage[v] \in {"reserved", "settling"}
  BY <1>1, <1>2 DEF TurnTypeOK
<1>8. /\ harness' \in Harnesses(Turns, Sessions) /\ gone' \in BOOLEAN
      /\ \A i \in 2..Len(harness'.jobs) : ~harness'.jobs[i].begun
      /\ JobsOK' /\ DrivenOK'
  <2>1. CASE lane = "scoped"
    <3>1. UNCHANGED <<leaseVars, harness>>
      BY <1>1, <2>1
    <3>2. \A i \in 1..Len(harness.jobs) : KeptFor(harness.jobs[i])
      BY <1>1, <1>7 DEF RunnerInv, KeptFor, JobsOK, JobsIn, AwaitedBy, TurnKinds, RespawnKinds
    <3>3. JobsOK'
      BY <3>1, <3>2, ChainKept DEF RunnerInv
    <3> QED BY <1>2, <1>5, <3>1, <3>3 DEF RunnerInv, TurnTypeOK, DrivenOK, leaseVars
  <2>2. CASE lane # "scoped"
    <3>1. GiveLeaseBack(fit) /\ UNCHANGED <<session, restart>>
      BY <1>1, <2>2 DEF GiveLeaseBack
    <3> QED BY <1>5, <1>7, <3>1, HarnessBack
  <2> QED BY <2>1, <2>2
<1>9. lane' = lane /\ session' = session /\ lease' \in {lease, None}
      /\ (lane = "scoped" => lease' = lease /\ gone' = gone) /\ (lane # "scoped" => lease' = None)
  BY <1>1 DEF GiveLeaseBack, leaseVars
<1>10. reusable' \in BOOLEAN
  BY <1>1, <1>2 DEF fit, TurnTypeOK
<1>11. TurnTypeOK' /\ stage'[t] = "settled" /\ \A u \in Turns \ {t} : SameTurn(u)
  BY <1>1, <1>2, <1>8, <1>9, <1>10 DEF TurnTypeOK, Stages, SameTurn
<1>12. \A u \in Turns : ~Live(u)'
  BY <1>3, <1>11 DEF Live, LiveStages, SameTurn
<1>13. HoldOK'
  <2>1. active # None => lease = active /\ Live(active)
    BY <1>2 DEF RunnerInv, HoldOK, TurnOK, ActiveOK
  <2>2. active = None
    BY <1>2, <1>3, <1>4, <2>1
  <2> QED BY <1>1, <1>12, <2>2 DEF HoldOK
<1>14. TurnOK(t)'
  <2>1. ActiveOK(t)'
    BY <1>1, <1>2, <1>4, <1>9, <1>11 DEF TurnOK, ActiveOK
  <2>2. MarksOK(t)' /\ AnswerOK(t)'
    BY <1>1, <1>2, <1>11 DEF TurnOK, MarksOK, AnswerOK, Ended
  <2>3. RestartOK(t)'
    BY <1>1, <1>2, <1>6, <1>11 DEF TurnOK, RestartOK, Restarting, Outbound
  <2> QED BY <2>1, <2>2, <2>3 DEF TurnOK
<1>15. \A u \in Turns : TurnOK(u)'
  BY <1>1, <1>11, <1>14, OtherTurns
<1> QED BY <1>8, <1>11, <1>13, <1>15 DEF RunnerInv

\* The lease of a workflow step goes back, or an idle worker is evicted.
LEMMA StepTornDown ==
  ASSUME RunnerInv, NEW t \in Turns, StepReturns(t)
  PROVE  RunnerInv'
PROOF
<1>1. /\ lane = "scoped" /\ lease = t /\ outcome[t] # "none" /\ TearDown
      /\ lease' = None /\ UNCHANGED <<lane, session>>
      /\ UNCHANGED <<turnVars, active, recovery, awaited, restart, outcome, answer, reusable>>
  BY DEF StepReturns, GiveLeaseBack
<1>2. TurnTypeOK /\ HoldOK /\ TurnOK(t)
  BY DEF RunnerInv
<1>3. active = None /\ gone' = TRUE
  BY <1>1, <1>2 DEF HoldOK, TurnOK, ActiveOK, TearDown
<1>4. /\ harness' \in Harnesses(Turns, Sessions)
      /\ \A i \in 2..Len(harness'.jobs) : ~harness'.jobs[i].begun
      /\ JobsOK' /\ DrivenOK'
  BY <1>1, HarnessBack DEF turnVars
<1>5. TurnTypeOK'
  BY <1>1, <1>2, <1>3, <1>4 DEF TurnTypeOK, turnVars
<1>6. HoldOK'
  BY <1>1, <1>2, <1>3 DEF HoldOK, Live, turnVars
<1>7. \A u \in Turns : SameTurn(u)
  BY <1>1 DEF SameTurn, turnVars
<1>8. \A u \in Turns : TurnOK(u)'
  BY <1>1, <1>2, <1>7, OtherTurn DEF RunnerInv
<1> QED BY <1>4, <1>5, <1>6, <1>8 DEF RunnerInv

\* An idle cached worker is torn down.
LEMMA StepEvict ==
  ASSUME RunnerInv, Evict
  PROVE  RunnerInv'
PROOF
<1>1. /\ lane = "cached" /\ lease = None /\ TearDown
      /\ UNCHANGED <<lane, lease, session, turnVars, active, recovery, awaited, restart, outcome,
                     answer, reusable>>
  BY DEF Evict
<1>2. TurnTypeOK /\ HoldOK
  BY DEF RunnerInv
<1>3. gone' = TRUE
  BY <1>1 DEF TearDown
<1>4. /\ harness' \in Harnesses(Turns, Sessions)
      /\ \A i \in 2..Len(harness'.jobs) : ~harness'.jobs[i].begun
      /\ JobsOK' /\ DrivenOK'
  BY <1>1, HarnessBack DEF turnVars
<1>5. TurnTypeOK'
  BY <1>1, <1>2, <1>3, <1>4 DEF TurnTypeOK, turnVars
<1>6. HoldOK'
  BY <1>1, <1>2, <1>3 DEF HoldOK, Live, turnVars
<1>7. \A u \in Turns : SameTurn(u)
  BY <1>1 DEF SameTurn, turnVars
<1>8. \A u \in Turns : TurnOK(u)'
  BY <1>1, <1>2, <1>7, OtherTurn DEF RunnerInv
<1> QED BY <1>4, <1>5, <1>6, <1>8 DEF RunnerInv

-----------------------------------------------------------------------------
(* The invariant holds of every runner.                                    *)

\* The invariant holds at the start.
LEMMA RunnerStarts ==
  ASSUME RunnerInit
  PROVE  RunnerInv
PROOF
<1> USE TurnAssumption DEF RunnerInit
<1>1. /\ harness \in Harnesses(Turns, Sessions) /\ harness.jobs = <<>> /\ harness.turn = None
  BY DEF StartedHarness, Harnesses
<1>7. 2..Len(harness.jobs) = {}
  BY <1>1
<1>2. TurnTypeOK
  BY <1>1, <1>7 DEF TurnTypeOK, Stages, Outcomes, Messages, Marks
<1>3. \A t \in Turns : ~Live(t)
  BY DEF Live, LiveStages
<1>4. HoldOK
  BY <1>3 DEF HoldOK
<1>5. \A t \in Turns : TurnOK(t)
  BY <1>3 DEF TurnOK, ActiveOK, MarksOK, AnswerOK, RestartOK, Restarting, Ended, Outbound
<1>6. DrivenOK /\ JobsOK
  BY <1>1 DEF DrivenOK, JobsOK, JobsIn
<1> QED BY <1>2, <1>4, <1>5, <1>6 DEF RunnerInv

\* Every step of a turn keeps it.
LEMMA TurnSteps ==
  ASSUME RunnerInv, NEW t \in Turns, TurnStep(t)
  PROVE  RunnerInv'
PROOF
<1>1. CASE Execute(t) \/ Release(t) \/ Prepare(t) \/ Blocked(t) \/ PrepareFails(t) \/ Recovered(t)
  BY <1>1, StepExecute, StepRelease, StepPrepare, StepBlocked, StepFails, StepRecovered
<1>2. CASE Accounted(t) \/ AccountingFails(t) \/ \E retries \in BOOLEAN : Enter(t, retries)
  BY <1>2, StepAccounted, StepFails, StepEnter
<1>3. CASE ProviderAnswers(t) \/ HarnessTimeout(t) \/ Tracked(t)
  BY <1>3, StepProviderAnswers, StepHarnessTimeout, StepTracked
<1>4. CASE \/ \E a \in Answers : Answer(t, a[1], a[2])
           \/ \E m \in Messages \ {"answer"} : AnswerFails(t, m)
  BY <1>4, StepAnswer, StepAnswerFails
<1>5. CASE (\E m \in {"note", "none"} : Noted(t, m)) \/ Close(t) \/ Settle(t)
  BY <1>5, StepNoted, StepClose, StepSettle
<1> QED BY <1>1, <1>2, <1>3, <1>4, <1>5 DEF TurnStep

\* Every step keeps it.
LEMMA RunnerSteps ==
  ASSUME RunnerInv, [RunnerNext]_runVars
  PROVE  RunnerInv'
PROOF
<1>1. ASSUME NEW t \in Turns, NEW s \in Sessions, Reserve(t, s) PROVE RunnerInv'
  BY <1>1, StepReserve
<1>2. ASSUME NEW t \in Turns, TurnStep(t) PROVE RunnerInv'
  BY <1>2, TurnSteps
<1>3. ASSUME NEW t \in Turns, StepReturns(t) \/ Cancel(t) \/ Restart(t) PROVE RunnerInv'
  BY <1>3, StepTornDown, StepCancel, StepRestart
<1>4. ASSUME NEW s \in Sessions, Reset(s) PROVE RunnerInv'
  BY <1>4, StepReset
<1>5. CASE JobStep
  BY <1>5, StepHalt, StepStopDone, StepStartBegins, StepRespawnDone, StepRevive, StepStartDone
     DEF JobStep
<1>6. CASE ProcessExits \/ Evict
  BY <1>6, StepProcessExits, StepEvict
<1>7. CASE UNCHANGED runVars
  BY <1>7 DEF runVars, leaseVars, turnVars, RunnerInv, TurnTypeOK, HoldOK, TurnOK, ActiveOK, MarksOK,
              AnswerOK, RestartOK, Restarting, Live, DrivenOK, JobsOK, JobsIn, AwaitedBy
<1> QED BY <1>1, <1>2, <1>3, <1>4, <1>5, <1>6, <1>7 DEF RunnerNext

\* At every moment of every runner the inductive invariant holds: one turn is
\* under way, its marks, answer and outcome agree, and whoever asked the harness
\* for an operation still waits for it.
THEOREM RunnerInvHolds == RunnerSpec => []RunnerInv
PROOF
<1>1. RunnerInit => RunnerInv
  BY RunnerStarts
<1>2. RunnerInv /\ [RunnerNext]_runVars => RunnerInv'
  BY RunnerSteps
<1> QED BY <1>1, <1>2, PTL DEF RunnerSpec

(* The lease outlives whatever still uses the worker: the active turn and  *)
(* the turn at the provider hold it, no reservation meets an active turn,  *)
(* and the restart after a cancel ends under it.                           *)
THEOREM LeaseIsKept == RunnerSpec => []LeaseKept
PROOF
<1>1. RunnerInv => LeaseKept
  <2> SUFFICES ASSUME RunnerInv PROVE LeaseKept
    OBVIOUS
  <2>1. TurnTypeOK /\ HoldOK /\ DrivenOK /\ \A t \in Turns : TurnOK(t)
    BY DEF RunnerInv
  <2>2. OneTurnPerWorker
    BY <2>1 DEF OneTurnPerWorker, HoldOK, DrivenOK, TurnOK, ActiveOK
  <2>3. ASSUME NEW t \in Turns, lane # "scoped", Restarting(t), stage[t] # "released"
        PROVE  lease = t
    <3>1. Live(t)
      BY <2>1, <2>3 DEF TurnOK, RestartOK
    <3> QED BY <2>1, <2>3, <3>1 DEF HoldOK
  <2> QED BY <2>1, <2>2, <2>3 DEF LeaseKept, RecoveryUnderLease
<1> QED BY <1>1, RunnerInvHolds, PTL

(* The answer of a turn is in the transcript exactly when its waiters were *)
(* told that it completed; only a turn told failed may have left one too.  *)
THEOREM TranscriptAgrees == RunnerSpec => []OutcomeMatchesTranscript
PROOF
<1>1. RunnerInv => OutcomeMatchesTranscript
  <2> SUFFICES ASSUME RunnerInv, NEW t \in Turns, outcome[t] # "none"
               PROVE  /\ outcome[t] = "completed" <=> answer[t] = "answer"
                      /\ answer[t] = "untouched" => outcome[t] = "failed"
    BY DEF OutcomeMatchesTranscript
  <2>1. MarksOK(t) /\ AnswerOK(t)
    BY DEF RunnerInv, TurnOK
  <2> QED BY <2>1 DEF MarksOK, AnswerOK, Ended
<1> QED BY <1>1, RunnerInvHolds, PTL

-----------------------------------------------------------------------------
(* What a step may never do.                                               *)

\* Only an accepted cancel and the finally block tell an outcome.
LEMMA WhoTells ==
  ASSUME [RunnerNext]_runVars
  PROVE  UNCHANGED outcome \/ \E t \in Turns : Cancel(t) \/ Close(t)
PROOF
<1>1. ASSUME NEW t \in Turns, TurnStep(t) PROVE UNCHANGED outcome \/ Close(t)
  BY <1>1 DEF TurnStep, Execute, Release, Prepare, Blocked, PrepareFails, Recovered, Accounted,
              AccountingFails, Enter, ProviderAnswers, HarnessTimeout, Tracked, Answer, AnswerFails,
              Noted, Settle
<1>2. CASE JobStep
  BY <1>2 DEF JobStep, Halt, StopDone, StartBegins, RespawnDone, Revive, StartDone
<1>3. ASSUME NEW t \in Turns, (\E s \in Sessions : Reserve(t, s)) \/ StepReturns(t) \/ Restart(t)
      PROVE  UNCHANGED outcome
  BY <1>3 DEF Reserve, StepReturns, Restart
<1>4. CASE (\E s \in Sessions : Reset(s)) \/ ProcessExits \/ Evict \/ UNCHANGED runVars
  BY <1>4 DEF Reset, ProcessExits, Evict, runVars
<1> QED BY <1>1, <1>2, <1>3, <1>4 DEF RunnerNext

\* An outcome that was told stays as it was told.
LEMMA OutcomeStands ==
  ASSUME RunnerInv, [RunnerNext]_runVars, NEW t \in Turns, outcome[t] # "none"
  PROVE  outcome'[t] = outcome[t]
PROOF
<1>1. outcome \in [Turns -> Outcomes] /\ TurnOK(t)
  BY DEF RunnerInv, TurnTypeOK
<1>2. ASSUME NEW u \in Turns, Cancel(u) PROVE outcome'[t] = outcome[t]
  BY <1>1, <1>2 DEF Cancel, TurnOK, ActiveOK
<1>3. ASSUME NEW u \in Turns, Close(u) PROVE outcome'[t] = outcome[t]
  BY <1>1, <1>3 DEF Close, TurnOK, MarksOK
<1> QED BY <1>2, <1>3, WhoTells

\* No operation but Driven gives the harness a turn.
LEMMA ChainTurn ==
  ASSUME NEW g \in Harnesses(Turns, Sessions), NEW kind, NEW by
  PROVE  Chain(g, kind, by).turn = g.turn /\ RequestStop(g, kind, by).turn = g.turn
PROOF
  BY DEF Harnesses, Chain, RequestStop

\* Nor does an operation of its own.
LEMMA JobTurn ==
  ASSUME NEW g \in Harnesses(Turns, Sessions)
  PROVE  /\ Done(g).turn = g.turn /\ Up(g).turn = g.turn /\ NotUp(g).turn = g.turn
         /\ Halted(g).turn = None /\ [Begun(g) EXCEPT !.stopping = FALSE].turn = g.turn
PROOF
  BY DEF Harnesses, Done, Up, NotUp, Halted, Begun

EnteredBy(t) == \E retries \in BOOLEAN : Enter(t, retries)
\* Only a turn that enters the harness becomes the one the harness drives.
LEMMA WhoDrives ==
  ASSUME RunnerInv, [RunnerNext]_runVars
  PROVE  harness'.turn \in {harness.turn, None} \/ \E t \in Turns : EnteredBy(t)
PROOF
<1> DEFINE Kept == harness'.turn \in {harness.turn, None}
<1>1. harness \in Harnesses(Turns, Sessions) /\ TurnTypeOK
  BY DEF RunnerInv, TurnTypeOK
<1>2. ASSUME NEW kinds, NEW begun, AtJob(harness, kinds, begun)
      PROVE  harness.jobs # <<>>
  BY <1>2 DEF AtJob
<1>3. ASSUME TearDown PROVE Kept
  BY <1>1, <1>3, ChainTurn DEF TearDown
<1>4. ASSUME NEW t \in Turns, Accounted(t) \/ HarnessTimeout(t) \/ Restart(t) PROVE Kept
  <2>1. PICK kind : harness' \in {harness, Chain(harness, kind, t), RequestStop(harness, kind, t)}
    BY <1>4 DEF Accounted, HarnessTimeout, Restart
  <2> QED BY <1>1, <2>1, ChainTurn
<1>5. ASSUME NEW t \in Turns, ProviderAnswers(t) PROVE Kept
  BY <1>1, <1>5, Turned DEF ProviderAnswers
<1>6. ASSUME NEW t \in Turns, TurnStep(t) PROVE Kept \/ EnteredBy(t)
  <2>1. CASE Execute(t) \/ Prepare(t) \/ Blocked(t) \/ PrepareFails(t) \/ Recovered(t) \/ AccountingFails(t)
             \/ Tracked(t) \/ (\E a \in Answers : Answer(t, a[1], a[2]))
             \/ (\E m \in Messages : AnswerFails(t, m))
             \/ (\E m \in {"note", "none"} : Noted(t, m)) \/ Close(t)
    BY <2>1 DEF Execute, Prepare, Blocked, PrepareFails, Recovered, AccountingFails, Tracked, Answer,
                AnswerFails, Noted, Close
  <2>2. CASE Release(t) \/ Settle(t)
    <3>1. UNCHANGED harness \/ TearDown
      BY <2>2 DEF Release, Settle, GiveLeaseBack
    <3> QED BY <1>3, <3>1
  <2> QED BY <1>4, <1>5, <1>6, <2>1, <2>2 DEF TurnStep, EnteredBy
<1>7. CASE JobStep
  <2>1. harness.jobs # <<>>
    BY <1>2, <1>7 DEF JobStep, Halt, StopDone, StartBegins, RespawnDone, Revive, StartDone
  <2>2. CASE Halt \/ StartBegins \/ \E ok \in BOOLEAN : RespawnDone(ok) \/ Revive(ok) \/ StartDone(ok)
    <3>1. harness' \in {Done(harness), Halted(harness), Up(harness), NotUp(harness),
                        [Begun(harness) EXCEPT !.stopping = FALSE]}
      BY <2>2 DEF Halt, StartBegins, RespawnDone, Revive, StartDone
    <3> QED BY <1>1, <3>1, JobTurn
  <2>3. CASE StopDone
    <3> DEFINE d == Down(harness)
    <3>1. d \in Harnesses(Turns, Sessions) /\ d.turn = harness.turn
      BY <1>1, <2>1, Ended1
    <3>2. harness' \in {RequestStop(d, "dispose", None), [d EXCEPT !.bound = None], d}
      BY <2>3 DEF StopDone
    <3> HIDE DEF d
    <3>3. RequestStop(d, "dispose", None).turn = d.turn
      BY <3>1, ChainTurn
    <3>4. [d EXCEPT !.bound = None].turn = d.turn
      BY <3>1 DEF Harnesses
    <3> QED BY <3>1, <3>2, <3>3, <3>4
  <2> QED BY <1>7, <2>2, <2>3 DEF JobStep
<1>8. ASSUME NEW s \in Sessions, Reset(s) PROVE Kept
  BY <1>1, <1>8, ChainTurn DEF Reset
<1>9. CASE ProcessExits
  BY <1>1, <1>9, Turned DEF ProcessExits
<1>10. ASSUME NEW t \in Turns, (\E s \in Sessions : Reserve(t, s)) \/ Cancel(t) PROVE Kept
  BY <1>10 DEF Reserve, Cancel
<1>11. ASSUME NEW t \in Turns, StepReturns(t) PROVE Kept
  BY <1>3, <1>11 DEF StepReturns, GiveLeaseBack
<1>12. CASE Evict
  BY <1>3, <1>12 DEF Evict
<1>13. CASE UNCHANGED runVars
  BY <1>13 DEF runVars
<1> QED BY <1>4, <1>6, <1>7, <1>8, <1>9, <1>10, <1>11, <1>12, <1>13 DEF RunnerNext

\* A turn enters the harness only when its session awaits no recovery.
LEMMA DrivesRecovered ==
  ASSUME RunnerInv, [RunnerNext]_runVars, NEW t \in Turns,
         harness'.turn = t, harness.turn # t, "cancelled" \notin marks[t]
  PROVE  recovery[session[t]] = None
PROOF
<1>1. PICK u \in Turns : EnteredBy(u)
  BY WhoDrives, TurnAssumption
<1>2. PICK retries \in BOOLEAN : Enter(u, retries)
  BY <1>1 DEF EnteredBy
<1>3. stage[u] \in {"entering", "ready"} /\ harness \in Harnesses(Turns, Sessions) /\ session[u] \in Sessions
  BY <1>2 DEF Enter, RunnerInv, TurnTypeOK, TurnOK, ActiveOK
<1>4. u = t
  <2>1. \/ harness' = Chain(harness, "revive", u)
        \/ harness' = Driven(harness, u, session[u])
        \/ harness' \in {harness, [harness EXCEPT !.bound = session[u]]}
    BY <1>2 DEF Enter
  <2>2. Chain(harness, "revive", u).turn = harness.turn
    BY <1>3, ChainTurn
  <2>3. Driven(harness, u, session[u]).turn = u
    BY <1>3, DrivenFields
  <2>4. [harness EXCEPT !.bound = session[u]].turn = harness.turn
    BY <1>3 DEF Harnesses
  <2> QED BY <2>1, <2>2, <2>3, <2>4
<1> QED BY <1>3, <1>4 DEF RunnerInv, TurnOK, RestartOK, Outbound

(* A cancel has the last word: the outcome it told is not replaced, and no *)
(* later turn of its session reaches the provider before the restart it    *)
(* asked for has succeeded.                                                *)
THEOREM CancelHasTheLastWord == RunnerSpec => CancelStands
PROOF
<1>1. RunnerInv /\ [RunnerNext]_runVars
        => [\A t \in Turns : outcome[t] # "none" => outcome'[t] = outcome[t]]_runVars
  BY OutcomeStands
<1>2. RunnerInv /\ [RunnerNext]_runVars
        => [\A t \in Turns :
              harness'.turn = t /\ harness.turn # t /\ "cancelled" \notin marks[t]
                => recovery[session[t]] = None]_runVars
  BY DrivesRecovered
<1>3. RunnerSpec => OutcomeIsFinal
  BY <1>1, RunnerInvHolds, PTL DEF RunnerSpec, OutcomeIsFinal
<1>4. RunnerSpec => RecoveryBeforeNextTurn
  BY <1>2, RunnerInvHolds, PTL DEF RunnerSpec, RecoveryBeforeNextTurn
<1> QED BY <1>3, <1>4 DEF CancelStands
=============================================================================
