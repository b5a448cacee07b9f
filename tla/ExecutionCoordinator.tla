------------------------ MODULE ExecutionCoordinator ------------------------
(***************************************************************************)
(* Execution allocation (dartclaw_runtime, execution_coordinator.dart and  *)
(* execution_coordinator_lifecycle.dart) for one worker provider and the   *)
(* primary lane: session admission, the two capacity gates, the cache of   *)
(* idle workers, their creation, reuse and teardown, and the three         *)
(* operations that empty the cache from outside: a continuity reset, the   *)
(* end of a temporary session and disposal.                                *)
(*                                                                         *)
(* An action is the code between two awaits; "at" names the await a call   *)
(* is at.  A teardown ends confirmed or not, which the caller decides by   *)
(* what the harness and the container hooks report.                        *)
(***************************************************************************)
EXTENDS CapacityGate, FiniteSets

CONSTANTS
  Calls,       \* calls of acquire and the leases they return
  Sessions,    \* session ids
  Kind,        \* Kind[s]: what the execution request of a session looks like
  Workers,     \* identities of worker processes, reused after a teardown
  PoolSize,    \* providers.<id>.pool_size
  MaxOrphans,  \* bound: how many teardowns may stay unconfirmed
  Resets,      \* sessions whose continuity may be reset from outside
  None

\* primary: interactive or channel turn on the primary harness
\* host:    worker turn under the host policy, reusable by any such session
\* bound:   channel session bound to a logical agent, container of its own
\* spawned: logical agent called by a running turn; its request carries the
\*          agent's tool list, so its worker serves this one execution
\* temp:    process-retained temporary conversation, container of its own
\* scoped:  task or workflow step with construction inputs of its own
Kinds == {"primary", "host", "bound", "spawned", "temp", "scoped"}

\* Where a temporary session may keep a permit between its calls.
Keepers == {s \in Sessions : Kind[s] = "temp"} \X {"cached", "ending"}

ASSUME ExecutionAssumption ==
  /\ IsFiniteSet(Calls) /\ IsFiniteSet(Workers) /\ IsFiniteSet(Sessions)
  /\ Kind \in [Sessions -> Kinds]
  /\ PoolSize \in Nat \ {0}
  /\ MaxOrphans \in Nat
  /\ Resets \subseteq Sessions
  /\ None \notin Calls \cup Workers \cup Sessions
  /\ Calls \cap Keepers = {}

VARIABLES
  at,        \* per call: the await it is at
  sid,       \* per call: the session of its request
  hand,      \* per call: the worker it tears down, starts or leases
  permit,    \* per call: it owns a capacity permit
  allowed,   \* per call: allowedCached, computed when scavenging starts
  parent,    \* per call: the running turn that waits for its result
  gates,     \* _primaryGate and the provider's entry of _workerGates
  cache,     \* _cache, oldest lastUsed first
  proc,      \* per worker: the state of its process
  served,    \* per worker: the sessions its process still carries (history)
  admitted,  \* per session: the call that holds the session lock
  resetting, \* per session: the worker a continuity reset tears down
  ending,    \* per session: the worker whose temporary session is ended
  phase,     \* _closing, _drained and the progress of dispose
  doomed     \* the workers dispose still has to tear down

callVars == <<at, sid, hand, permit, allowed, parent>>
execVars == <<callVars, gates, cache, proc, served, admitted, resetting, ending, phase, doomed>>

Lanes == {"primary", "worker"}
Cap(lane) == IF lane = "primary" THEN 1 ELSE PoolSize
Lane(c) == IF Kind[sid[c]] = "primary" THEN "primary" ELSE "worker"

Stages == {"idle", "admitting", "admitted", "queued", "granted", "discarding",
           "discardingRetained", "scavenging", "evicting", "creating", "starting",
           "rejecting", "failing", "leased", "releasing"}

Entries == [worker : Workers, sid : Sessions]
Live == {"new", "idle", "broken"}

ExecTypeOK ==
  /\ at \in [Calls -> Stages]
  /\ sid \in [Calls -> Sessions \cup {None}]
  /\ hand \in [Calls -> Workers \cup {None}]
  /\ permit \in [Calls -> BOOLEAN]
  /\ allowed \in [Calls -> Int]
  /\ parent \in [Calls -> Calls \cup {None}]
  /\ gates \in [Lanes -> Gates(Calls)]
  /\ cache \in Seq(Entries)
  /\ proc \in [Workers -> Live \cup {"none", "orphan"}]
  /\ served \in [Workers -> SUBSET Sessions]
  /\ admitted \in [Sessions -> Calls \cup {None}]
  /\ resetting \in [Sessions -> Workers \cup {None}]
  /\ ending \in [Sessions -> Workers \cup {None}]
  /\ phase \in {"open", "draining", "drained", "closing", "closed"}
  /\ doomed \in Seq(Workers)

ExecInit ==
  /\ at = [c \in Calls |-> "idle"]
  /\ sid = [c \in Calls |-> None]
  /\ hand = [c \in Calls |-> None]
  /\ permit = [c \in Calls |-> FALSE]
  /\ allowed = [c \in Calls |-> 0]
  /\ parent = [c \in Calls |-> None]
  /\ gates = [l \in Lanes |-> OpenGate]
  /\ cache = <<>>
  /\ proc = [w \in Workers |-> "none"]
  /\ served = [w \in Workers |-> {}]
  /\ admitted = [s \in Sessions |-> None]
  /\ resetting = [s \in Sessions |-> None]
  /\ ending = [s \in Sessions |-> None]
  /\ phase = "open"
  /\ doomed = <<>>

-----------------------------------------------------------------------------
(* Reading the tables.                                                     *)

InFlight(c) == at[c] # "idle"               \* in _acquiring or in _active
Busy(s) == \E c \in Calls : sid[c] = s
Orphans == {w \in Workers : proc[w] = "orphan"}
MayStayUnconfirmed == Cardinality(Orphans) < MaxOrphans

\* An execution whose worker may be cached when it is released.
Cacheable(s) == Kind[s] \in {"host", "bound", "temp"}

\* Mutant: the second search forgets the container test.
CompatibleAny(s) ==
  LET own == {i \in 1..Len(cache) : cache[i].sid = s} IN
  IF ~Cacheable(s) THEN {}
  ELSE IF own = {} /\ Kind[s] # "temp" THEN {i \in 1..Len(cache) : Kind[cache[i].sid] # "temp"}
  ELSE own

\* _takeCached: the entry of the session itself first; under the host policy
\* any compatible entry.  A container entry never changes hands.
Matches(s) == {i \in 1..Len(cache) : cache[i].sid = s}
HostEntries == {i \in 1..Len(cache) : Kind[cache[i].sid] = "host"}
Compatible(s) ==
  IF ~Cacheable(s) THEN {}
  ELSE IF Matches(s) = {} /\ Kind[s] = "host" THEN HostEntries ELSE Matches(s)
First(S) == CHOOSE i \in S : \A j \in S : i <= j
Without(q, i) == SubSeq(q, 1, i - 1) \o SubSeq(q, i + 1, Len(q))

\* Entries _scavenge may evict: a temporary session keeps its own slot.
Recyclable == {i \in 1..Len(cache) : Kind[cache[i].sid] # "temp"}

\* Mutant: the drain looks at _active only.
SettledIgnoringAcquiring(stage) ==
  IF phase = "draining" /\ \A d \in Calls : stage[d] \notin {"leased", "releasing"}
  THEN "drained" ELSE phase

\* _completeDrainIfIdle after a step that leaves the calls at "stage".
Settled(stage) ==
  IF phase = "draining" /\ \A d \in Calls : stage[d] = "idle" THEN "drained" ELSE phase

-----------------------------------------------------------------------------
(* Capacity.  The gate of lane l becomes g, the calls in "lucky" get their *)
(* permits, waiters that are in neither have failed, and c itself goes to  *)
(* "next" with or without a permit.                                        *)

Regate(l, g, lucky, c, next, mine) ==
  /\ gates' = [gates EXCEPT ![l] = g]
  /\ permit' = [d \in Calls |-> IF d = c THEN mine ELSE permit[d] \/ d \in lucky]
  /\ at' = [d \in Calls |->
              IF d = c THEN next
              ELSE IF d \in lucky THEN "granted"
              ELSE IF d \in Members(gates[l].waiters) \ Members(g.waiters) THEN "failing"
              ELSE at[d]]

\* Mutant: the slot comes back but no waiter is served.
GiveUpUndrained(l, c, quarantine, next) ==
  Regate(l, GiveBack(gates[l], quarantine), {}, c, next, FALSE)

\* permit.release() or permit.quarantine() by its owner c, or by no call.
GiveUp(l, c, quarantine, next) ==
  Regate(l, Release(Cap(l), gates[l], quarantine),
         Served(Cap(l), gates[l], quarantine), c, next, FALSE)

\* Mutant: logical agents wait for a slot like everyone else.
AnswerWaiting(l, g, c) ==
  IF SlotFree(Cap(l), g) THEN "granted" ELSE IF Hopeless(Cap(l), g) THEN "failing" ELSE "queued"

\* _acquirePermit on gate g: tryAcquire for the fail-fast admission of a
\* logical agent, acquire for all others.
Answer(l, g, c) ==
  IF SlotFree(Cap(l), g) THEN "granted"
  ELSE IF Kind[sid[c]] = "spawned" \/ Hopeless(Cap(l), g) THEN "failing" ELSE "queued"

Requested(g, c, answer) ==
  CASE answer = "granted" -> Take(g)
    [] answer = "queued" -> Enqueue(g, c)
    [] OTHER -> g

RequestPermit(c, l, g, lucky) ==
  Regate(l, Requested(g, c, Answer(l, g, c)), lucky, c, Answer(l, g, c),
         Answer(l, g, c) = "granted")

-----------------------------------------------------------------------------
(* acquire(): admission, permit, worker.                                   *)

\* A turn asks for an execution; a running turn may call one logical agent
\* and waits for it.
Submit(c, s, p) ==
  /\ at[c] = "idle" /\ phase = "open"
  /\ IF Kind[s] = "spawned"
     THEN p \in Calls /\ at[p] = "leased" /\ Kind[sid[p]] # "spawned"
          /\ \A d \in Calls : parent[d] # p
     ELSE p = None
  /\ at' = [at EXCEPT ![c] = "admitting"]
  /\ sid' = [sid EXCEPT ![c] = s]
  /\ parent' = [parent EXCEPT ![c] = p]
  /\ UNCHANGED <<hand, permit, allowed, gates, cache, proc, served, admitted,
                 resetting, ending, phase, doomed>>

Admit(c) ==
  /\ at[c] = "admitting" /\ admitted[sid[c]] = None
  /\ at' = [at EXCEPT ![c] = "admitted"]
  /\ admitted' = [admitted EXCEPT ![sid[c]] = c]
  /\ UNCHANGED <<sid, hand, permit, allowed, parent, gates, cache, proc, served,
                 resetting, ending, phase, doomed>>

\* The call is over and no longer known to the coordinator.
Forget(c) ==
  /\ sid' = [sid EXCEPT ![c] = None]
  /\ hand' = [hand EXCEPT ![c] = None]
  /\ parent' = [parent EXCEPT ![c] = None]
  /\ phase' = Settled(at')

\* _admitExecution throws: busy session, session cap or budget.
AdmitRefused(c) ==
  /\ at[c] = "admitting"
  /\ at' = [at EXCEPT ![c] = "idle"]
  /\ Forget(c)
  /\ UNCHANGED <<permit, allowed, gates, cache, proc, served, admitted,
                 resetting, ending, doomed>>

\* A temporary session finds the worker it kept, with the permit it kept.
ProceedRetained(c) ==
  LET s == sid[c]  i == First(Matches(s))  w == cache[i].worker
      reuse == phase = "open" /\ proc[w] = "idle"
  IN /\ at[c] = "admitted" /\ Kind[s] = "temp" /\ Matches(s) # {}
     /\ cache' = Without(cache, i)
     /\ hand' = [hand EXCEPT ![c] = w]
     /\ permit' = [permit EXCEPT ![c] = TRUE]
     /\ at' = [at EXCEPT ![c] = IF reuse THEN "leased" ELSE "discardingRetained"]
     /\ UNCHANGED <<sid, allowed, parent, gates, proc, served, admitted,
                    resetting, ending, phase, doomed>>

Proceed(c) ==
  /\ at[c] = "admitted" /\ ~(Kind[sid[c]] = "temp" /\ Matches(sid[c]) # {})
  /\ RequestPermit(c, Lane(c), gates[Lane(c)], {})
  /\ UNCHANGED <<sid, hand, allowed, parent, cache, proc, served, admitted,
                 resetting, ending, phase, doomed>>

\* A teardown of w ends; an unconfirmed one leaves an orphan.
TornDown(w, confirmed) ==
  /\ confirmed \/ MayStayUnconfirmed
  /\ proc' = [proc EXCEPT ![w] = IF confirmed THEN "none" ELSE "orphan"]
  /\ served' = [served EXCEPT ![w] = {}]

\* The retained worker was unusable: its permit goes back or is withheld, and
\* the call joins the queue like any other.
DiscardRetainedDone(c, confirmed) ==
  /\ at[c] = "discardingRetained"
  /\ TornDown(hand[c], confirmed)
  /\ IF phase = "open"
     THEN RequestPermit(c, "worker", Release(PoolSize, gates["worker"], ~confirmed),
                        Served(PoolSize, gates["worker"], ~confirmed))
     ELSE GiveUp("worker", c, ~confirmed, "failing")
  /\ hand' = [hand EXCEPT ![c] = None]
  /\ UNCHANGED <<sid, allowed, parent, cache, admitted, resetting, ending, phase, doomed>>

\* _acquirePrimary resumes with its permit.
UsePrimary(c) ==
  /\ at[c] = "granted" /\ Lane(c) = "primary"
  /\ IF phase = "open"
     THEN at' = [at EXCEPT ![c] = "leased"] /\ UNCHANGED <<gates, permit>>
     ELSE GiveUp("primary", c, FALSE, "failing")
  /\ UNCHANGED <<sid, hand, allowed, parent, cache, proc, served, admitted,
                 resetting, ending, phase, doomed>>

\* _acquireWorker finds a cached worker: idle, it is leased; otherwise it is
\* torn down under the caller's permit and the search goes on.
UseCached(c) ==
  LET i == First(Compatible(sid[c]))  w == cache[i].worker IN
  /\ at[c] = "granted" /\ Lane(c) = "worker" /\ Compatible(sid[c]) # {}
  /\ cache' = Without(cache, i)
  /\ hand' = [hand EXCEPT ![c] = w]
  /\ at' = [at EXCEPT ![c] = IF proc[w] # "idle" THEN "discarding"
                             ELSE IF phase = "open" THEN "leased" ELSE "rejecting"]
  /\ served' = [served EXCEPT ![w] = IF at'[c] = "leased" THEN @ \cup {sid[c]} ELSE @]
  /\ UNCHANGED <<sid, permit, allowed, parent, gates, proc, admitted,
                 resetting, ending, phase, doomed>>

\* Mutant: nothing is evicted.
RecycleNone(c, limit) ==
  /\ at' = [at EXCEPT ![c] = "creating"]
  /\ allowed' = [allowed EXCEPT ![c] = 0]
  /\ UNCHANGED <<sid, hand, permit, parent, gates, cache, proc, served, admitted,
                 resetting, ending, phase, doomed>>

\* One round of the loop in _scavenge, under the limit it computed at first:
\* evict the oldest entry, or go on to the worker factory.
Recycle(c, limit) ==
  /\ IF Cardinality(Recyclable) > limit
     THEN /\ cache' = Without(cache, First(Recyclable))
          /\ hand' = [hand EXCEPT ![c] = cache[First(Recyclable)].worker]
          /\ at' = [at EXCEPT ![c] = "evicting"]
          /\ allowed' = [allowed EXCEPT ![c] = limit]
     ELSE /\ at' = [at EXCEPT ![c] = "creating"]
          /\ allowed' = [allowed EXCEPT ![c] = 0]
          /\ UNCHANGED <<cache, hand>>
  /\ UNCHANGED <<sid, permit, parent, gates, proc, served, admitted,
                 resetting, ending, phase, doomed>>

\* The search is over: scavenging starts in the same step.
SearchFails(c) ==
  /\ at[c] = "granted" /\ Lane(c) = "worker" /\ Compatible(sid[c]) = {}
  /\ Recycle(c, Available(PoolSize, gates["worker"]))

Scavenge(c) == at[c] = "scavenging" /\ Recycle(c, allowed[c])

\* _discardWorker of a worker that was not idle, or of a victim.
DiscardDone(c, confirmed) ==
  /\ at[c] \in {"discarding", "evicting"}
  /\ TornDown(hand[c], confirmed)
  /\ IF confirmed
     THEN /\ at' = [at EXCEPT ![c] = IF @ = "evicting" THEN "scavenging" ELSE "granted"]
          /\ UNCHANGED <<gates, permit, allowed>>
     ELSE /\ GiveUp("worker", c, TRUE, "failing")
          /\ allowed' = [allowed EXCEPT ![c] = 0]
  /\ hand' = [hand EXCEPT ![c] = None]
  /\ UNCHANGED <<sid, parent, cache, admitted, resetting, ending, phase, doomed>>

\* _createWorker returns a worker, one of the wrong identity, or throws.
Created(c, w, compatible) ==
  /\ at[c] = "creating" /\ w \in Workers /\ proc[w] = "none"
  /\ proc' = [proc EXCEPT ![w] = "new"]
  /\ hand' = [hand EXCEPT ![c] = w]
  /\ at' = [at EXCEPT ![c] = IF compatible THEN "starting" ELSE "rejecting"]
  /\ UNCHANGED <<sid, permit, allowed, parent, gates, cache, served, admitted,
                 resetting, ending, phase, doomed>>

CreateFails(c) ==
  /\ at[c] = "creating"
  /\ GiveUp("worker", c, FALSE, "failing")
  /\ UNCHANGED <<sid, hand, allowed, parent, cache, proc, served, admitted,
                 resetting, ending, phase, doomed>>

\* harness.start() ends; dispose may have begun in the meantime.
StartDone(c, started) ==
  LET w == hand[c]  leased == started /\ phase = "open" IN
  /\ at[c] = "starting"
  /\ proc' = [proc EXCEPT ![w] = IF started THEN "idle" ELSE "broken"]
  /\ at' = [at EXCEPT ![c] = IF leased THEN "leased" ELSE "rejecting"]
  /\ served' = [served EXCEPT ![w] = IF leased THEN {sid[c]} ELSE @]
  /\ UNCHANGED <<sid, hand, permit, allowed, parent, gates, cache, admitted,
                 resetting, ending, phase, doomed>>

\* _discardWorker on the way to a throw, and the release in the catch block:
\* the permit is idempotent, so a quarantined slot stays withheld.
RejectDone(c, confirmed) ==
  /\ at[c] = "rejecting"
  /\ TornDown(hand[c], confirmed)
  /\ GiveUp("worker", c, ~confirmed, "failing")
  /\ hand' = [hand EXCEPT ![c] = None]
  /\ UNCHANGED <<sid, allowed, parent, cache, admitted, resetting, ending, phase, doomed>>

\* Mutant: the error path forgets _releaseAdmission.
FailKeepsLock(c) ==
  /\ at[c] = "failing"
  /\ at' = [at EXCEPT ![c] = "idle"]
  /\ Forget(c)
  /\ UNCHANGED <<permit, allowed, gates, cache, proc, served, admitted,
                 resetting, ending, doomed>>

\* acquire() throws or returns null: the session lock is given back.
Fail(c) ==
  /\ at[c] = "failing"
  /\ admitted' = [admitted EXCEPT ![sid[c]] = None]
  /\ at' = [at EXCEPT ![c] = "idle"]
  /\ Forget(c)
  /\ UNCHANGED <<permit, allowed, gates, cache, proc, served, resetting, ending, doomed>>

-----------------------------------------------------------------------------
(* The end of a lease.                                                     *)

\* Mutant: the permit a temporary session keeps is released as well.
EndTurnReleasesRetained(c, healthy) ==
  /\ at[c] = "leased" /\ Lane(c) = "worker" /\ Cacheable(sid[c])
  /\ phase = "open" /\ healthy /\ \A d \in Calls : parent[d] # c
  /\ cache' = Append(cache, [worker |-> hand[c], sid |-> sid[c]])
  /\ GiveUp("worker", c, FALSE, "idle")
  /\ Forget(c) /\ admitted' = [admitted EXCEPT ![sid[c]] = None]
  /\ UNCHANGED <<allowed, proc, served, resetting, ending, doomed>>

\* _release, up to its first await.  A healthy reusable worker goes to the
\* cache; that of a temporary session takes its permit along.
EndTurn(c, healthy) ==
  LET s == sid[c]
      keep == Lane(c) = "worker" /\ Cacheable(s) /\ phase = "open" /\ healthy
      over == keep \/ Lane(c) = "primary"
  IN /\ at[c] = "leased" /\ \A d \in Calls : parent[d] # c
     /\ proc' = [w \in Workers |-> IF w = hand[c] /\ ~healthy THEN "broken" ELSE proc[w]]
     /\ cache' = IF keep THEN Append(cache, [worker |-> hand[c], sid |-> s]) ELSE cache
     /\ IF ~over THEN at' = [at EXCEPT ![c] = "releasing"] /\ UNCHANGED <<gates, permit>>
        ELSE IF Kind[s] = "temp"
        THEN /\ at' = [at EXCEPT ![c] = "idle"]
             /\ permit' = [permit EXCEPT ![c] = FALSE]
             /\ UNCHANGED gates
        ELSE GiveUp(Lane(c), c, FALSE, "idle")
     /\ IF over THEN Forget(c) /\ admitted' = [admitted EXCEPT ![s] = None]
        ELSE UNCHANGED <<sid, hand, parent, admitted, phase>>
     /\ UNCHANGED <<allowed, served, resetting, ending, doomed>>

\* Mutant: the outcome of the teardown is ignored.
ReleaseDoneBlind(c, confirmed) ==
  /\ at[c] = "releasing"
  /\ TornDown(hand[c], confirmed)
  /\ GiveUp("worker", c, FALSE, "idle")
  /\ admitted' = [admitted EXCEPT ![sid[c]] = None]
  /\ Forget(c)
  /\ UNCHANGED <<allowed, cache, resetting, ending, doomed>>

ReleaseDone(c, confirmed) ==
  /\ at[c] = "releasing"
  /\ TornDown(hand[c], confirmed)
  /\ GiveUp("worker", c, ~confirmed, "idle")
  /\ admitted' = [admitted EXCEPT ![sid[c]] = None]
  /\ Forget(c)
  /\ UNCHANGED <<allowed, cache, resetting, ending, doomed>>

\* A cached worker stops being idle: its process died, or a continuity reset
\* stopped it.
CachedBreaks(i) ==
  /\ i \in 1..Len(cache) /\ proc[cache[i].worker] = "idle"
  /\ proc' = [proc EXCEPT ![cache[i].worker] = "broken"]
  /\ UNCHANGED <<callVars, gates, cache, served, admitted, resetting, ending, phase, doomed>>

-----------------------------------------------------------------------------
(* The cache is emptied from outside.                                      *)

\* resetSessionContinuity of a session with no call of its own.  A container
\* of the session is torn down, and it holds no permit meanwhile.
Reset(s) ==
  /\ s \in Resets /\ ~Busy(s) /\ resetting[s] = None
  /\ Kind[s] = "bound" /\ Matches(s) # {} /\ phase # "closed"
  /\ cache' = Without(cache, First(Matches(s)))
  /\ resetting' = [resetting EXCEPT ![s] = cache[First(Matches(s))].worker]
  /\ UNCHANGED <<callVars, gates, proc, served, admitted, ending, phase, doomed>>

ResetDone(s, confirmed) ==
  /\ resetting[s] # None
  /\ TornDown(resetting[s], confirmed)
  /\ IF confirmed THEN UNCHANGED <<gates, permit, at>>
     ELSE Regate("worker", QuarantineSlot(PoolSize, gates["worker"]), {}, None, "idle", FALSE)
  /\ resetting' = [resetting EXCEPT ![s] = None]
  /\ UNCHANGED <<sid, hand, allowed, parent, cache, admitted, ending, phase, doomed>>

\* Every other runner drops what it holds for the session.
ResetShared(s) ==
  /\ s \in Resets /\ ~Busy(s) /\ Kind[s] = "host" /\ phase # "closed"
  /\ \E w \in Workers : s \in served[w]
  /\ served' = [w \in Workers |-> served[w] \ {s}]
  /\ UNCHANGED <<callVars, gates, cache, proc, admitted, resetting, ending, phase, doomed>>

\* releaseTemporarySession, refused while the session has a call.
EndTemp(s) ==
  /\ Kind[s] = "temp" /\ ~Busy(s) /\ ending[s] = None
  /\ Matches(s) # {} /\ phase # "closed"
  /\ cache' = Without(cache, First(Matches(s)))
  /\ ending' = [ending EXCEPT ![s] = cache[First(Matches(s))].worker]
  /\ UNCHANGED <<callVars, gates, proc, served, admitted, resetting, phase, doomed>>

EndTempDone(s, confirmed) ==
  /\ ending[s] # None
  /\ TornDown(ending[s], confirmed)
  /\ GiveUp("worker", None, ~confirmed, "idle")
  /\ ending' = [ending EXCEPT ![s] = None]
  /\ UNCHANGED <<sid, hand, allowed, parent, cache, admitted, resetting, phase, doomed>>

\* dispose: both gates close and fail their waiters; then every call drains.
Dispose ==
  /\ phase = "open"
  /\ gates' = [l \in Lanes |-> Close(gates[l])]
  /\ at' = [c \in Calls |-> IF at[c] = "queued" THEN "failing" ELSE at[c]]
  /\ phase' = IF \E c \in Calls : InFlight(c) THEN "draining" ELSE "drained"
  /\ UNCHANGED <<sid, hand, permit, allowed, parent, cache, proc, served, admitted,
                 resetting, ending, doomed>>

BeginTeardown ==
  /\ phase = "drained"
  /\ phase' = "closing"
  /\ doomed' = [i \in 1..Len(cache) |-> cache[i].worker]
  /\ UNCHANGED <<callVars, gates, cache, proc, served, admitted, resetting, ending>>

\* The loop runs over a copy of the cache; a reset may have torn the worker
\* down already.
DisposeOne(confirmed) ==
  /\ phase = "closing" /\ doomed # <<>>
  /\ IF proc[Head(doomed)] \in Live THEN TornDown(Head(doomed), confirmed)
     ELSE confirmed /\ UNCHANGED <<proc, served>>
  /\ doomed' = Tail(doomed)
  /\ UNCHANGED <<callVars, gates, cache, admitted, resetting, ending, phase>>

FinishDispose ==
  /\ phase = "closing" /\ doomed = <<>>
  /\ cache' = <<>>
  /\ phase' = "closed"
  /\ UNCHANGED <<callVars, gates, proc, served, admitted, resetting, ending, doomed>>

-----------------------------------------------------------------------------
\* The next worker identity that is free.
FreeWorker == CHOOSE w \in Workers : proc[w] = "none"

CallStep(c) ==
  \/ Proceed(c) \/ ProceedRetained(c) \/ UsePrimary(c) \/ UseCached(c)
  \/ SearchFails(c) \/ Scavenge(c) \/ Fail(c) \/ CreateFails(c)
  \/ \E compatible \in BOOLEAN : Created(c, FreeWorker, compatible)
  \/ \E ok \in BOOLEAN : \/ DiscardRetainedDone(c, ok) \/ DiscardDone(c, ok)
                         \/ StartDone(c, ok) \/ RejectDone(c, ok)
                         \/ EndTurn(c, ok) \/ ReleaseDone(c, ok)

SessionStep(s) == \E ok \in BOOLEAN : ResetDone(s, ok) \/ EndTempDone(s, ok)

DisposeStep ==
  BeginTeardown \/ FinishDispose \/ \E ok \in BOOLEAN : DisposeOne(ok)

ExecNext ==
  \/ \E c \in Calls : \/ CallStep(c) \/ Admit(c) \/ AdmitRefused(c)
                      \/ \E s \in Sessions, p \in Calls \cup {None} : Submit(c, s, p)
  \/ \E i \in 1..Cardinality(Workers) : CachedBreaks(i)
  \/ \E s \in Sessions : SessionStep(s) \/ Reset(s) \/ ResetShared(s) \/ EndTemp(s)
  \/ Dispose \/ DisposeStep

\* Factories, starts, stops and turns end (each has a timeout), continuations
\* run, and the session lock serves the callers of a session in turn.  A turn
\* does not call logical agents forever.
ExecFairness ==
  /\ \A c \in Calls : /\ WF_execVars(CallStep(c)) /\ SF_execVars(Admit(c))
                     /\ SF_execVars(\E ok \in BOOLEAN : EndTurn(c, ok))
  /\ \A s \in Sessions : WF_execVars(SessionStep(s))
  /\ WF_execVars(DisposeStep)

ExecSpec == ExecInit /\ [][ExecNext]_execVars /\ ExecFairness

-----------------------------------------------------------------------------
(* Properties.                                                             *)

Holders(l) == {c \in Calls : permit[c] /\ Lane(c) = l}
Kept == {i \in 1..Len(cache) : Kind[cache[i].sid] = "temp"}
Ending == {s \in Sessions : ending[s] # None}

\* Slots add up: until disposal is over, a lane's active count is exactly the
\* permits its calls hold, plus the permits that idle or ending temporary
\* sessions kept, through every release, reuse, quarantine and failure path.
SlotsAccounted ==
  phase # "closed" =>
    /\ gates["primary"].active = Cardinality(Holders("primary"))
    /\ gates["worker"].active =
         Cardinality(Holders("worker")) + Cardinality(Kept) + Cardinality(Ending)

\* A worker has one owner at a time: a call that holds it, the cache (once), a
\* reset or the end of a temporary session; a call that leases or starts one
\* owns a permit.
OneOwnerPerWorker ==
  /\ \A w \in Workers :
       Cardinality({c \in Calls : hand[c] = w})
         + Cardinality({i \in 1..Len(cache) : cache[i].worker = w})
         + Cardinality({s \in Sessions : resetting[s] = w})
         + Cardinality({s \in Sessions : ending[s] = w}) <= 1
  /\ \A c \in Calls : hand[c] # None => permit[c]

\* The coordinator runs one execution of a session at a time: from its
\* admission to the end of its release only the call that was admitted is
\* past the lock.
OneExecutionPerSession ==
  \A c \in Calls : at[c] \notin {"idle", "admitting"} => admitted[sid[c]] = c

\* A worker in a container of its own carries one session for its whole life;
\* no reuse, eviction or retained permit hands it to another session.
ContainerServesOneSession ==
  \A w \in Workers :
    (\E s \in served[w] : Kind[s] # "host") => Cardinality(served[w]) = 1

\* ADR-012: the worker processes that exist, confirmed dead or not, fit in the
\* provider's pool_size.
WorkersWithinPool == Cardinality({w \in Workers : proc[w] # "none"}) <= PoolSize

\* ADR-058: until shutdown, every teardown that could not be confirmed has a
\* slot of its own withheld.
OrphansAreQuarantined ==
  phase = "open" => gates["worker"].quarantined = Cardinality(Orphans)

\* Whoever holds a worker owns it alone: one owner per worker, one execution
\* per session, and no more workers than the pool has room for.
WorkersOwned ==
  ExecTypeOK /\ OneOwnerPerWorker /\ OneExecutionPerSession /\ WorkersWithinPool

\* dispose leaves nothing running but what an unfinished reset or temporary
\* end is still tearing down itself, and no call that could start more.
DisposeLeavesNothing ==
  phase = "closed" =>
    /\ \A c \in Calls : at[c] = "idle"
    /\ \A w \in Workers : proc[w] \in Live =>
         \E s \in Sessions : w \in {resetting[s], ending[s]}

\* A temporary session carries its permit from one call to the next: with its
\* worker in the cache (retainedPermit of the entry), and while it is ended.
Keeps(k) == IF k[2] = "cached" THEN Matches(k[1]) # {} ELSE ending[k[1]] # None

\* What the clients of lane l are for its gate: the calls, and the places where
\* temporary sessions keep permits.
LaneAt(l) ==
  [x \in Calls \cup Keepers |->
     IF x \in Keepers THEN IF l = "worker" /\ Keeps(x) THEN "holding" ELSE "idle"
     ELSE IF sid[x] = None \/ Lane(x) # l THEN "idle"
     ELSE IF at[x] = "queued" THEN "waiting" ELSE IF permit[x] THEN "holding" ELSE "idle"]

WorkerGate == INSTANCE WorkerCapacityGate
  WITH Clients <- Calls \cup Keepers, Capacity <- PoolSize, gate <- gates["worker"], at <- LaneAt("worker")

\* Every step of the coordinator is a step of the worker gate's own contract or
\* leaves it alone: permits are only taken, queued for, passed on, renewed and
\* given back the way WorkerCapacityGate promises; until the end of disposal
\* drops the cache with the permits that are in it.
ImplementsWorkerGate ==
  /\ WorkerGate!GateInit
  /\ [][UNCHANGED WorkerGate!gateVars \/ WorkerGate!GateNext \/ FinishDispose]_(WorkerGate!gateVars)

PrimaryGate == INSTANCE WorkerCapacityGate
  WITH Clients <- Calls \cup Keepers, Capacity <- 1, gate <- gates["primary"], at <- LaneAt("primary")

\* The primary lane is a gate of one slot in the same sense.
ImplementsPrimaryGate ==
  PrimaryGate!GateInit /\ [][UNCHANGED PrimaryGate!gateVars \/ PrimaryGate!GateNext]_(PrimaryGate!gateVars)

\* Both lanes together, each a gate of its own capacity.
ImplementsGates == ImplementsWorkerGate /\ ImplementsPrimaryGate

\* _scavenge computes its limit once: while other calls go on caching workers,
\* it goes on evicting them.
Evicts(c) == at[c] \in {"scavenging", "evicting"}

\* What may make a call wait for ever: it evicts without end; it is queued, and
\* every slot in use belongs to such a call or to a temporary session, idle or
\* in a call, that nobody ends; or it is behind such a call of its own session.
Starved(c) ==
  \/ Evicts(c)
  \/ /\ at[c] = "queued" /\ Lane(c) = "worker"
     /\ gates["worker"].active = Cardinality(Kept)
          + Cardinality({d \in Holders("worker") : Kind[sid[d]] = "temp" \/ Evicts(d)})
  \/ /\ at[c] = "admitting"
     /\ \E d \in Calls : sid[d] = sid[c] /\ (Evicts(d) \/ at[d] = "queued")

\* An acquisition is answered: whoever waits for the session lock, a slot, an
\* eviction or a start gets a lease or an error, also when turns call logical
\* agents and wait for them, teardowns fail or the coordinator is disposed;
\* but for temporary sessions that nobody ends, and for evictions without end.
AcquireAnswered ==
  \A c \in Calls : []<>(at[c] \in {"idle", "leased"}) \/ <>[]Starved(c)

\* A turn that calls a logical agent ends: the agent never waits for the slot
\* its caller occupies, though it may evict without end.
TurnsEnd ==
  \A c \in Calls : \/ at[c] = "leased" ~> at[c] = "idle"
                  \/ <>[](\E d \in Calls : parent[d] = c /\ Evicts(d))

\* dispose ends.
DisposeEnds == phase # "open" ~> phase = "closed"

\* Neither a turn that waits for an agent nor a disposal that waits for the
\* calls under way waits for ever, not even for each other.
TurnsAndDisposeEnd == TurnsEnd /\ DisposeEnds

=============================================================================
