------------------------- MODULE SessionLockManager -------------------------
(***************************************************************************)
(* The per-session turn lock with a global cap                             *)
(* (dartclaw_runtime, concurrency/session_lock_manager.dart).              *)
(*                                                                         *)
(* Dart runs one continuation at a time, so one action is the code between *)
(* two awaits.  Completing a completer does not run the futures that await *)
(* it: they become microtasks, kept in "ready" in the order they began to  *)
(* wait, and any other caller may reach acquire before they run.           *)
(***************************************************************************)
EXTENDS Naturals, Sequences, FiniteSets

CONSTANTS Callers,    \* asynchronous calls that acquire and release
          Sessions,   \* session ids
          Caps,       \* the values server.maxParallelTurns may be given
          NoCaller

ASSUME LockAssumption ==
  /\ Caps \subseteq Nat
  /\ Caps # {}
  /\ NoCaller \notin Callers
  /\ IsFiniteSet(Sessions)

VARIABLES
  locks,        \* _locks: the caller that put the completer, or NoCaller
  parked,       \* per session, the callers awaiting the completer in _locks
  ready,        \* callers whose awaited completer is complete, not yet resumed
  waits,        \* _waits: what the wait entry shows; {} when there is none
  activeCount,  \* _activeCount
  maxParallel,  \* _maxParallel
  call          \* per caller: where it stands and the session it asked for

lockVars == <<locks, parked, ready, waits, activeCount, maxParallel, call>>

Stages == {"waiting", "warned", "stuck"}
Idle(c) == call[c].at = "idle"

LockTypeOK ==
  /\ locks \in [Sessions -> Callers \cup {NoCaller}]
  /\ parked \in [Sessions -> Seq(Callers)]
  /\ ready \in Seq(Callers)
  /\ waits \in [Sessions -> SUBSET Stages]
  /\ activeCount \in Nat
  /\ maxParallel \in Caps
  /\ call \in [Callers -> [at : {"idle", "parked", "ready", "holding"},
                           sid : Sessions]]

LockInit ==
  /\ locks = [s \in Sessions |-> NoCaller]
  /\ parked = [s \in Sessions |-> <<>>]
  /\ ready = <<>>
  /\ waits = [s \in Sessions |-> {}]
  /\ activeCount = 0
  /\ maxParallel \in Caps
  /\ call \in [Callers -> [at : {"idle"}, sid : Sessions]]

----------------------------------------------------------------------------
\* One pass of the while loop of acquire: the session is locked, so the
\* caller joins (or creates) the shared wait entry and awaits the completer.
Park(c, s) ==
  /\ locks[s] # NoCaller
  /\ waits' = [waits EXCEPT ![s] = @ \cup {"waiting"}]
  /\ parked' = [parked EXCEPT ![s] = Append(@, c)]
  /\ call' = [call EXCEPT ![c] = [at |-> "parked", sid |-> s]]
  /\ UNCHANGED <<locks, activeCount>>

\* After the loop: the cap is full and BusyTurnException is thrown.
Busy(c, s) ==
  /\ locks[s] = NoCaller
  /\ activeCount >= maxParallel
  /\ waits' = [waits EXCEPT ![s] = {}]
  /\ call' = [call EXCEPT ![c] = [at |-> "idle", sid |-> s]]
  /\ UNCHANGED <<locks, parked, activeCount>>

\* Mutant of Take: the cap is not tested again after waiting.
TakeUncapped(c, s) ==
  /\ locks[s] = NoCaller
  /\ waits' = [waits EXCEPT ![s] = {}]
  /\ locks' = [locks EXCEPT ![s] = c]
  /\ activeCount' = activeCount + 1
  /\ call' = [call EXCEPT ![c] = [at |-> "holding", sid |-> s]]
  /\ UNCHANGED parked

\* After the loop: the lock is free and the cap admits one more.
Take(c, s) ==
  /\ locks[s] = NoCaller
  /\ activeCount < maxParallel
  /\ waits' = [waits EXCEPT ![s] = {}]
  /\ locks' = [locks EXCEPT ![s] = c]
  /\ activeCount' = activeCount + 1
  /\ call' = [call EXCEPT ![c] = [at |-> "holding", sid |-> s]]
  /\ UNCHANGED parked

AcquirePass(c, s) == Park(c, s) \/ Busy(c, s) \/ Take(c, s)

\* A new call of acquire runs up to its first await.
Acquire(c, s) ==
  /\ Idle(c)
  /\ AcquirePass(c, s)
  /\ UNCHANGED <<ready, maxParallel>>

\* Mutant of Resume: "if" for "while", the lock is taken without a second look.
ResumeUnchecked ==
  LET c == Head(ready)  s == call[c].sid IN
  /\ ready # <<>>
  /\ locks' = [locks EXCEPT ![s] = c]
  /\ activeCount' = activeCount + 1
  /\ call' = [call EXCEPT ![c].at = "holding"]
  /\ ready' = Tail(ready)
  /\ UNCHANGED <<parked, waits, maxParallel>>

\* The oldest resumed waiter tests the loop condition again.
Resume ==
  /\ ready # <<>>
  /\ AcquirePass(Head(ready), call[Head(ready)].sid)
  /\ ready' = Tail(ready)
  /\ UNCHANGED maxParallel

\* Mutant of Release: completes the completer for its first listener only.
ReleaseWakesOne(c) ==
  LET s == call[c].sid IN
  /\ call[c].at = "holding"
  /\ locks' = [locks EXCEPT ![s] = NoCaller]
  /\ activeCount' = activeCount - 1
  /\ ready' = IF parked[s] = <<>> THEN ready ELSE Append(ready, Head(parked[s]))
  /\ parked' = [parked EXCEPT ![s] = IF @ = <<>> THEN @ ELSE Tail(@)]
  /\ call' = [d \in Callers |->
                IF d = c THEN [call[d] EXCEPT !.at = "idle"]
                ELSE IF parked[s] # <<>> /\ d = Head(parked[s])
                     THEN [call[d] EXCEPT !.at = "ready"] ELSE call[d]]
  /\ UNCHANGED <<waits, maxParallel>>

\* release(sessionId) by the caller whose acquire returned.
Release(c) ==
  LET s == call[c].sid IN
  /\ call[c].at = "holding"
  /\ locks' = [locks EXCEPT ![s] = NoCaller]
  /\ activeCount' = activeCount - 1
  /\ ready' = ready \o parked[s]
  /\ parked' = [parked EXCEPT ![s] = <<>>]
  /\ waits' = [waits EXCEPT ![s] = {}]
  /\ call' = [d \in Callers |->
                IF d = c THEN [at |-> "idle", sid |-> s]
                ELSE IF call[d].at = "parked" /\ call[d].sid = s
                     THEN [at |-> "ready", sid |-> s]
                     ELSE call[d]]
  /\ UNCHANGED maxParallel

\* The two timers of a wait entry; clearing the entry cancels them.
WaitTimer(s, stage) ==
  /\ waits[s] # {}
  /\ stage \notin waits[s]
  /\ waits' = [waits EXCEPT ![s] = @ \cup {stage}]
  /\ UNCHANGED <<locks, parked, ready, activeCount, maxParallel, call>>

\* A config reload changes the cap; locks already held stay held.
Reconfigure(m) ==
  /\ m # maxParallel
  /\ maxParallel' = m
  /\ UNCHANGED <<locks, parked, ready, waits, activeCount, call>>

LockNext ==
  \/ \E c \in Callers, s \in Sessions : Acquire(c, s)
  \/ Resume
  \/ \E c \in Callers : Release(c)
  \/ \E s \in Sessions, stage \in {"warned", "stuck"} : WaitTimer(s, stage)
  \/ \E m \in Caps : Reconfigure(m)

\* The event loop runs every queued microtask, and a turn that holds the lock
\* ends: the coordinator releases it in every path of its settlement.
LockFairness ==
  /\ WF_lockVars(Resume)
  /\ \A c \in Callers : WF_lockVars(Release(c))

LockSpec == LockInit /\ [][LockNext]_lockVars /\ LockFairness

----------------------------------------------------------------------------
Held == {s \in Sessions : locks[s] # NoCaller}

\* At most one caller is between acquire and release of a session, and it is
\* the one whose completer is in _locks: release checks no ownership, so a
\* stale release would free another turn's lock.
OneHolderPerSession ==
  \A c \in Callers, s \in Sessions :
     (call[c].at = "holding" /\ call[c].sid = s) <=> (locks[s] = c)

\* _activeCount, which admission tests, is the number of locks held.
CountIsLocksHeld == activeCount = Cardinality(Held)

\* No lost wakeup: whoever awaits a completer awaits one still in _locks, so
\* that a release will come; and the wait entry the status shows exists
\* exactly while somebody waits.
WaitersAwaitAHeldLock ==
  \A s \in Sessions :
     /\ parked[s] # <<>> => locks[s] # NoCaller
     /\ parked[s] # <<>> <=> waits[s] # {}

\* Every parked or resumed caller is queued in exactly one place, once.
QueuedOnce ==
  \A c \in Callers :
     /\ call[c].at = "parked" <=> \E s \in Sessions : \E i \in DOMAIN parked[s] : parked[s][i] = c
     /\ call[c].at = "ready" <=> \E i \in DOMAIN ready : ready[i] = c
     /\ \A i, j \in DOMAIN ready : ready[i] = ready[j] => i = j

\* A step that takes a lock leaves no more locks than the cap in force; a cap
\* lowered below the locks held only delays later calls.
CapRespectedWhenTaking ==
  [][Cardinality(Held') > Cardinality(Held)
       => Cardinality(Held') <= maxParallel]_lockVars

\* A caller that awaits a session's completer is eventually resumed.
ParkedIsResumed == \A c \in Callers : call[c].at = "parked" ~> call[c].at # "parked"
=============================================================================
