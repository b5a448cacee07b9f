------------------------- MODULE WorkerCapacityGate -------------------------
(***************************************************************************)
(* One capacity gate and its clients (worker_capacity_gate.dart).  A       *)
(* client tries or waits for a permit, holds it, and gives it back as a    *)
(* free or as a quarantined slot.  A completed permit is counted at once,  *)
(* before its client resumes.                                              *)
(***************************************************************************)
EXTENDS CapacityGate, FiniteSets

CONSTANTS Clients, Capacity

ASSUME GateAssumption == Capacity \in Nat \ {0} /\ IsFiniteSet(Clients)

VARIABLES gate, at
gateVars == <<gate, at>>

GateTypeOK ==
  /\ gate \in Gates(Clients)
  /\ at \in [Clients -> {"idle", "waiting", "holding"}]

GateInit ==
  /\ gate = OpenGate
  /\ at = [c \in Clients |-> "idle"]

\* tryAcquire() that returns a permit; returning null changes nothing.
TryAcquire(c) ==
  /\ at[c] = "idle"
  /\ SlotFree(Capacity, gate)
  /\ gate' = Take(gate)
  /\ at' = [at EXCEPT ![c] = "holding"]

\* acquire(): an error when no permit can come, a permit when a slot is free
\* and nobody waits, a place in the queue otherwise.
Acquire(c) ==
  /\ at[c] = "idle"
  /\ ~Hopeless(Capacity, gate)
  /\ IF SlotFree(Capacity, gate)
     THEN /\ gate' = Take(gate)
          /\ at' = [at EXCEPT ![c] = "holding"]
     ELSE /\ gate' = Enqueue(gate, c)
          /\ at' = [at EXCEPT ![c] = "waiting"]

\* Mutant of GivePermit: the release does not drain the queue.
GivePermitUndrained(c, quarantine) ==
  /\ at[c] = "holding"
  /\ gate' = GiveBack(gate, quarantine)
  /\ at' = [at EXCEPT ![c] = "idle"]

\* Where every client is once c has given its permit back.
Given(c, quarantine) ==
  [d \in Clients |->
     IF d = c THEN "idle"
     ELSE IF d \in Served(Capacity, gate, quarantine) THEN "holding"
     ELSE IF at[d] = "waiting" /\ d \notin Members(Release(Capacity, gate, quarantine).waiters) THEN "idle"
     ELSE at[d]]

\* Mutant of GivePermit: _drainWaiters takes the last waiter, not the first.
GivePermitNewest(c, quarantine) ==
  LET g == GiveBack(gate, quarantine)  last == Len(g.waiters) IN
  /\ at[c] = "holding"
  /\ IF Effective(Capacity, g) = 0 \/ Drained(Capacity, g) = 0
     THEN /\ gate' = Release(Capacity, gate, quarantine)
          /\ at' = Given(c, quarantine)
     ELSE /\ gate' = [Take(g) EXCEPT !.waiters = SubSeq(@, 1, last - 1)]
          /\ at' = [at EXCEPT ![c] = "idle", ![g.waiters[last]] = "holding"]

\* The permit's release() or quarantine(); a second call finds _released set.
GivePermit(c, quarantine) ==
  /\ at[c] = "holding"
  /\ gate' = Release(Capacity, gate, quarantine)
  /\ at' = Given(c, quarantine)

\* A client gives its permit back and calls acquire() before anybody else runs.
Renew(c, quarantine) ==
  LET g == Release(Capacity, gate, quarantine) IN
  /\ at[c] = "holding"
  /\ \/ /\ SlotFree(Capacity, g)
        /\ gate' = Take(g)
        /\ at' = [Given(c, quarantine) EXCEPT ![c] = "holding"]
     \/ /\ ~SlotFree(Capacity, g) /\ ~Hopeless(Capacity, g)
        /\ gate' = Enqueue(g, c)
        /\ at' = [Given(c, quarantine) EXCEPT ![c] = "waiting"]

\* A permit is an object: its holder may hand it to another, which the gate
\* does not see.
PassOn(c, d) ==
  /\ UNCHANGED gate
  /\ at[c] = "holding" /\ at[d] = "idle"
  /\ at' = [at EXCEPT ![c] = "idle", ![d] = "holding"]

\* Fail every waiter that is no longer queued.
FailDropped ==
  at' = [d \in Clients |->
           IF at[d] = "waiting" /\ d \notin Members(gate'.waiters) THEN "idle" ELSE at[d]]

\* Mutant of QuarantineAvailable: a slot in use is withheld as well.
QuarantineAny ==
  /\ ~gate.closed
  /\ gate' = Quarantine(gate)
  /\ UNCHANGED at

QuarantineAvailable ==
  /\ gate' = QuarantineSlot(Capacity, gate)
  /\ gate' # gate
  /\ FailDropped

CloseGate ==
  /\ ~gate.closed
  /\ gate' = Close(gate)
  /\ FailDropped

GateNext ==
  \/ \E c \in Clients : TryAcquire(c) \/ Acquire(c)
  \/ \E c \in Clients, quarantine \in BOOLEAN : GivePermit(c, quarantine) \/ Renew(c, quarantine)
  \/ \E c, d \in Clients : PassOn(c, d)
  \/ QuarantineAvailable
  \/ CloseGate

\* Permits come back, whoever holds them by then: leases end.
GateFairness == WF_gateVars(\E c \in Clients, q \in BOOLEAN : GivePermit(c, q))

GateSpec == GateInit /\ [][GateNext]_gateVars /\ GateFairness

-----------------------------------------------------------------------------
Holders == {c \in Clients : at[c] = "holding"}
Waiting == {c \in Clients : at[c] = "waiting"}

\* The slots in use are the permits out, and with the slots withheld they
\* never exceed the configured capacity: however permits are passed on to
\* waiters, quarantined or released, no execution runs on a withheld slot.
PermitsWithinCapacity ==
  /\ gate.active = Cardinality(Holders)
  /\ gate.active + gate.quarantined <= Capacity

\* Nobody waits beside an idle slot, and nobody waits when no permit can come.
NoWaiterBesideFreeSlot ==
  gate.waiters # <<>> => Available(Capacity, gate) = 0 /\ ~Hopeless(Capacity, gate)

\* The queue holds exactly the clients that wait, each once.
QueueIsWaiting ==
  /\ Members(gate.waiters) = Waiting
  /\ \A i, j \in 1..Len(gate.waiters) : gate.waiters[i] = gate.waiters[j] => i = j

\* First come, first served: a client that waited gets a permit only when
\* everybody who waited before it gets one in the same step, and no call that
\* comes later takes a slot while a client still waits.
ServedInOrder ==
  [][/\ \A i, j \in 1..Len(gate.waiters) :
          i < j /\ at'[gate.waiters[j]] = "holding" => at'[gate.waiters[i]] = "holding"
     /\ \A c \in Clients :
          at[c] = "idle" /\ at'[c] = "holding" /\ gate' # gate => gate.waiters = <<>>]_gateVars

\* A waiting client gets a permit or an error: it never waits for ever.
WaiterIsAnswered == \A c \in Clients : at[c] = "waiting" ~> at[c] # "waiting"
=============================================================================
