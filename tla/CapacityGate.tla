---------------------------- MODULE CapacityGate ----------------------------
(***************************************************************************)
(* The state of one WorkerCapacityGate and what each of its methods does   *)
(* to it (dartclaw_runtime, worker_capacity_gate.dart), as operators on a  *)
(* record, so that the gate can be checked alone and be part of the        *)
(* execution coordinator.  "cap" is configuredCapacity.  Whoever awaits a  *)
(* completer of the gate is named in "waiters", oldest first.              *)
(***************************************************************************)
EXTENDS Integers, Sequences

OpenGate == [active |-> 0, quarantined |-> 0, waiters |-> <<>>, closed |-> FALSE]

Gates(clients) ==
  [active : Nat, quarantined : Nat, waiters : Seq(clients), closed : BOOLEAN]

Effective(cap, g) == cap - g.quarantined
Available(cap, g) == cap - g.quarantined - g.active

\* The callers in a queue.
Members(queue) == {queue[i] : i \in 1..Len(queue)}

\* A call finds a slot at once; tryAcquire and acquire share the test.
SlotFree(cap, g) == ~g.closed /\ g.waiters = <<>> /\ Available(cap, g) > 0

\* acquire fails at once: no permit can ever be granted.
Hopeless(cap, g) == g.closed \/ Effective(cap, g) = 0

Take(g) == [g EXCEPT !.active = @ + 1]
Enqueue(g, c) == [g EXCEPT !.waiters = Append(@, c)]
Drop(g) == [g EXCEPT !.waiters = <<>>]

\* close() and every path on which no effective slot is left fail all waiters.
Close(g) == Drop([g EXCEPT !.closed = TRUE])

Quarantine(g) == [g EXCEPT !.quarantined = @ + 1]

\* quarantineAvailableSlot(): does nothing when no slot is idle.
QuarantineSlot(cap, g) ==
  IF g.closed \/ Available(cap, g) <= 0 THEN g
  ELSE IF Effective(cap, Quarantine(g)) = 0 THEN Drop(Quarantine(g)) ELSE Quarantine(g)

\* _release: the slot comes back or is withheld, then _drainWaiters.
GiveBack(g, quarantine) ==
  [active |-> g.active - 1,
   quarantined |-> IF quarantine THEN g.quarantined + 1 ELSE g.quarantined,
   waiters |-> g.waiters,
   closed |-> g.closed]

\* How many waiters _drainWaiters completes.
Drained(cap, g) ==
  IF g.closed \/ Available(cap, g) <= 0 THEN 0
  ELSE IF Len(g.waiters) < Available(cap, g) THEN Len(g.waiters) ELSE Available(cap, g)

Drain(cap, g) ==
  LET n == Drained(cap, g) IN
  [active |-> g.active + n,
   quarantined |-> g.quarantined,
   waiters |-> SubSeq(g.waiters, n + 1, Len(g.waiters)),
   closed |-> g.closed]

Release(cap, g, quarantine) ==
  LET h == GiveBack(g, quarantine) IN
  IF Effective(cap, h) = 0 THEN Drop(h) ELSE Drain(cap, h)

\* The waiters a release serves.
Served(cap, g, quarantine) ==
  LET h == GiveBack(g, quarantine) IN
  IF Effective(cap, h) = 0 THEN {} ELSE Members(SubSeq(g.waiters, 1, Drained(cap, h)))
=============================================================================
