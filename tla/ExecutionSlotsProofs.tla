------------------------- MODULE ExecutionSlotsProofs -------------------------
(***************************************************************************)
(* The execution coordinator for any calls, sessions, workers and pool.    *)
(* First: one execution of a session at a time.  Whoever the gate moves    *)
(* was queued, hence past the session lock, and whoever gives the lock up  *)
(* is the call that holds it.                                              *)
(* Second: slots add up.  What a lane counts as active is the permits its  *)
(* calls hold and those that temporary sessions kept.  As long as somebody *)
(* waits no slot is idle, so a release passes on one slot at most.         *)
(* Third: each lane is a WorkerCapacityGate, whose clients are the calls    *)
(* and the places where temporary sessions keep permits between calls.     *)
(***************************************************************************)
EXTENDS ExecutionCoordinator, FiniteSetTheorems, WellFoundedInduction, TLAPS

Past == Stages \ {"idle", "admitting"}

Distinct(q) == \A i, j \in 1..Len(q) : q[i] = q[j] => i = j

\* Gates before anything is known of their counts
AnyGate == [active : Int, quarantined : Int, waiters : Seq(Calls), closed : BOOLEAN]

CallsOK ==
  /\ at \in [Calls -> Stages] /\ sid \in [Calls -> Sessions \cup {None}]
  /\ admitted \in [Sessions -> Calls \cup {None}]
  /\ \A c \in Calls : at[c] # "idle" => sid[c] \in Sessions

\* Each waiter waits once, at the gate of its own lane
QueuesOK ==
  /\ gates \in [Lanes -> AnyGate]
  /\ \A l \in Lanes : /\ Distinct(gates[l].waiters)
                      /\ \A d \in Members(gates[l].waiters) : at[d] = "queued" /\ Lane(d) = l

\* Only a worker was retained
RetainedOfWorkers == \A c \in Calls : at[c] = "discardingRetained" => Lane(c) = "worker"

AdmissionInv == CallsOK /\ QueuesOK /\ RetainedOfWorkers /\ OneExecutionPerSession

\* After a step the queues are in order, for the lanes the calls had before it
QueuesNext ==
  /\ gates' \in [Lanes -> AnyGate]
  /\ \A l \in Lanes : /\ Distinct(gates'[l].waiters)
                      /\ \A d \in Members(gates'[l].waiters) : at'[d] = "queued" /\ Lane(d) = l

\* A step of c moves no other call but waiters, which it grants a permit or fails
OthersWait(c) ==
  \A d \in Calls \ {c} : at'[d] = at[d] \/ (at[d] = "queued" /\ at'[d] \in {"granted", "failing"})

-----------------------------------------------------------------------------
(* Queues                                                                  *)

LEMMA ReleaseQueue ==
  ASSUME NEW g \in AnyGate, Distinct(g.waiters), NEW cap \in Int, NEW quarantine
  PROVE  LET r == Release(cap, g, quarantine)  s == Served(cap, g, quarantine) IN
         /\ r \in AnyGate /\ Distinct(r.waiters)
         /\ Members(r.waiters) \subseteq Members(g.waiters)
         /\ s \subseteq Members(g.waiters) /\ s \cap Members(r.waiters) = {}
PROOF
<1> DEFINE h == GiveBack(g, quarantine)
           q == g.waiters
           n == Drained(cap, h)
<1>1. q \in Seq(Calls) /\ Len(q) \in Nat
  BY DEF AnyGate
<1>2. h \in AnyGate /\ h.waiters = q
  BY DEF AnyGate, GiveBack
<1>3. n \in 0..Len(q)
  BY <1>1, <1>2 DEF AnyGate, Drained, Available
<1> HIDE DEF h, n
<1>4. CASE Effective(cap, h) = 0
  <2>1. Drop(h) \in AnyGate /\ Drop(h).waiters = <<>> /\ Members(<<>>) = {} /\ Distinct(<<>>)
    <3>1. <<>> \in Seq(Calls) /\ Len(<<>>) = 0 /\ 1..0 = {}
      OBVIOUS
    <3>2. Members(<<>>) = {} /\ Distinct(<<>>)
      BY <3>1 DEF Members, Distinct
    <3>3. Drop(h) \in AnyGate /\ Drop(h).waiters = <<>>
      BY <1>2, <3>1 DEF Drop, AnyGate
    <3> QED BY <3>2, <3>3
  <2> QED BY <1>4, <2>1 DEF Release, Served, h
<1>5. CASE Effective(cap, h) # 0
  <2> DEFINE rest == SubSeq(q, n + 1, Len(q))
             first == SubSeq(q, 1, n)
  <2>1. /\ rest \in Seq(Calls) /\ Len(rest) = Len(q) - n
        /\ \A i \in 1..Len(rest) : rest[i] = q[n + i] /\ n + i \in 1..Len(q)
    BY <1>1, <1>3
  <2>2. Len(first) = n /\ \A i \in 1..Len(first) : first[i] = q[i] /\ i \in 1..Len(q)
    BY <1>1, <1>3
  <2> HIDE DEF rest, first
  <2>3. Distinct(rest)
    BY <1>1, <1>3, <2>1 DEF Distinct
  <2>4. Members(rest) \subseteq Members(q) /\ Members(first) \subseteq Members(q)
    <3>1. Members(rest) \subseteq Members(q)
      BY <2>1 DEF Members
    <3>2. Members(first) \subseteq Members(q)
      BY <2>2 DEF Members
    <3> QED BY <3>1, <3>2
  <2>5. ASSUME NEW i \in 1..Len(first), NEW j \in 1..Len(rest), first[i] = rest[j] PROVE FALSE
    <3>1. i \in 1..Len(q) /\ n + j \in 1..Len(q) /\ q[i] = q[n + j]
      BY <2>1, <2>2, <2>5
    <3>2. i = n + j
      BY <3>1 DEF Distinct
    <3> QED BY <1>3, <2>2, <3>2
  <2>6. Members(first) \cap Members(rest) = {}
    BY <2>5 DEF Members
  <2>7. Release(cap, g, quarantine) = Drain(cap, h) /\ Served(cap, g, quarantine) = Members(first)
    BY <1>5 DEF Release, Served, h, first, n
  <2>8. Drain(cap, h) \in AnyGate /\ Drain(cap, h).waiters = rest
    <3>1. Drain(cap, h) = [active |-> h.active + n, quarantined |-> h.quarantined, waiters |-> rest, closed |-> h.closed]
      BY <1>2 DEF Drain, rest, n
    <3> QED BY <1>2, <1>3, <2>1, <3>1 DEF AnyGate
  <2> QED BY <2>3, <2>4, <2>6, <2>7, <2>8
<1> QED BY <1>4, <1>5

LEMMA EmptyQueue == Members(<<>>) = {} /\ Distinct(<<>>) /\ <<>> \in Seq(Calls)
PROOF
<1>1. <<>> \in Seq(Calls) /\ Len(<<>>) = 0 /\ 1..0 = {}
  OBVIOUS
<1> QED BY <1>1 DEF Members, Distinct

LEMMA EnqueueQueue ==
  ASSUME NEW g \in AnyGate, Distinct(g.waiters), NEW c \in Calls, c \notin Members(g.waiters)
  PROVE  LET r == Enqueue(g, c) IN
         r \in AnyGate /\ Distinct(r.waiters) /\ Members(r.waiters) = Members(g.waiters) \cup {c}
PROOF
<1> DEFINE q == g.waiters
           a == Append(q, c)
<1>1. q \in Seq(Calls) /\ Len(q) \in Nat
  BY DEF AnyGate
<1>2. /\ a \in Seq(Calls) /\ Len(a) = Len(q) + 1 /\ a[Len(q) + 1] = c
      /\ \A i \in 1..Len(q) : a[i] = q[i] /\ i \in 1..Len(a)
      /\ \A i \in 1..Len(a) : i \in 1..Len(q) \/ i = Len(q) + 1
      /\ Len(q) + 1 \in 1..Len(a)
  BY <1>1
<1>3. Enqueue(g, c) \in AnyGate /\ Enqueue(g, c).waiters = a
  BY <1>2 DEF Enqueue, AnyGate
<1> HIDE DEF a
<1>4. \A i \in 1..Len(q) : q[i] # c
  BY DEF Members
<1>5. Distinct(a)
  BY <1>1, <1>2, <1>4 DEF Distinct
<1>6. Members(a) \subseteq Members(q) \cup {c}
  BY <1>2 DEF Members
<1>7. Members(q) \cup {c} \subseteq Members(a)
  BY <1>2 DEF Members
<1> QED BY <1>3, <1>5, <1>6, <1>7

LEMMA CloseQueue ==
  ASSUME NEW g \in AnyGate
  PROVE  Close(g) \in AnyGate /\ Close(g).waiters = <<>>
PROOF
<1>1. [g EXCEPT !.closed = TRUE] \in AnyGate
  BY DEF AnyGate
<1> QED BY <1>1, EmptyQueue DEF Close, Drop, AnyGate

LEMMA QuarantineQueue ==
  ASSUME NEW g \in AnyGate, Distinct(g.waiters), NEW cap \in Int
  PROVE  LET r == QuarantineSlot(cap, g) IN
         r \in AnyGate /\ Distinct(r.waiters) /\ Members(r.waiters) \subseteq Members(g.waiters)
PROOF
<1>1. Quarantine(g) \in AnyGate /\ Quarantine(g).waiters = g.waiters
  BY DEF Quarantine, AnyGate
<1>2. Drop(Quarantine(g)) \in AnyGate /\ Drop(Quarantine(g)).waiters = <<>>
  BY <1>1, EmptyQueue DEF Drop, AnyGate
<1> QED BY <1>1, <1>2, EmptyQueue DEF QuarantineSlot

-----------------------------------------------------------------------------
(* Steps, whatever the action                                              *)

\* Gate g takes the place of that of lane l: it serves and fails waiters, and may queue c
Requeues(l, g, lucky, c, next) ==
  /\ g \in AnyGate /\ Distinct(g.waiters)
  /\ lucky \subseteq Members(gates[l].waiters) /\ lucky \cap Members(g.waiters) = {}
  /\ \A d \in Members(g.waiters) : d \in Members(gates[l].waiters) \/ (d = c /\ next = "queued")

(* What a gate does to its queue, seen from the calls.                     *)
LEMMA Regated ==
  ASSUME AdmissionInv, NEW l \in Lanes, NEW g, NEW lucky, NEW c \in Calls \cup {None},
         NEW next \in Stages, NEW mine, Regate(l, g, lucky, c, next, mine), Requeues(l, g, lucky, c, next),
         c \in Calls => at[c] # "queued", next = "queued" => Lane(c) = l
  PROVE  /\ at' \in [Calls -> Stages] /\ OthersWait(c) /\ QueuesNext
         /\ c \in Calls => at'[c] = next
PROOF
<1> USE DEF Requeues
<1>1. /\ at \in [Calls -> Stages] /\ gates \in [Lanes -> AnyGate]
      /\ \A k \in Lanes : \A d \in Members(gates[k].waiters) : d \in Calls /\ at[d] = "queued" /\ Lane(d) = k
  <2>1. ASSUME NEW k \in Lanes, NEW d \in Members(gates[k].waiters) PROVE d \in Calls
    BY <2>1 DEF AdmissionInv, QueuesOK, AnyGate, Members
  <2> QED BY <2>1 DEF AdmissionInv, CallsOK, QueuesOK
<1>2. gates' = [gates EXCEPT ![l] = g] /\ gates' \in [Lanes -> AnyGate]
  BY <1>1 DEF Regate
<1>3. \A d \in Calls : at'[d] = IF d = c THEN next
                                ELSE IF d \in lucky THEN "granted"
                                ELSE IF d \in Members(gates[l].waiters) \ Members(g.waiters) THEN "failing"
                                ELSE at[d]
  BY DEF Regate
<1>4. at' \in [Calls -> Stages]
  <2>1. \A d \in Calls : at'[d] \in Stages
    BY <1>1, <1>3 DEF Stages
  <2>2. \E f : at' = [d \in Calls |-> f[d]]
    <3> DEFINE v == [d \in Calls |-> IF d = c THEN next
                                ELSE IF d \in lucky THEN "granted"
                                ELSE IF d \in Members(gates[l].waiters) \ Members(g.waiters) THEN "failing"
                                ELSE at[d]]
    <3>1. at' = v /\ v = [d \in Calls |-> v[d]]
      BY DEF Regate
    <3> HIDE DEF v
    <3> QED BY <3>1
  <2> QED BY <2>1, <2>2
<1>5. OthersWait(c)
  BY <1>1, <1>3 DEF OthersWait
<1>6. ASSUME NEW k \in Lanes
      PROVE  /\ Distinct(gates'[k].waiters)
             /\ \A d \in Members(gates'[k].waiters) : at'[d] = "queued" /\ Lane(d) = k
  <2>1. CASE k = l
    <3>1. gates'[k] = g
      BY <1>1, <1>2, <2>1
    <3>2. ASSUME NEW d \in Members(g.waiters) PROVE d \in Calls /\ at'[d] = "queued" /\ Lane(d) = l
      <4>1. CASE d = c /\ next = "queued"
        BY <1>1, <1>3, <4>1, ExecutionAssumption, <3>2 DEF AnyGate, Members
      <4>2. CASE d \in Members(gates[l].waiters)
        <5>1. d \in Calls /\ d # c /\ d \notin lucky
          BY <1>1, <3>2, <4>2
        <5> QED BY <1>1, <1>3, <3>2, <4>2, <5>1
      <4> QED BY <3>2, <4>1, <4>2
    <3> QED BY <2>1, <3>1, <3>2
  <2>2. CASE k # l
    <3>1. gates'[k] = gates[k] /\ Distinct(gates[k].waiters)
      BY <1>1, <1>2, <2>2 DEF AdmissionInv, QueuesOK
    <3>2. ASSUME NEW d \in Members(gates[k].waiters) PROVE at'[d] = "queued" /\ Lane(d) = k
      <4>1. d \in Calls /\ at[d] = "queued" /\ Lane(d) = k /\ d # c
        BY <1>1, <3>2
      <4>2. d \notin Members(gates[l].waiters) /\ d \notin lucky
        BY <1>1, <2>2, <4>1
      <4> QED BY <1>3, <4>1, <4>2
    <3> QED BY <3>1, <3>2
  <2> QED BY <2>1, <2>2
<1> QED BY <1>2, <1>3, <1>4, <1>5, <1>6 DEF QueuesNext

(* Queues in order for the old lanes are in order for the new ones.        *)
LEMMA QueuesStand ==
  ASSUME QueuesNext, \A d \in Calls : at'[d] = "queued" => sid'[d] = sid[d]
  PROVE  QueuesOK'
PROOF
<1>1. ASSUME NEW l \in Lanes, NEW d \in Members(gates'[l].waiters) PROVE at'[d] = "queued" /\ Lane(d)' = l
  <2>1. d \in Calls /\ at'[d] = "queued" /\ Lane(d) = l
    BY <1>1 DEF QueuesNext, AnyGate, Members
  <2> QED BY <2>1 DEF Lane
<1> QED BY <1>1 DEF QueuesNext, QueuesOK

(* A call goes from one await to the next, or no call acts.                *)
LEMMA CallGoesOn ==
  ASSUME AdmissionInv, NEW c \in Calls \cup {None}, at' \in [Calls -> Stages], OthersWait(c), QueuesNext,
         UNCHANGED <<sid, admitted>>, c \in Calls => at[c] \in Past,
         c \in Calls => at'[c] # "discardingRetained" \/ Lane(c) = "worker"
  PROVE  AdmissionInv'
PROOF
<1>1. \A d \in Calls : at'[d] \in Past => at[d] \in Past
  BY DEF OthersWait, Past, Stages
<1>2. \A d \in Calls : at'[d] # "idle" => at[d] # "idle"
  BY <1>1 DEF Past, OthersWait
<1>3. CallsOK'
  BY <1>2 DEF AdmissionInv, CallsOK
<1>4. OneExecutionPerSession'
  <2>1. ASSUME NEW d \in Calls, at'[d] \notin {"idle", "admitting"} PROVE admitted[sid[d]] = d
    BY <1>1, <2>1 DEF Past, AdmissionInv, OneExecutionPerSession
  <2> QED BY <2>1 DEF OneExecutionPerSession
<1>5. QueuesOK'
  BY QueuesStand
<1>6. RetainedOfWorkers'
  BY DEF AdmissionInv, RetainedOfWorkers, OthersWait, Lane
<1> QED BY <1>3, <1>4, <1>5, <1>6 DEF AdmissionInv

(* A call past the session lock ends and gives it back.                    *)
LEMMA CallEnds ==
  ASSUME AdmissionInv, NEW c \in Calls, at' \in [Calls -> Stages], OthersWait(c), QueuesNext,
         at[c] \in Past, at'[c] = "idle",
         sid' = [sid EXCEPT ![c] = None], admitted' = [admitted EXCEPT ![sid[c]] = None]
  PROVE  AdmissionInv'
PROOF
<1>1. \A d \in Calls : at'[d] \in Past => d # c /\ at[d] \in Past
  BY DEF OthersWait, Past, Stages
<1>2. sid[c] \in Sessions /\ sid' \in [Calls -> Sessions \cup {None}] /\ admitted' \in [Sessions -> Calls \cup {None}]
  BY DEF AdmissionInv, CallsOK, Past
<1>3. \A d \in Calls : d # c => sid'[d] = sid[d]
  BY DEF AdmissionInv, CallsOK
<1>4. \A d \in Calls : at'[d] # "idle" => sid'[d] \in Sessions
  BY <1>3 DEF AdmissionInv, CallsOK, OthersWait
<1>5. OneExecutionPerSession'
  <2>1. ASSUME NEW d \in Calls, at'[d] \notin {"idle", "admitting"} PROVE admitted'[sid'[d]] = d
    <3>1. d # c /\ at[d] \in Past /\ sid'[d] = sid[d]
      BY <1>1, <1>3, <2>1 DEF Past
    <3>2. admitted[sid[d]] = d /\ admitted[sid[c]] = c /\ sid[d] \in Sessions
      BY <3>1 DEF AdmissionInv, CallsOK, OneExecutionPerSession, Past
    <3> QED BY <3>1, <3>2 DEF AdmissionInv, CallsOK
  <2> QED BY <2>1 DEF OneExecutionPerSession
<1>6. QueuesOK'
  BY <1>3, QueuesStand
<1>7. RetainedOfWorkers'
  BY <1>3 DEF AdmissionInv, RetainedOfWorkers, OthersWait, Lane
<1> QED BY <1>2, <1>4, <1>5, <1>6, <1>7 DEF AdmissionInv, CallsOK

-----------------------------------------------------------------------------
(* The actions                                                             *)

LEMMA InitAdmission == ExecInit => AdmissionInv
PROOF
<1> SUFFICES ASSUME ExecInit PROVE AdmissionInv
  OBVIOUS
<1>1. CallsOK /\ OneExecutionPerSession
  BY DEF ExecInit, CallsOK, OneExecutionPerSession, Stages
<1>2. OpenGate \in AnyGate /\ OpenGate.waiters = <<>>
  BY EmptyQueue DEF OpenGate, AnyGate
<1>3. QueuesOK
  BY <1>2, EmptyQueue DEF ExecInit, QueuesOK
<1>4. RetainedOfWorkers
  BY DEF ExecInit, RetainedOfWorkers
<1> QED BY <1>1, <1>3, <1>4 DEF AdmissionInv

(* A permit goes back or is withheld.                                      *)
LEMMA GivenUp ==
  ASSUME AdmissionInv, NEW l \in Lanes, NEW c \in Calls \cup {None}, NEW quarantine,
         NEW next \in Stages \ {"queued"}, GiveUp(l, c, quarantine, next), c \in Calls => at[c] # "queued"
  PROVE  /\ at' \in [Calls -> Stages] /\ OthersWait(c) /\ QueuesNext
         /\ c \in Calls => at'[c] = next
PROOF
<1>1. gates[l] \in AnyGate /\ Distinct(gates[l].waiters)
  BY DEF AdmissionInv, QueuesOK
<1>2. Cap(l) \in Int
  BY ExecutionAssumption DEF Cap
<1> DEFINE r == Release(Cap(l), gates[l], quarantine)
           s == Served(Cap(l), gates[l], quarantine)
<1>3. /\ r \in AnyGate /\ Distinct(r.waiters) /\ Members(r.waiters) \subseteq Members(gates[l].waiters)
      /\ s \subseteq Members(gates[l].waiters) /\ s \cap Members(r.waiters) = {}
  BY <1>1, <1>2, ReleaseQueue
<1>4. Regate(l, r, s, c, next, FALSE)
  BY DEF GiveUp
<1> HIDE DEF r, s
<1>5. Requeues(l, r, s, c, next)
  BY <1>3 DEF Requeues
<1> QED BY <1>4, <1>5, Regated

(* A permit is asked for at gate g, at which "lucky" have just been served. *)
LEMMA Asked ==
  ASSUME AdmissionInv, NEW c \in Calls, NEW l \in Lanes, l = Lane(c), at[c] \in Past \ {"queued"},
         NEW g \in AnyGate, Distinct(g.waiters), NEW lucky, RequestPermit(c, l, g, lucky),
         Members(g.waiters) \subseteq Members(gates[l].waiters),
         lucky \subseteq Members(gates[l].waiters), lucky \cap Members(g.waiters) = {}
  PROVE  at' \in [Calls -> Stages] /\ OthersWait(c) /\ QueuesNext /\ at'[c] \in {"granted", "failing", "queued"}
PROOF
<1> DEFINE a == Answer(l, g, c)
           h == Requested(g, c, a)
<1>1. a \in {"granted", "failing", "queued"}
  BY DEF Answer
<1>2. c \notin Members(gates[l].waiters)
  BY DEF AdmissionInv, QueuesOK
<1> DEFINE m == a = "granted"
<1>3. Regate(l, h, lucky, c, a, m)
  BY DEF RequestPermit
<1> HIDE DEF a, m
<1>4. Requeues(l, h, lucky, c, a)
  <2> USE DEF Requeues
  <2>1. CASE a = "granted"
    <3>1. h = Take(g) /\ Take(g) \in AnyGate /\ Take(g).waiters = g.waiters
      BY <2>1 DEF Requested, Take, AnyGate
    <3> QED BY <2>1, <3>1
  <2>2. CASE a = "queued"
    <3>1. h = Enqueue(g, c)
      BY <2>2 DEF Requested
    <3>2. h \in AnyGate /\ Distinct(h.waiters) /\ Members(h.waiters) = Members(g.waiters) \cup {c}
      BY <1>2, <3>1, EnqueueQueue
    <3> QED BY <1>2, <2>2, <3>2
  <2>3. CASE a = "failing"
    <3>1. h = g
      BY <2>3 DEF Requested
    <3> QED BY <2>3, <3>1
  <2> QED BY <1>1, <2>1, <2>2, <2>3
<1> HIDE DEF h
<1>5. a \in Stages /\ a \in Past
  BY <1>1 DEF Stages, Past
<1>6. c \in Calls \cup {None} /\ at[c] # "queued" /\ Lane(c) = l
  OBVIOUS
<1>7. at' \in [Calls -> Stages] /\ OthersWait(c) /\ QueuesNext /\ (c \in Calls => at'[c] = a)
  BY <1>3, <1>4, <1>5, <1>6, Regated
<1> QED BY <1>1, <1>7

(* A step of c that leaves the gates alone.                                *)
LEMMA Alone ==
  ASSUME AdmissionInv, NEW c \in Calls, NEW next \in Stages \ {"queued"}, at[c] # "queued",
         at' = [at EXCEPT ![c] = next], UNCHANGED gates
  PROVE  at' \in [Calls -> Stages] /\ OthersWait(c) /\ QueuesNext /\ at'[c] = next
PROOF
<1>1. at' \in [Calls -> Stages] /\ at'[c] = next /\ OthersWait(c)
  BY DEF AdmissionInv, CallsOK, OthersWait
<1>2. ASSUME NEW l \in Lanes, NEW d \in Members(gates[l].waiters) PROVE at'[d] = "queued" /\ Lane(d) = l
  <2>1. d \in Calls /\ at[d] = "queued" /\ Lane(d) = l
    BY <1>2 DEF AdmissionInv, QueuesOK, AnyGate, Members
  <2> QED BY <2>1 DEF AdmissionInv, CallsOK
<1> QED BY <1>1, <1>2 DEF AdmissionInv, QueuesOK, QueuesNext

LEMMA AcquireSteps ==
  ASSUME AdmissionInv, NEW c \in Calls,
         \/ \E s \in Sessions, p \in Calls \cup {None} : Submit(c, s, p)
         \/ Admit(c) \/ AdmitRefused(c)
  PROVE  AdmissionInv'
PROOF
<1>1. CASE \E s \in Sessions, p \in Calls \cup {None} : Submit(c, s, p)
  <2>1. PICK s \in Sessions : at[c] = "idle" /\ at' = [at EXCEPT ![c] = "admitting"] /\ sid' = [sid EXCEPT ![c] = s]
                              /\ UNCHANGED <<gates, admitted>>
    BY <1>1 DEF Submit
  <2>2. at' \in [Calls -> Stages] /\ OthersWait(c) /\ QueuesNext /\ at'[c] = "admitting"
    BY <2>1, Alone DEF Stages
  <2>3. sid' \in [Calls -> Sessions \cup {None}] /\ sid'[c] = s /\ \A d \in Calls : d # c => sid'[d] = sid[d]
    BY <2>1 DEF AdmissionInv, CallsOK
  <2>4. \A d \in Calls : at'[d] # "idle" => sid'[d] \in Sessions
    BY <2>2, <2>3 DEF OthersWait, AdmissionInv, CallsOK
  <2>5. OneExecutionPerSession'
    <3>1. ASSUME NEW d \in Calls, at'[d] \notin {"idle", "admitting"} PROVE admitted[sid'[d]] = d
      BY <2>2, <2>3, <3>1 DEF OthersWait, AdmissionInv, OneExecutionPerSession
    <3> QED BY <2>1, <3>1 DEF OneExecutionPerSession
  <2>6. QueuesOK'
    BY <2>2, <2>3, QueuesStand
  <2>7. RetainedOfWorkers'
    BY <2>2, <2>3 DEF AdmissionInv, RetainedOfWorkers, OthersWait, Lane
  <2> QED BY <2>1, <2>2, <2>3, <2>4, <2>5, <2>6, <2>7 DEF AdmissionInv, CallsOK
<1>2. CASE Admit(c)
  <2>1. /\ at[c] = "admitting" /\ admitted[sid[c]] = None /\ at' = [at EXCEPT ![c] = "admitted"]
        /\ admitted' = [admitted EXCEPT ![sid[c]] = c] /\ UNCHANGED <<gates, sid>>
    BY <1>2 DEF Admit
  <2>2. at' \in [Calls -> Stages] /\ OthersWait(c) /\ QueuesNext /\ at'[c] = "admitted"
    BY <2>1, Alone DEF Stages
  <2>3. sid[c] \in Sessions /\ admitted' \in [Sessions -> Calls \cup {None}]
    BY <2>1 DEF AdmissionInv, CallsOK
  <2>4. OneExecutionPerSession'
    <3>1. ASSUME NEW d \in Calls, at'[d] \notin {"idle", "admitting"} PROVE admitted'[sid[d]] = d
      <4>1. CASE d = c
        BY <2>1, <2>3, <4>1 DEF AdmissionInv, CallsOK
      <4>2. CASE d # c
        <5>1. admitted[sid[d]] = d /\ sid[d] \in Sessions /\ d # None
          BY <2>2, <3>1, <4>2, ExecutionAssumption DEF OthersWait, AdmissionInv, OneExecutionPerSession, CallsOK
        <5> QED BY <2>1, <2>3, <5>1 DEF AdmissionInv, CallsOK
      <4> QED BY <4>1, <4>2
    <3> QED BY <2>1, <3>1 DEF OneExecutionPerSession
  <2>5. QueuesOK'
    BY <2>1, <2>2, QueuesStand
  <2>6. \A d \in Calls : at'[d] # "idle" => sid[d] \in Sessions
    BY <2>2, <2>3 DEF OthersWait, AdmissionInv, CallsOK
  <2>7. RetainedOfWorkers'
    BY <2>1, <2>2 DEF AdmissionInv, RetainedOfWorkers, OthersWait, Lane
  <2> QED BY <2>1, <2>2, <2>3, <2>4, <2>5, <2>6, <2>7 DEF AdmissionInv, CallsOK
<1>3. CASE AdmitRefused(c)
  <2>1. /\ at[c] = "admitting" /\ at' = [at EXCEPT ![c] = "idle"] /\ sid' = [sid EXCEPT ![c] = None]
        /\ UNCHANGED <<gates, admitted>>
    BY <1>3 DEF AdmitRefused, Forget
  <2>2. at' \in [Calls -> Stages] /\ OthersWait(c) /\ QueuesNext /\ at'[c] = "idle"
    BY <2>1, Alone DEF Stages
  <2>3. sid' \in [Calls -> Sessions \cup {None}] /\ \A d \in Calls : d # c => sid'[d] = sid[d]
    BY <2>1 DEF AdmissionInv, CallsOK
  <2>4. \A d \in Calls : at'[d] # "idle" => sid'[d] \in Sessions
    BY <2>2, <2>3 DEF OthersWait, AdmissionInv, CallsOK
  <2>5. OneExecutionPerSession'
    <3>1. ASSUME NEW d \in Calls, at'[d] \notin {"idle", "admitting"} PROVE admitted[sid'[d]] = d
      BY <2>2, <2>3, <3>1 DEF OthersWait, AdmissionInv, OneExecutionPerSession
    <3> QED BY <2>1, <3>1 DEF OneExecutionPerSession
  <2>6. QueuesOK'
    BY <2>2, <2>3, QueuesStand
  <2>7. RetainedOfWorkers'
    BY <2>2, <2>3 DEF AdmissionInv, RetainedOfWorkers, OthersWait, Lane
  <2> QED BY <2>1, <2>2, <2>3, <2>4, <2>5, <2>6, <2>7 DEF AdmissionInv, CallsOK
<1> QED BY <1>1, <1>2, <1>3

(* Whatever happens between the session lock and the end of the release.   *)
LEMMA WorkerSteps ==
  ASSUME AdmissionInv, NEW c \in Calls,
         \/ Proceed(c) \/ ProceedRetained(c) \/ UsePrimary(c) \/ UseCached(c)
         \/ SearchFails(c) \/ Scavenge(c) \/ CreateFails(c)
         \/ \E w \in Workers, compatible \in BOOLEAN : Created(c, w, compatible)
         \/ \E ok \in BOOLEAN : DiscardRetainedDone(c, ok) \/ DiscardDone(c, ok) \/ StartDone(c, ok) \/ RejectDone(c, ok)
         \/ \E ok \in BOOLEAN : EndTurn(c, ok) /\ at'[c] # "idle"
  PROVE  AdmissionInv'
PROOF
<1> DEFINE Goes == UNCHANGED <<sid, admitted>> /\ at[c] \in Past
<1>a. ASSUME NEW next \in Past \ {"queued"}, next # "discardingRetained" \/ Lane(c) = "worker", at[c] # "queued", at' = [at EXCEPT ![c] = next], UNCHANGED gates, Goes
      PROVE  AdmissionInv'
  <2>1. next \in Stages \ {"queued"}
    BY DEF Past
  <2>2. at' \in [Calls -> Stages] /\ OthersWait(c) /\ QueuesNext /\ at'[c] = next
    BY <1>a, <2>1, Alone
  <2> QED BY <1>a, <2>2, CallGoesOn
<1>g. ASSUME NEW l \in Lanes, NEW next \in Past \ {"queued", "discardingRetained"}, NEW q, at[c] # "queued",
             GiveUp(l, c, q, next), Goes
      PROVE  AdmissionInv'
  <2>1. next \in Stages \ {"queued"}
    BY DEF Past
  <2>2. at' \in [Calls -> Stages] /\ OthersWait(c) /\ QueuesNext /\ at'[c] = next
    BY <1>g, <2>1, GivenUp
  <2> QED BY <1>g, <2>2, CallGoesOn
<1>l. {"worker", "primary"} \subseteq Lanes /\ Lane(c) \in Lanes
  BY DEF Lanes, Lane
<1> USE DEF Past, Stages
<1>1. CASE Proceed(c)
  <2> DEFINE g == gates[Lane(c)]
  <2>1. g \in AnyGate /\ Distinct(g.waiters) /\ {} \subseteq Members(g.waiters) /\ {} \cap Members(g.waiters) = {}
    BY <1>l DEF AdmissionInv, QueuesOK
  <2>2. at[c] = "admitted" /\ RequestPermit(c, Lane(c), g, {}) /\ UNCHANGED <<sid, admitted>>
    BY <1>1 DEF Proceed
  <2> HIDE DEF g
  <2>3. Members(g.waiters) \subseteq Members(gates[Lane(c)].waiters) /\ {} \subseteq Members(gates[Lane(c)].waiters)
    BY DEF g
  <2>4. at' \in [Calls -> Stages] /\ OthersWait(c) /\ QueuesNext /\ at'[c] # "discardingRetained"
    BY <1>l, <2>1, <2>2, <2>3, Asked
  <2> QED BY <2>2, <2>4, CallGoesOn
<1>2. CASE ProceedRetained(c)
  <2>1. \E next \in {"leased", "discardingRetained"} : at' = [at EXCEPT ![c] = next]
    BY <1>2 DEF ProceedRetained
  <2>2. at[c] = "admitted" /\ UNCHANGED gates /\ Goes /\ Lane(c) = "worker"
    BY <1>2 DEF ProceedRetained, Lane
  <2> QED BY <1>a, <2>1, <2>2
<1>3. CASE UsePrimary(c)
  <2>1. at[c] = "granted" /\ Goes
    BY <1>3 DEF UsePrimary
  <2>2. CASE at' = [at EXCEPT ![c] = "leased"] /\ UNCHANGED gates
    BY <1>a, <2>1, <2>2
  <2>3. CASE GiveUp("primary", c, FALSE, "failing")
    BY <1>g, <1>l, <2>1, <2>3
  <2> QED BY <1>3, <2>2, <2>3 DEF UsePrimary
<1>4. CASE UseCached(c)
  <2>1. \E next \in {"discarding", "leased", "rejecting"} : at' = [at EXCEPT ![c] = next]
    BY <1>4 DEF UseCached
  <2>2. at[c] = "granted" /\ UNCHANGED gates /\ Goes
    BY <1>4 DEF UseCached
  <2> QED BY <1>a, <2>1, <2>2
<1>5. CASE SearchFails(c) \/ Scavenge(c)
  <2>1. \E next \in {"evicting", "creating"} : at' = [at EXCEPT ![c] = next]
    BY <1>5 DEF SearchFails, Scavenge, Recycle
  <2>2. at[c] \in {"granted", "scavenging"} /\ UNCHANGED gates /\ Goes
    BY <1>5 DEF SearchFails, Scavenge, Recycle
  <2> QED BY <1>a, <2>1, <2>2
<1>6. CASE CreateFails(c)
  <2>1. at[c] = "creating" /\ GiveUp("worker", c, FALSE, "failing") /\ Goes
    BY <1>6 DEF CreateFails
  <2> QED BY <1>g, <1>l, <2>1
<1>7. CASE \E w \in Workers, compatible \in BOOLEAN : Created(c, w, compatible)
  <2>1. \E next \in {"starting", "rejecting"} : at' = [at EXCEPT ![c] = next]
    BY <1>7 DEF Created
  <2>2. at[c] = "creating" /\ UNCHANGED gates /\ Goes
    BY <1>7 DEF Created
  <2> QED BY <1>a, <2>1, <2>2
<1>8. ASSUME NEW ok \in BOOLEAN, DiscardRetainedDone(c, ok) PROVE AdmissionInv'
  <2>1. at[c] = "discardingRetained" /\ Goes
    BY <1>8 DEF DiscardRetainedDone
  <2>2. CASE GiveUp("worker", c, ~ok, "failing")
    BY <1>g, <1>l, <2>1, <2>2
  <2> DEFINE g == Release(PoolSize, gates["worker"], ~ok)
             s == Served(PoolSize, gates["worker"], ~ok)
  <2>3. CASE RequestPermit(c, "worker", g, s)
    <3>1. gates["worker"] \in AnyGate /\ Distinct(gates["worker"].waiters) /\ PoolSize \in Int
      BY <1>l, ExecutionAssumption DEF AdmissionInv, QueuesOK
    <3>2. /\ g \in AnyGate /\ Distinct(g.waiters) /\ Members(g.waiters) \subseteq Members(gates["worker"].waiters)
          /\ s \subseteq Members(gates["worker"].waiters) /\ s \cap Members(g.waiters) = {}
      BY <3>1, ReleaseQueue
    <3> HIDE DEF g, s
    <3>3. "worker" = Lane(c)
      BY <2>1 DEF AdmissionInv, RetainedOfWorkers
    <3>4. at' \in [Calls -> Stages] /\ OthersWait(c) /\ QueuesNext /\ at'[c] # "discardingRetained"
      BY <1>l, <2>1, <2>3, <3>2, <3>3, Asked
    <3> QED BY <2>1, <3>4, CallGoesOn
  <2> QED BY <1>8, <2>2, <2>3 DEF DiscardRetainedDone
<1>9. ASSUME NEW ok \in BOOLEAN, DiscardDone(c, ok) PROVE AdmissionInv'
  <2>1. at[c] \in {"discarding", "evicting"} /\ Goes
    BY <1>9 DEF DiscardDone
  <2>2. CASE ok
    <3>1. \E next \in {"scavenging", "granted"} : at' = [at EXCEPT ![c] = next]
      BY <1>9, <2>1, <2>2 DEF DiscardDone, AdmissionInv, CallsOK
    <3>2. UNCHANGED gates
      BY <1>9, <2>2 DEF DiscardDone
    <3> QED BY <1>a, <2>1, <3>1, <3>2
  <2>3. CASE ~ok
    <3>1. GiveUp("worker", c, TRUE, "failing") /\ at[c] # "queued"
      BY <1>9, <2>1, <2>3 DEF DiscardDone
    <3> QED BY <1>g, <1>l, <2>1, <3>1
  <2> QED BY <2>2, <2>3
<1>10. ASSUME NEW ok \in BOOLEAN, StartDone(c, ok) PROVE AdmissionInv'
  <2>1. \E next \in {"leased", "rejecting"} : at' = [at EXCEPT ![c] = next]
    BY <1>10 DEF StartDone
  <2>2. at[c] = "starting" /\ UNCHANGED gates /\ Goes
    BY <1>10 DEF StartDone
  <2> QED BY <1>a, <2>1, <2>2
<1>11. ASSUME NEW ok \in BOOLEAN, RejectDone(c, ok) PROVE AdmissionInv'
  <2>1. at[c] = "rejecting" /\ GiveUp("worker", c, ~ok, "failing") /\ Goes
    BY <1>11 DEF RejectDone
  <2> QED BY <1>g, <1>l, <2>1
<1>12. ASSUME NEW ok \in BOOLEAN, EndTurn(c, ok), at'[c] # "idle" PROVE AdmissionInv'
  <2>1. ~GiveUp(Lane(c), c, FALSE, "idle")
    BY <1>12 DEF GiveUp, Regate
  <2>2. at' # [at EXCEPT ![c] = "idle"]
    BY <1>12 DEF AdmissionInv, CallsOK
  <2>3. at[c] = "leased" /\ at' = [at EXCEPT ![c] = "releasing"] /\ UNCHANGED gates /\ Goes
    BY <1>12, <2>1, <2>2 DEF EndTurn
  <2> QED BY <1>a, <2>3
<1> QED BY <1>1, <1>2, <1>3, <1>4, <1>5, <1>6, <1>7, <1>8, <1>9, <1>10, <1>11, <1>12

(* The ends of a call, which give the session lock back.                   *)
LEMMA EndSteps ==
  ASSUME AdmissionInv, NEW c \in Calls,
         Fail(c) \/ \E ok \in BOOLEAN : ReleaseDone(c, ok) \/ (EndTurn(c, ok) /\ at'[c] = "idle")
  PROVE  AdmissionInv'
PROOF
<1> USE DEF Past, Stages
<1>l. {"worker", "primary"} \subseteq Lanes /\ Lane(c) \in Lanes
  BY DEF Lanes, Lane
<1>1. CASE Fail(c)
  <2>1. /\ at[c] = "failing" /\ at' = [at EXCEPT ![c] = "idle"] /\ UNCHANGED gates
        /\ sid' = [sid EXCEPT ![c] = None] /\ admitted' = [admitted EXCEPT ![sid[c]] = None]
    BY <1>1 DEF Fail, Forget
  <2>2. at' \in [Calls -> Stages] /\ OthersWait(c) /\ QueuesNext /\ at'[c] = "idle"
    BY <2>1, Alone
  <2> QED BY <2>1, <2>2, CallEnds
<1>2. ASSUME NEW ok \in BOOLEAN, ReleaseDone(c, ok) PROVE AdmissionInv'
  <2>1. /\ at[c] = "releasing" /\ GiveUp("worker", c, ~ok, "idle")
        /\ sid' = [sid EXCEPT ![c] = None] /\ admitted' = [admitted EXCEPT ![sid[c]] = None]
    BY <1>2 DEF ReleaseDone, Forget
  <2>2. at' \in [Calls -> Stages] /\ OthersWait(c) /\ QueuesNext /\ at'[c] = "idle"
    BY <1>l, <2>1, GivenUp
  <2> QED BY <2>1, <2>2, CallEnds
<1>3. ASSUME NEW ok \in BOOLEAN, EndTurn(c, ok), at'[c] = "idle" PROVE AdmissionInv'
  <2>1. /\ at[c] = "leased"
        /\ sid' = [sid EXCEPT ![c] = None] /\ admitted' = [admitted EXCEPT ![sid[c]] = None]
        /\ \/ at' = [at EXCEPT ![c] = "idle"] /\ UNCHANGED gates
           \/ GiveUp(Lane(c), c, FALSE, "idle")
    <3>1. at' # [at EXCEPT ![c] = "releasing"]
      BY <1>3 DEF AdmissionInv, CallsOK
    <3> QED BY <1>3, <3>1 DEF EndTurn, Forget
  <2>2. at' \in [Calls -> Stages] /\ OthersWait(c) /\ QueuesNext /\ at'[c] = "idle"
    BY <1>l, <2>1, Alone, GivenUp
  <2> QED BY <2>1, <2>2, CallEnds
<1> QED BY <1>1, <1>2, <1>3

(* What empties the cache from outside.                                    *)
LEMMA OutsideSteps ==
  ASSUME AdmissionInv,
         \/ \E s \in Sessions : SessionStep(s) \/ Reset(s) \/ ResetShared(s) \/ EndTemp(s)
         \/ Dispose \/ DisposeStep \/ UNCHANGED execVars
         \/ \E i \in 1..Cardinality(Workers) : CachedBreaks(i)
  PROVE  AdmissionInv'
PROOF
<1>n. None \in Calls \cup {None} /\ None \notin Calls /\ "worker" \in Lanes /\ "idle" \in Stages \ {"queued"}
  BY ExecutionAssumption DEF Lanes, Stages
<1>a. ASSUME UNCHANGED <<at, sid, gates, admitted>> PROVE AdmissionInv'
  BY <1>a DEF AdmissionInv, CallsOK, QueuesOK, Lane, RetainedOfWorkers, OneExecutionPerSession
<1>1. CASE \/ \E s \in Sessions : Reset(s) \/ ResetShared(s) \/ EndTemp(s)
           \/ DisposeStep \/ UNCHANGED execVars \/ \E i \in 1..Cardinality(Workers) : CachedBreaks(i)
  BY <1>a, <1>1 DEF Reset, ResetShared, EndTemp, DisposeStep, BeginTeardown, DisposeOne, FinishDispose, CachedBreaks,
     execVars, callVars
<1>2. ASSUME NEW s \in Sessions, NEW ok \in BOOLEAN, ResetDone(s, ok) PROVE AdmissionInv'
  <2>1. CASE ok
    BY <1>2, <1>a, <2>1 DEF ResetDone
  <2>2. CASE ~ok
    <3> DEFINE g == QuarantineSlot(PoolSize, gates["worker"])
    <3>1. gates["worker"] \in AnyGate /\ Distinct(gates["worker"].waiters) /\ PoolSize \in Int
      BY <1>n, ExecutionAssumption DEF AdmissionInv, QueuesOK
    <3>2. g \in AnyGate /\ Distinct(g.waiters) /\ Members(g.waiters) \subseteq Members(gates["worker"].waiters)
      BY <3>1, QuarantineQueue
    <3>3. Regate("worker", g, {}, None, "idle", FALSE) /\ UNCHANGED <<sid, admitted>>
      BY <1>2, <2>2 DEF ResetDone
    <3> HIDE DEF g
    <3>4. Requeues("worker", g, {}, None, "idle")
      BY <3>2 DEF Requeues
    <3>5. at' \in [Calls -> Stages] /\ OthersWait(None) /\ QueuesNext
      BY <1>n, <3>3, <3>4, Regated
    <3> QED BY <1>n, <3>3, <3>5, CallGoesOn
  <2> QED BY <2>1, <2>2
<1>3. ASSUME NEW s \in Sessions, NEW ok \in BOOLEAN, EndTempDone(s, ok) PROVE AdmissionInv'
  <2>1. GiveUp("worker", None, ~ok, "idle") /\ UNCHANGED <<sid, admitted>>
    BY <1>3 DEF EndTempDone
  <2>2. at' \in [Calls -> Stages] /\ OthersWait(None) /\ QueuesNext
    BY <1>n, <2>1, GivenUp
  <2> QED BY <1>n, <2>1, <2>2, CallGoesOn
<1>4. CASE Dispose
  <2>1. \A l \in Lanes : gates'[l] \in AnyGate /\ gates'[l].waiters = <<>>
    BY <1>4, CloseQueue DEF Dispose, AdmissionInv, QueuesOK
  <2>2. gates' \in [Lanes -> AnyGate]
    BY <1>4, <2>1 DEF Dispose
  <2>3. \A d \in Calls : at'[d] = IF at[d] = "queued" THEN "failing" ELSE at[d]
    BY <1>4 DEF Dispose
  <2>4. at' \in [Calls -> Stages] /\ OthersWait(None)
    BY <1>4, <2>3 DEF Dispose, OthersWait, AdmissionInv, CallsOK, Stages
  <2>5. QueuesNext
    BY <2>1, <2>2, EmptyQueue DEF QueuesNext
  <2>6. UNCHANGED <<sid, admitted>>
    BY <1>4 DEF Dispose
  <2> QED BY <1>n, <2>4, <2>5, <2>6, CallGoesOn
<1> QED BY <1>1, <1>2, <1>3, <1>4 DEF SessionStep

LEMMA StepAdmission == AdmissionInv /\ [ExecNext]_execVars => AdmissionInv'
PROOF
<1> SUFFICES ASSUME AdmissionInv, [ExecNext]_execVars PROVE AdmissionInv'
  OBVIOUS
<1>1. ASSUME NEW c \in Calls, CallStep(c) PROVE AdmissionInv'
  <2>1. CASE Fail(c) \/ \E ok \in BOOLEAN : ReleaseDone(c, ok)
    BY <2>1, EndSteps
  <2>2. CASE \E ok \in BOOLEAN : EndTurn(c, ok)
    BY <2>2, EndSteps, WorkerSteps
  <2>3. CASE \E ok \in BOOLEAN : DiscardRetainedDone(c, ok) \/ DiscardDone(c, ok) \/ StartDone(c, ok) \/ RejectDone(c, ok)
    BY <2>3, WorkerSteps
  <2>4. CASE \E compatible \in BOOLEAN : Created(c, FreeWorker, compatible)
    <3>1. \E w \in Workers, compatible \in BOOLEAN : Created(c, w, compatible)
      BY <2>4 DEF Created
    <3> QED BY <3>1, WorkerSteps
  <2>5. CASE \/ Proceed(c) \/ ProceedRetained(c) \/ UsePrimary(c) \/ UseCached(c)
             \/ SearchFails(c) \/ Scavenge(c) \/ CreateFails(c)
    BY <2>5, WorkerSteps
  <2> QED BY <1>1, <2>1, <2>2, <2>3, <2>4, <2>5 DEF CallStep
<1>2. ASSUME NEW c \in Calls, \/ Admit(c) \/ AdmitRefused(c)
                              \/ \E s \in Sessions, p \in Calls \cup {None} : Submit(c, s, p)
      PROVE  AdmissionInv'
  BY <1>2, AcquireSteps
<1> QED BY <1>1, <1>2, OutsideSteps DEF ExecNext

\* OneExecutionPerSession: the coordinator runs one execution of a session at a time; whoever is
\* past its admission is the call that holds the session lock (acquire, _release)
THEOREM ExecOnePerSession == ExecSpec => []OneExecutionPerSession
PROOF
<1>1. AdmissionInv => OneExecutionPerSession
  BY DEF AdmissionInv
<1> QED BY <1>1, InitAdmission, StepAdmission, PTL DEF ExecSpec

-----------------------------------------------------------------------------
(* Slots                                                                   *)

LEMMA FirstExists ==
  ASSUME NEW S, S \subseteq Nat, S # {}
  PROVE  First(S) \in S
PROOF
<1> DEFINE R == OpToRel(<, Nat)
<1>1. IsWellFoundedOn(R, Nat)
  BY NatLessThanWellFounded
<1>2. \A x, y \in Nat : <<y, x>> \in R <=> y < x
  BY DEF OpToRel
<1> HIDE DEF R
<1>3. \E x \in S : \A y \in S : ~(<<y, x>> \in R)
  BY <1>1, WFMin
<1>4. \E x \in S : \A y \in S : x <= y
  <2>1. PICK x \in S : \A y \in S : ~(<<y, x>> \in R)
    BY <1>3
  <2>2. ASSUME NEW y \in S PROVE x <= y
    <3>1. x \in Nat /\ y \in Nat /\ ~(y < x)
      BY <1>2, <2>1
    <3> QED BY <3>1
  <2> QED BY <2>2
<1> QED BY <1>4 DEF First

KeptIn(q) == {i \in 1..Len(q) : Kind[q[i].sid] = "temp"}

LEMMA Joined ==
  ASSUME NEW S, NEW a \in Seq(S), NEW b \in Seq(S)
  PROVE  /\ a \o b \in Seq(S) /\ Len(a \o b) = Len(a) + Len(b)
         /\ \A j \in 1..Len(a) : (a \o b)[j] = a[j]
         /\ \A j \in 1..Len(b) : (a \o b)[Len(a) + j] = b[j]
OBVIOUS

LEMMA WithoutFacts ==
  ASSUME NEW S, NEW q \in Seq(S), NEW i \in 1..Len(q)
  PROVE  /\ Without(q, i) \in Seq(S) /\ Len(Without(q, i)) = Len(q) - 1
         /\ \A j \in 1..Len(q) - 1 : Without(q, i)[j] = q[IF j < i THEN j ELSE j + 1]
PROOF
<1> DEFINE a == SubSeq(q, 1, i - 1)
           b == SubSeq(q, i + 1, Len(q))
<1>1. Len(q) \in Nat /\ i \in Nat
  OBVIOUS
<1>2. a \in Seq(S) /\ Len(a) = i - 1 /\ \A j \in 1..i - 1 : a[j] = q[j]
  BY <1>1
<1>3. b \in Seq(S) /\ Len(b) = Len(q) - i /\ \A j \in 1..Len(q) - i : b[j] = q[i + j]
  BY <1>1
<1> HIDE DEF a, b
<1>4. a \o b \in Seq(S) /\ Len(a \o b) = Len(q) - 1
  <2>1. a \o b \in Seq(S) /\ Len(a \o b) = Len(a) + Len(b)
    BY <1>2, <1>3, Joined
  <2> QED BY <1>1, <1>2, <1>3, <2>1
<1>5. ASSUME NEW j \in 1..Len(q) - 1 PROVE (a \o b)[j] = q[IF j < i THEN j ELSE j + 1]
  <2>1. CASE j < i
    <3>1. j \in 1..Len(a) /\ j \in 1..i - 1
      BY <1>1, <1>2, <2>1
    <3> QED BY <1>2, <1>3, <2>1, <3>1, Joined
  <2>2. CASE ~(j < i)
    <3> DEFINE k == j - (i - 1)
    <3>1. k \in 1..Len(q) - i /\ k \in 1..Len(b) /\ i + k = j + 1 /\ Len(a) + k = j
      BY <1>1, <1>2, <1>3, <2>2
    <3>2. (a \o b)[Len(a) + k] = b[k] /\ b[k] = q[i + k]
      BY <1>2, <1>3, <3>1, Joined
    <3> QED BY <2>2, <3>1, <3>2
  <2> QED BY <2>1, <2>2
<1> QED BY <1>4, <1>5 DEF Without, a, b

LEMMA WithoutKept ==
  ASSUME NEW q \in Seq(Entries), NEW i \in 1..Len(q)
  PROVE  Cardinality(KeptIn(Without(q, i))) =
           Cardinality(KeptIn(q)) - IF Kind[q[i].sid] = "temp" THEN 1 ELSE 0
PROOF
<1> DEFINE w == Without(q, i)
<1>1. Len(q) \in Nat /\ i \in Nat /\ Len(w) = Len(q) - 1 /\ \A j \in 1..Len(q) - 1 : w[j] = q[IF j < i THEN j ELSE j + 1]
  <2>1. Len(q) \in Nat /\ i \in Nat
    OBVIOUS
  <2>2. Len(Without(q, i)) = Len(q) - 1
    BY WithoutFacts
  <2>3. \A j \in 1..Len(q) - 1 : Without(q, i)[j] = q[IF j < i THEN j ELSE j + 1]
    BY WithoutFacts
  <2> QED BY <2>1, <2>2, <2>3
<1> HIDE DEF w
<1> DEFINE A == KeptIn(q) \ {i}
           B == KeptIn(w)
           f == [j \in A |-> IF j < i THEN j ELSE j - 1]
<1>2. ASSUME NEW j \in A PROVE f[j] \in B
  <2>1. j \in 1..Len(q) /\ j # i /\ Kind[q[j].sid] = "temp"
    BY DEF KeptIn
  <2>2. f[j] \in 1..Len(w) /\ w[f[j]] = q[j]
    BY <1>1, <2>1
  <2> QED BY <2>1, <2>2 DEF KeptIn
<1>3. \A j, k \in A : f[j] = f[k] => j = k
  BY <1>1 DEF KeptIn
<1>4. ASSUME NEW k \in B PROVE \E j \in A : f[j] = k
  <2> DEFINE j == IF k < i THEN k ELSE k + 1
  <2>1. k \in 1..Len(q) - 1 /\ Kind[w[k].sid] = "temp" /\ w[k] = q[j]
    BY <1>1 DEF KeptIn
  <2>2. j \in 1..Len(q) /\ j # i
    BY <1>1, <2>1
  <2>3. j \in A
    BY <2>1, <2>2 DEF KeptIn
  <2>4. f[j] = k
    BY <1>1, <2>1, <2>3
  <2> QED BY <2>3, <2>4
<1>5. f \in Bijection(A, B)
  <2>1. f \in [A -> B]
    <3>1. \A j \in A : f[j] \in B
      BY <1>2
    <3>2. f = [j \in A |-> f[j]]
      OBVIOUS
    <3> HIDE DEF A, B, f
    <3> QED BY <3>1, <3>2
  <2> HIDE DEF A, B, f
  <2> QED BY <1>3, <1>4, <2>1 DEF Bijection, Injection, Surjection, IsInjective
<1>6. IsFiniteSet(A) /\ Cardinality(A) = Cardinality(KeptIn(q)) - IF Kind[q[i].sid] = "temp" THEN 1 ELSE 0
  <2>1. IsFiniteSet(KeptIn(q))
    <3>1. 1 \in Int /\ Len(q) \in Int
      BY <1>1
    <3>2. IsFiniteSet(1..Len(q))
      BY <3>1, FS_Interval
    <3>3. KeptIn(q) \in SUBSET (1..Len(q))
      BY DEF KeptIn
    <3> QED BY <3>2, <3>3, FS_Subset
  <2>2. i \in KeptIn(q) <=> Kind[q[i].sid] = "temp"
    BY DEF KeptIn
  <2>3. Cardinality(KeptIn(q)) \in Nat
    BY <2>1, FS_CardinalityType
  <2>4. IsFiniteSet(A) /\ Cardinality(A) = IF i \in KeptIn(q) THEN Cardinality(KeptIn(q)) - 1 ELSE Cardinality(KeptIn(q))
    BY <2>1, FS_RemoveElement
  <2> QED BY <2>2, <2>3, <2>4
<1> HIDE DEF A, B, f
<1>7. Cardinality(B) = Cardinality(A)
  BY <1>5, <1>6, FS_Bijection DEF ExistsBijection
<1> QED BY <1>6, <1>7 DEF B, w

LEMMA AppendKept ==
  ASSUME NEW q \in Seq(Entries), NEW e \in Entries
  PROVE  /\ Cardinality(KeptIn(Append(q, e))) = Cardinality(KeptIn(q)) + IF Kind[e.sid] = "temp" THEN 1 ELSE 0
         /\ IsFiniteSet(KeptIn(q)) /\ Cardinality(KeptIn(q)) \in Nat
PROOF
<1> DEFINE a == Append(q, e)
<1>1. /\ Len(q) \in Nat /\ Len(a) = Len(q) + 1 /\ a[Len(q) + 1] = e
      /\ \A j \in 1..Len(q) : a[j] = q[j] /\ j \in 1..Len(a)
      /\ \A j \in 1..Len(a) : j \in 1..Len(q) \/ j = Len(q) + 1
      /\ Len(q) + 1 \in 1..Len(a) /\ Len(q) + 1 \notin 1..Len(q)
  OBVIOUS
<1> HIDE DEF a
<1>2. IsFiniteSet(KeptIn(q))
  <2>1. IsFiniteSet(1..Len(q)) /\ KeptIn(q) \in SUBSET (1..Len(q))
    BY <1>1, FS_Interval DEF KeptIn
  <2> QED BY <2>1, FS_Subset
<1>3. Cardinality(KeptIn(q)) \in Nat
  BY <1>2, FS_CardinalityType
<1>4. CASE Kind[e.sid] = "temp"
  <2>1. KeptIn(a) = KeptIn(q) \cup {Len(q) + 1} /\ Len(q) + 1 \notin KeptIn(q)
    BY <1>1, <1>4 DEF KeptIn
  <2> QED BY <1>2, <1>3, <1>4, <2>1, FS_AddElement DEF a
<1>5. CASE Kind[e.sid] # "temp"
  <2>1. KeptIn(a) = KeptIn(q)
    BY <1>1, <1>5 DEF KeptIn
  <2> QED BY <1>2, <1>3, <1>5, <2>1 DEF a
<1> QED BY <1>4, <1>5

-----------------------------------------------------------------------------
(* Counting                                                                *)

(* c leaves or joins a set that others join.                               *)
LEMMA Recount ==
  ASSUME NEW A, NEW B, NEW L, NEW c, IsFiniteSet(A), IsFiniteSet(L), L \cap A = {}, c \notin L,
         B \ {c} = (A \ {c}) \cup L
  PROVE  Cardinality(B) = Cardinality(A) + Cardinality(L) + (IF c \in B THEN 1 ELSE 0) - (IF c \in A THEN 1 ELSE 0)
PROOF
<1> DEFINE D == A \ {c}
<1>1. IsFiniteSet(D) /\ Cardinality(D) = IF c \in A THEN Cardinality(A) - 1 ELSE Cardinality(A)
  BY FS_RemoveElement
<1>2. D \cap L = {} /\ c \notin D \cup L
  OBVIOUS
<1> HIDE DEF D
<1>3. IsFiniteSet(D \cup L) /\ Cardinality(D \cup L) = Cardinality(D) + Cardinality(L) - Cardinality(D \cap L)
  BY <1>1, FS_Union
<1>4. Cardinality(D \cap L) = 0
  BY <1>2, FS_EmptySet
<1>5. Cardinality(A) \in Nat /\ Cardinality(L) \in Nat /\ Cardinality(D) \in Nat
  BY <1>1, FS_CardinalityType
<1>6. Cardinality(B) = Cardinality(D \cup L) + (IF c \in B THEN 1 ELSE 0)
  <2>1. CASE c \in B
    <3>1. B = (D \cup L) \cup {c}
      BY <2>1 DEF D
    <3>2. Cardinality((D \cup L) \cup {c}) = IF c \in D \cup L THEN Cardinality(D \cup L) ELSE Cardinality(D \cup L) + 1
      BY <1>3, FS_AddElement
    <3> QED BY <1>2, <2>1, <3>1, <3>2
  <2>2. CASE c \notin B
    <3>1. B = D \cup L
      BY <2>2 DEF D
    <3>2. Cardinality(D \cup L) \in Nat
      BY <1>3, FS_CardinalityType
    <3> QED BY <2>2, <3>1, <3>2
  <2> QED BY <2>1, <2>2
<1>7. IF c \in A THEN Cardinality(A) = Cardinality(D) + 1 ELSE Cardinality(A) = Cardinality(D)
  BY <1>1, <1>5
<1> QED BY <1>3, <1>4, <1>5, <1>6, <1>7

LEMMA CountMembers ==
  ASSUME NEW q \in Seq(Calls), Distinct(q)
  PROVE  IsFiniteSet(Members(q)) /\ Cardinality(Members(q)) = Len(q)
PROOF
<1> DEFINE f == [i \in 1..Len(q) |-> q[i]]
<1>1. Len(q) \in Nat
  OBVIOUS
<1>2. f \in [1..Len(q) -> Members(q)]
  BY DEF Members
<1>3. \A i, j \in 1..Len(q) : f[i] = f[j] => i = j
  BY DEF Distinct
<1>4. \A m \in Members(q) : \E i \in 1..Len(q) : f[i] = m
  BY DEF Members
<1> HIDE DEF f
<1>5. f \in Bijection(1..Len(q), Members(q))
  BY <1>2, <1>3, <1>4 DEF Bijection, Injection, Surjection, IsInjective
<1>6. ExistsBijection(1..Len(q), Members(q))
  BY <1>5 DEF ExistsBijection
<1> QED BY <1>1, <1>6, FS_NatBijection, FS_CountingElements

(* A release passes its slot on, or those that stood idle as well, to as   *)
(* many waiters as it serves.                                              *)
LEMMA ReleaseCounts ==
  ASSUME NEW g \in AnyGate, Distinct(g.waiters), NEW cap \in Int, NEW quarantine
  PROVE  LET s == Served(cap, g, quarantine) IN
         IsFiniteSet(s) /\ Release(cap, g, quarantine).active = g.active - 1 + Cardinality(s)
PROOF
<1> DEFINE h == GiveBack(g, quarantine)
           q == g.waiters
           n == Drained(cap, h)
<1>1. q \in Seq(Calls) /\ Len(q) \in Nat /\ g.active \in Int
  BY DEF AnyGate
<1>2. h.active = g.active - 1 /\ h.waiters = q /\ h \in AnyGate
  BY DEF AnyGate, GiveBack
<1>3. n \in 0..Len(q)
  BY <1>1, <1>2 DEF AnyGate, Drained, Available
<1> HIDE DEF h, n
<1>4. CASE Effective(cap, h) = 0
  <2>1. Drop(h).active = h.active
    BY <1>2 DEF Drop, AnyGate
  <2>2. Served(cap, g, quarantine) = {} /\ Release(cap, g, quarantine) = Drop(h)
    BY <1>4 DEF Release, Served, h
  <2> QED BY <1>1, <1>2, <2>1, <2>2, FS_EmptySet
<1>5. CASE Effective(cap, h) # 0
  <2> DEFINE first == SubSeq(q, 1, n)
  <2>1. first \in Seq(Calls) /\ Len(first) = n /\ \A i \in 1..n : first[i] = q[i] /\ i \in 1..Len(q)
    BY <1>1, <1>3
  <2> HIDE DEF first
  <2>2. Distinct(first)
    BY <2>1 DEF Distinct
  <2>3. IsFiniteSet(Members(first)) /\ Cardinality(Members(first)) = n
    BY <2>1, <2>2, CountMembers
  <2>4. Release(cap, g, quarantine) = Drain(cap, h) /\ Served(cap, g, quarantine) = Members(first)
    BY <1>5 DEF Release, Served, h, first, n
  <2>5. Drain(cap, h).active = h.active + n
    BY DEF Drain, n
  <2> QED BY <1>1, <1>2, <1>3, <2>3, <2>4, <2>5
<1> QED BY <1>4, <1>5

-----------------------------------------------------------------------------
(* Permits                                                                 *)

WithPermit ==
  {"granted", "discarding", "discardingRetained", "scavenging", "evicting", "creating", "starting",
   "rejecting", "leased", "releasing"}

\* The await a call is at tells whether it owns a permit
PermitsOK == permit \in [Calls -> BOOLEAN] /\ \A c \in Calls : permit[c] <=> at[c] \in WithPermit

\* What a lane counts beyond the permits of its calls
Slack(l) == gates[l].active - Cardinality(Holders(l))

LEMMA FiniteHolders ==
  ASSUME NEW l
  PROVE  IsFiniteSet(Holders(l)) /\ Cardinality(Holders(l)) \in Nat
PROOF
<1>1. IsFiniteSet(Calls) /\ Holders(l) \in SUBSET Calls
  BY ExecutionAssumption DEF Holders
<1>2. IsFiniteSet(Holders(l))
  BY <1>1, FS_Subset
<1> QED BY <1>2, FS_CardinalityType

LEMMA RegateSlack ==
  ASSUME AdmissionInv, PermitsOK, NEW l \in Lanes, NEW g, NEW lucky, NEW c \in Calls \cup {None},
         NEW next \in Stages, NEW mine, mine \in BOOLEAN,
         Regate(l, g, lucky, c, next, mine), Requeues(l, g, lucky, c, next), IsFiniteSet(lucky),
         c \in Calls => at[c] # "queued" /\ Lane(c) = l /\ (mine <=> next \in WithPermit),
         c \in Calls /\ mine => sid'[c] = sid[c],
         \A d \in Calls \ {c} : sid'[d] = sid[d]
  PROVE  /\ PermitsOK'
         /\ \A m \in Lanes \ {l} : Slack(m)' = Slack(m)
         /\ Slack(l)' = g.active - (Cardinality(Holders(l)) + Cardinality(lucky)
                          + (IF c \in Calls /\ mine THEN 1 ELSE 0) - (IF c \in Calls /\ permit[c] THEN 1 ELSE 0))
PROOF
<1>1. ASSUME NEW d \in Members(gates[l].waiters)
      PROVE  d \in Calls /\ at[d] = "queued" /\ Lane(d) = l /\ ~permit[d] /\ d # c
  <2>1. d \in Calls /\ at[d] = "queued" /\ Lane(d) = l
    BY <1>1 DEF AdmissionInv, QueuesOK, AnyGate, Members
  <2> QED BY <2>1 DEF PermitsOK, WithPermit
<1>2. lucky \subseteq Members(gates[l].waiters) /\ gates \in [Lanes -> AnyGate]
  BY DEF Requeues, AdmissionInv, QueuesOK
<1>3. \A d \in Calls : permit'[d] = IF d = c THEN mine ELSE permit[d] \/ d \in lucky
  BY DEF Regate
<1>4. permit' \in [Calls -> BOOLEAN]
  BY DEF Regate, PermitsOK
<1>5. \A d \in Calls : at'[d] = IF d = c THEN next
                                ELSE IF d \in lucky THEN "granted"
                                ELSE IF d \in Members(gates[l].waiters) \ Members(g.waiters) THEN "failing"
                                ELSE at[d]
  BY DEF Regate
<1>6. ASSUME NEW d \in Calls PROVE permit'[d] <=> at'[d] \in WithPermit
  <2>1. CASE d = c
    BY <1>3, <1>5, <2>1
  <2>2. CASE d # c /\ d \in lucky
    BY <1>3, <1>5, <2>2 DEF WithPermit
  <2>3. CASE d # c /\ d \notin lucky /\ d \in Members(gates[l].waiters) \ Members(g.waiters)
    BY <1>1, <1>3, <1>5, <2>3 DEF WithPermit
  <2>4. CASE d # c /\ d \notin lucky /\ d \notin Members(gates[l].waiters) \ Members(g.waiters)
    BY <1>3, <1>5, <2>4 DEF PermitsOK
  <2> QED BY <2>1, <2>2, <2>3, <2>4
<1>7. PermitsOK'
  BY <1>4, <1>6 DEF PermitsOK
<1>8. \A d \in Calls \ {c} : Lane(d)' = Lane(d)
  BY DEF Lane
<1>9. c \in Calls /\ mine => Lane(c)' = Lane(c)
  BY DEF Lane
<1>10. Holders(l)' \ {c} = (Holders(l) \ {c}) \cup lucky
  BY <1>1, <1>2, <1>3, <1>8 DEF Holders
<1>11. lucky \cap Holders(l) = {} /\ c \notin lucky
  BY <1>1, <1>2 DEF Holders
<1>12. Cardinality(Holders(l)') = Cardinality(Holders(l)) + Cardinality(lucky)
          + (IF c \in Holders(l)' THEN 1 ELSE 0) - (IF c \in Holders(l) THEN 1 ELSE 0)
  BY <1>10, <1>11, FiniteHolders, Recount
<1>13. (c \in Holders(l)' <=> c \in Calls /\ mine) /\ (c \in Holders(l) <=> c \in Calls /\ permit[c])
  BY <1>3, <1>9 DEF Holders
<1>14. gates'[l] = g /\ \A m \in Lanes \ {l} : gates'[m] = gates[m]
  BY <1>2 DEF Regate
<1>15. ASSUME NEW m \in Lanes \ {l} PROVE Holders(m)' = Holders(m)
  <2>1. ASSUME NEW d \in Calls PROVE (permit'[d] /\ Lane(d)' = m) <=> (permit[d] /\ Lane(d) = m)
    <3>1. CASE d = c
      BY <1>3, <1>9, <1>15, <3>1
    <3>2. CASE d # c /\ d \in lucky
      BY <1>1, <1>2, <1>8, <1>15, <3>2
    <3>3. CASE d # c /\ d \notin lucky
      BY <1>3, <1>8, <3>3
    <3> QED BY <3>1, <3>2, <3>3
  <2> QED BY <2>1 DEF Holders
<1>16. Slack(l)' = g.active - Cardinality(Holders(l)')
  BY <1>14 DEF Slack
<1>17. \A m \in Lanes \ {l} : Slack(m)' = Slack(m)
  BY <1>14, <1>15 DEF Slack
<1> QED BY <1>7, <1>12, <1>13, <1>16, <1>17

(* A step of c that leaves permits and gates alone.                        *)
LEMMA AloneSlack ==
  ASSUME AdmissionInv, PermitsOK, NEW c \in Calls, NEW next \in Stages,
         at' = [at EXCEPT ![c] = next], next \in WithPermit <=> at[c] \in WithPermit,
         UNCHANGED <<gates, permit>>, \A d \in Calls : permit[d] => sid'[d] = sid[d]
  PROVE  PermitsOK' /\ \A m \in Lanes : Slack(m)' = Slack(m)
PROOF
<1>1. PermitsOK'
  BY DEF PermitsOK, AdmissionInv, CallsOK
<1>2. ASSUME NEW m \in Lanes PROVE Holders(m)' = Holders(m)
  <2>1. \A d \in Calls : permit[d] => Lane(d)' = Lane(d)
    BY DEF Lane
  <2> QED BY <2>1 DEF Holders
<1> QED BY <1>1, <1>2 DEF Slack

(* A permit goes back or is withheld: that of c, or, with None, one that   *)
(* no call owns.                                                           *)
LEMMA GiveUpSlack ==
  ASSUME AdmissionInv, PermitsOK, NEW l \in Lanes, NEW c \in Calls \cup {None}, NEW quarantine,
         NEW next \in {"failing", "idle"}, GiveUp(l, c, quarantine, next),
         c \in Calls => permit[c] /\ Lane(c) = l,
         \A d \in Calls \ {c} : sid'[d] = sid[d]
  PROVE  /\ PermitsOK'
         /\ \A m \in Lanes \ {l} : Slack(m)' = Slack(m)
         /\ Slack(l)' = Slack(l) - IF c \in Calls THEN 0 ELSE 1
PROOF
<1> DEFINE r == Release(Cap(l), gates[l], quarantine)
           s == Served(Cap(l), gates[l], quarantine)
<1>1. gates[l] \in AnyGate /\ Distinct(gates[l].waiters) /\ Cap(l) \in Int
  BY ExecutionAssumption DEF AdmissionInv, QueuesOK, Cap
<1>2. /\ r \in AnyGate /\ Distinct(r.waiters) /\ Members(r.waiters) \subseteq Members(gates[l].waiters)
      /\ s \subseteq Members(gates[l].waiters) /\ s \cap Members(r.waiters) = {}
  BY <1>1, ReleaseQueue
<1>3. IsFiniteSet(s) /\ r.active = gates[l].active - 1 + Cardinality(s)
  BY <1>1, ReleaseCounts
<1>4. Regate(l, r, s, c, next, FALSE)
  BY DEF GiveUp
<1> HIDE DEF r, s
<1>5. Requeues(l, r, s, c, next)
  BY <1>2 DEF Requeues
<1>6. next \in Stages /\ next \notin WithPermit
  BY DEF Stages, WithPermit
<1>7. c \in Calls => at[c] # "queued"
  BY DEF PermitsOK, WithPermit
<1>8. /\ PermitsOK'
      /\ \A m \in Lanes \ {l} : Slack(m)' = Slack(m)
      /\ Slack(l)' = r.active - (Cardinality(Holders(l)) + Cardinality(s)
                       + (IF c \in Calls /\ FALSE THEN 1 ELSE 0) - (IF c \in Calls /\ permit[c] THEN 1 ELSE 0))
  BY <1>3, <1>4, <1>5, <1>6, <1>7, RegateSlack
<1>9. Cardinality(s) \in Nat /\ Cardinality(Holders(l)) \in Nat /\ gates[l].active \in Int
  BY <1>1, <1>3, FS_CardinalityType, FiniteHolders DEF AnyGate
<1>10. Slack(l)' = Slack(l) - IF c \in Calls THEN 0 ELSE 1
  BY <1>3, <1>8, <1>9 DEF Slack
<1> QED BY <1>8, <1>10

(* A permit is asked for at gate g, at which "lucky" have just been served *)
(* with what c may have given up.                                          *)
LEMMA AskSlack ==
  ASSUME AdmissionInv, PermitsOK, NEW c \in Calls, NEW l \in Lanes, l = Lane(c), at[c] \in Past \ {"queued"},
         NEW g \in AnyGate, Distinct(g.waiters), NEW lucky, IsFiniteSet(lucky), RequestPermit(c, l, g, lucky),
         Members(g.waiters) \subseteq Members(gates[l].waiters),
         lucky \subseteq Members(gates[l].waiters), lucky \cap Members(g.waiters) = {},
         g.active = gates[l].active + Cardinality(lucky) - (IF permit[c] THEN 1 ELSE 0),
         UNCHANGED sid
  PROVE  PermitsOK' /\ \A m \in Lanes : Slack(m)' = Slack(m)
PROOF
<1> DEFINE a == Answer(l, g, c)
           h == Requested(g, c, a)
           m == a = "granted"
<1>1. a \in {"granted", "failing", "queued"} /\ m \in BOOLEAN /\ (m <=> a = "granted")
  BY DEF Answer
<1>2. c \notin Members(gates[l].waiters)
  BY DEF AdmissionInv, QueuesOK
<1>3. Regate(l, h, lucky, c, a, m)
  BY DEF RequestPermit
<1> HIDE DEF a, m
<1>4. Requeues(l, h, lucky, c, a) /\ h.active = g.active + IF m THEN 1 ELSE 0
  <2> USE DEF Requeues
  <2>1. CASE a = "granted"
    <3>1. h = Take(g) /\ Take(g) \in AnyGate /\ Take(g).waiters = g.waiters /\ Take(g).active = g.active + 1
      BY <2>1 DEF Requested, Take, AnyGate
    <3> QED BY <1>1, <2>1, <3>1
  <2>2. CASE a = "queued"
    <3>1. h = Enqueue(g, c) /\ Enqueue(g, c).active = g.active
      BY <2>2 DEF Requested, Enqueue, AnyGate
    <3>2. h \in AnyGate /\ Distinct(h.waiters) /\ Members(h.waiters) = Members(g.waiters) \cup {c}
      BY <1>2, <3>1, EnqueueQueue
    <3>3. g.active \in Int
      BY DEF AnyGate
    <3> QED BY <1>1, <1>2, <2>2, <3>1, <3>2, <3>3
  <2>3. CASE a = "failing"
    <3>1. h = g /\ g.active \in Int
      BY <2>3 DEF Requested, AnyGate
    <3> QED BY <1>1, <2>3, <3>1
  <2> QED BY <1>1, <2>1, <2>2, <2>3
<1> HIDE DEF h
<1>5. a \in Stages /\ (m <=> a \in WithPermit)
  BY <1>1 DEF Stages, WithPermit
<1>6. /\ PermitsOK'
      /\ \A k \in Lanes \ {l} : Slack(k)' = Slack(k)
      /\ Slack(l)' = h.active - (Cardinality(Holders(l)) + Cardinality(lucky)
                       + (IF c \in Calls /\ m THEN 1 ELSE 0) - (IF c \in Calls /\ permit[c] THEN 1 ELSE 0))
  BY <1>1, <1>3, <1>4, <1>5, RegateSlack
<1>7. Cardinality(lucky) \in Nat /\ Cardinality(Holders(l)) \in Nat /\ gates[l].active \in Int
  BY FS_CardinalityType, FiniteHolders DEF AdmissionInv, QueuesOK, AnyGate
<1>8. Slack(l)' = Slack(l)
  BY <1>4, <1>6, <1>7 DEF Slack
<1> QED BY <1>6, <1>8

-----------------------------------------------------------------------------
(* The tables                                                              *)

WorkerOnly ==
  {"discarding", "discardingRetained", "scavenging", "evicting", "creating", "starting", "rejecting", "releasing"}

\* A call that leases a worker, or starts one, has it in its hand
HandsOK ==
  /\ hand \in [Calls -> Workers \cup {None}]
  /\ \A c \in Calls : at[c] \in WorkerOnly => Lane(c) = "worker"
  /\ \A c \in Calls : at[c] \in {"starting", "leased"} /\ Lane(c) = "worker" => hand[c] \in Workers

OncePerTemp ==
  \A i, j \in 1..Len(cache) : Kind[cache[i].sid] = "temp" /\ cache[i].sid = cache[j].sid => i = j

\* A temporary session keeps one worker
CacheOK ==
  /\ cache \in Seq(Entries) /\ ending \in [Sessions -> Workers \cup {None}]
  /\ OncePerTemp

\* None while a call of it has a slot or waits for one: it took the worker it kept, with the permit
Beyond == Past \ {"admitted"}
TempOK == \A c \in Calls : at[c] \in Beyond /\ Kind[sid[c]] = "temp" => Matches(sid[c]) = {}

SlotTables == PermitsOK /\ HandsOK /\ CacheOK /\ TempOK

Extra(l) == IF l = "worker" THEN Cardinality(Kept) + Cardinality(Ending) ELSE 0

Balanced == \A l \in Lanes : Slack(l) = Extra(l)

LEMMA FiniteExtra ==
  ASSUME CacheOK
  PROVE  IsFiniteSet(Ending) /\ Cardinality(Ending) \in Nat /\ Cardinality(Kept) \in Nat
PROOF
<1>1. IsFiniteSet(Sessions) /\ Ending \in SUBSET Sessions
  BY ExecutionAssumption DEF Ending
<1>2. IsFiniteSet(Ending) /\ Cardinality(Ending) \in Nat
  BY <1>1, FS_Subset, FS_CardinalityType
<1>3. Len(cache) \in Nat /\ Kept \in SUBSET (1..Len(cache))
  BY DEF CacheOK, Kept
<1>4. IsFiniteSet(1..Len(cache))
  BY <1>3, FS_Interval
<1> QED BY <1>2, <1>3, <1>4, FS_Subset, FS_CardinalityType

LEMMA CacheShrinks ==
  ASSUME CacheOK, NEW i \in 1..Len(cache), cache' = Without(cache, i)
  PROVE  /\ cache' \in Seq(Entries) /\ OncePerTemp'
         /\ \A s : Matches(s) = {} => Matches(s)' = {}
         /\ \A s : s = cache[i].sid /\ Kind[s] = "temp" => Matches(s)' = {}
         /\ Cardinality(Kept') = Cardinality(Kept) - IF Kind[cache[i].sid] = "temp" THEN 1 ELSE 0
PROOF
<1>1. cache \in Seq(Entries) /\ Len(cache) \in Nat /\ i \in Nat
  BY DEF CacheOK
<1>2. /\ cache' \in Seq(Entries) /\ Len(cache') = Len(cache) - 1
      /\ \A j \in 1..Len(cache) - 1 : cache'[j] = cache[IF j < i THEN j ELSE j + 1]
  BY <1>1, WithoutFacts
<1> DEFINE o(j) == IF j < i THEN j ELSE j + 1
<1>3. ASSUME NEW j \in 1..Len(cache') PROVE o(j) \in 1..Len(cache) /\ o(j) # i /\ cache'[j] = cache[o(j)]
  BY <1>1, <1>2
<1>4. \A j, k \in 1..Len(cache') : o(j) = o(k) => j = k
  BY <1>1, <1>2
<1> HIDE DEF o
<1>5. OncePerTemp'
  <2>1. ASSUME NEW j \in 1..Len(cache'), NEW k \in 1..Len(cache'),
               Kind[cache'[j].sid] = "temp", cache'[j].sid = cache'[k].sid
        PROVE  j = k
    <3>1. o(j) = o(k)
      BY <1>3, <2>1 DEF CacheOK, OncePerTemp
    <3> QED BY <1>4, <3>1
  <2> QED BY <2>1 DEF OncePerTemp
<1>6. ASSUME NEW s, Matches(s) = {} PROVE Matches(s)' = {}
  BY <1>3, <1>6 DEF Matches
<1>7. ASSUME NEW s, s = cache[i].sid, Kind[s] = "temp" PROVE Matches(s)' = {}
  <2>1. \A j \in 1..Len(cache') : cache'[j].sid # s
    BY <1>3, <1>7 DEF CacheOK, OncePerTemp
  <2> QED BY <2>1 DEF Matches
<1>8. Kept = KeptIn(cache) /\ Kept' = KeptIn(Without(cache, i))
  BY DEF Kept, KeptIn
<1> QED BY <1>1, <1>2, <1>5, <1>6, <1>7, <1>8, WithoutKept

LEMMA CacheGrows ==
  ASSUME CacheOK, NEW e \in Entries, Kind[e.sid] = "temp" => Matches(e.sid) = {}, cache' = Append(cache, e)
  PROVE  /\ cache' \in Seq(Entries) /\ OncePerTemp'
         /\ \A s : s # e.sid /\ Matches(s) = {} => Matches(s)' = {}
         /\ Cardinality(Kept') = Cardinality(Kept) + IF Kind[e.sid] = "temp" THEN 1 ELSE 0
PROOF
<1>1. /\ cache \in Seq(Entries) /\ Len(cache) \in Nat /\ cache' \in Seq(Entries)
      /\ \A j \in 1..Len(cache') : (j \in 1..Len(cache) /\ cache'[j] = cache[j]) \/ (j = Len(cache) + 1 /\ cache'[j] = e)
  BY DEF CacheOK
<1>2. OncePerTemp'
  <2>1. ASSUME NEW j \in 1..Len(cache'), NEW k \in 1..Len(cache'),
               Kind[cache'[j].sid] = "temp", cache'[j].sid = cache'[k].sid
        PROVE  j = k
    <3>1. CASE j \in 1..Len(cache) /\ k \in 1..Len(cache)
      BY <1>1, <2>1, <3>1 DEF CacheOK, OncePerTemp
    <3>2. CASE j = Len(cache) + 1 /\ k \in 1..Len(cache)
      BY <1>1, <2>1, <3>2 DEF Matches
    <3>3. CASE j \in 1..Len(cache) /\ k = Len(cache) + 1
      BY <1>1, <2>1, <3>3 DEF Matches
    <3> QED BY <1>1, <3>1, <3>2, <3>3
  <2> QED BY <2>1 DEF OncePerTemp
<1>3. ASSUME NEW s, s # e.sid, Matches(s) = {} PROVE Matches(s)' = {}
  BY <1>1, <1>3 DEF Matches
<1>4. Kept = KeptIn(cache) /\ Kept' = KeptIn(Append(cache, e))
  BY DEF Kept, KeptIn
<1> QED BY <1>1, <1>2, <1>3, <1>4, AppendKept

-----------------------------------------------------------------------------
(* Steps, whatever the action                                              *)

\* What the await a call goes to asks of its lane, its hand and the cache
HandGoesOn(c) ==
  /\ at'[c] \in WorkerOnly => Lane(c)' = "worker"
  /\ at'[c] \in {"starting", "leased"} /\ Lane(c)' = "worker" => hand'[c] \in Workers

OthersKeep(c) ==
  /\ hand' \in [Calls -> Workers \cup {None}]
  /\ \A d \in Calls \ {c} : sid'[d] = sid[d] /\ hand'[d] = hand[d]

LEMMA TablesStand ==
  ASSUME AdmissionInv, SlotTables, NEW c \in Calls \cup {None}, OthersWait(c), OthersKeep(c), PermitsOK', CacheOK',
         \A d \in Calls \ {c}, s \in Sessions :
           s = sid[d] /\ at[d] \in Beyond /\ Kind[s] = "temp" /\ Matches(s) = {} => Matches(s)' = {},
         c \in Calls => HandGoesOn(c),
         \A s \in Sessions : c \in Calls /\ s = sid'[c] /\ at'[c] \in Beyond /\ Kind[s] = "temp" => Matches(s)' = {},
         c \in Calls => (at'[c] \in Beyond => sid'[c] \in Sessions)
  PROVE  SlotTables'
PROOF
<1>1. ASSUME NEW d \in Calls \ {c}
      PROVE  at'[d] = at[d] \/ (at[d] \in Beyond /\ at'[d] \in {"granted", "failing"})
  BY DEF OthersWait, Beyond, Past, Stages
<1>2. HandsOK'
  <2>1. \A d \in Calls \ {c} : Lane(d)' = Lane(d)
    BY DEF OthersKeep, Lane
  <2>2. ASSUME NEW d \in Calls, at'[d] \in WorkerOnly PROVE Lane(d)' = "worker"
    BY <1>1, <2>1, <2>2 DEF HandGoesOn, SlotTables, HandsOK, WorkerOnly
  <2>3. ASSUME NEW d \in Calls, at'[d] \in {"starting", "leased"}, Lane(d)' = "worker" PROVE hand'[d] \in Workers
    BY <1>1, <2>1, <2>3 DEF HandGoesOn, SlotTables, HandsOK, OthersKeep
  <2> QED BY <2>2, <2>3 DEF HandsOK, OthersKeep
<1>3. ASSUME NEW d \in Calls, NEW s \in Sessions, s = sid'[d], at'[d] \in Beyond, Kind[s] = "temp"
      PROVE  Matches(s)' = {}
  <2>1. CASE d = c
    BY <1>3, <2>1
  <2>2. CASE d # c
    <3>1. at[d] \in Beyond /\ sid[d] = s
      BY <1>1, <1>3, <2>2 DEF OthersKeep
    <3>2. Matches(s) = {}
      BY <1>3, <3>1 DEF SlotTables, TempOK
    <3> QED BY <1>3, <2>2, <3>1, <3>2
  <2> QED BY <2>1, <2>2
<1>4. TempOK'
  <2>1. ASSUME NEW d \in Calls, at'[d] \in Beyond, Kind[sid'[d]] = "temp" PROVE sid'[d] \in Sessions
    <3>1. CASE d = c
      BY <2>1, <3>1
    <3>2. CASE d # c
      <4>1. at[d] \in Beyond /\ sid'[d] = sid[d]
        BY <1>1, <2>1, <3>2 DEF OthersKeep
      <4> QED BY <4>1 DEF AdmissionInv, CallsOK, Beyond, Past
    <3> QED BY <3>1, <3>2
  <2>2. ASSUME NEW d \in Calls, at'[d] \in Beyond, Kind[sid'[d]] = "temp"
        PROVE  {j \in 1..Len(cache') : cache'[j].sid = sid'[d]} = {}
    <3>1. sid'[d] \in Sessions
      BY <2>1, <2>2
    <3>2. \A s \in Sessions : s = sid'[d] => {j \in 1..Len(cache') : cache'[j].sid = s} = {}
      BY <1>3, <2>2 DEF Matches
    <3> QED BY <3>1, <3>2
  <2> QED BY <2>2 DEF TempOK, Matches
<1> QED BY <1>2, <1>4 DEF SlotTables

(* A step that leaves the cache and what each lane counts alone.           *)
LEMMA Quiet ==
  ASSUME AdmissionInv, SlotTables, NEW c \in Calls \cup {None}, OthersWait(c), OthersKeep(c), PermitsOK',
         UNCHANGED cache, ending' = ending, \A m \in Lanes : Slack(m)' = Slack(m),
         c \in Calls => HandGoesOn(c),
         c \in Calls /\ at'[c] \in Beyond =>
           /\ sid'[c] = sid[c] /\ sid[c] \in Sessions
           /\ at[c] \in Beyond \/ ~(Kind[sid[c]] = "temp" /\ Matches(sid[c]) # {})
  PROVE  SlotTables' /\ (Balanced => Balanced')
PROOF
<1>1. \A s : Matches(s)' = Matches(s)
  BY DEF Matches
<1>2. CacheOK'
  BY DEF SlotTables, CacheOK, OncePerTemp
<1>3. \A s \in Sessions : c \in Calls /\ s = sid'[c] /\ at'[c] \in Beyond /\ Kind[s] = "temp" => Matches(s)' = {}
  BY <1>1 DEF SlotTables, TempOK
<1>4. SlotTables'
  BY <1>1, <1>2, <1>3, TablesStand
<1>5. \A m \in Lanes : Extra(m)' = Extra(m)
  BY DEF Extra, Kept, Ending
<1> QED BY <1>4, <1>5 DEF Balanced

LEMMA AloneQuiet ==
  ASSUME AdmissionInv, SlotTables, NEW c \in Calls, NEW next \in Stages \ {"queued"}, at[c] # "queued",
         at' = [at EXCEPT ![c] = next], next \in WithPermit <=> at[c] \in WithPermit,
         UNCHANGED <<gates, permit, cache>>, ending' = ending, OthersKeep(c), HandGoesOn(c),
         at[c] \in WithPermit => sid'[c] = sid[c],
         next \in Beyond =>
           /\ sid'[c] = sid[c] /\ sid[c] \in Sessions
           /\ at[c] \in Beyond \/ ~(Kind[sid[c]] = "temp" /\ Matches(sid[c]) # {})
  PROVE  SlotTables' /\ (Balanced => Balanced')
PROOF
<1>1. OthersWait(c) /\ at'[c] = next
  BY Alone
<1>2. \A d \in Calls : permit[d] => sid'[d] = sid[d]
  BY DEF SlotTables, PermitsOK, OthersKeep
<1>3. PermitsOK' /\ \A m \in Lanes : Slack(m)' = Slack(m)
  BY <1>2, AloneSlack DEF SlotTables
<1> QED BY <1>1, <1>3, Quiet

LEMMA GiveUpQuiet ==
  ASSUME AdmissionInv, SlotTables, NEW l \in Lanes, NEW c \in Calls, NEW quarantine,
         NEW next \in {"failing", "idle"}, GiveUp(l, c, quarantine, next),
         at[c] \in WithPermit, Lane(c) = l, UNCHANGED cache, ending' = ending, OthersKeep(c),
         next = "failing" => sid'[c] = sid[c]
  PROVE  SlotTables' /\ (Balanced => Balanced')
PROOF
<1>1. next \in Stages \ {"queued"} /\ at[c] # "queued" /\ permit[c] /\ c \in Calls \cup {None}
  BY DEF Stages, WithPermit, SlotTables, PermitsOK
<1>2. OthersWait(c) /\ at'[c] = next
  BY <1>1, GivenUp
<1>3. \A d \in Calls \ {c} : sid'[d] = sid[d]
  BY DEF OthersKeep
<1>4. /\ PermitsOK'
      /\ \A m \in Lanes \ {l} : Slack(m)' = Slack(m)
      /\ Slack(l)' = Slack(l) - 0
  BY <1>1, <1>3, GiveUpSlack DEF SlotTables
<1>5. Slack(l) \in Int
  <2>1. gates[l].active \in Int
    BY DEF AdmissionInv, QueuesOK, AnyGate
  <2> QED BY <2>1, FiniteHolders DEF Slack
<1>6. \A m \in Lanes : Slack(m)' = Slack(m)
  BY <1>4, <1>5
<1>7. HandGoesOn(c)
  BY <1>2 DEF HandGoesOn, WorkerOnly
<1>8. at'[c] \in Beyond => sid'[c] = sid[c] /\ sid[c] \in Sessions /\ at[c] \in Beyond
  BY <1>2 DEF Beyond, Past, Stages, WithPermit, AdmissionInv, CallsOK
<1> QED BY <1>1, <1>2, <1>4, <1>6, <1>7, <1>8, Quiet

(* The session lock, and the end of a call that failed.                    *)
LEMMA AcquireSlots ==
  ASSUME AdmissionInv, SlotTables, NEW c \in Calls,
         \/ \E s \in Sessions, p \in Calls \cup {None} : Submit(c, s, p)
         \/ Admit(c) \/ AdmitRefused(c) \/ Fail(c)
  PROVE  SlotTables' /\ (Balanced => Balanced')
PROOF
<1> USE DEF Stages, WithPermit, Beyond, Past, HandGoesOn, WorkerOnly
<1>h. /\ at \in [Calls -> Stages] /\ sid \in [Calls -> Sessions \cup {None}] /\ hand \in [Calls -> Workers \cup {None}]
      /\ at'[c] \notin WorkerOnly \cup {"starting", "leased"} => HandGoesOn(c)
  BY DEF AdmissionInv, CallsOK, SlotTables, HandsOK
<1>1. CASE \E s \in Sessions, p \in Calls \cup {None} : Submit(c, s, p)
  <2>1. at[c] = "idle" /\ at' = [at EXCEPT ![c] = "admitting"] /\ UNCHANGED <<gates, permit, cache, hand, ending>>
        /\ \E s \in Sessions : sid' = [sid EXCEPT ![c] = s]
    BY <1>1 DEF Submit
  <2>2. OthersKeep(c) /\ HandGoesOn(c)
    BY <1>h, <2>1 DEF OthersKeep
  <2> QED BY <2>1, <2>2, AloneQuiet
<1>2. CASE Admit(c)
  <2>1. at[c] = "admitting" /\ at' = [at EXCEPT ![c] = "admitted"] /\ UNCHANGED <<gates, permit, cache, hand, sid, ending>>
    BY <1>2 DEF Admit
  <2>2. OthersKeep(c) /\ HandGoesOn(c)
    BY <1>h, <2>1 DEF OthersKeep
  <2> QED BY <2>1, <2>2, AloneQuiet
<1>3. CASE AdmitRefused(c) \/ Fail(c)
  <2>1. at[c] \in {"admitting", "failing"} /\ at' = [at EXCEPT ![c] = "idle"] /\ UNCHANGED <<gates, permit, cache, ending>>
        /\ sid' = [sid EXCEPT ![c] = None] /\ hand' = [hand EXCEPT ![c] = None]
    BY <1>3 DEF AdmitRefused, Fail, Forget
  <2>2. OthersKeep(c) /\ HandGoesOn(c)
    BY <1>h, <2>1 DEF OthersKeep
  <2> QED BY <2>1, <2>2, AloneQuiet
<1> QED BY <1>1, <1>2, <1>3

(* A permit is asked for, and the answer is all that happens to the cache. *)
LEMMA AskQuiet ==
  ASSUME AdmissionInv, SlotTables, NEW c \in Calls, NEW l \in Lanes, l = Lane(c), at[c] \in Past \ {"queued"},
         NEW g \in AnyGate, Distinct(g.waiters), NEW lucky, IsFiniteSet(lucky), RequestPermit(c, l, g, lucky),
         Members(g.waiters) \subseteq Members(gates[l].waiters),
         lucky \subseteq Members(gates[l].waiters), lucky \cap Members(g.waiters) = {},
         g.active = gates[l].active + Cardinality(lucky) - (IF permit[c] THEN 1 ELSE 0),
         UNCHANGED <<sid, cache>>, ending' = ending, OthersKeep(c),
         at[c] \in Beyond \/ ~(Kind[sid[c]] = "temp" /\ Matches(sid[c]) # {})
  PROVE  SlotTables' /\ (Balanced => Balanced')
PROOF
<1>1. OthersWait(c) /\ at'[c] \in {"granted", "failing", "queued"}
  BY Asked
<1>2. PermitsOK' /\ \A m \in Lanes : Slack(m)' = Slack(m)
  BY AskSlack DEF SlotTables
<1>3. HandGoesOn(c) /\ sid[c] \in Sessions
  BY <1>1 DEF HandGoesOn, WorkerOnly, AdmissionInv, CallsOK, Past, Stages
<1> QED BY <1>1, <1>2, <1>3, Quiet

(* A worker is found wanting, made, started or torn down under the permit  *)
(* of its call.                                                            *)
LEMMA WorkerSlots ==
  ASSUME AdmissionInv, SlotTables, NEW c \in Calls,
         \/ UsePrimary(c) \/ CreateFails(c)
         \/ \E w \in Workers, compatible \in BOOLEAN : Created(c, w, compatible)
         \/ \E ok \in BOOLEAN : DiscardDone(c, ok) \/ StartDone(c, ok) \/ RejectDone(c, ok) \/ ReleaseDone(c, ok)
  PROVE  SlotTables' /\ (Balanced => Balanced')
PROOF
<1>h. /\ at \in [Calls -> Stages] /\ sid \in [Calls -> Sessions \cup {None}] /\ hand \in [Calls -> Workers \cup {None}]
      /\ {"worker", "primary"} \subseteq Lanes
      /\ at[c] \in WorkerOnly => Lane(c) = "worker"
      /\ at[c] # "idle" => sid[c] \in Sessions
  BY DEF AdmissionInv, CallsOK, SlotTables, HandsOK, Lanes
<1>k. ASSUME UNCHANGED sid \/ sid' = [sid EXCEPT ![c] = None],
             \/ UNCHANGED hand
             \/ hand' = [hand EXCEPT ![c] = None]
             \/ \E w \in Workers : hand' = [hand EXCEPT ![c] = w]
      PROVE  OthersKeep(c)
  BY <1>h, <1>k DEF OthersKeep
<1>1. CASE UsePrimary(c)
  <2>1. at[c] = "granted" /\ Lane(c) = "primary" /\ UNCHANGED <<cache, hand, sid, ending>>
    BY <1>1 DEF UsePrimary
  <2>2. OthersKeep(c)
    BY <1>k, <2>1
  <2>3. CASE GiveUp("primary", c, FALSE, "failing")
    <3>1. at[c] \in WithPermit
      BY <2>1 DEF WithPermit
    <3> QED BY <1>h, <2>1, <2>2, <2>3, <3>1, GiveUpQuiet
  <2>4. CASE at' = [at EXCEPT ![c] = "leased"] /\ UNCHANGED <<gates, permit>>
    <3>1. HandGoesOn(c)
      BY <1>h, <2>1, <2>4 DEF HandGoesOn, WorkerOnly, Lane
    <3>2. /\ "leased" \in Stages \ {"queued"} /\ at[c] # "queued" /\ ("leased" \in WithPermit <=> at[c] \in WithPermit)
          /\ sid[c] \in Sessions /\ at[c] \in Beyond
      BY <1>h, <2>1 DEF Stages, WithPermit, Beyond, Past
    <3> QED BY <2>1, <2>2, <2>4, <3>1, <3>2, AloneQuiet
  <2> QED BY <1>1, <2>3, <2>4 DEF UsePrimary
<1>2. CASE CreateFails(c)
  <2>1. at[c] = "creating" /\ UNCHANGED <<cache, hand, sid, ending>> /\ GiveUp("worker", c, FALSE, "failing")
    BY <1>2 DEF CreateFails
  <2>2. OthersKeep(c) /\ at[c] \in WithPermit /\ Lane(c) = "worker"
    BY <1>h, <1>k, <2>1 DEF WithPermit, WorkerOnly
  <2> QED BY <1>h, <2>1, <2>2, GiveUpQuiet
<1>3. ASSUME NEW ok \in BOOLEAN, RejectDone(c, ok) PROVE SlotTables' /\ (Balanced => Balanced')
  <2>1. at[c] = "rejecting" /\ UNCHANGED <<cache, sid, ending>> /\ hand' = [hand EXCEPT ![c] = None]
        /\ GiveUp("worker", c, ~ok, "failing")
    BY <1>3 DEF RejectDone
  <2>2. OthersKeep(c) /\ at[c] \in WithPermit /\ Lane(c) = "worker"
    BY <1>h, <1>k, <2>1 DEF WithPermit, WorkerOnly
  <2> QED BY <1>h, <2>1, <2>2, GiveUpQuiet
<1>4. ASSUME NEW ok \in BOOLEAN, ReleaseDone(c, ok) PROVE SlotTables' /\ (Balanced => Balanced')
  <2>1. at[c] = "releasing" /\ UNCHANGED <<cache, ending>> /\ hand' = [hand EXCEPT ![c] = None]
        /\ sid' = [sid EXCEPT ![c] = None] /\ GiveUp("worker", c, ~ok, "idle")
    BY <1>4 DEF ReleaseDone, Forget
  <2>2. OthersKeep(c) /\ at[c] \in WithPermit /\ Lane(c) = "worker"
    BY <1>h, <1>k, <2>1 DEF WithPermit, WorkerOnly
  <2> QED BY <1>h, <2>1, <2>2, GiveUpQuiet
<1>5. ASSUME NEW ok \in BOOLEAN, DiscardDone(c, ok), ~ok PROVE SlotTables' /\ (Balanced => Balanced')
  <2>1. at[c] \in {"discarding", "evicting"} /\ UNCHANGED <<cache, sid, ending>> /\ hand' = [hand EXCEPT ![c] = None]
        /\ GiveUp("worker", c, TRUE, "failing")
    BY <1>5 DEF DiscardDone
  <2>2. OthersKeep(c) /\ at[c] \in WithPermit /\ Lane(c) = "worker"
    BY <1>h, <1>k, <2>1 DEF WithPermit, WorkerOnly
  <2> QED BY <1>h, <2>1, <2>2, GiveUpQuiet
<1>w. ASSUME NEW next \in {"scavenging", "granted", "starting", "rejecting", "leased"}, at' = [at EXCEPT ![c] = next],
             at[c] \in {"discarding", "evicting", "creating", "starting"},
             UNCHANGED <<gates, permit, cache, sid>>, ending' = ending, OthersKeep(c),
             next \in {"starting", "leased"} => hand'[c] \in Workers
      PROVE  SlotTables' /\ (Balanced => Balanced')
  <2>1. Lane(c)' = "worker" /\ at'[c] = next
    BY <1>h, <1>w DEF WorkerOnly, Lane
  <2>2. HandGoesOn(c)
    BY <1>w, <2>1 DEF HandGoesOn
  <2>3. /\ next \in Stages \ {"queued"} /\ at[c] # "queued" /\ (next \in WithPermit <=> at[c] \in WithPermit)
        /\ sid[c] \in Sessions /\ at[c] \in Beyond
    BY <1>h, <1>w DEF Stages, WithPermit, Beyond, Past
  <2> QED BY <1>w, <2>2, <2>3, AloneQuiet
<1>6. ASSUME NEW ok \in BOOLEAN, DiscardDone(c, ok), ok PROVE SlotTables' /\ (Balanced => Balanced')
  <2>1. at[c] \in {"discarding", "evicting"} /\ UNCHANGED <<cache, sid, ending, gates, permit>> /\ hand' = [hand EXCEPT ![c] = None]
        /\ \E next \in {"scavenging", "granted"} : at' = [at EXCEPT ![c] = next]
    BY <1>6, <1>h DEF DiscardDone
  <2>2. OthersKeep(c)
    BY <1>k, <2>1
  <2> QED BY <1>w, <2>1, <2>2
<1>7. ASSUME NEW ok \in BOOLEAN, StartDone(c, ok) PROVE SlotTables' /\ (Balanced => Balanced')
  <2>1. at[c] = "starting" /\ UNCHANGED <<cache, sid, ending, gates, permit, hand>>
        /\ \E next \in {"leased", "rejecting"} : at' = [at EXCEPT ![c] = next]
    BY <1>7 DEF StartDone
  <2>2. OthersKeep(c)
    BY <1>k, <2>1
  <2>3. hand'[c] \in Workers
    BY <1>h, <2>1 DEF WorkerOnly, SlotTables, HandsOK
  <2> QED BY <1>w, <2>1, <2>2, <2>3
<1>8. ASSUME NEW w \in Workers, NEW compatible \in BOOLEAN, Created(c, w, compatible) PROVE SlotTables' /\ (Balanced => Balanced')
  <2>1. at[c] = "creating" /\ UNCHANGED <<cache, sid, ending, gates, permit>> /\ hand' = [hand EXCEPT ![c] = w]
        /\ \E next \in {"starting", "rejecting"} : at' = [at EXCEPT ![c] = next]
    BY <1>8 DEF Created
  <2>2. OthersKeep(c) /\ hand'[c] \in Workers
    BY <1>h, <1>k, <2>1
  <2> QED BY <1>w, <2>1, <2>2
<1> QED BY <1>1, <1>2, <1>3, <1>4, <1>5, <1>6, <1>7, <1>8

(* The answer to a request for a permit, also of one who gives a permit up.*)
LEMMA RequestSlots ==
  ASSUME AdmissionInv, SlotTables, NEW c \in Calls, Proceed(c) \/ \E ok \in BOOLEAN : DiscardRetainedDone(c, ok)
  PROVE  SlotTables' /\ (Balanced => Balanced')
PROOF
<1>h. /\ at \in [Calls -> Stages] /\ sid \in [Calls -> Sessions \cup {None}] /\ hand \in [Calls -> Workers \cup {None}]
      /\ {"worker", "primary"} \subseteq Lanes /\ Lane(c) \in Lanes
      /\ \A l \in Lanes : gates[l] \in AnyGate /\ Distinct(gates[l].waiters) /\ gates[l].active \in Int
  BY DEF AdmissionInv, CallsOK, QueuesOK, AnyGate, SlotTables, HandsOK, Lanes, Lane
<1>1. CASE Proceed(c)
  <2> DEFINE g == gates[Lane(c)]
  <2>1. /\ g \in AnyGate /\ Distinct(g.waiters) /\ Members(g.waiters) \subseteq Members(gates[Lane(c)].waiters)
        /\ {} \subseteq Members(gates[Lane(c)].waiters) /\ {} \cap Members(g.waiters) = {} /\ IsFiniteSet({})
    BY <1>h, FS_EmptySet
  <2>2. /\ at[c] = "admitted" /\ RequestPermit(c, Lane(c), g, {}) /\ UNCHANGED <<sid, hand, cache, ending>>
        /\ ~(Kind[sid[c]] = "temp" /\ Matches(sid[c]) # {})
    BY <1>1 DEF Proceed
  <2>3. ~permit[c] /\ at[c] \in Past \ {"queued"}
    BY <2>2 DEF SlotTables, PermitsOK, WithPermit, Past, Stages
  <2>4. g.active = gates[Lane(c)].active + Cardinality({}) - (IF permit[c] THEN 1 ELSE 0)
    BY <1>h, <2>3, FS_EmptySet
  <2>5. OthersKeep(c)
    BY <1>h, <2>2 DEF OthersKeep
  <2> HIDE DEF g
  <2> QED BY <1>h, <2>1, <2>2, <2>3, <2>4, <2>5, AskQuiet
<1>2. ASSUME NEW ok \in BOOLEAN, DiscardRetainedDone(c, ok) PROVE SlotTables' /\ (Balanced => Balanced')
  <2>1. at[c] = "discardingRetained" /\ hand' = [hand EXCEPT ![c] = None] /\ UNCHANGED <<sid, cache, ending>>
    BY <1>2 DEF DiscardRetainedDone
  <2>2. OthersKeep(c) /\ at[c] \in WithPermit /\ Lane(c) = "worker" /\ permit[c] /\ at[c] \in Past \ {"queued"} /\ at[c] \in Beyond
    BY <1>h, <2>1 DEF WithPermit, WorkerOnly, OthersKeep, SlotTables, HandsOK, PermitsOK, Past, Stages, Beyond
  <2>3. CASE GiveUp("worker", c, ~ok, "failing")
    BY <1>h, <2>1, <2>2, <2>3, GiveUpQuiet
  <2> DEFINE g == Release(PoolSize, gates["worker"], ~ok)
             s == Served(PoolSize, gates["worker"], ~ok)
  <2>4. CASE RequestPermit(c, "worker", g, s)
    <3>1. gates["worker"] \in AnyGate /\ Distinct(gates["worker"].waiters) /\ PoolSize \in Int
      BY <1>h, ExecutionAssumption
    <3>2. /\ g \in AnyGate /\ Distinct(g.waiters) /\ Members(g.waiters) \subseteq Members(gates["worker"].waiters)
          /\ s \subseteq Members(gates["worker"].waiters) /\ s \cap Members(g.waiters) = {}
      BY <3>1, ReleaseQueue
    <3>3. IsFiniteSet(s) /\ g.active = gates["worker"].active - 1 + Cardinality(s)
      BY <3>1, ReleaseCounts
    <3> HIDE DEF g, s
    <3>4. g.active = gates["worker"].active + Cardinality(s) - (IF permit[c] THEN 1 ELSE 0)
      BY <1>h, <2>2, <3>3, FS_CardinalityType
    <3> QED BY <1>h, <2>1, <2>2, <2>4, <3>2, <3>3, <3>4, AskQuiet
  <2> QED BY <1>2, <2>3, <2>4 DEF DiscardRetainedDone
<1> QED BY <1>1, <1>2

-----------------------------------------------------------------------------
(* No gate gives out more than it has, so that what scavenging may leave   *)
(* in the cache is never negative.                                         *)

RoomOK ==
  /\ allowed \in [Calls -> Nat]
  /\ \A l \in Lanes : Available(Cap(l), gates[l]) >= 0

LEMMA ReleaseRoom ==
  ASSUME NEW g \in AnyGate, NEW cap \in Int, Available(cap, g) >= 0, NEW quarantine
  PROVE  Available(cap, Release(cap, g, quarantine)) >= 0
PROOF
<1> DEFINE h == GiveBack(g, quarantine)
           n == Drained(cap, h)
<1>1. h \in AnyGate /\ h.active = g.active - 1 /\ h.quarantined \in {g.quarantined, g.quarantined + 1}
  BY DEF AnyGate, GiveBack
<1>2. g.active \in Int /\ g.quarantined \in Int /\ h.active \in Int /\ h.quarantined \in Int /\ Len(h.waiters) \in Nat
  BY <1>1 DEF AnyGate
<1> HIDE DEF h
<1>3. Available(cap, h) \in Nat
  <2>1. cap - g.quarantined - g.active >= 0
    BY DEF Available
  <2>2. CASE h.quarantined = g.quarantined
    <3>1. cap - h.quarantined - h.active >= 0 /\ cap - h.quarantined - h.active \in Int
      BY <1>1, <1>2, <2>1, <2>2
    <3> QED BY <3>1 DEF Available
  <2>3. CASE h.quarantined = g.quarantined + 1
    <3>1. cap - h.quarantined - h.active >= 0 /\ cap - h.quarantined - h.active \in Int
      BY <1>1, <1>2, <2>1, <2>3
    <3> QED BY <3>1 DEF Available
  <2> QED BY <1>1, <2>2, <2>3
<1>4. n \in 0..Available(cap, h)
  BY <1>2, <1>3 DEF Drained
<1> HIDE DEF n
<1>5. Available(cap, Drain(cap, h)) = Available(cap, h) - n
  <2>1. Drain(cap, h).active = h.active + n /\ Drain(cap, h).quarantined = h.quarantined
    BY DEF Drain, n
  <2> QED BY <1>2, <1>4, <2>1 DEF Available
<1>6. Available(cap, Drop(h)) = Available(cap, h)
  BY <1>1 DEF Available, Drop, AnyGate
<1>7. Release(cap, g, quarantine) \in {Drop(h), Drain(cap, h)}
  BY DEF Release, h
<1> QED BY <1>3, <1>4, <1>5, <1>6, <1>7

LEMMA RequestRoom ==
  ASSUME NEW g \in AnyGate, NEW l \in Lanes, Available(Cap(l), g) >= 0, NEW c \in Calls
  PROVE  Available(Cap(l), Requested(g, c, Answer(l, g, c))) >= 0
PROOF
<1>1. Cap(l) \in Int /\ g.active \in Int /\ g.quarantined \in Int
  BY ExecutionAssumption DEF Cap, AnyGate
<1>2. Answer(l, g, c) \in {"granted", "failing", "queued"}
  BY DEF Answer
<1>3. CASE Answer(l, g, c) = "granted"
  <2>1. Available(Cap(l), g) > 0
    BY <1>3 DEF Answer, SlotFree
  <2>2. Requested(g, c, Answer(l, g, c)) = Take(g)
    BY <1>3 DEF Requested
  <2>3. Take(g).active = g.active + 1 /\ Take(g).quarantined = g.quarantined
    BY DEF Take, AnyGate
  <2> QED BY <1>1, <2>1, <2>2, <2>3 DEF Available
<1>4. CASE Answer(l, g, c) = "queued"
  <2>1. Requested(g, c, Answer(l, g, c)) = Enqueue(g, c)
    BY <1>4 DEF Requested
  <2>2. Enqueue(g, c).active = g.active /\ Enqueue(g, c).quarantined = g.quarantined
    BY DEF Enqueue, AnyGate
  <2> QED BY <1>1, <2>1, <2>2 DEF Available
<1>5. CASE Answer(l, g, c) = "failing"
  BY <1>5 DEF Requested
<1> QED BY <1>2, <1>3, <1>4, <1>5

LEMMA QuarantineRoom ==
  ASSUME NEW g \in AnyGate, NEW cap \in Int, Available(cap, g) >= 0
  PROVE  Available(cap, QuarantineSlot(cap, g)) >= 0 /\ QuarantineSlot(cap, g).active = g.active
PROOF
<1>1. g.active \in Int /\ g.quarantined \in Int
  BY DEF AnyGate
<1>2. /\ Quarantine(g) \in AnyGate
      /\ Quarantine(g).active = g.active /\ Quarantine(g).quarantined = g.quarantined + 1
      /\ Drop(Quarantine(g)).active = g.active /\ Drop(Quarantine(g)).quarantined = g.quarantined + 1
  BY DEF Quarantine, Drop, AnyGate
<1>3. CASE QuarantineSlot(cap, g) = g
  BY <1>3
<1>4. CASE QuarantineSlot(cap, g) # g
  <2>1. Available(cap, g) > 0 /\ QuarantineSlot(cap, g) \in {Quarantine(g), Drop(Quarantine(g))}
    BY <1>1, <1>4 DEF QuarantineSlot, Available
  <2> QED BY <1>1, <1>2, <2>1 DEF Available
<1> QED BY <1>3, <1>4

LEMMA StepRoom == AdmissionInv /\ RoomOK /\ [ExecNext]_execVars => RoomOK'
PROOF
<1> SUFFICES ASSUME AdmissionInv, RoomOK, [ExecNext]_execVars PROVE RoomOK'
  OBVIOUS
<1>h. /\ \A l \in Lanes : gates[l] \in AnyGate /\ Cap(l) \in Int /\ Available(Cap(l), gates[l]) >= 0
      /\ {"worker", "primary"} \subseteq Lanes /\ Cap("worker") = PoolSize /\ \A c : Lane(c) \in Lanes
      /\ gates \in [Lanes -> AnyGate]
  BY ExecutionAssumption DEF AdmissionInv, QueuesOK, RoomOK, Cap, Lanes, Lane
<1>q. ASSUME allowed' \in [Calls -> Nat], UNCHANGED gates PROVE RoomOK'
  BY <1>q DEF RoomOK
<1>g. ASSUME allowed' \in [Calls -> Nat], NEW l \in Lanes, NEW g, Available(Cap(l), g) >= 0, gates' = [gates EXCEPT ![l] = g]
      PROVE  RoomOK'
  <2>1. \A m \in Lanes : gates'[m] = IF m = l THEN g ELSE gates[m]
    BY <1>h, <1>g
  <2> QED BY <1>h, <1>g, <2>1 DEF RoomOK
<1>r. ASSUME allowed' \in [Calls -> Nat], NEW l \in Lanes, NEW c, NEW q, NEW next, GiveUp(l, c, q, next) PROVE RoomOK'
  <2>1. Available(Cap(l), Release(Cap(l), gates[l], q)) >= 0
    BY <1>h, ReleaseRoom
  <2>2. gates' = [gates EXCEPT ![l] = Release(Cap(l), gates[l], q)]
    BY <1>r DEF GiveUp, Regate
  <2> QED BY <1>g, <1>r, <2>1, <2>2
<1>a. ASSUME allowed' \in [Calls -> Nat], NEW c \in Calls, NEW l \in Lanes, NEW g \in AnyGate, Available(Cap(l), g) >= 0,
             NEW lucky, RequestPermit(c, l, g, lucky)
      PROVE  RoomOK'
  <2>1. Available(Cap(l), Requested(g, c, Answer(l, g, c))) >= 0
    BY <1>a, RequestRoom
  <2>2. gates' = [gates EXCEPT ![l] = Requested(g, c, Answer(l, g, c))]
    BY <1>a DEF RequestPermit, Regate
  <2> QED BY <1>a, <1>g, <2>1, <2>2
<1>e. allowed \in [Calls -> Nat]
  BY DEF RoomOK
<1>1. ASSUME NEW c \in Calls, CallStep(c) PROVE RoomOK'
  <2>1. CASE Proceed(c)
    BY <1>a, <1>e, <1>h, <2>1 DEF Proceed
  <2>2. CASE ProceedRetained(c) \/ UseCached(c) \/ Fail(c) \/ \E ok \in BOOLEAN : StartDone(c, ok) \/ Created(c, FreeWorker, ok)
    BY <1>e, <1>q, <2>2 DEF ProceedRetained, UseCached, Fail, StartDone, Created
  <2>3. CASE UsePrimary(c)
    BY <1>e, <1>q, <1>r, <1>h, <2>3 DEF UsePrimary
  <2>4. CASE SearchFails(c) \/ Scavenge(c)
    <3>1. PICK limit \in Nat : Recycle(c, limit)
      <4>1. Available(PoolSize, gates["worker"]) \in Nat
        BY <1>h DEF Available, AnyGate
      <4> QED BY <1>e, <2>4, <4>1 DEF SearchFails, Scavenge
    <3>2. allowed' \in [Calls -> Nat] /\ UNCHANGED gates
      BY <1>e, <3>1 DEF Recycle
    <3> QED BY <1>q, <3>2
  <2>5. CASE CreateFails(c)
    BY <1>e, <1>r, <1>h, <2>5 DEF CreateFails
  <2>6. ASSUME NEW ok \in BOOLEAN, DiscardRetainedDone(c, ok) PROVE RoomOK'
    <3> DEFINE g == Release(PoolSize, gates["worker"], ~ok)
               s == Served(PoolSize, gates["worker"], ~ok)
    <3>1. UNCHANGED allowed /\ (RequestPermit(c, "worker", g, s) \/ GiveUp("worker", c, ~ok, "failing"))
      BY <2>6 DEF DiscardRetainedDone
    <3>2. Available(Cap("worker"), g) >= 0 /\ g \in AnyGate
      <4>1. gates["worker"] \in AnyGate /\ PoolSize \in Int /\ Distinct(gates["worker"].waiters)
            /\ Available(PoolSize, gates["worker"]) >= 0
        BY <1>h DEF AdmissionInv, QueuesOK
      <4>2. Available(PoolSize, g) >= 0
        BY <4>1, ReleaseRoom
      <4>3. g \in AnyGate
        BY <4>1, ReleaseQueue
      <4> QED BY <1>h, <4>2, <4>3
    <3> HIDE DEF g, s
    <3> QED BY <1>a, <1>e, <1>r, <1>h, <3>1, <3>2
  <2>7. ASSUME NEW ok \in BOOLEAN, DiscardDone(c, ok) PROVE RoomOK'
    <3>1. allowed' \in [Calls -> Nat]
      <4>1. UNCHANGED allowed \/ allowed' = [allowed EXCEPT ![c] = 0]
        BY <2>7 DEF DiscardDone
      <4> QED BY <1>e, <4>1
    <3>2. UNCHANGED gates \/ GiveUp("worker", c, TRUE, "failing")
      BY <2>7 DEF DiscardDone
    <3> QED BY <1>q, <1>r, <1>h, <3>1, <3>2
  <2>8. ASSUME NEW ok \in BOOLEAN, RejectDone(c, ok) \/ ReleaseDone(c, ok) PROVE RoomOK'
    <3>1. UNCHANGED allowed /\ (GiveUp("worker", c, ~ok, "failing") \/ GiveUp("worker", c, ~ok, "idle"))
      BY <2>8 DEF RejectDone, ReleaseDone
    <3> QED BY <1>e, <1>r, <1>h, <3>1
  <2>9. ASSUME NEW ok \in BOOLEAN, EndTurn(c, ok) PROVE RoomOK'
    <3>1. UNCHANGED allowed /\ (UNCHANGED gates \/ GiveUp(Lane(c), c, FALSE, "idle"))
      BY <2>9 DEF EndTurn
    <3> QED BY <1>e, <1>q, <1>r, <1>h, <3>1
  <2> QED BY <1>1, <2>1, <2>2, <2>3, <2>4, <2>5, <2>6, <2>7, <2>8, <2>9 DEF CallStep
<1>2. ASSUME NEW c \in Calls, \/ Admit(c) \/ AdmitRefused(c)
                              \/ \E s \in Sessions, p \in Calls \cup {None} : Submit(c, s, p)
      PROVE  RoomOK'
  BY <1>2, <1>e, <1>q DEF Admit, AdmitRefused, Submit
<1>3. ASSUME NEW s \in Sessions, NEW ok \in BOOLEAN, ResetDone(s, ok) PROVE RoomOK'
  <2>1. CASE ok
    BY <1>3, <1>e, <1>q, <2>1 DEF ResetDone
  <2>2. CASE ~ok
    <3>1. Available(Cap("worker"), QuarantineSlot(PoolSize, gates["worker"])) >= 0
      BY <1>h, QuarantineRoom
    <3>2. gates' = [gates EXCEPT !["worker"] = QuarantineSlot(PoolSize, gates["worker"])] /\ UNCHANGED allowed
      BY <1>3, <2>2 DEF ResetDone, Regate
    <3> QED BY <1>e, <1>g, <1>h, <3>1, <3>2
  <2> QED BY <2>1, <2>2
<1>4. ASSUME NEW s \in Sessions, NEW ok \in BOOLEAN, EndTempDone(s, ok) PROVE RoomOK'
  BY <1>4, <1>e, <1>h, <1>r DEF EndTempDone
<1>5. CASE Dispose
  <2>1. ASSUME NEW l \in Lanes PROVE Available(Cap(l), gates'[l]) >= 0
    <3>1. gates'[l] = Close(gates[l])
      BY <1>5 DEF Dispose
    <3>2. Close(gates[l]).active = gates[l].active /\ Close(gates[l]).quarantined = gates[l].quarantined
      BY <1>h DEF Close, Drop, AnyGate
    <3> QED BY <1>h, <3>1, <3>2 DEF Available
  <2> QED BY <1>5, <1>e, <2>1 DEF Dispose, RoomOK
<1>6. CASE \/ \E s \in Sessions : Reset(s) \/ ResetShared(s) \/ EndTemp(s)
           \/ DisposeStep \/ UNCHANGED execVars \/ \E i \in 1..Cardinality(Workers) : CachedBreaks(i)
  BY <1>6, <1>e, <1>q DEF Reset, ResetShared, EndTemp, DisposeStep, BeginTeardown, DisposeOne, FinishDispose, CachedBreaks,
     execVars, callVars
<1> QED BY <1>1, <1>2, <1>3, <1>4, <1>5, <1>6 DEF ExecNext, SessionStep

-----------------------------------------------------------------------------
(* Workers leave the cache                                                 *)

LEMMA TakeEntry ==
  ASSUME AdmissionInv, SlotTables, NEW c \in Calls \cup {None}, NEW i \in 1..Len(cache), cache' = Without(cache, i),
         OthersWait(c), OthersKeep(c), PermitsOK', ending' \in [Sessions -> Workers \cup {None}],
         c \in Calls => HandGoesOn(c),
         c \in Calls /\ at'[c] \in Beyond =>
           sid'[c] = sid[c] /\ sid[c] \in Sessions /\ (at[c] \in Beyond \/ sid[c] = cache[i].sid)
  PROVE  /\ SlotTables'
         /\ Cardinality(Kept') = Cardinality(Kept) - IF Kind[cache[i].sid] = "temp" THEN 1 ELSE 0
PROOF
<1>0. CacheOK
  BY DEF SlotTables
<1>1. /\ cache' \in Seq(Entries) /\ OncePerTemp'
      /\ \A s : Matches(s) = {} => Matches(s)' = {}
      /\ \A s : s = cache[i].sid /\ Kind[s] = "temp" => Matches(s)' = {}
      /\ Cardinality(Kept') = Cardinality(Kept) - IF Kind[cache[i].sid] = "temp" THEN 1 ELSE 0
  BY <1>0, CacheShrinks
<1>2. CacheOK'
  BY <1>1 DEF CacheOK
<1>3. ASSUME NEW s \in Sessions, c \in Calls, s = sid'[c], at'[c] \in Beyond, Kind[s] = "temp" PROVE Matches(s)' = {}
  <2>1. CASE at[c] \in Beyond
    <3>1. Matches(s) = {}
      BY <1>3, <2>1 DEF SlotTables, TempOK
    <3> QED BY <1>1, <3>1
  <2>2. CASE sid[c] = cache[i].sid
    BY <1>1, <1>3, <2>2
  <2> QED BY <1>3, <2>1, <2>2
<1>4. SlotTables'
  BY <1>1, <1>2, <1>3, TablesStand
<1> QED BY <1>1, <1>4

LEMMA EntryFound ==
  ASSUME CacheOK, NEW S, S \subseteq 1..Len(cache), S # {}
  PROVE  /\ First(S) \in S /\ First(S) \in 1..Len(cache)
         /\ cache[First(S)].worker \in Workers /\ cache[First(S)].sid \in Sessions
PROOF
<1>1. Len(cache) \in Nat /\ S \subseteq Nat
  BY DEF CacheOK
<1>2. First(S) \in S
  BY <1>1, FirstExists
<1>3. First(S) \in 1..Len(cache)
  BY <1>2
<1>4. cache[First(S)] \in Entries
  BY <1>3 DEF CacheOK
<1> QED BY <1>2, <1>3, <1>4 DEF Entries

(* A call takes a worker that brought no permit along.                     *)
LEMMA TakeSlots ==
  ASSUME AdmissionInv, SlotTables, NEW c \in Calls, NEW i \in 1..Len(cache), cache' = Without(cache, i),
         Kind[cache[i].sid] # "temp", at[c] \in {"granted", "scavenging"}, Lane(c) = "worker",
         NEW next \in {"leased", "discarding", "rejecting", "evicting"}, at' = [at EXCEPT ![c] = next],
         hand' = [hand EXCEPT ![c] = cache[i].worker], cache[i].worker \in Workers,
         UNCHANGED <<gates, permit, sid>>, ending' = ending
  PROVE  SlotTables' /\ (Balanced => Balanced')
PROOF
<1>1. /\ next \in Stages \ {"queued"} /\ at[c] # "queued" /\ (next \in WithPermit <=> at[c] \in WithPermit)
      /\ at[c] \in Beyond /\ at[c] # "idle"
  BY DEF Stages, WithPermit, Beyond, Past
<1>2. OthersWait(c) /\ at'[c] = next
  BY <1>1, Alone
<1>3. OthersKeep(c) /\ hand'[c] \in Workers
  BY DEF OthersKeep, SlotTables, HandsOK
<1>4. HandGoesOn(c)
  <2>1. Lane(c)' = "worker"
    BY DEF Lane
  <2> QED BY <1>3, <2>1 DEF HandGoesOn
<1>5. PermitsOK' /\ \A m \in Lanes : Slack(m)' = Slack(m)
  BY <1>1, AloneSlack DEF SlotTables
<1>6. ending' \in [Sessions -> Workers \cup {None}] /\ sid[c] \in Sessions
  BY <1>1 DEF SlotTables, CacheOK, AdmissionInv, CallsOK
<1>7. SlotTables' /\ Cardinality(Kept') = Cardinality(Kept) - 0
  BY <1>1, <1>2, <1>3, <1>4, <1>5, <1>6, TakeEntry
<1>8. Cardinality(Kept) \in Nat
  BY FiniteExtra DEF SlotTables
<1>9. \A m \in Lanes : Extra(m)' = Extra(m)
  <2>1. Ending' = Ending
    BY DEF Ending
  <2> QED BY <1>7, <1>8, <2>1 DEF Extra
<1> QED BY <1>5, <1>7, <1>9 DEF Balanced

LEMMA CacheSlots ==
  ASSUME AdmissionInv, SlotTables, RoomOK, NEW c \in Calls, UseCached(c) \/ SearchFails(c) \/ Scavenge(c)
  PROVE  SlotTables' /\ (Balanced => Balanced')
PROOF
<1>h. /\ at \in [Calls -> Stages] /\ sid \in [Calls -> Sessions \cup {None}] /\ hand \in [Calls -> Workers \cup {None}]
      /\ at[c] # "idle" => sid[c] \in Sessions
      /\ at[c] \in WorkerOnly => Lane(c) = "worker"
      /\ CacheOK
  BY DEF AdmissionInv, CallsOK, SlotTables, HandsOK
<1>1. CASE UseCached(c)
  <2> DEFINE i == First(Compatible(sid[c]))
  <2>1. /\ at[c] = "granted" /\ Lane(c) = "worker" /\ Compatible(sid[c]) # {} /\ cache' = Without(cache, i)
        /\ hand' = [hand EXCEPT ![c] = cache[i].worker] /\ UNCHANGED <<gates, permit, sid>> /\ ending' = ending
        /\ \E next \in {"leased", "discarding", "rejecting", "evicting"} : at' = [at EXCEPT ![c] = next]
    BY <1>1 DEF UseCached
  <2>2. Compatible(sid[c]) \subseteq 1..Len(cache)
    BY DEF Compatible, Matches, HostEntries
  <2>3. i \in Compatible(sid[c]) /\ i \in 1..Len(cache) /\ cache[i].worker \in Workers
    BY <1>h, <2>1, <2>2, EntryFound
  <2>4. Kind[cache[i].sid] # "temp"
    <3>1. Kind[sid[c]] = "temp" => Matches(sid[c]) = {}
      BY <2>1 DEF SlotTables, TempOK, Beyond, Past, Stages
    <3> QED BY <2>3, <3>1 DEF Compatible, Matches, HostEntries
  <2> HIDE DEF i
  <2> QED BY <2>1, <2>3, <2>4, TakeSlots
<1>2. ASSUME NEW limit \in Nat, Recycle(c, limit), at[c] \in {"granted", "scavenging"}, Lane(c) = "worker"
      PROVE  SlotTables' /\ (Balanced => Balanced')
  <2> DEFINE i == First(Recyclable)
  <2>1. UNCHANGED <<gates, permit, sid>> /\ ending' = ending
    BY <1>2 DEF Recycle
  <2>2. CASE Cardinality(Recyclable) > limit
    <3>1. cache' = Without(cache, i) /\ hand' = [hand EXCEPT ![c] = cache[i].worker] /\ at' = [at EXCEPT ![c] = "evicting"]
      BY <1>2, <2>2 DEF Recycle
    <3>2. Recyclable # {} /\ Recyclable \subseteq 1..Len(cache)
      <4>1. Cardinality({}) = 0 /\ ~(0 > limit)
        BY FS_EmptySet
      <4>2. Recyclable # {}
        BY <2>2, <4>1
      <4>3. Recyclable \subseteq 1..Len(cache)
        BY DEF Recyclable
      <4> QED BY <4>2, <4>3
    <3>3. i \in Recyclable /\ i \in 1..Len(cache) /\ cache[i].worker \in Workers
      BY <1>h, <3>2, EntryFound
    <3>4. Kind[cache[i].sid] # "temp"
      BY <3>3 DEF Recyclable
    <3> HIDE DEF i
    <3> QED BY <1>2, <2>1, <3>1, <3>3, <3>4, TakeSlots
  <2>3. CASE ~(Cardinality(Recyclable) > limit)
    <3>1. at' = [at EXCEPT ![c] = "creating"] /\ UNCHANGED <<cache, hand>>
      BY <1>2, <2>3 DEF Recycle
    <3>2. HandGoesOn(c) /\ OthersKeep(c)
      <4>1. at'[c] = "creating" /\ Lane(c)' = "worker"
        BY <1>h, <1>2, <2>1, <3>1 DEF Lane
      <4>2. OthersKeep(c)
        BY <1>h, <2>1, <3>1 DEF OthersKeep
      <4> QED BY <4>1, <4>2 DEF HandGoesOn
    <3>3. /\ "creating" \in Stages \ {"queued"} /\ at[c] # "queued" /\ ("creating" \in WithPermit <=> at[c] \in WithPermit)
          /\ sid[c] \in Sessions /\ at[c] \in Beyond
      BY <1>h, <1>2 DEF Stages, WithPermit, Beyond, Past
    <3> QED BY <2>1, <3>1, <3>2, <3>3, AloneQuiet
  <2> QED BY <2>2, <2>3
<1>3. CASE SearchFails(c)
  <2>1. Available(PoolSize, gates["worker"]) \in Nat
    <3>1. /\ gates["worker"] \in AnyGate /\ PoolSize \in Int /\ Available(PoolSize, gates["worker"]) >= 0
      BY ExecutionAssumption DEF AdmissionInv, QueuesOK, Lanes, RoomOK, Cap
    <3> QED BY <3>1 DEF Available, AnyGate
  <2> QED BY <1>2, <1>3, <2>1 DEF SearchFails
<1>4. CASE Scavenge(c)
  <2>1. at[c] = "scavenging" /\ Recycle(c, allowed[c]) /\ allowed[c] \in Nat
    BY <1>4 DEF Scavenge, RoomOK
  <2> QED BY <1>2, <1>h, <2>1 DEF WorkerOnly
<1> QED BY <1>1, <1>3, <1>4

(* A temporary session takes the worker it kept, and the permit with it.   *)
LEMMA RetainedSlots ==
  ASSUME AdmissionInv, SlotTables, NEW c \in Calls, ProceedRetained(c)
  PROVE  SlotTables' /\ (Balanced => Balanced')
PROOF
<1> DEFINE i == First(Matches(sid[c]))
<1>h. /\ at \in [Calls -> Stages] /\ sid \in [Calls -> Sessions \cup {None}] /\ hand \in [Calls -> Workers \cup {None}]
      /\ at[c] # "idle" => sid[c] \in Sessions
      /\ CacheOK /\ permit \in [Calls -> BOOLEAN]
      /\ \A d \in Calls : permit[d] <=> at[d] \in WithPermit
  BY DEF AdmissionInv, CallsOK, SlotTables, HandsOK, PermitsOK
<1>1. /\ at[c] = "admitted" /\ Kind[sid[c]] = "temp" /\ Matches(sid[c]) # {} /\ cache' = Without(cache, i)
      /\ hand' = [hand EXCEPT ![c] = cache[i].worker] /\ permit' = [permit EXCEPT ![c] = TRUE]
      /\ UNCHANGED <<gates, sid>> /\ ending' = ending
  BY DEF ProceedRetained
<1>2. PICK next \in {"leased", "discardingRetained"} : at' = [at EXCEPT ![c] = next]
  BY DEF ProceedRetained
<1>3. i \in 1..Len(cache) /\ cache[i].worker \in Workers /\ cache[i].sid = sid[c]
  <2>1. Matches(sid[c]) \subseteq 1..Len(cache)
    BY DEF Matches
  <2>2. i \in Matches(sid[c]) /\ i \in 1..Len(cache) /\ cache[i].worker \in Workers
    BY <1>h, <1>1, <2>1, EntryFound
  <2> QED BY <2>2 DEF Matches
<1> HIDE DEF i
<1>4. next \in Stages \ {"queued"} /\ next \in WithPermit /\ next \in Beyond /\ at[c] \notin WithPermit /\ at[c] # "queued"
  BY <1>1 DEF Stages, WithPermit, Beyond, Past
<1>5. OthersWait(c) /\ at'[c] = next
  BY <1>1, <1>2, <1>4, Alone
<1>6. OthersKeep(c) /\ hand'[c] \in Workers
  BY <1>h, <1>1, <1>3 DEF OthersKeep
<1>7. HandGoesOn(c) /\ Lane(c) = "worker" /\ Lane(c)' = "worker"
  <2>1. Lane(c) = "worker" /\ Lane(c)' = "worker"
    BY <1>1 DEF Lane
  <2> QED BY <1>6, <2>1 DEF HandGoesOn
<1>8. PermitsOK'
  BY <1>h, <1>1, <1>2, <1>4 DEF PermitsOK
<1>9. ending' \in [Sessions -> Workers \cup {None}] /\ sid[c] \in Sessions
  BY <1>h, <1>1 DEF SlotTables, CacheOK
<1>10. SlotTables' /\ Cardinality(Kept') = Cardinality(Kept) - 1
  BY <1>1, <1>3, <1>5, <1>6, <1>7, <1>8, <1>9, TakeEntry
<1>11. Cardinality(Holders("worker")') = Cardinality(Holders("worker")) + 1
  <2>1. c \notin Holders("worker")
    BY <1>h, <1>4 DEF Holders
  <2>2. \A d \in Calls : Lane(d)' = Lane(d)
    BY <1>1 DEF Lane
  <2>3. Holders("worker")' = Holders("worker") \cup {c}
    BY <1>h, <1>1, <1>7, <2>2 DEF Holders
  <2> QED BY <2>1, <2>3, FiniteHolders, FS_AddElement
<1>12. Cardinality(Holders("primary")') = Cardinality(Holders("primary"))
  <2>1. \A d \in Calls : Lane(d)' = Lane(d)
    BY <1>1 DEF Lane
  <2>2. Holders("primary")' = Holders("primary")
    BY <1>h, <1>1, <1>7, <2>1 DEF Holders
  <2> QED BY <2>2
<1>13. Slack("worker")' = Slack("worker") - 1 /\ Slack("primary")' = Slack("primary")
  <2>1. gates["worker"].active \in Int /\ Cardinality(Holders("worker")) \in Nat
    BY FiniteHolders DEF AdmissionInv, QueuesOK, AnyGate, Lanes
  <2> QED BY <1>1, <1>11, <1>12, <2>1 DEF Slack
<1>14. Extra("worker")' = Extra("worker") - 1 /\ Extra("primary")' = Extra("primary")
  <2>1. Ending' = Ending
    BY <1>1 DEF Ending
  <2>2. Cardinality(Ending) \in Nat /\ Cardinality(Kept) \in Nat
    BY <1>h, FiniteExtra
  <2> QED BY <1>10, <2>1, <2>2 DEF Extra
<1> QED BY <1>10, <1>13, <1>14 DEF Balanced, Lanes

-----------------------------------------------------------------------------
(* The end of a turn                                                       *)

(* The call ends; whatever it does with its slot, another call of the same *)
(* session is not past the lock.                                           *)
LEMMA KeepEntry ==
  ASSUME AdmissionInv, SlotTables, NEW c \in Calls, at[c] = "leased", Lane(c) = "worker",
         cache' = Append(cache, [worker |-> hand[c], sid |-> sid[c]]),
         at'[c] = "idle", OthersWait(c), OthersKeep(c), PermitsOK', ending' = ending
  PROVE  /\ SlotTables'
         /\ Cardinality(Kept') = Cardinality(Kept) + IF Kind[sid[c]] = "temp" THEN 1 ELSE 0
PROOF
<1> DEFINE e == [worker |-> hand[c], sid |-> sid[c]]
<1>1. e \in Entries /\ e.sid = sid[c]
  <2>1. hand[c] \in Workers /\ sid[c] \in Sessions
    BY DEF SlotTables, HandsOK, AdmissionInv, CallsOK
  <2> QED BY <2>1 DEF Entries
<1>2. Kind[e.sid] = "temp" => Matches(e.sid) = {}
  BY DEF SlotTables, TempOK, Beyond, Past, Stages
<1> HIDE DEF e
<1>3. CacheOK /\ cache' = Append(cache, e)
  BY DEF SlotTables, e
<1>4. /\ cache' \in Seq(Entries) /\ OncePerTemp'
      /\ \A s : s # e.sid /\ Matches(s) = {} => Matches(s)' = {}
      /\ Cardinality(Kept') = Cardinality(Kept) + IF Kind[e.sid] = "temp" THEN 1 ELSE 0
  BY <1>1, <1>2, <1>3, CacheGrows
<1>5. CacheOK'
  BY <1>3, <1>4 DEF CacheOK
<1>6. ASSUME NEW d \in Calls \ {c}, NEW s \in Sessions, s = sid[d], at[d] \in Beyond, Kind[s] = "temp", Matches(s) = {}
      PROVE  Matches(s)' = {}
  <2>1. admitted[sid[d]] = d /\ admitted[sid[c]] = c
    BY <1>6 DEF AdmissionInv, OneExecutionPerSession, Beyond, Past
  <2> QED BY <1>1, <1>4, <1>6, <2>1
<1>7. HandGoesOn(c) /\ at'[c] \notin Beyond
  BY DEF HandGoesOn, WorkerOnly, Beyond, Past
<1>8. SlotTables'
  BY <1>5, <1>6, <1>7, TablesStand
<1> QED BY <1>1, <1>4, <1>8

LEMMA EndSlots ==
  ASSUME AdmissionInv, SlotTables, NEW c \in Calls, NEW ok \in BOOLEAN, EndTurn(c, ok)
  PROVE  SlotTables' /\ (Balanced => Balanced')
PROOF
<1> DEFINE keep == Lane(c) = "worker" /\ Cacheable(sid[c]) /\ phase = "open" /\ ok
           over == keep \/ Lane(c) = "primary"
<1>h. /\ at \in [Calls -> Stages] /\ sid \in [Calls -> Sessions \cup {None}] /\ hand \in [Calls -> Workers \cup {None}]
      /\ at[c] = "leased" /\ ending' = ending /\ permit[c] /\ at[c] \in WithPermit
      /\ {"worker", "primary"} \subseteq Lanes /\ Lane(c) \in {"worker", "primary"}
      /\ permit \in [Calls -> BOOLEAN]
      /\ \A d \in Calls : permit[d] <=> at[d] \in WithPermit
  BY DEF AdmissionInv, CallsOK, SlotTables, HandsOK, PermitsOK, EndTurn, WithPermit, Lanes, Lane
<1>f. ASSUME over PROVE sid' = [sid EXCEPT ![c] = None] /\ hand' = [hand EXCEPT ![c] = None] /\ OthersKeep(c)
  <2>1. sid' = [sid EXCEPT ![c] = None] /\ hand' = [hand EXCEPT ![c] = None]
    BY <1>f DEF EndTurn, Forget
  <2> QED BY <1>h, <2>1 DEF OthersKeep
<1>1. CASE ~over
  <2>1. at' = [at EXCEPT ![c] = "releasing"] /\ UNCHANGED <<gates, permit, cache, sid, hand>> /\ Lane(c) = "worker"
    BY <1>h, <1>1 DEF EndTurn
  <2>2. HandGoesOn(c) /\ OthersKeep(c)
    <3>1. at'[c] = "releasing" /\ Lane(c)' = "worker"
      BY <1>h, <2>1 DEF Lane
    <3>2. OthersKeep(c)
      BY <1>h, <2>1 DEF OthersKeep
    <3> QED BY <3>1, <3>2 DEF HandGoesOn
  <2>3. /\ "releasing" \in Stages \ {"queued"} /\ at[c] # "queued" /\ ("releasing" \in WithPermit <=> at[c] \in WithPermit)
        /\ sid[c] \in Sessions /\ at[c] \in Beyond
    BY <1>h DEF Stages, WithPermit, Beyond, Past, AdmissionInv, CallsOK
  <2> QED BY <1>h, <2>1, <2>2, <2>3, AloneQuiet
<1>2. CASE over /\ Lane(c) = "primary"
  <2>1. UNCHANGED cache /\ GiveUp("primary", c, FALSE, "idle")
    <3>1. Kind[sid[c]] # "temp" /\ ~keep
      BY <1>2 DEF Lane
    <3> QED BY <1>2, <3>1 DEF EndTurn
  <2> QED BY <1>f, <1>h, <1>2, <2>1, GiveUpQuiet
<1>3. CASE keep /\ Kind[sid[c]] # "temp"
  <2>1. cache' = Append(cache, [worker |-> hand[c], sid |-> sid[c]]) /\ GiveUp("worker", c, FALSE, "idle") /\ Lane(c) = "worker"
    BY <1>3 DEF EndTurn
  <2>2. at'[c] = "idle" /\ OthersWait(c)
    <3>1. "idle" \in Stages \ {"queued"} /\ c \in Calls \cup {None} /\ at[c] # "queued"
      BY <1>h DEF Stages
    <3> QED BY <1>h, <2>1, <3>1, GivenUp
  <2>3. \A d \in Calls \ {c} : sid'[d] = sid[d]
    BY <1>f, <1>3 DEF OthersKeep
  <2>4. /\ PermitsOK' /\ \A m \in Lanes \ {"worker"} : Slack(m)' = Slack(m)
        /\ Slack("worker")' = Slack("worker") - 0
    BY <1>h, <2>1, <2>3, GiveUpSlack DEF SlotTables
  <2>5. SlotTables' /\ Cardinality(Kept') = Cardinality(Kept) + 0
    BY <1>f, <1>h, <1>3, <2>1, <2>2, <2>4, KeepEntry
  <2>6. \A m \in Lanes : Extra(m)' = Extra(m)
    <3>1. Ending' = Ending
      BY <1>h DEF Ending
    <3>2. Cardinality(Kept) \in Nat
      BY FiniteExtra DEF SlotTables
    <3> QED BY <2>5, <3>1, <3>2 DEF Extra
  <2>7. Slack("worker") \in Int
    <3>1. gates["worker"].active \in Int
      BY <1>h DEF AdmissionInv, QueuesOK, AnyGate
    <3> QED BY <3>1, FiniteHolders DEF Slack
  <2> QED BY <2>4, <2>5, <2>6, <2>7 DEF Balanced
<1>4. CASE keep /\ Kind[sid[c]] = "temp"
  <2>1. /\ cache' = Append(cache, [worker |-> hand[c], sid |-> sid[c]]) /\ Lane(c) = "worker"
        /\ at' = [at EXCEPT ![c] = "idle"] /\ permit' = [permit EXCEPT ![c] = FALSE] /\ UNCHANGED gates
    BY <1>4 DEF EndTurn
  <2>2. at'[c] = "idle" /\ OthersWait(c)
    <3>1. "idle" \in Stages \ {"queued"} /\ at[c] # "queued"
      BY <1>h DEF Stages
    <3> QED BY <2>1, <3>1, Alone
  <2>3. PermitsOK'
    BY <1>h, <2>1 DEF PermitsOK, WithPermit
  <2>4. SlotTables' /\ Cardinality(Kept') = Cardinality(Kept) + 1
    BY <1>f, <1>h, <1>4, <2>1, <2>2, <2>3, KeepEntry
  <2>5. \A d \in Calls \ {c} : Lane(d)' = Lane(d)
    BY <1>f, <1>4 DEF OthersKeep, Lane
  <2>6. Holders("worker")' = Holders("worker") \ {c} /\ c \in Holders("worker") /\ Holders("primary")' = Holders("primary")
    BY <1>h, <2>1, <2>5 DEF Holders
  <2>7. Cardinality(Holders("worker")') = Cardinality(Holders("worker")) - 1
    BY <2>6, FiniteHolders, FS_RemoveElement
  <2>8. Slack("worker")' = Slack("worker") + 1 /\ Slack("primary")' = Slack("primary")
    <3>1. gates["worker"].active \in Int
      BY <1>h DEF AdmissionInv, QueuesOK, AnyGate
    <3>2. Cardinality(Holders("worker")) \in Nat
      BY FiniteHolders
    <3>3. Slack("worker")' = gates["worker"].active - Cardinality(Holders("worker")')
      BY <2>1 DEF Slack
    <3>4. Slack("worker") = gates["worker"].active - Cardinality(Holders("worker"))
      BY DEF Slack
    <3>5. Slack("primary")' = Slack("primary")
      BY <2>1, <2>6 DEF Slack
    <3> QED BY <2>7, <3>1, <3>2, <3>3, <3>4, <3>5
  <2>9. Extra("worker")' = Extra("worker") + 1 /\ Extra("primary")' = Extra("primary")
    <3>1. Ending' = Ending
      BY <1>h DEF Ending
    <3>2. Cardinality(Ending) \in Nat /\ Cardinality(Kept) \in Nat
      BY FiniteExtra DEF SlotTables
    <3> QED BY <2>4, <3>1, <3>2 DEF Extra
  <2> QED BY <2>4, <2>8, <2>9 DEF Balanced, Lanes
<1> QED BY <1>1, <1>2, <1>3, <1>4

-----------------------------------------------------------------------------
(* Outside the calls                                                       *)

(* The calls stay where they are, and so do their permits.                 *)
LEMMA OutsideStill ==
  ASSUME AdmissionInv, SlotTables, UNCHANGED <<at, sid, hand, permit, gates>>
  PROVE  OthersWait(None) /\ OthersKeep(None) /\ PermitsOK' /\ \A m \in Lanes : Slack(m)' = Slack(m)
PROOF
<1>1. OthersWait(None) /\ OthersKeep(None)
  BY DEF OthersWait, OthersKeep, SlotTables, HandsOK
<1>2. PermitsOK'
  BY DEF SlotTables, PermitsOK
<1>3. \A m \in Lanes : Slack(m)' = Slack(m)
  BY DEF Slack, Holders, Lane
<1> QED BY <1>1, <1>2, <1>3

LEMMA ResetSlots ==
  ASSUME AdmissionInv, SlotTables, NEW s \in Sessions, Reset(s) \/ \E ok \in BOOLEAN : ResetDone(s, ok)
  PROVE  SlotTables' /\ (Balanced => Balanced')
PROOF
<1>n. None \notin Calls /\ None \in Calls \cup {None} /\ CacheOK /\ "worker" \in Lanes
  BY ExecutionAssumption DEF SlotTables, Lanes
<1>1. CASE Reset(s)
  <2> DEFINE i == First(Matches(s))
  <2>1. /\ Kind[s] = "bound" /\ Matches(s) # {} /\ cache' = Without(cache, i)
        /\ UNCHANGED <<at, sid, hand, permit, gates>> /\ ending' = ending
    BY <1>1 DEF Reset, callVars
  <2>2. i \in 1..Len(cache) /\ Kind[cache[i].sid] # "temp"
    <3>1. Matches(s) \subseteq 1..Len(cache)
      BY DEF Matches
    <3>2. i \in Matches(s) /\ i \in 1..Len(cache)
      BY <1>n, <2>1, <3>1, EntryFound
    <3> QED BY <2>1, <3>2 DEF Matches
  <2> HIDE DEF i
  <2>3. OthersWait(None) /\ OthersKeep(None) /\ PermitsOK' /\ \A m \in Lanes : Slack(m)' = Slack(m)
    BY <2>1, OutsideStill
  <2>4. ending' \in [Sessions -> Workers \cup {None}]
    BY <1>n, <2>1 DEF CacheOK
  <2>5. SlotTables' /\ Cardinality(Kept') = Cardinality(Kept) - 0
    BY <1>n, <2>1, <2>2, <2>3, <2>4, TakeEntry
  <2>6. \A m \in Lanes : Extra(m)' = Extra(m)
    <3>1. Ending' = Ending
      BY <2>1 DEF Ending
    <3>2. Cardinality(Kept) \in Nat
      BY <1>n, FiniteExtra
    <3> QED BY <2>5, <3>1, <3>2 DEF Extra
  <2> QED BY <2>3, <2>5, <2>6 DEF Balanced
<1>2. ASSUME NEW ok \in BOOLEAN, ResetDone(s, ok) PROVE SlotTables' /\ (Balanced => Balanced')
  <2>1. UNCHANGED <<cache, sid, hand>> /\ ending' = ending
    BY <1>2 DEF ResetDone
  <2>2. CASE ok
    <3>1. UNCHANGED <<at, sid, hand, permit, gates>>
      BY <1>2, <2>1, <2>2 DEF ResetDone
    <3>2. OthersWait(None) /\ OthersKeep(None) /\ PermitsOK' /\ \A m \in Lanes : Slack(m)' = Slack(m)
      BY <3>1, OutsideStill
    <3> QED BY <1>n, <2>1, <3>2, Quiet
  <2>3. CASE ~ok
    <3> DEFINE g == QuarantineSlot(PoolSize, gates["worker"])
    <3>1. gates["worker"] \in AnyGate /\ Distinct(gates["worker"].waiters) /\ PoolSize \in Int
      BY <1>n, ExecutionAssumption DEF AdmissionInv, QueuesOK
    <3>2. g \in AnyGate /\ Distinct(g.waiters) /\ Members(g.waiters) \subseteq Members(gates["worker"].waiters)
      BY <3>1, QuarantineQueue
    <3>3. g.active = gates["worker"].active
      <4>1. /\ Quarantine(gates["worker"]).active = gates["worker"].active
            /\ Drop(Quarantine(gates["worker"])).active = gates["worker"].active
        BY <3>1 DEF Quarantine, Drop, AnyGate
      <4> QED BY <4>1 DEF QuarantineSlot
    <3>4. Regate("worker", g, {}, None, "idle", FALSE)
      BY <1>2, <2>3 DEF ResetDone
    <3> HIDE DEF g
    <3>5. Requeues("worker", g, {}, None, "idle")
      BY <3>2 DEF Requeues
    <3>6. OthersWait(None)
      BY <1>n, <3>4, <3>5, Regated DEF Stages
    <3>7. /\ PermitsOK'
          /\ \A m \in Lanes \ {"worker"} : Slack(m)' = Slack(m)
          /\ Slack("worker")' = g.active - (Cardinality(Holders("worker")) + Cardinality({})
                           + (IF None \in Calls /\ FALSE THEN 1 ELSE 0) - (IF None \in Calls /\ permit[None] THEN 1 ELSE 0))
      <4>1. "idle" \in Stages /\ IsFiniteSet({}) /\ FALSE \in BOOLEAN /\ \A d \in Calls \ {None} : sid'[d] = sid[d]
        BY <2>1, FS_EmptySet DEF Stages
      <4> QED BY <1>n, <3>4, <3>5, <4>1, RegateSlack DEF SlotTables
    <3>8. \A m \in Lanes : Slack(m)' = Slack(m)
      <4>1. gates["worker"].active \in Int /\ Cardinality(Holders("worker")) \in Nat /\ Cardinality({}) = 0
        BY <3>1, FiniteHolders, FS_EmptySet DEF AnyGate
      <4> QED BY <1>n, <3>3, <3>7, <4>1 DEF Slack
    <3>9. OthersKeep(None)
      BY <2>1 DEF OthersKeep, SlotTables, HandsOK
    <3> QED BY <1>n, <2>1, <3>6, <3>7, <3>8, <3>9, Quiet
  <2> QED BY <2>2, <2>3
<1> QED BY <1>1, <1>2

(* A temporary session ends: the permit it kept goes with its worker.      *)
LEMMA EndTempSlots ==
  ASSUME AdmissionInv, SlotTables, NEW s \in Sessions, EndTemp(s) \/ \E ok \in BOOLEAN : EndTempDone(s, ok)
  PROVE  SlotTables' /\ (Balanced => Balanced')
PROOF
<1>n. None \notin Calls /\ None \in Calls \cup {None} /\ None \notin Workers /\ CacheOK /\ Lanes = {"primary", "worker"}
  BY ExecutionAssumption DEF SlotTables, Lanes
<1>f. IsFiniteSet(Ending) /\ Cardinality(Ending) \in Nat /\ Cardinality(Kept) \in Nat
  BY <1>n, FiniteExtra
<1>1. CASE EndTemp(s)
  <2> DEFINE i == First(Matches(s))
  <2>1. /\ Kind[s] = "temp" /\ ending[s] = None /\ Matches(s) # {} /\ cache' = Without(cache, i)
        /\ ending' = [ending EXCEPT ![s] = cache[i].worker] /\ UNCHANGED <<at, sid, hand, permit, gates>>
    BY <1>1 DEF EndTemp, callVars
  <2>2. i \in 1..Len(cache) /\ Kind[cache[i].sid] = "temp" /\ cache[i].worker \in Workers
    <3>1. Matches(s) \subseteq 1..Len(cache)
      BY DEF Matches
    <3>2. i \in Matches(s) /\ i \in 1..Len(cache) /\ cache[i].worker \in Workers
      BY <1>n, <2>1, <3>1, EntryFound
    <3> QED BY <2>1, <3>2 DEF Matches
  <2> HIDE DEF i
  <2>3. OthersWait(None) /\ OthersKeep(None) /\ PermitsOK' /\ \A m \in Lanes : Slack(m)' = Slack(m)
    BY <2>1, OutsideStill
  <2>4. ending' \in [Sessions -> Workers \cup {None}]
    BY <1>n, <2>1, <2>2 DEF CacheOK
  <2>5. SlotTables' /\ Cardinality(Kept') = Cardinality(Kept) - 1
    BY <1>n, <2>1, <2>2, <2>3, <2>4, TakeEntry
  <2>6. Ending' = Ending \cup {s} /\ s \notin Ending
    BY <1>n, <2>1, <2>2 DEF Ending, CacheOK
  <2>7. Cardinality(Ending') = Cardinality(Ending) + 1
    BY <1>f, <2>6, FS_AddElement
  <2>8. \A m \in Lanes : Extra(m)' = Extra(m)
    BY <1>f, <2>5, <2>7 DEF Extra
  <2> QED BY <2>3, <2>5, <2>8 DEF Balanced
<1>2. ASSUME NEW ok \in BOOLEAN, EndTempDone(s, ok) PROVE SlotTables' /\ (Balanced => Balanced')
  <2>1. /\ ending[s] # None /\ GiveUp("worker", None, ~ok, "idle") /\ ending' = [ending EXCEPT ![s] = None]
        /\ UNCHANGED <<sid, hand, cache>>
    BY <1>2 DEF EndTempDone
  <2>2. OthersWait(None)
    BY <1>n, <2>1, GivenUp DEF Stages
  <2>3. OthersKeep(None)
    BY <2>1 DEF OthersKeep, SlotTables, HandsOK
  <2>4. /\ PermitsOK'
        /\ \A m \in Lanes \ {"worker"} : Slack(m)' = Slack(m)
        /\ Slack("worker")' = Slack("worker") - 1
    <3>1. \A d \in Calls \ {None} : sid'[d] = sid[d]
      BY <2>1
    <3> QED BY <1>n, <2>1, <3>1, GiveUpSlack DEF SlotTables
  <2>5. CacheOK'
    BY <1>n, <2>1 DEF CacheOK, OncePerTemp
  <2>6. \A t : Matches(t)' = Matches(t)
    BY <2>1 DEF Matches
  <2>7. SlotTables'
    BY <1>n, <2>2, <2>3, <2>4, <2>5, <2>6, TablesStand
  <2>8. Ending' = Ending \ {s} /\ s \in Ending
    BY <1>n, <2>1 DEF Ending, CacheOK
  <2>9. Cardinality(Ending') = Cardinality(Ending) - 1
    BY <1>f, <2>8, FS_RemoveElement
  <2>10. Extra("worker")' = Extra("worker") - 1 /\ Extra("primary")' = Extra("primary")
    <3>1. Kept' = Kept
      BY <2>1 DEF Kept
    <3> QED BY <1>f, <2>9, <3>1 DEF Extra
  <2> QED BY <1>n, <2>4, <2>7, <2>10 DEF Balanced
<1> QED BY <1>1, <1>2

(* Disposal fails whoever waits, and drops the cache at its end.           *)
LEMMA DisposeSlots ==
  ASSUME AdmissionInv, SlotTables,
         \/ \E s \in Sessions : ResetShared(s)
         \/ \E i \in 1..Cardinality(Workers) : CachedBreaks(i)
         \/ Dispose \/ DisposeStep \/ UNCHANGED execVars
  PROVE  SlotTables' /\ (FinishDispose \/ (Balanced => Balanced'))
PROOF
<1>n. None \notin Calls /\ None \in Calls \cup {None} /\ CacheOK
  BY ExecutionAssumption DEF SlotTables
<1>1. CASE FinishDispose
  <2>1. cache' = <<>> /\ UNCHANGED <<at, sid, hand, permit, gates, ending>>
    BY <1>1 DEF FinishDispose, callVars
  <2>2. OthersWait(None) /\ OthersKeep(None) /\ PermitsOK'
    BY <2>1, OutsideStill
  <2>3. <<>> \in Seq(Entries) /\ 1..Len(<<>>) = {}
    OBVIOUS
  <2>4. CacheOK' /\ \A t : Matches(t)' = {}
    BY <1>n, <2>1, <2>3 DEF CacheOK, OncePerTemp, Matches
  <2> QED BY <1>1, <1>n, <2>2, <2>4, TablesStand
<1>2. CASE UNCHANGED <<at, sid, hand, permit, gates, cache, ending>>
  <2>1. OthersWait(None) /\ OthersKeep(None) /\ PermitsOK' /\ \A m \in Lanes : Slack(m)' = Slack(m)
    BY <1>2, OutsideStill
  <2> QED BY <1>n, <1>2, <2>1, Quiet
<1>3. CASE Dispose
  <2>1. /\ gates' = [l \in Lanes |-> Close(gates[l])]
        /\ at' = [d \in Calls |-> IF at[d] = "queued" THEN "failing" ELSE at[d]]
        /\ UNCHANGED <<sid, hand, permit, cache, ending>>
    BY <1>3 DEF Dispose
  <2>2. OthersWait(None) /\ OthersKeep(None)
    BY <2>1 DEF OthersWait, OthersKeep, SlotTables, HandsOK
  <2>3. PermitsOK'
    BY <2>1 DEF SlotTables, PermitsOK, WithPermit
  <2>4. ASSUME NEW m \in Lanes PROVE Slack(m)' = Slack(m)
    <3>1. gates'[m].active = gates[m].active
      BY <2>1 DEF Close, Drop, AdmissionInv, QueuesOK, AnyGate
    <3>2. Holders(m)' = Holders(m)
      BY <2>1 DEF Holders, Lane
    <3> QED BY <3>1, <3>2 DEF Slack
  <2> QED BY <1>n, <2>1, <2>2, <2>3, <2>4, Quiet
<1>4. CASE \/ \E s \in Sessions : ResetShared(s)
           \/ \E i \in 1..Cardinality(Workers) : CachedBreaks(i)
           \/ BeginTeardown \/ (\E ok \in BOOLEAN : DisposeOne(ok)) \/ UNCHANGED execVars
  BY <1>2, <1>4 DEF ResetShared, CachedBreaks, BeginTeardown, DisposeOne, execVars, callVars
<1> QED BY <1>1, <1>3, <1>4 DEF DisposeStep

-----------------------------------------------------------------------------
(* The theorem                                                             *)

SlotsInv == AdmissionInv /\ RoomOK /\ SlotTables /\ (phase # "closed" => Balanced)

LEMMA InitSlots == ExecInit => SlotsInv
PROOF
<1> SUFFICES ASSUME ExecInit PROVE SlotsInv
  OBVIOUS
<1>1. AdmissionInv
  BY InitAdmission
<1>2. RoomOK
  <2>1. \A l \in Lanes : Cap(l) \in Nat /\ gates[l].active = 0 /\ gates[l].quarantined = 0
    BY ExecutionAssumption DEF ExecInit, Cap, OpenGate
  <2>2. \A l \in Lanes : Available(Cap(l), gates[l]) >= 0
    BY <2>1 DEF Available
  <2>3. allowed \in [Calls -> Nat]
    BY DEF ExecInit
  <2> QED BY <2>2, <2>3 DEF RoomOK
<1>3. <<>> \in Seq(Entries) /\ 1..Len(<<>>) = {}
  OBVIOUS
<1>4. PermitsOK /\ HandsOK /\ TempOK
  BY DEF ExecInit, PermitsOK, HandsOK, TempOK, WithPermit, WorkerOnly, Beyond, Past
<1>5. CacheOK
  BY <1>3 DEF ExecInit, CacheOK, OncePerTemp
<1>6. Balanced
  <2>1. Kept = {} /\ Ending = {} /\ \A l \in Lanes : Holders(l) = {}
    BY <1>3 DEF ExecInit, Kept, Ending, Holders
  <2>2. \A l \in Lanes : gates[l].active = 0
    BY DEF ExecInit, OpenGate
  <2> QED BY <2>1, <2>2, FS_EmptySet DEF Balanced, Slack, Extra
<1> QED BY <1>1, <1>2, <1>4, <1>5, <1>6 DEF SlotsInv, SlotTables

LEMMA StepSlots == SlotsInv /\ [ExecNext]_execVars => SlotsInv'
PROOF
<1> SUFFICES ASSUME SlotsInv, [ExecNext]_execVars PROVE SlotsInv'
  OBVIOUS
<1> USE DEF SlotsInv
<1>1. AdmissionInv' /\ RoomOK'
  BY StepAdmission, StepRoom
<1>2. ASSUME NEW c \in Calls, CallStep(c) PROVE SlotTables' /\ (Balanced => Balanced')
  <2>1. CASE Proceed(c) \/ \E ok \in BOOLEAN : DiscardRetainedDone(c, ok)
    BY <2>1, RequestSlots
  <2>2. CASE ProceedRetained(c)
    BY <2>2, RetainedSlots
  <2>3. CASE UseCached(c) \/ SearchFails(c) \/ Scavenge(c)
    BY <2>3, CacheSlots
  <2>4. CASE Fail(c)
    BY <2>4, AcquireSlots
  <2>5. CASE \E ok \in BOOLEAN : EndTurn(c, ok)
    BY <2>5, EndSlots
  <2>6. CASE \E compatible \in BOOLEAN : Created(c, FreeWorker, compatible)
    <3>1. \E w \in Workers, compatible \in BOOLEAN : Created(c, w, compatible)
      BY <2>6 DEF Created
    <3> QED BY <3>1, WorkerSlots
  <2>7. CASE \/ UsePrimary(c) \/ CreateFails(c)
             \/ \E ok \in BOOLEAN : DiscardDone(c, ok) \/ StartDone(c, ok) \/ RejectDone(c, ok) \/ ReleaseDone(c, ok)
    BY <2>7, WorkerSlots
  <2> QED BY <1>2, <2>1, <2>2, <2>3, <2>4, <2>5, <2>6, <2>7 DEF CallStep
<1>3. ASSUME NEW c \in Calls, \/ Admit(c) \/ AdmitRefused(c)
                              \/ \E s \in Sessions, p \in Calls \cup {None} : Submit(c, s, p)
      PROVE  SlotTables' /\ (Balanced => Balanced')
  BY <1>3, AcquireSlots
<1>4. ASSUME NEW s \in Sessions, SessionStep(s) \/ Reset(s) \/ EndTemp(s) PROVE SlotTables' /\ (Balanced => Balanced')
  <2>1. CASE Reset(s) \/ \E ok \in BOOLEAN : ResetDone(s, ok)
    BY <2>1, ResetSlots
  <2>2. CASE EndTemp(s) \/ \E ok \in BOOLEAN : EndTempDone(s, ok)
    BY <2>2, EndTempSlots
  <2> QED BY <1>4, <2>1, <2>2 DEF SessionStep
<1>5. SlotTables' /\ (FinishDispose \/ (Balanced => Balanced'))
  <2>1. CASE \/ \E s \in Sessions : ResetShared(s)
             \/ \E i \in 1..Cardinality(Workers) : CachedBreaks(i)
             \/ Dispose \/ DisposeStep \/ UNCHANGED execVars
    BY <2>1, DisposeSlots
  <2>2. CASE \E c \in Calls : \/ CallStep(c) \/ Admit(c) \/ AdmitRefused(c)
                               \/ \E s \in Sessions, p \in Calls \cup {None} : Submit(c, s, p)
    BY <1>2, <1>3, <2>2
  <2>3. CASE \E s \in Sessions : SessionStep(s) \/ Reset(s) \/ EndTemp(s)
    BY <1>4, <2>3
  <2> QED BY <2>1, <2>2, <2>3 DEF ExecNext
<1>6. phase = "closed" => phase' = "closed"
  <2>1. ASSUME NEW c \in Calls, CallStep(c) PROVE phase = "closed" => phase' = "closed"
    BY <2>1 DEF CallStep, Proceed, ProceedRetained, UsePrimary, UseCached, SearchFails, Scavenge, Recycle, Fail, CreateFails,
       Created, DiscardRetainedDone, DiscardDone, StartDone, RejectDone, EndTurn, ReleaseDone, Forget, Settled
  <2>2. ASSUME NEW c \in Calls, \/ Admit(c) \/ AdmitRefused(c)
                                \/ \E s \in Sessions, p \in Calls \cup {None} : Submit(c, s, p)
        PROVE  phase = "closed" => phase' = "closed"
    BY <2>2 DEF Admit, AdmitRefused, Submit, Forget, Settled
  <2>3. CASE \/ \E s \in Sessions : SessionStep(s) \/ Reset(s) \/ ResetShared(s) \/ EndTemp(s)
             \/ \E i \in 1..Cardinality(Workers) : CachedBreaks(i)
             \/ Dispose \/ DisposeStep \/ UNCHANGED execVars
    BY <2>3 DEF SessionStep, ResetDone, EndTempDone, Reset, ResetShared, EndTemp, CachedBreaks, Dispose, DisposeStep,
       BeginTeardown, DisposeOne, FinishDispose, execVars
  <2> QED BY <2>1, <2>2, <2>3 DEF ExecNext
<1>7. FinishDispose => phase' = "closed"
  BY DEF FinishDispose
<1> QED BY <1>1, <1>5, <1>6, <1>7

\* SlotsAccounted: until disposal is over a lane's active count is exactly the permits its calls
\* hold plus those that idle or ending temporary sessions kept, through every release, reuse,
\* quarantine and failure (_acquirePermit, _release, releaseTemporarySession)
THEOREM ExecSlotsAccounted == ExecSpec => []SlotsAccounted
PROOF
<1>1. SlotsInv => SlotsAccounted
  <2> SUFFICES ASSUME SlotsInv, phase # "closed"
               PROVE  /\ gates["primary"].active = Cardinality(Holders("primary"))
                      /\ gates["worker"].active =
                           Cardinality(Holders("worker")) + Cardinality(Kept) + Cardinality(Ending)
    BY DEF SlotsAccounted
  <2>1. \A l \in {"primary", "worker"} : gates[l].active \in Int /\ Cardinality(Holders(l)) \in Nat /\ Slack(l) = Extra(l)
    BY FiniteHolders DEF SlotsInv, Balanced, AdmissionInv, QueuesOK, AnyGate, Lanes
  <2>2. Cardinality(Kept) \in Nat /\ Cardinality(Ending) \in Nat
    BY FiniteExtra DEF SlotsInv, SlotTables
  <2> QED BY <2>1, <2>2 DEF Slack, Extra
<1> QED BY <1>1, InitSlots, StepSlots, PTL DEF ExecSpec

-----------------------------------------------------------------------------
(* Each lane is a capacity gate.                                           *)

\* The clients of a lane: calls, and the places where temporary sessions keep
\* a permit.
Takers == Calls \cup Keepers

\* Where the clients of lane l are once x has given its permit back.
GivenIn(l, x, quarantine) ==
  [y \in Takers |->
     IF y = x THEN "idle"
     ELSE IF y \in Served(Cap(l), gates[l], quarantine) THEN "holding"
     ELSE IF LaneAt(l)[y] = "waiting" /\ y \notin Members(Release(Cap(l), gates[l], quarantine).waiters) THEN "idle"
     ELSE LaneAt(l)[y]]

\* What the step does to lane l, as a move of WorkerCapacityGate.
TakesSlot(l, c) ==
  /\ LaneAt(l)[c] = "idle" /\ SlotFree(Cap(l), gates[l])
  /\ gates'[l] = Take(gates[l])
  /\ LaneAt(l)' = [LaneAt(l) EXCEPT ![c] = "holding"]
JoinsQueue(l, c) ==
  /\ LaneAt(l)[c] = "idle" /\ ~Hopeless(Cap(l), gates[l]) /\ ~SlotFree(Cap(l), gates[l])
  /\ gates'[l] = Enqueue(gates[l], c)
  /\ LaneAt(l)' = [LaneAt(l) EXCEPT ![c] = "waiting"]
GivesBack(l, x, quarantine) ==
  /\ LaneAt(l)[x] = "holding"
  /\ gates'[l] = Release(Cap(l), gates[l], quarantine)
  /\ LaneAt(l)' = GivenIn(l, x, quarantine)
Renews(l, x, quarantine) ==
  LET g == Release(Cap(l), gates[l], quarantine) IN
  /\ LaneAt(l)[x] = "holding"
  /\ \/ /\ SlotFree(Cap(l), g) /\ gates'[l] = Take(g)
        /\ LaneAt(l)' = [GivenIn(l, x, quarantine) EXCEPT ![x] = "holding"]
     \/ /\ ~SlotFree(Cap(l), g) /\ ~Hopeless(Cap(l), g) /\ gates'[l] = Enqueue(g, x)
        /\ LaneAt(l)' = [GivenIn(l, x, quarantine) EXCEPT ![x] = "waiting"]
Passes(l, x, y) ==
  /\ gates'[l] = gates[l] /\ LaneAt(l)[x] = "holding" /\ LaneAt(l)[y] = "idle"
  /\ LaneAt(l)' = [LaneAt(l) EXCEPT ![x] = "idle", ![y] = "holding"]
FailsDropped(l) ==
  LaneAt(l)' = [d \in Takers |->
    IF LaneAt(l)[d] = "waiting" /\ d \notin Members(gates'[l].waiters) THEN "idle" ELSE LaneAt(l)[d]]
WithholdsOne(l) ==
  gates'[l] = QuarantineSlot(Cap(l), gates[l]) /\ gates'[l] # gates[l] /\ FailsDropped(l)
Closes(l) == ~gates[l].closed /\ gates'[l] = Close(gates[l]) /\ FailsDropped(l)
StaysPut(l) == gates'[l] = gates[l] /\ LaneAt(l)' = LaneAt(l)

LaneMoves(l) ==
  \/ \E c \in Takers : TakesSlot(l, c) \/ JoinsQueue(l, c)
  \/ \E x \in Takers, quarantine \in BOOLEAN : GivesBack(l, x, quarantine) \/ Renews(l, x, quarantine)
  \/ \E x, y \in Takers : Passes(l, x, y)
  \/ WithholdsOne(l) \/ Closes(l) \/ StaysPut(l)

\* Whoever waits for a permit is in the queue of its lane, the gates are open
\* until disposal, and only temporary sessions are ended.
QueuesComplete == \A c \in Calls : at[c] = "queued" => c \in Members(gates[Lane(c)].waiters)
GatesOpen == phase = "open" => \A l \in Lanes : ~gates[l].closed
OnlyTempsEnd == \A s \in Sessions : ending[s] # None => Kind[s] = "temp"
RefineInv == SlotsInv /\ QueuesComplete /\ GatesOpen /\ OnlyTempsEnd

\* A step moves every lane as its gate would, and keeps the queues complete.
Faithful ==
  /\ \A l \in Lanes : LaneMoves(l)
  /\ QueuesComplete'
  /\ \A l \in Lanes : gates'[l].closed = gates[l].closed

\* No temporary session gains or loses a permit.
KeepersStay == \A k \in Keepers : Keeps(k)' <=> Keeps(k)

\* What a call is for the gate of a lane follows from its await, its
\* permit and its session.
LEMMA LaneAtValues ==
  ASSUME NEW l, NEW c \in Calls
  PROVE  /\ LaneAt(l)[c] = IF sid[c] = None \/ Lane(c) # l THEN "idle"
                           ELSE IF at[c] = "queued" THEN "waiting" ELSE IF permit[c] THEN "holding" ELSE "idle"
         /\ LaneAt(l)'[c] = IF sid'[c] = None \/ Lane(c)' # l THEN "idle"
                            ELSE IF at'[c] = "queued" THEN "waiting" ELSE IF permit'[c] THEN "holding" ELSE "idle"
BY ExecutionAssumption DEF LaneAt

\* And what a place for a permit is, from what its session keeps there.
LEMMA KeeperValues ==
  ASSUME NEW l, NEW k \in Keepers
  PROVE  /\ LaneAt(l)[k] = IF l = "worker" /\ Keeps(k) THEN "holding" ELSE "idle"
         /\ LaneAt(l)'[k] = IF l = "worker" /\ Keeps(k)' THEN "holding" ELSE "idle"
BY DEF LaneAt

LEMMA KeepersIn ==
  ASSUME NEW l, KeepersStay \/ l # "worker", NEW k \in Keepers
  PROVE  LaneAt(l)'[k] = LaneAt(l)[k] /\ LaneAt(l)[k] # "waiting"
BY KeeperValues DEF KeepersStay

LEMMA SameKeepers == UNCHANGED <<cache, ending>> => KeepersStay
BY DEF KeepersStay, Keeps, Matches

\* LaneAt(l) is known from its values.
LEMMA LaneAtFunction ==
  ASSUME NEW l, NEW f, f = [c \in Takers |-> f[c]], \A c \in Takers : LaneAt(l)'[c] = f[c]
  PROVE  LaneAt(l)' = f
PROOF
<1>1. LaneAt(l)' = [c \in Takers |-> LaneAt(l)'[c]]
  BY DEF LaneAt, Takers
<1>2. [c \in Takers |-> LaneAt(l)'[c]] = [c \in Takers |-> f[c]]
  OBVIOUS
<1> QED BY <1>1, <1>2

\* LaneAt(l) is the function of its values.
LEMMA LaneAtItself ==
  ASSUME NEW l
  PROVE  LaneAt(l) = [c \in Takers |-> LaneAt(l)[c]]
BY DEF LaneAt, Takers

\* A call looks the same to lane l after a step that does not change what
\* it awaits, its permit and its session.
LEMMA CallStays ==
  ASSUME NEW l, NEW d \in Calls, at'[d] = "queued" <=> at[d] = "queued", permit'[d] = permit[d],
         \/ sid'[d] = sid[d]
         \/ at[d] # "queued" /\ ~permit[d]
  PROVE  LaneAt(l)'[d] = LaneAt(l)[d]
PROOF
<1>1. CASE sid'[d] = sid[d]
  BY <1>1, LaneAtValues DEF Lane
<1>2. CASE at[d] # "queued" /\ ~permit[d]
  BY <1>2, LaneAtValues
<1> QED BY <1>1, <1>2

\* A step that leaves the gates, the queued calls and the permits alone.
LEMMA NobodyMoves ==
  ASSUME RefineInv, UNCHANGED <<gates, permit>>, KeepersStay,
         \A d \in Calls : at'[d] = "queued" <=> at[d] = "queued",
         \A d \in Calls : sid'[d] = sid[d] \/ (at[d] # "queued" /\ ~permit[d])
  PROVE  Faithful
PROOF
<1>1. ASSUME NEW l \in Lanes PROVE StaysPut(l)
  <2>1. \A d \in Takers : LaneAt(l)'[d] = LaneAt(l)[d]
    BY CallStays, KeepersIn DEF Takers
  <2> QED BY <2>1, LaneAtFunction, LaneAtItself DEF StaysPut
<1>2. QueuesComplete'
  <2>1. ASSUME NEW d \in Calls, at'[d] = "queued" PROVE d \in Members(gates'[Lane(d)'].waiters)
    BY <2>1 DEF RefineInv, QueuesComplete, Lane
  <2> QED BY <2>1 DEF QueuesComplete
<1> QED BY <1>1, <1>2 DEF Faithful, LaneMoves

\* The calls other than c after lane l has got gate g: "lucky" are served, and
\* whoever is not in the queue any more has failed.
OthersServed(l, c, lucky, g) ==
  \A d \in Calls \ {c} :
    LaneAt(l)'[d] = IF d \in lucky THEN "holding"
                    ELSE IF LaneAt(l)[d] = "waiting" /\ d \notin Members(g.waiters) THEN "idle"
                    ELSE LaneAt(l)[d]

OthersElsewhere(l, c) == \A d \in Calls \ {c}, k \in Lanes \ {l} : LaneAt(k)'[d] = LaneAt(k)[d]
OthersQueued(l, c, g) ==
  \A d \in Calls \ {c} : at'[d] = "queued" =>
    at[d] = "queued" /\ Lane(d)' = Lane(d) /\ (Lane(d) = l => d \in Members(g.waiters))

\* What a step that changes the gate of lane l does to the calls other
\* than c: it serves or fails waiters of that lane.
LEMMA OthersInQueue ==
  ASSUME RefineInv, NEW l \in Lanes, NEW g, NEW lucky, NEW c \in Calls \cup {None}, NEW next, NEW mine,
         Regate(l, g, lucky, c, next, mine), lucky \subseteq Members(gates[l].waiters),
         \A d \in Calls \ {c} : sid'[d] = sid[d]
  PROVE  OthersElsewhere(l, c) /\ OthersServed(l, c, lucky, g) /\ OthersQueued(l, c, g)
PROOF
<1>1. \A d \in Members(gates[l].waiters) : d \in Calls /\ at[d] = "queued" /\ Lane(d) = l /\ ~permit[d] /\ sid[d] # None
  <2>1. ASSUME NEW d \in Members(gates[l].waiters) PROVE d \in Calls
    BY <2>1 DEF RefineInv, SlotsInv, AdmissionInv, QueuesOK, AnyGate, Members
  <2>2. ASSUME NEW d \in Members(gates[l].waiters) PROVE at[d] = "queued" /\ Lane(d) = l
    BY <2>2 DEF RefineInv, SlotsInv, AdmissionInv, QueuesOK
  <2>3. ASSUME NEW d \in Calls, at[d] = "queued" PROVE ~permit[d] /\ sid[d] # None
    <3>1. sid[d] \in Sessions
      BY <2>3 DEF RefineInv, SlotsInv, AdmissionInv, CallsOK
    <3>2. ~permit[d]
      BY <2>3 DEF RefineInv, SlotsInv, SlotTables, PermitsOK, WithPermit
    <3> QED BY <3>1, <3>2, ExecutionAssumption
  <2> QED BY <2>1, <2>2, <2>3
<1>2. \A d \in Calls : at'[d] = IF d = c THEN next
                                ELSE IF d \in lucky THEN "granted"
                                ELSE IF d \in Members(gates[l].waiters) \ Members(g.waiters) THEN "failing"
                                ELSE at[d]
  BY DEF Regate
<1>3. \A d \in Calls : permit'[d] = IF d = c THEN mine ELSE permit[d] \/ d \in lucky
  BY DEF Regate
<1>4. \A d \in Calls \ {c} : Lane(d)' = Lane(d) /\ sid'[d] = sid[d]
  BY DEF Lane
<1>5. permit \in [Calls -> BOOLEAN]
  BY DEF RefineInv, SlotsInv, SlotTables, PermitsOK
<1>6. ASSUME NEW d \in Calls \ {c}, d \notin Members(gates[l].waiters), NEW k
      PROVE  LaneAt(k)'[d] = LaneAt(k)[d] /\ at'[d] = at[d]
  <2>1. d \notin lucky
    BY <1>6
  <2>2. at'[d] = at[d] /\ permit'[d] = permit[d]
    BY <1>2, <1>3, <1>5, <1>6, <2>1
  <2> QED BY <1>4, <2>2, CallStays
<1>7. ASSUME NEW d \in Calls \ {c}, d \in Members(gates[l].waiters)
      PROVE  /\ LaneAt(l)[d] = "waiting"
             /\ LaneAt(l)'[d] = IF d \in lucky THEN "holding" ELSE IF d \notin Members(g.waiters) THEN "idle" ELSE "waiting"
             /\ \A k \in Lanes \ {l} : LaneAt(k)'[d] = "idle" /\ LaneAt(k)[d] = "idle"
             /\ at'[d] = "queued" => d \in Members(g.waiters)
  <2>1. at[d] = "queued" /\ Lane(d) = l /\ ~permit[d] /\ sid[d] # None /\ Lane(d)' = l /\ sid'[d] # None
    BY <1>1, <1>4, <1>7
  <2>2. LaneAt(l)[d] = "waiting" /\ \A k \in Lanes \ {l} : LaneAt(k)'[d] = "idle" /\ LaneAt(k)[d] = "idle"
    BY <2>1, LaneAtValues
  <2>3. CASE d \in lucky
    <3>1. at'[d] = "granted" /\ permit'[d]
      BY <1>2, <1>3, <2>3
    <3> QED BY <2>1, <2>2, <2>3, <3>1, LaneAtValues
  <2>4. CASE d \notin lucky /\ d \notin Members(g.waiters)
    <3>1. at'[d] = "failing" /\ ~permit'[d]
      BY <1>2, <1>3, <1>7, <2>1, <2>4
    <3> QED BY <2>1, <2>2, <2>4, <3>1, LaneAtValues
  <2>5. CASE d \notin lucky /\ d \in Members(g.waiters)
    <3>1. at'[d] = "queued"
      BY <1>2, <2>1, <2>5
    <3> QED BY <2>1, <2>2, <2>5, <3>1, LaneAtValues
  <2> QED BY <2>3, <2>4, <2>5
<1>8. ASSUME NEW d \in Calls \ {c}, d \notin Members(gates[l].waiters)
      PROVE  LaneAt(l)[d] # "waiting" /\ (at[d] = "queued" => Lane(d) # l)
  <2>1. at[d] = "queued" => Lane(d) # l
    BY <1>8 DEF RefineInv, QueuesComplete
  <2> QED BY <2>1, LaneAtValues
<1>9. ASSUME NEW d \in Calls \ {c}, NEW k \in Lanes \ {l} PROVE LaneAt(k)'[d] = LaneAt(k)[d]
  BY <1>6, <1>7
<1>10. ASSUME NEW d \in Calls \ {c}
       PROVE  LaneAt(l)'[d] = IF d \in lucky THEN "holding"
                              ELSE IF LaneAt(l)[d] = "waiting" /\ d \notin Members(g.waiters) THEN "idle"
                              ELSE LaneAt(l)[d]
  <2>1. CASE d \in Members(gates[l].waiters)
    BY <1>7, <2>1
  <2>2. CASE d \notin Members(gates[l].waiters)
    BY <1>6, <1>8, <2>2
  <2> QED BY <2>1, <2>2
<1>11. ASSUME NEW d \in Calls \ {c}, at'[d] = "queued"
       PROVE  at[d] = "queued" /\ Lane(d)' = Lane(d) /\ (Lane(d) = l => d \in Members(g.waiters))
  <2>1. CASE d \in Members(gates[l].waiters)
    BY <1>1, <1>4, <1>7, <1>11, <2>1
  <2>2. CASE d \notin Members(gates[l].waiters)
    BY <1>4, <1>6, <1>8, <1>11, <2>2
  <2> QED BY <2>1, <2>2
<1> QED BY <1>9, <1>10, <1>11 DEF OthersElsewhere, OthersServed, OthersQueued

OtherLanes(l, g) ==
  /\ \A k \in Lanes \ {l} : StaysPut(k) /\ gates'[k] = gates[k]
  /\ QueuesComplete' /\ gates'[l] = g

\* The queues stay complete, and the other lane stays put.
LEMMA OtherLane ==
  ASSUME RefineInv, NEW l \in Lanes, NEW g, NEW lucky, NEW c \in Calls \cup {None}, NEW next, NEW mine,
         Regate(l, g, lucky, c, next, mine), lucky \subseteq Members(gates[l].waiters),
         \A d \in Calls \ {c} : sid'[d] = sid[d],
         c \in Calls => Lane(c) = l /\ (sid'[c] = sid[c] \/ sid'[c] = None), KeepersStay \/ l = "worker",
         c \in Calls /\ next = "queued" => sid'[c] = sid[c] /\ c \in Members(g.waiters)
  PROVE  OtherLanes(l, g)
PROOF
<1>o. OthersElsewhere(l, c) /\ OthersQueued(l, c, g)
  BY OthersInQueue
<1>1. gates'[l] = g /\ \A k \in Lanes \ {l} : gates'[k] = gates[k]
  BY DEF Regate, RefineInv, SlotsInv, AdmissionInv, QueuesOK
<1>2. ASSUME NEW k \in Lanes \ {l} PROVE StaysPut(k)
  <2>1. \A d \in Calls \ {c} : LaneAt(k)'[d] = LaneAt(k)[d]
    BY <1>o DEF OthersElsewhere
  <2>2. ASSUME c \in Calls PROVE LaneAt(k)'[c] = LaneAt(k)[c]
    <3>1. LaneAt(k)[c] = "idle"
      BY <2>2, LaneAtValues
    <3>2. sid'[c] = None \/ Lane(c)' = l
      BY <2>2 DEF Lane
    <3>3. LaneAt(k)'[c] = "idle"
      BY <2>2, <3>2, LaneAtValues
    <3> QED BY <3>1, <3>3
  <2>3. \A d \in Takers : LaneAt(k)'[d] = LaneAt(k)[d]
    BY <2>1, <2>2, KeepersIn DEF Takers
  <2> QED BY <1>1, <2>3, LaneAtFunction, LaneAtItself DEF StaysPut
<1>3. ASSUME NEW d \in Calls, at'[d] = "queued" PROVE d \in Members(gates'[Lane(d)'].waiters)
  <2>1. CASE d = c
    <3>1. next = "queued"
      BY <1>3, <2>1 DEF Regate
    <3>2. Lane(d)' = l
      BY <1>3, <2>1, <3>1 DEF Lane
    <3> QED BY <1>1, <1>3, <2>1, <3>1, <3>2
  <2>2. CASE d # c
    <3>1. at[d] = "queued" /\ Lane(d)' = Lane(d) /\ (Lane(d) = l => d \in Members(g.waiters))
      BY <1>3, <1>o, <2>2 DEF OthersQueued
    <3>2. d \in Members(gates[Lane(d)].waiters) /\ Lane(d) \in Lanes
      BY <3>1 DEF RefineInv, QueuesComplete, Lane, Lanes
    <3> QED BY <1>1, <3>1, <3>2
  <2> QED BY <2>1, <2>2
<1> QED BY <1>1, <1>2, <1>3 DEF OtherLanes, QueuesComplete

\* Only calls are in a queue, and no place for a permit is a call.
LEMMA QueuedCalls ==
  ASSUME RefineInv, NEW l \in Lanes, NEW k \in Keepers
  PROVE  k \notin Members(gates[l].waiters) /\ k \notin Calls
PROOF
<1>1. gates[l].waiters \in Seq(Calls)
  BY DEF RefineInv, SlotsInv, AdmissionInv, QueuesOK, AnyGate
<1> QED BY <1>1, ExecutionAssumption DEF Members

\* A permit of call c goes back or is withheld.
LEMMA GiverMoves ==
  ASSUME RefineInv, NEW l \in Lanes, NEW c \in Calls, NEW quarantine \in BOOLEAN, NEW next, next # "queued",
         GiveUp(l, c, quarantine, next), at[c] \in WithPermit, Lane(c) = l, KeepersStay,
         \A d \in Calls \ {c} : sid'[d] = sid[d], sid'[c] = sid[c] \/ sid'[c] = None
  PROVE  Faithful
PROOF
<1> DEFINE g == Release(Cap(l), gates[l], quarantine)
           s == Served(Cap(l), gates[l], quarantine)
<1>1. gates[l] \in AnyGate /\ Distinct(gates[l].waiters) /\ Cap(l) \in Int
  BY ExecutionAssumption DEF RefineInv, SlotsInv, AdmissionInv, QueuesOK, Cap
<1>2. s \subseteq Members(gates[l].waiters)
  BY <1>1, ReleaseQueue
<1>3. Regate(l, g, s, c, next, FALSE)
  BY DEF GiveUp
<1>4. g.closed = gates[l].closed
  BY <1>1 DEF Release, Drop, Drain, GiveBack, AnyGate
<1>5. LaneAt(l)[c] = "holding" /\ LaneAt(l)'[c] = "idle" /\ c \notin s
  <2>1. permit[c] /\ at[c] # "queued" /\ sid[c] # None
    <3>1. permit[c]
      BY DEF RefineInv, SlotsInv, SlotTables, PermitsOK
    <3>2. at[c] # "queued" /\ at[c] # "idle"
      BY DEF WithPermit
    <3>3. sid[c] \in Sessions
      BY <3>2 DEF RefineInv, SlotsInv, AdmissionInv, CallsOK
    <3> QED BY <3>1, <3>2, <3>3, ExecutionAssumption
  <2>2. at'[c] # "queued" /\ ~permit'[c]
    BY <1>3 DEF Regate
  <2>3. c \notin s
    BY <1>2, <2>1 DEF RefineInv, SlotsInv, AdmissionInv, QueuesOK
  <2> QED BY <2>1, <2>2, <2>3, LaneAtValues
<1> HIDE DEF g, s
<1>6. OtherLanes(l, g)
  BY <1>2, <1>3, OtherLane
<1>7. OthersServed(l, c, s, g)
  BY <1>2, <1>3, OthersInQueue
<1>8. GivesBack(l, c, quarantine)
  <2> DEFINE f == [d \in Takers |->
                     IF d = c THEN "idle"
                     ELSE IF d \in s THEN "holding"
                     ELSE IF LaneAt(l)[d] = "waiting" /\ d \notin Members(g.waiters) THEN "idle"
                     ELSE LaneAt(l)[d]]
  <2>1. \A d \in Calls : LaneAt(l)'[d] = f[d]
    BY <1>5, <1>7 DEF OthersServed, Takers
  <2>2. \A d \in Keepers : LaneAt(l)'[d] = f[d]
    BY <1>2, QueuedCalls, KeepersIn DEF Takers
  <2>3. f = [d \in Takers |-> f[d]]
    OBVIOUS
  <2> HIDE DEF f
  <2>4. LaneAt(l)' = f
    BY <2>1, <2>2, <2>3, LaneAtFunction DEF Takers
  <2> QED BY <1>5, <1>6, <2>4 DEF OtherLanes, GivesBack, GivenIn, f, g, s
<1>9. \A k \in Lanes : LaneMoves(k)
  BY <1>6, <1>8 DEF OtherLanes, LaneMoves, Takers
<1> QED BY <1>4, <1>6, <1>9 DEF OtherLanes, Faithful

\* A slot is withheld by no call, and a gate that closes, fail waiters.
LEMMA DroppedFail ==
  ASSUME RefineInv, NEW l \in Lanes, NEW g, NEW c, c \notin Calls, NEW next, NEW mine,
         Regate(l, g, {}, c, next, mine), c = None, UNCHANGED <<sid, cache, ending>>
  PROVE  FailsDropped(l) /\ OtherLanes(l, g)
PROOF
<1>1. {} \subseteq Members(gates[l].waiters) /\ c \in Calls \cup {None} /\ \A d \in Calls \ {c} : sid'[d] = sid[d]
  OBVIOUS
<1>k. KeepersStay
  BY SameKeepers
<1>2. OtherLanes(l, g)
  BY <1>1, <1>k, OtherLane
<1>3. OthersServed(l, c, {}, g)
  BY <1>1, OthersInQueue
<1> DEFINE f == [d \in Takers |->
                   IF LaneAt(l)[d] = "waiting" /\ d \notin Members(g.waiters) THEN "idle" ELSE LaneAt(l)[d]]
<1>4. \A d \in Takers : LaneAt(l)'[d] = f[d]
  BY <1>3, <1>k, KeepersIn DEF OthersServed, Takers
<1>5. f = [d \in Takers |-> f[d]]
  OBVIOUS
<1> HIDE DEF f
<1>6. LaneAt(l)' = f
  BY <1>4, <1>5, LaneAtFunction
<1> QED BY <1>2, <1>6 DEF OtherLanes, FailsDropped, f

\* A reset is over: its worker may have been quarantined, which withholds a slot.
LEMMA ResetMoves ==
  ASSUME RefineInv, NEW s \in Sessions, NEW ok \in BOOLEAN, ResetDone(s, ok)
  PROVE  Faithful
PROOF
<1>1. CASE ok
  <2>1. UNCHANGED <<gates, permit, at, sid>> /\ UNCHANGED <<cache, ending>>
    BY <1>1 DEF ResetDone
  <2> QED BY <2>1, SameKeepers, NobodyMoves
<1>2. CASE ~ok
  <2> DEFINE g == QuarantineSlot(PoolSize, gates["worker"])
  <2>1. Regate("worker", g, {}, None, "idle", FALSE) /\ UNCHANGED <<sid, cache, ending>>
    BY <1>2 DEF ResetDone
  <2>2. None \notin Calls /\ "worker" \in Lanes /\ Cap("worker") = PoolSize
    BY ExecutionAssumption DEF Lanes, Cap
  <2>3. g.closed = gates["worker"].closed
    BY <2>2 DEF QuarantineSlot, Drop, Quarantine, AnyGate, RefineInv, SlotsInv, AdmissionInv, QueuesOK
  <2> HIDE DEF g
  <2>4. FailsDropped("worker") /\ OtherLanes("worker", g) /\ gates'["worker"] = g
    BY <2>1, <2>2, DroppedFail DEF OtherLanes
  <2>5. LaneMoves("worker")
    <3>1. CASE g # gates["worker"]
      BY <2>2, <2>4, <3>1 DEF LaneMoves, WithholdsOne, g
    <3>2. CASE g = gates["worker"]
      <4>1. \A d \in Takers : LaneAt("worker")[d] = "waiting" => d \in Members(g.waiters)
        BY <3>2, LaneAtValues, KeeperValues DEF RefineInv, QueuesComplete, Takers
      <4>2. LaneAt("worker")' = [d \in Takers |-> LaneAt("worker")[d]]
        BY <2>4, <4>1 DEF FailsDropped
      <4> QED BY <2>4, <3>2, <4>2, LaneAtItself DEF LaneMoves, StaysPut
    <3> QED BY <3>1, <3>2
  <2>6. \A k \in Lanes : LaneMoves(k)
    BY <2>4, <2>5 DEF LaneMoves, OtherLanes
  <2> QED BY <2>3, <2>4, <2>6 DEF Faithful, OtherLanes
<1> QED BY <1>1, <1>2

\* dispose() closes both gates.
LEMMA DisposeMoves ==
  ASSUME RefineInv, Dispose
  PROVE  (\A l \in Lanes : LaneMoves(l)) /\ QueuesComplete'
PROOF
<1>1. \A d \in Calls : at'[d] = IF at[d] = "queued" THEN "failing" ELSE at[d]
  BY DEF Dispose
<1>2. UNCHANGED <<sid, permit>> /\ KeepersStay
  BY SameKeepers DEF Dispose
<1>3. ASSUME NEW l \in Lanes PROVE LaneMoves(l)
  <2>1. gates'[l] = Close(gates[l]) /\ ~gates[l].closed
    BY DEF Dispose, RefineInv, GatesOpen
  <2>2. Members(gates'[l].waiters) = {}
    <3>1. gates[l] \in AnyGate
      BY DEF RefineInv, SlotsInv, AdmissionInv, QueuesOK
    <3> QED BY <2>1, <3>1, CloseQueue, EmptyQueue
  <2>3. ASSUME NEW d \in Calls
        PROVE  LaneAt(l)'[d] = IF LaneAt(l)[d] = "waiting" /\ d \notin Members(gates'[l].waiters) THEN "idle"
                               ELSE LaneAt(l)[d]
    <3>1. CASE at[d] = "queued"
      <4>1. at'[d] = "failing" /\ permit'[d] = permit[d] /\ ~permit[d] /\ sid'[d] = sid[d] /\ Lane(d)' = Lane(d)
        BY <1>1, <1>2, <3>1 DEF RefineInv, SlotsInv, SlotTables, PermitsOK, WithPermit, Lane
      <4> QED BY <2>2, <3>1, <4>1, LaneAtValues
    <3>2. CASE at[d] # "queued"
      <4>1. at'[d] = at[d] /\ permit'[d] = permit[d] /\ sid'[d] = sid[d] /\ Lane(d)' = Lane(d)
        BY <1>1, <1>2, <3>2 DEF Lane
      <4> QED BY <3>2, <4>1, LaneAtValues
    <3> QED BY <3>1, <3>2
  <2> DEFINE f == [d \in Takers |->
                     IF LaneAt(l)[d] = "waiting" /\ d \notin Members(gates'[l].waiters) THEN "idle" ELSE LaneAt(l)[d]]
  <2>4. \A d \in Takers : LaneAt(l)'[d] = f[d]
    BY <1>2, <2>3, KeepersIn DEF Takers
  <2>5. f = [d \in Takers |-> f[d]]
    OBVIOUS
  <2> HIDE DEF f
  <2>6. LaneAt(l)' = f
    BY <2>4, <2>5, LaneAtFunction
  <2> QED BY <2>1, <2>6 DEF LaneMoves, Closes, FailsDropped, f
<1>4. QueuesComplete'
  BY <1>1 DEF QueuesComplete
<1> QED BY <1>3, <1>4

\* A call asks for a permit: it gets one, joins the queue or is turned
\* away, of which the gate of a client tells nothing.
LEMMA AskerMoves ==
  ASSUME RefineInv, NEW c \in Calls, Proceed(c)
  PROVE  Faithful
PROOF
<1> DEFINE l == Lane(c)
           g == gates[l]
           a == Answer(l, g, c)
           h == Requested(g, c, a)
           m == a = "granted"
<1>1. l \in Lanes /\ a \in {"granted", "queued", "failing"} /\ m \in BOOLEAN
  BY DEF Lane, Lanes, Answer
<1>2. g \in AnyGate
  BY <1>1 DEF RefineInv, SlotsInv, AdmissionInv, QueuesOK
<1>3. Regate(l, h, {}, c, a, m) /\ UNCHANGED sid /\ KeepersStay
  BY SameKeepers DEF Proceed, RequestPermit
<1>4. at[c] = "admitted" /\ ~permit[c] /\ sid[c] # None
  <2>1. at[c] = "admitted"
    BY DEF Proceed
  <2>2. ~permit[c]
    BY <2>1 DEF RefineInv, SlotsInv, SlotTables, PermitsOK, WithPermit
  <2>3. sid[c] \in Sessions
    BY <2>1 DEF RefineInv, SlotsInv, AdmissionInv, CallsOK
  <2> QED BY <2>1, <2>2, <2>3, ExecutionAssumption
<1>5. /\ a = "granted" => SlotFree(Cap(l), g) /\ h = Take(g)
      /\ a = "queued" => ~SlotFree(Cap(l), g) /\ ~Hopeless(Cap(l), g) /\ h = Enqueue(g, c)
      /\ a = "failing" => h = g
  BY DEF Answer, Requested
<1>6. h.closed = g.closed
  BY <1>1, <1>2, <1>5 DEF Take, Enqueue, AnyGate
<1>7. a = "queued" => c \in Members(h.waiters)
  <2>1. ASSUME a = "queued" PROVE c \in Members(h.waiters)
    <3>1. h.waiters = Append(g.waiters, c) /\ g.waiters \in Seq(Calls)
      BY <1>2, <1>5, <2>1 DEF Enqueue, AnyGate
    <3> DEFINE q == Append(g.waiters, c)
    <3>2. Len(q) \in 1..Len(q) /\ q[Len(q)] = c
      BY <3>1
    <3> HIDE DEF q
    <3> QED BY <3>1, <3>2 DEF Members, q
  <2> QED BY <2>1
<1>8. /\ LaneAt(l)[c] = "idle" /\ at'[c] = a /\ (permit'[c] <=> m)
      /\ LaneAt(l)'[c] = IF a = "queued" THEN "waiting" ELSE IF m THEN "holding" ELSE "idle"
  <2>1. at'[c] = a /\ (permit'[c] <=> m)
    BY <1>3 DEF Regate
  <2>2. sid'[c] # None /\ Lane(c)' = l
    BY <1>3, <1>4 DEF Lane
  <2>3. LaneAt(l)[c] = "idle"
    BY <1>4, LaneAtValues
  <2>4. LaneAt(l)'[c] = IF at'[c] = "queued" THEN "waiting" ELSE IF permit'[c] THEN "holding" ELSE "idle"
    BY <2>2, LaneAtValues
  <2> QED BY <2>1, <2>3, <2>4
<1> HIDE DEF h, m, a, g
<1>9. OtherLanes(l, h) /\ OthersServed(l, c, {}, h)
  <2>1. {} \subseteq Members(gates[l].waiters) /\ \A d \in Calls \ {c} : sid'[d] = sid[d]
    BY <1>3
  <2>2. OthersServed(l, c, {}, h)
    BY ONLY RefineInv, <1>1, <1>3, <2>1, OthersInQueue
  <2>3. c \in Calls => Lane(c) = l /\ (sid'[c] = sid[c] \/ sid'[c] = None)
    BY <1>3
  <2>4. c \in Calls /\ a = "queued" => sid'[c] = sid[c] /\ c \in Members(h.waiters)
    BY <1>3, <1>7
  <2> HIDE DEF l
  <2>5. OtherLanes(l, h)
    BY ONLY RefineInv, <1>1, <1>3, <2>1, <2>3, <2>4, OtherLane
  <2> QED BY <2>2, <2>5
<1>10. \A k \in Keepers : k # c /\ LaneAt(l)'[k] = LaneAt(l)[k]
  <2>1. \A lane : \A k \in Keepers : LaneAt(lane)'[k] = LaneAt(lane)[k]
    BY <1>3, KeepersIn
  <2>2. \A k \in Keepers : k # c
    BY ExecutionAssumption
  <2>3. Lane(c)' = Lane(c)
    BY <1>3 DEF Lane
  <2> QED BY <2>1, <2>2, <2>3
<1>11. ASSUME NEW d \in Calls \ {c} PROVE LaneAt(l)'[d] = LaneAt(l)[d]
  <2>1. LaneAt(l)[d] = "waiting" => d \in Members(h.waiters)
    <3>1. ASSUME LaneAt(l)[d] = "waiting" PROVE d \in Members(g.waiters)
      BY <3>1, LaneAtValues DEF RefineInv, QueuesComplete, g
    <3>2. Members(g.waiters) \subseteq Members(h.waiters)
      <4>1. CASE a = "queued"
        <5>1. h.waiters = Append(g.waiters, c) /\ g.waiters \in Seq(Calls)
          BY <1>2, <1>5, <4>1 DEF Enqueue, AnyGate
        <5>2. \A i \in 1..Len(g.waiters) : i \in 1..Len(h.waiters) /\ h.waiters[i] = g.waiters[i]
          BY <5>1
        <5> QED BY <5>2 DEF Members
      <4>2. CASE a # "queued"
        <5>1. h.waiters = g.waiters
          BY <1>1, <1>2, <1>5, <4>2 DEF Take, AnyGate
        <5> QED BY <5>1
      <4> QED BY <4>1, <4>2
    <3> QED BY <3>1, <3>2
  <2> QED BY <1>9, <2>1 DEF OthersServed
<1>12. gates'[l] = h
  BY <1>9 DEF OtherLanes
<1>13. ASSUME NEW v, \A d \in Calls : LaneAt(l)'[d] = IF d = c THEN v ELSE LaneAt(l)[d]
       PROVE  LaneAt(l)' = [LaneAt(l) EXCEPT ![c] = v]
  <2> DEFINE f == [LaneAt(l) EXCEPT ![c] = v]
  <2>1. f = [d \in Takers |-> IF d = c THEN v ELSE LaneAt(l)[d]]
    BY LaneAtItself
  <2>2. f = [d \in Takers |-> f[d]] /\ \A d \in Takers : LaneAt(l)'[d] = f[d]
    BY <1>10, <1>13, <2>1 DEF Takers
  <2> HIDE DEF f
  <2>3. LaneAt(l)' = f
    BY <2>2, LaneAtFunction
  <2> QED BY <2>3 DEF f
<1>14. LaneMoves(l)
  <2>1. CASE a = "granted"
    <3>1. LaneAt(l)' = [LaneAt(l) EXCEPT ![c] = "holding"]
      BY <1>8, <1>11, <1>13, <2>1 DEF m
    <3> QED BY <1>5, <1>8, <1>12, <2>1, <3>1 DEF LaneMoves, TakesSlot, Takers, g
  <2>2. CASE a = "queued"
    <3>1. LaneAt(l)' = [LaneAt(l) EXCEPT ![c] = "waiting"]
      BY <1>8, <1>11, <1>13, <2>2
    <3> QED BY <1>5, <1>8, <1>12, <2>2, <3>1 DEF LaneMoves, JoinsQueue, Takers, g
  <2>3. CASE a = "failing"
    <3>1. \A d \in Takers : LaneAt(l)'[d] = LaneAt(l)[d]
      BY <1>8, <1>10, <1>11, <2>3 DEF m, Takers
    <3>2. LaneAt(l)' = LaneAt(l)
      BY <3>1, LaneAtFunction, LaneAtItself
    <3> QED BY <1>5, <1>12, <2>3, <3>2 DEF LaneMoves, StaysPut, g
  <2> QED BY <1>1, <2>1, <2>2, <2>3
<1>15. \A k \in Lanes : LaneMoves(k)
  BY <1>9, <1>14 DEF LaneMoves, OtherLanes
<1> QED BY <1>6, <1>9, <1>12, <1>15 DEF Faithful, OtherLanes, StaysPut, g

-----------------------------------------------------------------------------
(* Permits that temporary sessions keep.                                   *)

\* An entry that leaves the cache is the only one that does,
LEMMA EntryLeaves ==
  ASSUME CacheOK, NEW i \in 1..Len(cache), cache' = Without(cache, i),
         NEW s, s # cache[i].sid
  PROVE  Matches(s)' = {} <=> Matches(s) = {}
PROOF
<1>1. cache \in Seq(Entries) /\ Len(cache) \in Nat /\ i \in Nat
  BY DEF CacheOK
<1>2. /\ Len(cache') = Len(cache) - 1
      /\ \A j \in 1..Len(cache) - 1 : cache'[j] = cache[IF j < i THEN j ELSE j + 1]
  BY <1>1, WithoutFacts
<1>3. ASSUME NEW j \in Matches(s) PROVE Matches(s)' # {}
  <2>1. j \in 1..Len(cache) /\ cache[j].sid = s /\ j # i
    BY <1>3 DEF Matches
  <2> DEFINE k == IF j < i THEN j ELSE j - 1
  <2>2. k \in 1..Len(cache) - 1 /\ j = IF k < i THEN k ELSE k + 1
    BY <1>1, <2>1
  <2>3. k \in 1..Len(cache') /\ cache'[k].sid = s
    BY <1>2, <2>1, <2>2
  <2> HIDE DEF k
  <2> QED BY <2>3 DEF Matches
<1>4. Matches(s) = {} => Matches(s)' = {}
  BY CacheShrinks
<1> QED BY <1>3, <1>4

\* and one that joins it is the only new one.
LEMMA EntryComes ==
  ASSUME CacheOK, NEW e \in Entries, cache' = Append(cache, e), NEW s
  PROVE  Matches(s)' = {} <=> Matches(s) = {} /\ s # e.sid
PROOF
<1>1. /\ cache \in Seq(Entries) /\ Len(cache) \in Nat /\ Len(cache') = Len(cache) + 1
      /\ \A j \in 1..Len(cache) : cache'[j] = cache[j]
      /\ cache'[Len(cache) + 1] = e
  BY DEF CacheOK
<1>2. \A j \in 1..Len(cache') : j \in 1..Len(cache) \/ j = Len(cache) + 1
  BY <1>1
<1>3. \A j \in 1..Len(cache) : j \in 1..Len(cache')
  BY <1>1
<1>4. Len(cache) + 1 \in 1..Len(cache')
  BY <1>1
<1> QED BY <1>1, <1>2, <1>3, <1>4 DEF Matches

\* A place for a permit is that of a temporary session.
LEMMA Places ==
  /\ \A k \in Keepers : /\ k[1] \in Sessions /\ Kind[k[1]] = "temp" /\ k[2] \in {"cached", "ending"}
                        /\ k = <<k[1], k[2]>>
  /\ \A s \in Sessions : Kind[s] = "temp" => <<s, "cached">> \in Keepers /\ <<s, "ending">> \in Keepers
BY DEF Keepers

\* The entries of the other sessions come and go without a permit.
LEMMA OthersLeave ==
  ASSUME CacheOK, NEW i \in 1..Len(cache), cache' = Without(cache, i), Kind[cache[i].sid] # "temp",
         ending' = ending
  PROVE  KeepersStay
PROOF
<1>1. ASSUME NEW k \in Keepers PROVE Keeps(k)' <=> Keeps(k)
  <2>1. k[1] # cache[i].sid
    BY Places
  <2>2. Matches(k[1])' = {} <=> Matches(k[1]) = {}
    BY <2>1, EntryLeaves
  <2> QED BY <2>2 DEF Keeps
<1> QED BY <1>1 DEF KeepersStay

LEMMA OthersCome ==
  ASSUME CacheOK, NEW e \in Entries, cache' = Append(cache, e), Kind[e.sid] # "temp", ending' = ending
  PROVE  KeepersStay
PROOF
<1>1. ASSUME NEW k \in Keepers PROVE Keeps(k)' <=> Keeps(k)
  <2>1. k[1] # e.sid
    BY Places
  <2>2. Matches(k[1])' = {} <=> Matches(k[1]) = {}
    BY <2>1, EntryComes
  <2> QED BY <2>2 DEF Keeps
<1> QED BY <1>1 DEF KeepersStay

\* A permit goes from x to y, and the gate sees nothing of it.
LEMMA HandedOn ==
  ASSUME RefineInv, NEW x \in Takers, NEW y \in Takers, x # y, gates' = gates,
         LaneAt("worker")[x] = "holding", LaneAt("worker")[y] = "idle",
         LaneAt("worker")'[x] = "idle", LaneAt("worker")'[y] = "holding",
         \A z \in Takers \ {x, y} : LaneAt("worker")'[z] = LaneAt("worker")[z],
         \A z \in Calls : LaneAt("primary")'[z] = LaneAt("primary")[z],
         \A d \in Calls : at'[d] = "queued" => at[d] = "queued" /\ sid'[d] = sid[d]
  PROVE  Faithful
PROOF
<1>1. LaneMoves("worker")
  <2> DEFINE f == [LaneAt("worker") EXCEPT ![x] = "idle", ![y] = "holding"]
  <2>1. f = [z \in Takers |-> IF z = y THEN "holding" ELSE IF z = x THEN "idle" ELSE LaneAt("worker")[z]]
    BY LaneAtItself
  <2>2. f = [z \in Takers |-> f[z]] /\ \A z \in Takers : LaneAt("worker")'[z] = f[z]
    BY <2>1
  <2> HIDE DEF f
  <2>3. LaneAt("worker")' = f
    BY <2>2, LaneAtFunction
  <2>4. Passes("worker", x, y)
    BY <2>3 DEF Passes, f
  <2> QED BY <2>4 DEF LaneMoves
<1>2. LaneMoves("primary")
  <2>1. \A z \in Takers : LaneAt("primary")'[z] = LaneAt("primary")[z]
    BY KeepersIn DEF Takers
  <2>2. LaneAt("primary")' = LaneAt("primary")
    BY <2>1, LaneAtFunction, LaneAtItself
  <2> QED BY <2>2 DEF LaneMoves, StaysPut
<1>3. QueuesComplete'
  <2>1. ASSUME NEW d \in Calls, at'[d] = "queued" PROVE d \in Members(gates'[Lane(d)'].waiters)
    <3>1. at[d] = "queued" /\ Lane(d)' = Lane(d)
      BY <2>1 DEF Lane
    <3> QED BY <3>1 DEF RefineInv, QueuesComplete
  <2> QED BY <2>1 DEF QueuesComplete
<1> QED BY <1>1, <1>2, <1>3 DEF Faithful, Lanes

\* What a place is for the worker lane before and after a step.
LEMMA KeptPlaces ==
  /\ \A k \in Keepers : Keeps(k) => LaneAt("worker")[k] = "holding"
  /\ \A k \in Keepers : ~Keeps(k) => LaneAt("worker")[k] = "idle"
  /\ \A k \in Keepers : Keeps(k)' => LaneAt("worker")'[k] = "holding"
  /\ \A k \in Keepers : ~Keeps(k)' => LaneAt("worker")'[k] = "idle"
  /\ \A k \in Keepers : (Keeps(k)' <=> Keeps(k)) => LaneAt("worker")'[k] = LaneAt("worker")[k]
PROOF
<1>1. ASSUME NEW k \in Keepers
      PROVE  /\ LaneAt("worker")[k] = IF Keeps(k) THEN "holding" ELSE "idle"
             /\ LaneAt("worker")'[k] = IF Keeps(k)' THEN "holding" ELSE "idle"
  BY KeeperValues
<1> QED BY <1>1

\* A temporary session takes the worker it kept, with the permit.
LEMMA RetainedMoves ==
  ASSUME RefineInv, NEW c \in Calls, ProceedRetained(c)
  PROVE  Faithful
PROOF
<1>s. PICK s \in Sessions : s = sid[c]
  BY DEF ProceedRetained, RefineInv, SlotsInv, AdmissionInv, CallsOK
<1> DEFINE i == First(Matches(s))  x == <<s, "cached">>
<1>1. /\ at[c] = "admitted" /\ Kind[s] = "temp" /\ Matches(s) # {} /\ cache' = Without(cache, i)
      /\ permit' = [permit EXCEPT ![c] = TRUE] /\ UNCHANGED <<gates, sid>> /\ ending' = ending
  BY <1>s DEF ProceedRetained
<1>2. PICK next \in {"leased", "discardingRetained"} : at' = [at EXCEPT ![c] = next]
  BY DEF ProceedRetained
<1>3. /\ at \in [Calls -> Stages] /\ permit \in [Calls -> BOOLEAN] /\ CacheOK /\ ~permit[c]
      /\ s # None
  <2>1. /\ at \in [Calls -> Stages] /\ permit \in [Calls -> BOOLEAN] /\ CacheOK
    BY <1>1 DEF RefineInv, SlotsInv, SlotTables, PermitsOK, AdmissionInv, CallsOK
  <2>2. ~permit[c]
    BY <1>1 DEF RefineInv, SlotsInv, SlotTables, PermitsOK, WithPermit
  <2> QED BY <2>1, <2>2, ExecutionAssumption
<1>4. i \in 1..Len(cache) /\ cache[i].sid = s
  <2>1. Matches(s) \subseteq 1..Len(cache)
    BY DEF Matches
  <2>2. i \in Matches(s) /\ i \in 1..Len(cache)
    BY <1>1, <1>3, <2>1, EntryFound
  <2> QED BY <2>2 DEF Matches
<1> HIDE DEF i
<1>5. x \in Keepers /\ x[1] = s /\ x[2] = "cached"
  BY <1>1, Places
<1>6. Keeps(x) /\ ~Keeps(x)'
  <2>1. Matches(s)' = {}
    BY <1>1, <1>3, <1>4, CacheShrinks
  <2> QED BY <1>1, <1>5, <2>1 DEF Keeps
<1>7. ASSUME NEW k \in Keepers \ {x} PROVE Keeps(k)' <=> Keeps(k)
  <2>1. CASE k[2] = "ending"
    BY <1>1, <2>1 DEF Keeps
  <2>2. CASE k[2] # "ending"
    <3>1. k[1] # s
      BY <1>7, <2>2, Places
    <3>2. Matches(k[1])' = {} <=> Matches(k[1]) = {}
      BY <1>1, <1>3, <1>4, <3>1, EntryLeaves
    <3> QED BY <1>1, <3>2 DEF Keeps
  <2> QED BY <2>1, <2>2
<1> HIDE DEF x
<1>8. /\ LaneAt("worker")[x] = "holding" /\ LaneAt("worker")'[x] = "idle"
      /\ \A k \in Keepers \ {x} : LaneAt("worker")'[k] = LaneAt("worker")[k]
  BY <1>5, <1>6, <1>7, KeptPlaces
<1>9. /\ LaneAt("worker")[c] = "idle" /\ LaneAt("worker")'[c] = "holding"
      /\ LaneAt("primary")'[c] = LaneAt("primary")[c]
  <2>1. Lane(c) = "worker" /\ Lane(c)' = "worker"
    BY <1>s, <1>1 DEF Lane
  <2>2. at'[c] # "queued" /\ permit'[c] /\ sid'[c] # None
    BY <1>s, <1>1, <1>2, <1>3
  <2>3. LaneAt("worker")[c] = "idle" /\ LaneAt("worker")'[c] = "holding"
    BY <1>1, <1>3, <2>1, <2>2, LaneAtValues
  <2>4. LaneAt("primary")[c] = "idle" /\ LaneAt("primary")'[c] = "idle"
    BY <2>1, LaneAtValues
  <2> QED BY <2>3, <2>4
<1>10. \A d \in Calls \ {c}, l \in Lanes : LaneAt(l)'[d] = LaneAt(l)[d]
  <2>1. \A d \in Calls \ {c} : at'[d] = at[d] /\ permit'[d] = permit[d] /\ sid'[d] = sid[d]
    BY <1>1, <1>2, <1>3
  <2> QED BY <2>1, CallStays
<1>11. \A d \in Calls : at'[d] = "queued" => at[d] = "queued" /\ sid'[d] = sid[d]
  BY <1>1, <1>2, <1>3
<1>12. x \in Takers /\ c \in Takers /\ x # c
  BY <1>5, ExecutionAssumption DEF Takers
<1>13. \A z \in Takers \ {x, c} : LaneAt("worker")'[z] = LaneAt("worker")[z]
  BY <1>8, <1>10 DEF Takers, Lanes
<1>14. \A z \in Calls : LaneAt("primary")'[z] = LaneAt("primary")[z]
  BY <1>9, <1>10 DEF Lanes
<1> QED BY <1>1, <1>8, <1>9, <1>11, <1>12, <1>13, <1>14, HandedOn

\* It gives the permit into the cache at the end of a turn,
LEMMA KeepMoves ==
  ASSUME RefineInv, NEW c \in Calls, at[c] = "leased", permit[c], Kind[sid[c]] = "temp", Lane(c) = "worker",
         cache' = Append(cache, [worker |-> hand[c], sid |-> sid[c]]), UNCHANGED <<gates, ending>>,
         at' = [at EXCEPT ![c] = "idle"], permit' = [permit EXCEPT ![c] = FALSE], sid' = [sid EXCEPT ![c] = None]
  PROVE  Faithful
PROOF
<1>s. PICK s \in Sessions : s = sid[c]
  BY DEF RefineInv, SlotsInv, AdmissionInv, CallsOK
<1> DEFINE e == [worker |-> hand[c], sid |-> s]  x == <<s, "cached">>
<1>1. /\ at \in [Calls -> Stages] /\ permit \in [Calls -> BOOLEAN] /\ CacheOK
      /\ sid \in [Calls -> Sessions \cup {None}] /\ s # None
  <2>1. /\ at \in [Calls -> Stages] /\ permit \in [Calls -> BOOLEAN] /\ CacheOK /\ sid \in [Calls -> Sessions \cup {None}]
    BY DEF RefineInv, SlotsInv, SlotTables, PermitsOK, AdmissionInv, CallsOK
  <2> QED BY <2>1, ExecutionAssumption
<1>2. e \in Entries /\ e.sid = s /\ cache' = Append(cache, e)
  <2>1. hand[c] \in Workers
    BY DEF RefineInv, SlotsInv, SlotTables, HandsOK
  <2> QED BY <1>s, <2>1 DEF Entries
<1> HIDE DEF e
<1>3. Matches(s) = {}
  BY <1>s DEF RefineInv, SlotsInv, SlotTables, TempOK, Beyond, Past, Stages
<1>4. \A t : Matches(t)' = {} <=> Matches(t) = {} /\ t # s
  BY <1>1, <1>2, EntryComes
<1>5. x \in Keepers /\ x[1] = s /\ x[2] = "cached"
  BY <1>s, Places
<1>6. ~Keeps(x) /\ Keeps(x)'
  BY <1>3, <1>4, <1>5 DEF Keeps
<1>7. ASSUME NEW k \in Keepers \ {x} PROVE Keeps(k)' <=> Keeps(k)
  <2>1. CASE k[2] = "ending"
    BY <2>1 DEF Keeps
  <2>2. CASE k[2] # "ending"
    <3>1. k[1] # s
      BY <1>7, <2>2, Places
    <3> QED BY <1>4, <3>1 DEF Keeps
  <2> QED BY <2>1, <2>2
<1> HIDE DEF x
<1>8. /\ LaneAt("worker")[x] = "idle" /\ LaneAt("worker")'[x] = "holding"
      /\ \A k \in Keepers \ {x} : LaneAt("worker")'[k] = LaneAt("worker")[k]
  BY <1>5, <1>6, <1>7, KeptPlaces
<1>9. /\ LaneAt("worker")[c] = "holding" /\ LaneAt("worker")'[c] = "idle"
      /\ LaneAt("primary")'[c] = LaneAt("primary")[c]
  <2>1. sid'[c] = None /\ sid[c] # None
    BY <1>s, <1>1
  <2>2. LaneAt("worker")[c] = "holding" /\ LaneAt("worker")'[c] = "idle"
    BY <2>1, LaneAtValues
  <2>3. LaneAt("primary")[c] = "idle" /\ LaneAt("primary")'[c] = "idle"
    BY <2>1, LaneAtValues
  <2> QED BY <2>2, <2>3
<1>10. ASSUME NEW d \in Calls \ {c}, NEW l \in Lanes PROVE LaneAt(l)'[d] = LaneAt(l)[d]
  <2>1. d \in Calls /\ (at'[d] = "queued" <=> at[d] = "queued") /\ permit'[d] = permit[d] /\ sid'[d] = sid[d]
    BY <1>1
  <2> QED BY ONLY <2>1, CallStays
<1>11. \A d \in Calls : at'[d] = "queued" => at[d] = "queued" /\ sid'[d] = sid[d]
  BY <1>1
<1>12. x \in Takers /\ c \in Takers /\ x # c
  BY <1>5, ExecutionAssumption DEF Takers
<1>13. \A z \in Takers \ {x, c} : LaneAt("worker")'[z] = LaneAt("worker")[z]
  BY <1>8, <1>10 DEF Takers, Lanes
<1>14. \A z \in Calls : LaneAt("primary")'[z] = LaneAt("primary")[z]
  BY <1>9, <1>10 DEF Lanes
<1> QED BY <1>8, <1>9, <1>11, <1>12, <1>13, <1>14, HandedOn

\* and takes it out of the cache again when the session is ended.
LEMMA EndTempMoves ==
  ASSUME RefineInv, NEW s \in Sessions, EndTemp(s)
  PROVE  Faithful
PROOF
<1> DEFINE i == First(Matches(s))  x == <<s, "cached">>  y == <<s, "ending">>
<1>1. /\ Kind[s] = "temp" /\ Matches(s) # {} /\ ending[s] = None /\ cache' = Without(cache, i)
      /\ ending' = [ending EXCEPT ![s] = cache[i].worker]
      /\ at' = at /\ permit' = permit /\ sid' = sid /\ gates' = gates
  BY DEF EndTemp, callVars
<1>2. CacheOK /\ ending \in [Sessions -> Workers \cup {None}] /\ None \notin Workers
  BY ExecutionAssumption DEF RefineInv, SlotsInv, SlotTables, CacheOK
<1>3. i \in 1..Len(cache) /\ cache[i].sid = s /\ cache[i].worker \in Workers
  <2>1. Matches(s) \subseteq 1..Len(cache)
    BY DEF Matches
  <2>2. i \in Matches(s) /\ i \in 1..Len(cache) /\ cache[i].worker \in Workers
    BY <1>1, <1>2, <2>1, EntryFound
  <2> QED BY <2>2 DEF Matches
<1> HIDE DEF i
<1>4. x \in Keepers /\ y \in Keepers /\ x[1] = s /\ x[2] = "cached" /\ y[1] = s /\ y[2] = "ending" /\ x # y
  BY <1>1, Places
<1>5. Keeps(x) /\ ~Keeps(x)' /\ ~Keeps(y) /\ Keeps(y)'
  <2>1. Matches(s)' = {}
    BY <1>1, <1>2, <1>3, CacheShrinks
  <2>2. ending'[s] # None
    BY <1>1, <1>2, <1>3
  <2> QED BY <1>1, <1>4, <2>1, <2>2 DEF Keeps
<1>6. ASSUME NEW k \in Keepers \ {x, y} PROVE Keeps(k)' <=> Keeps(k)
  <2>1. k[1] # s
    BY <1>6, Places
  <2>2. Matches(k[1])' = {} <=> Matches(k[1]) = {}
    BY <1>1, <1>2, <1>3, <2>1, EntryLeaves
  <2>3. ending'[k[1]] = ending[k[1]]
    BY <1>1, <1>2, <2>1, Places
  <2> QED BY <2>2, <2>3 DEF Keeps
<1> HIDE DEF x, y
<1>7. /\ LaneAt("worker")[x] = "holding" /\ LaneAt("worker")'[x] = "idle"
      /\ LaneAt("worker")[y] = "idle" /\ LaneAt("worker")'[y] = "holding"
      /\ \A k \in Keepers \ {x, y} : LaneAt("worker")'[k] = LaneAt("worker")[k]
  BY <1>4, <1>5, <1>6, KeptPlaces
<1>8. \A d \in Calls, l \in Lanes : LaneAt(l)'[d] = LaneAt(l)[d]
  BY <1>1, CallStays
<1>9. \A d \in Calls : at'[d] = "queued" => at[d] = "queued" /\ sid'[d] = sid[d]
  BY <1>1
<1>10. x \in Takers /\ y \in Takers
  BY <1>4 DEF Takers
<1>11. \A z \in Takers \ {x, y} : LaneAt("worker")'[z] = LaneAt("worker")[z]
  BY <1>7, <1>8 DEF Takers, Lanes
<1>12. \A z \in Calls : LaneAt("primary")'[z] = LaneAt("primary")[z]
  BY <1>8 DEF Lanes
<1> QED BY <1>1, <1>4, <1>7, <1>9, <1>10, <1>11, <1>12, HandedOn

\* The end of a temporary session gives its permit back.
LEMMA EndedMoves ==
  ASSUME RefineInv, NEW s \in Sessions, NEW ok \in BOOLEAN, EndTempDone(s, ok)
  PROVE  Faithful
PROOF
<1> DEFINE l == "worker"  q == ~ok  x == <<s, "ending">>
           g == Release(Cap(l), gates[l], q)
           served_ == Served(Cap(l), gates[l], q)
<1>1. /\ ending[s] # None /\ Kind[s] = "temp" /\ ending' = [ending EXCEPT ![s] = None] /\ cache' = cache /\ sid' = sid
      /\ l \in Lanes /\ q \in BOOLEAN /\ None \notin Calls /\ ending \in [Sessions -> Workers \cup {None}]
  BY ExecutionAssumption DEF EndTempDone, RefineInv, OnlyTempsEnd, SlotsInv, SlotTables, CacheOK, Lanes
<1>2. Regate(l, g, served_, None, "idle", FALSE)
  BY DEF EndTempDone, GiveUp
<1>3. gates[l] \in AnyGate /\ Distinct(gates[l].waiters) /\ Cap(l) \in Int
  BY <1>1, ExecutionAssumption DEF RefineInv, SlotsInv, AdmissionInv, QueuesOK, Cap
<1>4. served_ \subseteq Members(gates[l].waiters)
  BY <1>3, ReleaseQueue
<1>5. g.closed = gates[l].closed
  BY <1>3 DEF Release, Drop, Drain, GiveBack, AnyGate
<1> HIDE DEF g, served_
<1>6. OtherLanes(l, g)
  BY <1>1, <1>2, <1>4, OtherLane
<1>7. OthersServed(l, None, served_, g)
  BY <1>1, <1>2, <1>4, OthersInQueue
<1>8. x \in Keepers /\ x[1] = s /\ x[2] = "ending"
  BY <1>1, Places
<1>9. Keeps(x) /\ ~Keeps(x)'
  BY <1>1, <1>8 DEF Keeps
<1>10. ASSUME NEW k \in Keepers \ {x} PROVE Keeps(k)' <=> Keeps(k)
  <2>1. CASE k[2] = "cached"
    BY <1>1, <2>1 DEF Keeps, Matches
  <2>2. CASE k[2] # "cached"
    <3>1. k[1] # s
      BY <1>10, <2>2, Places
    <3>2. ending'[k[1]] = ending[k[1]]
      BY <1>1, <3>1, Places
    <3> QED BY <2>2, <3>2 DEF Keeps
  <2> QED BY <2>1, <2>2
<1> HIDE DEF x
<1>11. /\ LaneAt(l)[x] = "holding" /\ LaneAt(l)'[x] = "idle"
       /\ \A k \in Keepers \ {x} : LaneAt(l)'[k] = LaneAt(l)[k]
  BY <1>8, <1>9, <1>10, KeptPlaces
<1>12. \A k \in Keepers : k \notin served_ /\ LaneAt(l)[k] # "waiting" /\ k \notin Calls
  <2>1. \A k \in Keepers : k \notin Members(gates[l].waiters) /\ k \notin Calls
    BY <1>1, QueuedCalls
  <2>2. \A k \in Keepers : LaneAt(l)[k] # "waiting"
    BY KeptPlaces
  <2> QED BY <1>4, <2>1, <2>2
<1>13. GivesBack(l, x, q)
  <2> DEFINE f == [d \in Takers |->
                     IF d = x THEN "idle"
                     ELSE IF d \in served_ THEN "holding"
                     ELSE IF LaneAt(l)[d] = "waiting" /\ d \notin Members(g.waiters) THEN "idle"
                     ELSE LaneAt(l)[d]]
  <2>1. \A d \in Calls : d # x /\ LaneAt(l)'[d] = f[d]
    BY <1>1, <1>7, <1>8, <1>12 DEF OthersServed, Takers
  <2>2. \A d \in Keepers : LaneAt(l)'[d] = f[d]
    BY <1>11, <1>12 DEF Takers
  <2>3. f = [d \in Takers |-> f[d]]
    OBVIOUS
  <2> HIDE DEF f
  <2>4. LaneAt(l)' = f
    BY <2>1, <2>2, <2>3, LaneAtFunction DEF Takers
  <2> QED BY <1>6, <1>11, <2>4 DEF OtherLanes, GivesBack, GivenIn, f, g, served_
<1>14. \A k \in Lanes : LaneMoves(k)
  BY <1>1, <1>6, <1>8, <1>13 DEF OtherLanes, LaneMoves, Takers
<1> QED BY <1>5, <1>6, <1>14 DEF OtherLanes, Faithful

\* The worker a temporary session kept was unusable: the call gives the permit
\* back and asks for another one before anybody else runs.
LEMMA DiscardMoves ==
  ASSUME RefineInv, NEW c \in Calls, NEW ok \in BOOLEAN, DiscardRetainedDone(c, ok)
  PROVE  Faithful
PROOF
<1> DEFINE l == "worker"  q == ~ok
           g == Release(Cap(l), gates[l], q)
           lucky == Served(Cap(l), gates[l], q)
           a == Answer(l, g, c)
           h == Requested(g, c, a)
           m == a = "granted"
<1>1. /\ at[c] = "discardingRetained" /\ UNCHANGED <<sid, cache, ending>>
      /\ l \in Lanes /\ q \in BOOLEAN /\ Cap(l) = PoolSize /\ PoolSize \in Int
  BY ExecutionAssumption DEF DiscardRetainedDone, Lanes, Cap
<1>2. /\ Lane(c) = l /\ at[c] \in WithPermit /\ permit[c] /\ sid[c] # None
      /\ \A d \in Calls : sid'[d] = sid[d] /\ Lane(d)' = Lane(d)
  <2>1. at[c] \in WithPermit /\ at[c] \in WorkerOnly
    BY <1>1 DEF WithPermit, WorkerOnly
  <2>2. sid[c] \in Sessions
    BY <1>1 DEF RefineInv, SlotsInv, AdmissionInv, CallsOK
  <2> QED BY <1>1, <2>1, <2>2, ExecutionAssumption DEF RefineInv, SlotsInv, SlotTables, HandsOK, PermitsOK, Lane
<1>k. KeepersStay
  BY <1>1, SameKeepers
<1>3. GiveUp(l, c, q, "failing") \/ Regate(l, h, lucky, c, a, m)
  BY <1>1 DEF DiscardRetainedDone, RequestPermit
<1>4. a \in {"granted", "queued", "failing"}
  BY DEF Answer
<1>5. a = "failing" /\ Regate(l, h, lucky, c, a, m) => GiveUp(l, c, q, "failing")
  BY DEF GiveUp, Requested
<1>6. GiveUp(l, c, q, "failing") => Faithful
  BY <1>1, <1>2, <1>k, GiverMoves
<1>7. gates[l] \in AnyGate /\ Distinct(gates[l].waiters)
  BY <1>1 DEF RefineInv, SlotsInv, AdmissionInv, QueuesOK
<1>8. lucky \subseteq Members(gates[l].waiters) /\ g \in AnyGate
  BY <1>1, <1>7, ReleaseQueue
<1>9. g.closed = gates[l].closed
  BY <1>7 DEF Release, Drop, Drain, GiveBack, AnyGate
<1>10. ASSUME a \in {"granted", "queued"}, Regate(l, h, lucky, c, a, m) PROVE Faithful
  <2>1. /\ a = "granted" => SlotFree(Cap(l), g) /\ h = Take(g)
        /\ a = "queued" => ~SlotFree(Cap(l), g) /\ ~Hopeless(Cap(l), g) /\ h = Enqueue(g, c)
    BY <1>1 DEF Answer, Requested
  <2>2. h.closed = g.closed /\ m \in BOOLEAN
    BY <1>8, <1>10, <2>1 DEF Take, Enqueue, AnyGate
  <2>3. \A d \in Calls \ {c} : d \in Members(h.waiters) <=> d \in Members(g.waiters)
    <3>1. CASE a = "granted"
      <4>1. h.waiters = g.waiters
        BY <1>8, <2>1, <3>1 DEF Take, AnyGate
      <4> QED BY <4>1
    <3>2. CASE a = "queued"
      <4>1. h.waiters = Append(g.waiters, c) /\ g.waiters \in Seq(Calls)
        BY <1>8, <2>1, <3>2 DEF Enqueue, AnyGate
      <4> DEFINE w == g.waiters  v == Append(w, c)
      <4>2. /\ \A i \in 1..Len(w) : i \in 1..Len(v) /\ v[i] = w[i]
            /\ \A i \in 1..Len(v) : i \in 1..Len(w) \/ v[i] = c
        BY <4>1
      <4> HIDE DEF v, w
      <4>3. \A d \in Calls \ {c} : d \in Members(v) <=> d \in Members(w)
        BY <4>2 DEF Members
      <4> QED BY <4>1, <4>3 DEF v, w
    <3> QED BY <1>10, <3>1, <3>2
  <2>4. a = "queued" => c \in Members(h.waiters)
    <3>1. ASSUME a = "queued" PROVE c \in Members(h.waiters)
      <4>1. h.waiters = Append(g.waiters, c) /\ g.waiters \in Seq(Calls)
        BY <1>8, <2>1, <3>1 DEF Enqueue, AnyGate
      <4> DEFINE v == Append(g.waiters, c)
      <4>2. Len(v) \in 1..Len(v) /\ v[Len(v)] = c
        BY <4>1
      <4> HIDE DEF v
      <4> QED BY <4>1, <4>2 DEF Members, v
    <3> QED BY <3>1
  <2>5. LaneAt(l)[c] = "holding" /\ c \notin lucky
    <3>1. at[c] # "queued" /\ c \notin lucky
      BY <1>1, <1>8 DEF RefineInv, SlotsInv, AdmissionInv, QueuesOK
    <3> QED BY <1>2, <3>1, LaneAtValues
  <2>6. LaneAt(l)'[c] = IF m THEN "holding" ELSE "waiting"
    <3>1. at'[c] = a /\ (permit'[c] <=> m)
      BY <1>10 DEF Regate
    <3>2. sid'[c] # None /\ Lane(c)' = l
      BY <1>2
    <3> QED BY <1>10, <3>1, <3>2, LaneAtValues
  <2> HIDE DEF h, m, a, g, lucky
  <2>7. OtherLanes(l, h) /\ OthersServed(l, c, lucky, h)
    <3>1. \A d \in Calls \ {c} : sid'[d] = sid[d]
      BY <1>2
    <3>2. OthersServed(l, c, lucky, h)
      BY ONLY RefineInv, <1>1, <1>8, <1>10, <2>2, <3>1, OthersInQueue
    <3>3. c \in Calls => Lane(c) = l /\ (sid'[c] = sid[c] \/ sid'[c] = None)
      BY <1>2
    <3>4. c \in Calls /\ a = "queued" => sid'[c] = sid[c] /\ c \in Members(h.waiters)
      BY <1>2, <2>4
    <3>5. OtherLanes(l, h)
      BY ONLY RefineInv, <1>1, <1>8, <1>10, <1>k, <2>2, <3>1, <3>3, <3>4, OtherLane
    <3> QED BY <3>2, <3>5
  <2>8. ASSUME NEW v, LaneAt(l)'[c] = v
        PROVE  LaneAt(l)' = [GivenIn(l, c, q) EXCEPT ![c] = v]
    <3> DEFINE b == [d \in Takers |->
                       IF d = c THEN v
                       ELSE IF d \in lucky THEN "holding"
                       ELSE IF LaneAt(l)[d] = "waiting" /\ d \notin Members(g.waiters) THEN "idle"
                       ELSE LaneAt(l)[d]]
    <3>1. [GivenIn(l, c, q) EXCEPT ![c] = v] = b
      BY DEF GivenIn, g, lucky
    <3>2. \A d \in Calls : LaneAt(l)'[d] = b[d]
      BY <2>3, <2>7, <2>8 DEF OthersServed, Takers
    <3>3. \A d \in Keepers : LaneAt(l)'[d] = b[d]
      <4>1. ASSUME NEW d \in Keepers PROVE LaneAt(l)'[d] = b[d]
        <5>1. d \notin lucky /\ d # c /\ LaneAt(l)[d] # "waiting" /\ LaneAt(l)'[d] = LaneAt(l)[d]
          BY <1>1, <1>8, <1>k, QueuedCalls, KeepersIn
        <5> QED BY <5>1 DEF Takers
      <4> QED BY <4>1
    <3>4. b = [d \in Takers |-> b[d]]
      OBVIOUS
    <3> HIDE DEF b
    <3>5. LaneAt(l)' = b
      BY <3>2, <3>3, <3>4, LaneAtFunction DEF Takers
    <3> QED BY <3>1, <3>5
  <2>9. Renews(l, c, q)
    <3>1. gates'[l] = h
      BY <2>7 DEF OtherLanes
    <3>2. CASE a = "granted"
      <4>1. SlotFree(Cap(l), g) /\ gates'[l] = Take(g) /\ LaneAt(l)' = [GivenIn(l, c, q) EXCEPT ![c] = "holding"]
        BY <2>1, <2>6, <2>8, <3>1, <3>2 DEF m
      <4> QED BY <2>5, <4>1 DEF Renews, g
    <3>3. CASE a = "queued"
      <4>1. /\ ~SlotFree(Cap(l), g) /\ ~Hopeless(Cap(l), g) /\ gates'[l] = Enqueue(g, c)
            /\ LaneAt(l)' = [GivenIn(l, c, q) EXCEPT ![c] = "waiting"]
        BY <2>1, <2>6, <2>8, <3>1, <3>3 DEF m
      <4> QED BY <2>5, <4>1 DEF Renews, g
    <3> QED BY <1>10, <3>2, <3>3
  <2>10. \A k \in Lanes : LaneMoves(k)
    BY <1>1, <2>7, <2>9 DEF OtherLanes, LaneMoves, Takers
  <2> QED BY <1>9, <2>2, <2>7, <2>10 DEF OtherLanes, Faithful
<1> HIDE DEF a, h, g, m, lucky
<1> QED BY <1>3, <1>4, <1>5, <1>6, <1>10

\* Whatever else a call takes out of the cache brought no permit along.
LEMMA CacheStays ==
  ASSUME RefineInv, NEW c \in Calls, UseCached(c) \/ SearchFails(c) \/ Scavenge(c)
  PROVE  KeepersStay
PROOF
<1>h. CacheOK /\ TempOK /\ allowed[c] \in Nat
  BY DEF RefineInv, SlotsInv, SlotTables, RoomOK
<1>1. CASE UseCached(c)
  <2> DEFINE i == First(Compatible(sid[c]))
  <2>1. at[c] = "granted" /\ Compatible(sid[c]) # {} /\ cache' = Without(cache, i) /\ ending' = ending
    BY <1>1 DEF UseCached
  <2>2. Compatible(sid[c]) \subseteq 1..Len(cache)
    BY DEF Compatible, Matches, HostEntries
  <2>3. i \in Compatible(sid[c]) /\ i \in 1..Len(cache)
    BY <1>h, <2>1, <2>2, EntryFound
  <2>4. Kind[cache[i].sid] # "temp"
    <3>1. Kind[sid[c]] = "temp" => Matches(sid[c]) = {}
      BY <1>h, <2>1 DEF TempOK, Beyond, Past, Stages
    <3> QED BY <2>3, <3>1 DEF Compatible, Matches, HostEntries
  <2> HIDE DEF i
  <2> QED BY <1>h, <2>1, <2>3, <2>4, OthersLeave
<1>2. ASSUME NEW limit \in Nat, Recycle(c, limit) PROVE KeepersStay
  <2> DEFINE i == First(Recyclable)
  <2>1. ending' = ending
    BY <1>2 DEF Recycle
  <2>2. CASE Cardinality(Recyclable) > limit
    <3>1. cache' = Without(cache, i)
      BY <1>2, <2>2 DEF Recycle
    <3>2. Recyclable # {} /\ Recyclable \subseteq 1..Len(cache)
      <4>1. Cardinality({}) = 0 /\ ~(0 > limit)
        BY FS_EmptySet
      <4>2. Recyclable # {}
        BY <2>2, <4>1
      <4>3. Recyclable \subseteq 1..Len(cache)
        BY DEF Recyclable
      <4> QED BY <4>2, <4>3
    <3>3. i \in Recyclable /\ i \in 1..Len(cache)
      BY <1>h, <3>2, EntryFound
    <3>4. Kind[cache[i].sid] # "temp"
      BY <3>3 DEF Recyclable
    <3> HIDE DEF i
    <3> QED BY <1>h, <2>1, <3>1, <3>3, <3>4, OthersLeave
  <2>3. CASE ~(Cardinality(Recyclable) > limit)
    <3>1. UNCHANGED <<cache, ending>>
      BY <1>2, <2>3 DEF Recycle
    <3> QED BY <3>1, SameKeepers
  <2> QED BY <2>2, <2>3
<1>3. CASE SearchFails(c)
  <2>1. Available(PoolSize, gates["worker"]) \in Nat
    <3>1. /\ gates["worker"] \in AnyGate /\ PoolSize \in Int /\ Available(PoolSize, gates["worker"]) >= 0
      BY ExecutionAssumption DEF RefineInv, SlotsInv, AdmissionInv, QueuesOK, Lanes, RoomOK, Cap
    <3> QED BY <3>1 DEF Available, AnyGate
  <2> QED BY <1>2, <1>3, <2>1 DEF SearchFails
<1>4. CASE Scavenge(c)
  BY <1>2, <1>4, <1>h DEF Scavenge
<1> QED BY <1>1, <1>3, <1>4

-----------------------------------------------------------------------------
(* Every step of the coordinator.                                          *)

\* Every step of a call.
LEMMA CallRefines ==
  ASSUME RefineInv, NEW c \in Calls,
         CallStep(c) \/ Admit(c) \/ AdmitRefused(c) \/ \E s \in Sessions, p \in Calls \cup {None} : Submit(c, s, p)
  PROVE  Faithful
PROOF
<1>i. /\ at \in [Calls -> Stages] /\ sid \in [Calls -> Sessions \cup {None}] /\ permit \in [Calls -> BOOLEAN]
      /\ gates \in [Lanes -> AnyGate]
      /\ at[c] # "idle" => sid[c] \in Sessions
      /\ at[c] \in WorkerOnly => Lane(c) = "worker"
      /\ permit[c] <=> at[c] \in WithPermit
      /\ {"worker", "primary"} \subseteq Lanes
  BY DEF RefineInv, SlotsInv, AdmissionInv, CallsOK, QueuesOK, SlotTables, PermitsOK, HandsOK, Lanes
<1>a. ASSUME NEW next, next # "queued", at[c] # "queued",
             at' = [at EXCEPT ![c] = next], UNCHANGED <<gates, permit>>, KeepersStay,
             \A d \in Calls \ {c} : sid'[d] = sid[d], sid'[c] = sid[c] \/ ~permit[c]
      PROVE  Faithful
  <2>1. \A d \in Calls : at'[d] = IF d = c THEN next ELSE at[d]
    BY <1>i, <1>a
  <2>2. \A d \in Calls : at'[d] = "queued" <=> at[d] = "queued"
    BY <1>a, <2>1
  <2>3. \A d \in Calls : sid'[d] = sid[d] \/ (at[d] # "queued" /\ ~permit[d])
    BY <1>a
  <2> QED BY <1>a, <2>2, <2>3, NobodyMoves
<1>g. ASSUME NEW l \in Lanes, NEW next, next # "queued", NEW q, q \in BOOLEAN,
             GiveUp(l, c, q, next), at[c] \in WithPermit, Lane(c) = l, KeepersStay,
             \A d \in Calls \ {c} : sid'[d] = sid[d], sid'[c] = sid[c] \/ sid'[c] = None
      PROVE  Faithful
  BY <1>g, GiverMoves
<1>1. CASE Proceed(c)
  BY <1>1, AskerMoves
<1>2. CASE ProceedRetained(c)
  BY <1>2, RetainedMoves
<1>3. CASE UsePrimary(c)
  <2>1. at[c] = "granted" /\ Lane(c) = "primary" /\ UNCHANGED sid /\ at[c] \in WithPermit /\ KeepersStay
    BY <1>3, SameKeepers DEF UsePrimary, WithPermit
  <2>2. CASE at' = [at EXCEPT ![c] = "leased"] /\ UNCHANGED <<gates, permit>>
    BY <1>a, <2>1, <2>2
  <2>3. CASE GiveUp("primary", c, FALSE, "failing")
    BY <1>i, <1>g, <2>1, <2>3
  <2> QED BY <1>3, <2>2, <2>3 DEF UsePrimary
<1>4. CASE UseCached(c)
  <2>1. \E next \in {"discarding", "leased", "rejecting"} : at' = [at EXCEPT ![c] = next]
    BY <1>4 DEF UseCached
  <2>2. at[c] = "granted" /\ UNCHANGED <<gates, permit, sid>> /\ KeepersStay
    BY <1>4, CacheStays DEF UseCached
  <2> QED BY <1>a, <2>1, <2>2
<1>5. CASE SearchFails(c) \/ Scavenge(c)
  <2>1. \E next \in {"evicting", "creating"} : at' = [at EXCEPT ![c] = next]
    BY <1>5 DEF SearchFails, Scavenge, Recycle
  <2>2. at[c] \in {"granted", "scavenging"} /\ UNCHANGED <<gates, permit, sid>> /\ KeepersStay
    BY <1>5, CacheStays DEF SearchFails, Scavenge, Recycle
  <2> QED BY <1>a, <2>1, <2>2
<1>6. CASE CreateFails(c)
  <2>1. at[c] = "creating" /\ GiveUp("worker", c, FALSE, "failing") /\ UNCHANGED sid /\ KeepersStay
    BY <1>6, SameKeepers DEF CreateFails
  <2>2. Lane(c) = "worker" /\ at[c] \in WithPermit
    BY <1>i, <2>1 DEF WorkerOnly, WithPermit
  <2> QED BY <1>i, <1>g, <2>1, <2>2
<1>7. CASE \E compatible \in BOOLEAN : Created(c, FreeWorker, compatible)
  <2>1. \E next \in {"starting", "rejecting"} : at' = [at EXCEPT ![c] = next]
    BY <1>7 DEF Created
  <2>2. at[c] = "creating" /\ UNCHANGED <<gates, permit, sid>> /\ KeepersStay
    BY <1>7, SameKeepers DEF Created
  <2> QED BY <1>a, <2>1, <2>2
<1>8. ASSUME NEW ok \in BOOLEAN, DiscardRetainedDone(c, ok) PROVE Faithful
  BY <1>8, DiscardMoves
<1>9. ASSUME NEW ok, ok \in BOOLEAN, DiscardDone(c, ok) PROVE Faithful
  <2>1. at[c] \in {"discarding", "evicting"} /\ UNCHANGED sid /\ KeepersStay
    BY <1>9, SameKeepers DEF DiscardDone
  <2>2. CASE ok
    <3>1. \E next \in {"scavenging", "granted"} : at' = [at EXCEPT ![c] = next]
      BY <1>9, <1>i, <2>1, <2>2 DEF DiscardDone
    <3>2. UNCHANGED <<gates, permit>>
      BY <1>9, <2>2 DEF DiscardDone
    <3> QED BY <1>a, <2>1, <3>1, <3>2
  <2>3. CASE ~ok
    <3>1. GiveUp("worker", c, TRUE, "failing")
      BY <1>9, <2>3 DEF DiscardDone
    <3>2. Lane(c) = "worker" /\ at[c] \in WithPermit
      BY <1>i, <2>1 DEF WorkerOnly, WithPermit
    <3> QED BY <1>i, <1>g, <2>1, <3>1, <3>2
  <2> QED BY <2>2, <2>3
<1>10. ASSUME NEW ok \in BOOLEAN, StartDone(c, ok) PROVE Faithful
  <2>1. \E next \in {"leased", "rejecting"} : at' = [at EXCEPT ![c] = next]
    BY <1>10 DEF StartDone
  <2>2. at[c] = "starting" /\ UNCHANGED <<gates, permit, sid>> /\ KeepersStay
    BY <1>10, SameKeepers DEF StartDone
  <2> QED BY <1>a, <2>1, <2>2
<1>11. ASSUME NEW ok, ok \in BOOLEAN, RejectDone(c, ok) PROVE Faithful
  <2> DEFINE q == ~ok
  <2>1. at[c] = "rejecting" /\ GiveUp("worker", c, q, "failing") /\ UNCHANGED sid /\ KeepersStay
    BY <1>11, SameKeepers DEF RejectDone
  <2>2. Lane(c) = "worker" /\ at[c] \in WithPermit /\ q \in BOOLEAN
    BY <1>i, <2>1 DEF WorkerOnly, WithPermit
  <2> HIDE DEF q
  <2> QED BY <1>i, <1>g, <2>1, <2>2
<1>12. ASSUME NEW ok, ok \in BOOLEAN, ReleaseDone(c, ok) PROVE Faithful
  <2> DEFINE q == ~ok
  <2>1. at[c] = "releasing" /\ GiveUp("worker", c, q, "idle") /\ sid' = [sid EXCEPT ![c] = None] /\ KeepersStay
    BY <1>12, SameKeepers DEF ReleaseDone, Forget
  <2>2. Lane(c) = "worker" /\ at[c] \in WithPermit /\ q \in BOOLEAN
    BY <1>i, <2>1 DEF WorkerOnly, WithPermit
  <2>3. sid'[c] = None /\ \A d \in Calls \ {c} : sid'[d] = sid[d]
    BY <1>i, <2>1
  <2> HIDE DEF q
  <2> QED BY <1>i, <1>g, <2>1, <2>2, <2>3
<1>13. ASSUME NEW ok \in BOOLEAN, EndTurn(c, ok) PROVE Faithful
  <2> DEFINE keep == Lane(c) = "worker" /\ Cacheable(sid[c]) /\ phase = "open" /\ ok
             e == [worker |-> hand[c], sid |-> sid[c]]
  <2>1. at[c] = "leased" /\ UNCHANGED ending /\ at[c] \in WithPermit /\ permit[c] /\ sid[c] \in Sessions
    BY <1>13, <1>i DEF EndTurn, WithPermit
  <2>2. Lane(c) \in {"primary", "worker"} /\ (Lane(c) = "primary" => Kind[sid[c]] # "temp" /\ ~keep)
    BY DEF Lane
  <2>3. CASE ~keep /\ Lane(c) # "primary"
    <3>1. at' = [at EXCEPT ![c] = "releasing"] /\ UNCHANGED <<gates, permit, sid, cache>>
      BY <1>13, <2>3 DEF EndTurn
    <3>2. KeepersStay
      BY <2>1, <3>1, SameKeepers
    <3> QED BY <1>a, <2>1, <3>1, <3>2
  <2>4. CASE keep /\ Kind[sid[c]] = "temp"
    <3>1. /\ cache' = Append(cache, e) /\ UNCHANGED gates /\ sid' = [sid EXCEPT ![c] = None]
          /\ at' = [at EXCEPT ![c] = "idle"] /\ permit' = [permit EXCEPT ![c] = FALSE] /\ Lane(c) = "worker"
      BY <1>13, <2>4 DEF EndTurn, Forget
    <3> QED BY <2>1, <2>4, <3>1, KeepMoves
  <2>5. CASE (keep \/ Lane(c) = "primary") /\ Kind[sid[c]] # "temp"
    <3>1. GiveUp(Lane(c), c, FALSE, "idle") /\ sid' = [sid EXCEPT ![c] = None]
      BY <1>13, <2>5 DEF EndTurn, Forget
    <3>2. sid'[c] = None /\ \A d \in Calls \ {c} : sid'[d] = sid[d]
      BY <1>i, <3>1
    <3>3. CASE ~keep
      <4>1. UNCHANGED <<cache, ending>>
        BY <1>13, <3>3 DEF EndTurn
      <4>2. KeepersStay
        BY <4>1, SameKeepers
      <4> QED BY <1>g, <1>i, <2>1, <2>2, <3>1, <3>2, <4>2
    <3>4. CASE keep
      <4>1. cache' = Append(cache, e)
        BY <1>13, <3>4 DEF EndTurn
      <4>2. e \in Entries /\ Kind[e.sid] # "temp" /\ CacheOK
        <5>1. hand[c] \in Workers /\ CacheOK
          BY <2>1, <3>4 DEF RefineInv, SlotsInv, SlotTables, HandsOK
        <5> QED BY <2>1, <2>5, <5>1 DEF Entries
      <4> HIDE DEF e
      <4>3. KeepersStay
        BY <2>1, <4>1, <4>2, OthersCome
      <4> QED BY <1>g, <1>i, <2>1, <2>2, <3>1, <3>2, <4>3
    <3> QED BY <3>3, <3>4
  <2> HIDE DEF keep
  <2> QED BY <2>2, <2>3, <2>4, <2>5
<1>14. CASE Fail(c)
  <2>1. at[c] = "failing" /\ at' = [at EXCEPT ![c] = "idle"] /\ sid' = [sid EXCEPT ![c] = None]
        /\ UNCHANGED <<gates, permit>> /\ KeepersStay
    BY <1>14, SameKeepers DEF Fail, Forget
  <2>2. ~permit[c] /\ \A d \in Calls \ {c} : sid'[d] = sid[d]
    BY <1>i, <2>1 DEF WithPermit
  <2> QED BY <1>a, <2>1, <2>2
<1>15. CASE Admit(c)
  BY <1>a, <1>15, SameKeepers DEF Admit
<1>16. CASE AdmitRefused(c)
  <2>1. at[c] = "admitting" /\ at' = [at EXCEPT ![c] = "idle"] /\ sid' = [sid EXCEPT ![c] = None]
        /\ UNCHANGED <<gates, permit>> /\ KeepersStay
    BY <1>16, SameKeepers DEF AdmitRefused, Forget
  <2>2. ~permit[c] /\ \A d \in Calls \ {c} : sid'[d] = sid[d]
    BY <1>i, <2>1 DEF WithPermit
  <2> QED BY <1>a, <2>1, <2>2
<1>17. CASE \E s \in Sessions, p \in Calls \cup {None} : Submit(c, s, p)
  <2>1. PICK s \in Sessions : at[c] = "idle" /\ at' = [at EXCEPT ![c] = "admitting"] /\ sid' = [sid EXCEPT ![c] = s]
                              /\ UNCHANGED <<gates, permit>> /\ KeepersStay
    BY <1>17, SameKeepers DEF Submit
  <2>2. ~permit[c] /\ \A d \in Calls \ {c} : sid'[d] = sid[d]
    BY <1>i, <2>1 DEF WithPermit
  <2> QED BY <1>a, <2>1, <2>2
<1> QED BY <1>1, <1>2, <1>3, <1>4, <1>5, <1>6, <1>7, <1>8, <1>9, <1>10, <1>11, <1>12, <1>13, <1>14, <1>15, <1>16, <1>17
        DEF CallStep

\* Every other step but the first and the last of dispose().
LEMMA EnvironmentRefines ==
  ASSUME RefineInv,
         \/ \E s \in Sessions : SessionStep(s) \/ Reset(s) \/ ResetShared(s) \/ EndTemp(s)
         \/ \E i \in 1..Cardinality(Workers) : CachedBreaks(i)
         \/ BeginTeardown \/ \E ok \in BOOLEAN : DisposeOne(ok)
         \/ UNCHANGED execVars
  PROVE  Faithful
PROOF
<1>a. ASSUME UNCHANGED <<callVars, gates>>, KeepersStay PROVE Faithful
  <2>1. UNCHANGED <<gates, permit>> /\ at' = at /\ sid' = sid
    BY <1>a DEF callVars
  <2> QED BY <1>a, <2>1, NobodyMoves
<1>1. CASE \/ \E s \in Sessions : ResetShared(s)
           \/ \E i \in 1..Cardinality(Workers) : CachedBreaks(i)
           \/ BeginTeardown \/ \E ok \in BOOLEAN : DisposeOne(ok)
           \/ UNCHANGED execVars
  <2>1. UNCHANGED <<callVars, gates>> /\ UNCHANGED <<cache, ending>>
    BY <1>1 DEF ResetShared, CachedBreaks, BeginTeardown, DisposeOne, execVars
  <2> QED BY <1>a, <2>1, SameKeepers
<1>2. ASSUME NEW s \in Sessions, Reset(s) PROVE Faithful
  <2> DEFINE i == First(Matches(s))
  <2>1. /\ Kind[s] = "bound" /\ Matches(s) # {} /\ cache' = Without(cache, i) /\ ending' = ending
        /\ UNCHANGED <<callVars, gates>>
    BY <1>2 DEF Reset
  <2>2. CacheOK /\ Matches(s) \subseteq 1..Len(cache)
    BY DEF RefineInv, SlotsInv, SlotTables, Matches
  <2>3. i \in Matches(s) /\ i \in 1..Len(cache)
    BY <2>1, <2>2, EntryFound
  <2>4. Kind[cache[i].sid] # "temp"
    BY <2>1, <2>3 DEF Matches
  <2> HIDE DEF i
  <2>5. KeepersStay
    BY <2>1, <2>2, <2>3, <2>4, OthersLeave
  <2> QED BY <1>a, <2>1, <2>5
<1> QED BY <1>1, <1>2, ResetMoves, EndedMoves, EndTempMoves DEF SessionStep

\* The last step of dispose() drops the permits that are in the cache; the
\* primary lane has none there.
LEMMA FinishMoves ==
  ASSUME RefineInv, FinishDispose
  PROVE  LaneMoves("primary") /\ QueuesComplete' /\ gates' = gates
PROOF
<1>1. at' = at /\ permit' = permit /\ sid' = sid /\ gates' = gates
  BY DEF FinishDispose, callVars
<1>2. \A d \in Takers : LaneAt("primary")'[d] = LaneAt("primary")[d]
  <2>1. \A d \in Calls : LaneAt("primary")'[d] = LaneAt("primary")[d]
    BY <1>1, CallStays
  <2>2. \A d \in Keepers : LaneAt("primary")'[d] = LaneAt("primary")[d]
    BY KeepersIn
  <2> QED BY <2>1, <2>2 DEF Takers
<1>3. LaneAt("primary")' = LaneAt("primary")
  BY <1>2, LaneAtFunction, LaneAtItself
<1>4. QueuesComplete'
  BY <1>1 DEF RefineInv, QueuesComplete, Lane
<1> QED BY <1>1, <1>3, <1>4 DEF LaneMoves, StaysPut

\* Only a temporary session is ended.
LEMMA StepEnds == RefineInv /\ [ExecNext]_execVars => OnlyTempsEnd'
PROOF
<1> SUFFICES ASSUME RefineInv, [ExecNext]_execVars PROVE OnlyTempsEnd'
  OBVIOUS
<1>0. OnlyTempsEnd /\ ending \in [Sessions -> Workers \cup {None}]
  BY DEF RefineInv, SlotsInv, SlotTables, CacheOK
<1>1. CASE ending' = ending
  BY <1>0, <1>1 DEF OnlyTempsEnd
<1>2. ASSUME NEW s \in Sessions, EndTemp(s) PROVE OnlyTempsEnd'
  BY <1>0, <1>2 DEF OnlyTempsEnd, EndTemp
<1>3. ASSUME NEW s \in Sessions, NEW ok \in BOOLEAN, EndTempDone(s, ok) PROVE OnlyTempsEnd'
  BY <1>0, <1>3 DEF OnlyTempsEnd, EndTempDone
<1>4. ASSUME NEW c \in Calls, CallStep(c) PROVE ending' = ending
  BY <1>4 DEF CallStep, Proceed, ProceedRetained, UsePrimary, UseCached, SearchFails, Scavenge, Recycle, Fail, CreateFails,
     Created, DiscardRetainedDone, DiscardDone, StartDone, RejectDone, EndTurn, ReleaseDone, Forget
<1>5. ASSUME NEW c \in Calls, \/ Admit(c) \/ AdmitRefused(c)
                              \/ \E s \in Sessions, p \in Calls \cup {None} : Submit(c, s, p)
      PROVE  ending' = ending
  BY <1>5 DEF Admit, AdmitRefused, Submit, Forget
<1>6. CASE \/ \E s \in Sessions : Reset(s) \/ ResetShared(s) \/ \E ok \in BOOLEAN : ResetDone(s, ok)
           \/ \E i \in 1..Cardinality(Workers) : CachedBreaks(i)
           \/ Dispose \/ DisposeStep \/ UNCHANGED execVars
  <2>1. ending' = ending
    BY <1>6 DEF Reset, ResetShared, ResetDone, CachedBreaks, Dispose, DisposeStep, BeginTeardown, DisposeOne,
       FinishDispose, execVars
  <2> QED BY <1>1, <2>1
<1> QED BY <1>1, <1>2, <1>3, <1>4, <1>5, <1>6 DEF ExecNext, SessionStep

\* The invariant holds at the start,
LEMMA InitRefines == ExecInit => RefineInv
PROOF
<1> SUFFICES ASSUME ExecInit PROVE RefineInv
  OBVIOUS
<1>1. SlotsInv
  BY InitSlots
<1>2. QueuesComplete /\ GatesOpen /\ OnlyTempsEnd
  BY DEF ExecInit, QueuesComplete, GatesOpen, OnlyTempsEnd, OpenGate
<1> QED BY <1>1, <1>2 DEF RefineInv

\* and every step keeps it and moves each lane as its gate would, but for the
\* last step of dispose().
LEMMA StepRefines ==
  ASSUME RefineInv, [ExecNext]_execVars
  PROVE  RefineInv' /\ LaneMoves("primary") /\ (LaneMoves("worker") \/ FinishDispose)
PROOF
<1>1. SlotsInv' /\ OnlyTempsEnd'
  BY StepSlots, StepEnds DEF RefineInv
<1>2. CASE Dispose
  <2>1. phase' # "open"
    BY <1>2 DEF Dispose
  <2>2. GatesOpen'
    BY <2>1 DEF GatesOpen
  <2> QED BY <1>1, <1>2, <2>2, DisposeMoves DEF RefineInv, Lanes
<1>3. CASE FinishDispose
  <2>1. phase' # "open"
    BY <1>3 DEF FinishDispose
  <2>2. GatesOpen'
    BY <2>1 DEF GatesOpen
  <2> QED BY <1>1, <1>3, <2>2, FinishMoves DEF RefineInv
<1>4. ASSUME ~Dispose, ~FinishDispose PROVE Faithful
  BY <1>4, CallRefines, EnvironmentRefines DEF ExecNext, DisposeStep
<1>5. phase' = "open" => phase = "open"
  <2>1. ASSUME NEW c \in Calls, CallStep(c) PROVE phase' = "open" => phase = "open"
    BY <2>1 DEF CallStep, Proceed, ProceedRetained, UsePrimary, UseCached, SearchFails, Scavenge, Recycle, Fail, CreateFails,
       Created, DiscardRetainedDone, DiscardDone, StartDone, RejectDone, EndTurn, ReleaseDone, Forget, Settled
  <2>2. ASSUME NEW c \in Calls, \/ Admit(c) \/ AdmitRefused(c)
                                \/ \E s \in Sessions, p \in Calls \cup {None} : Submit(c, s, p)
        PROVE  phase' = "open" => phase = "open"
    BY <2>2 DEF Admit, AdmitRefused, Submit, Forget, Settled
  <2>3. CASE \/ \E s \in Sessions : SessionStep(s) \/ Reset(s) \/ ResetShared(s) \/ EndTemp(s)
             \/ \E i \in 1..Cardinality(Workers) : CachedBreaks(i)
             \/ Dispose \/ DisposeStep \/ UNCHANGED execVars
    BY <2>3 DEF SessionStep, ResetDone, EndTempDone, Reset, ResetShared, EndTemp, CachedBreaks, Dispose, DisposeStep,
       BeginTeardown, DisposeOne, FinishDispose, execVars
  <2> QED BY <2>1, <2>2, <2>3 DEF ExecNext
<1>6. ASSUME Faithful PROVE GatesOpen' /\ LaneMoves("primary") /\ LaneMoves("worker")
  BY <1>5, <1>6 DEF Faithful, GatesOpen, RefineInv, Lanes
<1> QED BY <1>1, <1>2, <1>3, <1>4, <1>6 DEF Faithful, RefineInv

\* The moves of the worker lane are steps of its instance of the gate.
LEMMA WorkerLane == LaneMoves("worker") => [WorkerGate!GateNext]_(WorkerGate!gateVars)
PROOF
<1> SUFFICES ASSUME LaneMoves("worker") PROVE WorkerGate!GateNext \/ UNCHANGED WorkerGate!gateVars
  OBVIOUS
<1>0. Cap("worker") = PoolSize
  BY DEF Cap
<1>1. ASSUME NEW c \in Takers, TakesSlot("worker", c) PROVE WorkerGate!TryAcquire(c)
  BY <1>0, <1>1
     DEF TakesSlot, WorkerGate!TryAcquire, SlotFree, Available, Take, WorkerGate!SlotFree,
         WorkerGate!Available, WorkerGate!Take
<1>2. ASSUME NEW c \in Takers, JoinsQueue("worker", c) PROVE WorkerGate!Acquire(c)
  BY <1>0, <1>2
     DEF JoinsQueue, WorkerGate!Acquire, SlotFree, Hopeless, Available, Effective, Enqueue,
         WorkerGate!SlotFree, WorkerGate!Hopeless, WorkerGate!Available, WorkerGate!Effective,
         WorkerGate!Enqueue
<1>3. ASSUME NEW x \in Takers, NEW q \in BOOLEAN
      PROVE  /\ GivesBack("worker", x, q) => WorkerGate!GivePermit(x, q)
             /\ Renews("worker", x, q) => WorkerGate!Renew(x, q)
  <2> DEFINE g == gates["worker"]
  <2>1. \A s : WorkerGate!Members(s) = Members(s)
    BY DEF WorkerGate!Members, Members
  <2>2. WorkerGate!GiveBack(g, q) = GiveBack(g, q)
    BY DEF WorkerGate!GiveBack, GiveBack
  <2> DEFINE h == GiveBack(g, q)
  <2>3. /\ WorkerGate!Effective(PoolSize, h) = Effective(PoolSize, h)
        /\ WorkerGate!Available(PoolSize, h) = Available(PoolSize, h)
    BY DEF WorkerGate!Effective, Effective, WorkerGate!Available, Available
  <2>4. WorkerGate!Drop(h) = Drop(h)
    BY DEF WorkerGate!Drop, Drop
  <2> HIDE DEF h
  <2>5. WorkerGate!Drained(PoolSize, h) = Drained(PoolSize, h)
    BY <2>3 DEF WorkerGate!Drained, Drained
  <2>6. WorkerGate!Drain(PoolSize, h) = Drain(PoolSize, h)
    BY <2>5 DEF WorkerGate!Drain, Drain
  <2>7. WorkerGate!Release(PoolSize, g, q) = Release(PoolSize, g, q)
    BY <2>2, <2>3, <2>4, <2>6 DEF WorkerGate!Release, Release, h
  <2>8. WorkerGate!Served(PoolSize, g, q) = Served(PoolSize, g, q)
    BY <2>1, <2>2, <2>3, <2>5 DEF WorkerGate!Served, Served, h
  <2>9. WorkerGate!Given(x, q) = GivenIn("worker", x, q)
    BY <1>0, <2>1, <2>7, <2>8 DEF WorkerGate!Given, GivenIn, Takers
  <2>10. GivesBack("worker", x, q) => WorkerGate!GivePermit(x, q)
    BY <1>0, <2>7, <2>9 DEF GivesBack, WorkerGate!GivePermit
  <2> DEFINE r == Release(PoolSize, g, q)
  <2>11. /\ WorkerGate!SlotFree(PoolSize, r) <=> SlotFree(PoolSize, r)
         /\ WorkerGate!Hopeless(PoolSize, r) <=> Hopeless(PoolSize, r)
         /\ WorkerGate!Take(r) = Take(r) /\ WorkerGate!Enqueue(r, x) = Enqueue(r, x)
    BY DEF WorkerGate!SlotFree, SlotFree, WorkerGate!Hopeless, Hopeless, WorkerGate!Available, Available,
       WorkerGate!Effective, Effective, WorkerGate!Take, Take, WorkerGate!Enqueue, Enqueue
  <2> HIDE DEF r
  <2>12. Renews("worker", x, q) => WorkerGate!Renew(x, q)
    <3>1. WorkerGate!Release(PoolSize, gates["worker"], q) = r /\ Release(Cap("worker"), gates["worker"], q) = r
      BY <1>0, <2>7 DEF r
    <3> QED BY <1>0, <2>9, <2>11, <3>1 DEF Renews, WorkerGate!Renew
  <2> QED BY <2>10, <2>12
<1>p. ASSUME NEW x \in Takers, NEW y \in Takers, Passes("worker", x, y) PROVE WorkerGate!PassOn(x, y)
  BY <1>p DEF Passes, WorkerGate!PassOn
<1>4. FailsDropped("worker") => WorkerGate!FailDropped
  <2>1. \A q : WorkerGate!Members(q) = Members(q)
    BY DEF WorkerGate!Members, Members
  <2> QED BY <2>1 DEF FailsDropped, WorkerGate!FailDropped, Takers
<1>5. WithholdsOne("worker") => WorkerGate!QuarantineAvailable
  BY <1>0, <1>4
     DEF WithholdsOne, WorkerGate!QuarantineAvailable, QuarantineSlot, Available, Effective, Quarantine, Drop,
         WorkerGate!QuarantineSlot, WorkerGate!Available, WorkerGate!Effective, WorkerGate!Quarantine,
         WorkerGate!Drop
<1>6. Closes("worker") => WorkerGate!CloseGate
  BY <1>0, <1>4 DEF Closes, WorkerGate!CloseGate, Close, Drop, WorkerGate!Close, WorkerGate!Drop
<1>7. StaysPut("worker") => UNCHANGED WorkerGate!gateVars
  BY DEF StaysPut, WorkerGate!gateVars
<1> QED BY <1>1, <1>2, <1>3, <1>p, <1>5, <1>6, <1>7 DEF LaneMoves, Takers, WorkerGate!GateNext

\* The moves of the primary lane are steps of its instance of the gate.
LEMMA PrimaryLane == LaneMoves("primary") => [PrimaryGate!GateNext]_(PrimaryGate!gateVars)
PROOF
<1> SUFFICES ASSUME LaneMoves("primary") PROVE PrimaryGate!GateNext \/ UNCHANGED PrimaryGate!gateVars
  OBVIOUS
<1>0. Cap("primary") = 1
  BY DEF Cap
<1>1. ASSUME NEW c \in Takers, TakesSlot("primary", c) PROVE PrimaryGate!TryAcquire(c)
  BY <1>0, <1>1
     DEF TakesSlot, PrimaryGate!TryAcquire, SlotFree, Available, Take, PrimaryGate!SlotFree,
         PrimaryGate!Available, PrimaryGate!Take
<1>2. ASSUME NEW c \in Takers, JoinsQueue("primary", c) PROVE PrimaryGate!Acquire(c)
  BY <1>0, <1>2
     DEF JoinsQueue, PrimaryGate!Acquire, SlotFree, Hopeless, Available, Effective, Enqueue,
         PrimaryGate!SlotFree, PrimaryGate!Hopeless, PrimaryGate!Available, PrimaryGate!Effective,
         PrimaryGate!Enqueue
<1>3. ASSUME NEW x \in Takers, NEW q \in BOOLEAN
      PROVE  /\ GivesBack("primary", x, q) => PrimaryGate!GivePermit(x, q)
             /\ Renews("primary", x, q) => PrimaryGate!Renew(x, q)
  <2> DEFINE g == gates["primary"]
  <2>1. \A s : PrimaryGate!Members(s) = Members(s)
    BY DEF PrimaryGate!Members, Members
  <2>2. PrimaryGate!GiveBack(g, q) = GiveBack(g, q)
    BY DEF PrimaryGate!GiveBack, GiveBack
  <2> DEFINE h == GiveBack(g, q)
  <2>3. /\ PrimaryGate!Effective(1, h) = Effective(1, h)
        /\ PrimaryGate!Available(1, h) = Available(1, h)
    BY DEF PrimaryGate!Effective, Effective, PrimaryGate!Available, Available
  <2>4. PrimaryGate!Drop(h) = Drop(h)
    BY DEF PrimaryGate!Drop, Drop
  <2> HIDE DEF h
  <2>5. PrimaryGate!Drained(1, h) = Drained(1, h)
    BY <2>3 DEF PrimaryGate!Drained, Drained
  <2>6. PrimaryGate!Drain(1, h) = Drain(1, h)
    BY <2>5 DEF PrimaryGate!Drain, Drain
  <2>7. PrimaryGate!Release(1, g, q) = Release(1, g, q)
    BY <2>2, <2>3, <2>4, <2>6 DEF PrimaryGate!Release, Release, h
  <2>8. PrimaryGate!Served(1, g, q) = Served(1, g, q)
    BY <2>1, <2>2, <2>3, <2>5 DEF PrimaryGate!Served, Served, h
  <2>9. PrimaryGate!Given(x, q) = GivenIn("primary", x, q)
    BY <1>0, <2>1, <2>7, <2>8 DEF PrimaryGate!Given, GivenIn, Takers
  <2>10. GivesBack("primary", x, q) => PrimaryGate!GivePermit(x, q)
    BY <1>0, <2>7, <2>9 DEF GivesBack, PrimaryGate!GivePermit
  <2> DEFINE r == Release(1, g, q)
  <2>11. /\ PrimaryGate!SlotFree(1, r) <=> SlotFree(1, r)
         /\ PrimaryGate!Hopeless(1, r) <=> Hopeless(1, r)
         /\ PrimaryGate!Take(r) = Take(r) /\ PrimaryGate!Enqueue(r, x) = Enqueue(r, x)
    BY DEF PrimaryGate!SlotFree, SlotFree, PrimaryGate!Hopeless, Hopeless, PrimaryGate!Available, Available,
       PrimaryGate!Effective, Effective, PrimaryGate!Take, Take, PrimaryGate!Enqueue, Enqueue
  <2> HIDE DEF r
  <2>12. Renews("primary", x, q) => PrimaryGate!Renew(x, q)
    <3>1. PrimaryGate!Release(1, gates["primary"], q) = r /\ Release(Cap("primary"), gates["primary"], q) = r
      BY <1>0, <2>7 DEF r
    <3> QED BY <1>0, <2>9, <2>11, <3>1 DEF Renews, PrimaryGate!Renew
  <2> QED BY <2>10, <2>12
<1>p. ASSUME NEW x \in Takers, NEW y \in Takers, Passes("primary", x, y) PROVE PrimaryGate!PassOn(x, y)
  BY <1>p DEF Passes, PrimaryGate!PassOn
<1>4. FailsDropped("primary") => PrimaryGate!FailDropped
  <2>1. \A q : PrimaryGate!Members(q) = Members(q)
    BY DEF PrimaryGate!Members, Members
  <2> QED BY <2>1 DEF FailsDropped, PrimaryGate!FailDropped, Takers
<1>5. WithholdsOne("primary") => PrimaryGate!QuarantineAvailable
  BY <1>0, <1>4
     DEF WithholdsOne, PrimaryGate!QuarantineAvailable, QuarantineSlot, Available, Effective, Quarantine, Drop,
         PrimaryGate!QuarantineSlot, PrimaryGate!Available, PrimaryGate!Effective, PrimaryGate!Quarantine,
         PrimaryGate!Drop
<1>6. Closes("primary") => PrimaryGate!CloseGate
  BY <1>0, <1>4 DEF Closes, PrimaryGate!CloseGate, Close, Drop, PrimaryGate!Close, PrimaryGate!Drop
<1>7. StaysPut("primary") => UNCHANGED PrimaryGate!gateVars
  BY DEF StaysPut, PrimaryGate!gateVars
<1> QED BY <1>1, <1>2, <1>3, <1>p, <1>5, <1>6, <1>7 DEF LaneMoves, Takers, PrimaryGate!GateNext

\* Both lanes start as gates do.
LEMMA LanesStart == ExecInit => WorkerGate!GateInit /\ PrimaryGate!GateInit
PROOF
<1> SUFFICES ASSUME ExecInit PROVE WorkerGate!GateInit /\ PrimaryGate!GateInit
  OBVIOUS
<1>1. \A k \in Keepers : ~Keeps(k)
  <2>1. ASSUME NEW k \in Keepers PROVE ~Keeps(k)
    <3>1. cache = <<>> /\ ending = [s \in Sessions |-> None] /\ k[1] \in Sessions
      BY Places DEF ExecInit
    <3>2. Matches(k[1]) = {} /\ ending[k[1]] = None
      BY <3>1 DEF Matches
    <3> QED BY <3>2 DEF Keeps
  <2> QED BY <2>1
<1>2. \A l \in Lanes : LaneAt(l) = [x \in Takers |-> "idle"] /\ gates[l] = OpenGate
  <2>1. ASSUME NEW l \in Lanes PROVE LaneAt(l) = [x \in Takers |-> "idle"]
    <3>1. \A k \in Keepers : LaneAt(l)[k] = "idle"
      BY <1>1, KeeperValues
    <3>2. \A c \in Calls : LaneAt(l)[c] = "idle"
      BY LaneAtValues DEF ExecInit
    <3>3. \A x \in Takers : LaneAt(l)[x] = "idle"
      BY <3>1, <3>2 DEF Takers
    <3> QED BY <3>3, LaneAtItself
  <2> QED BY <2>1 DEF ExecInit
<1>3. "worker" \in Lanes /\ "primary" \in Lanes
  BY DEF Lanes
<1> QED BY <1>2, <1>3 DEF Takers, WorkerGate!GateInit, PrimaryGate!GateInit, OpenGate, WorkerGate!OpenGate, PrimaryGate!OpenGate

\* ImplementsGates: each lane of the coordinator is a WorkerCapacityGate,
\* whatever a step does to it otherwise: permits are taken, queued for, passed
\* on, kept, renewed, withheld and given back only as the gate alone would
\* (_acquirePermit, _release, _discardWorker, resetSessionContinuity,
\* releaseTemporarySession, dispose); only the end of disposal drops permits.
THEOREM ExecImplementsGates == ExecSpec => ImplementsGates
PROOF
<1>1. RefineInv /\ [ExecNext]_execVars => RefineInv'
  BY StepRefines
<1>2. RefineInv /\ [ExecNext]_execVars =>
        /\ [UNCHANGED WorkerGate!gateVars \/ WorkerGate!GateNext \/ FinishDispose]_(WorkerGate!gateVars)
        /\ [UNCHANGED PrimaryGate!gateVars \/ PrimaryGate!GateNext]_(PrimaryGate!gateVars)
  BY StepRefines, WorkerLane, PrimaryLane
<1> QED BY <1>1, <1>2, InitRefines, LanesStart, PTL DEF ExecSpec, ImplementsGates, ImplementsWorkerGate, ImplementsPrimaryGate
=============================================================================
