-------------------------- MODULE CapacityGateProofs --------------------------
(***************************************************************************)
(* The capacity gate for any number of clients and any capacity.  The      *)
(* argument rests on one fact: as long as somebody waits no slot is free,  *)
(* so a release has at most one slot to pass on (ReleaseCases), and the    *)
(* loop of _drainWaiters serves the oldest waiter or nobody.               *)
(***************************************************************************)
EXTENDS WorkerCapacityGate, FiniteSetTheorems, TLAPS

LEMMA SubSeqAll ==
  ASSUME NEW S, NEW q \in Seq(S)
  PROVE  SubSeq(q, 1, Len(q)) = q
PROOF OBVIOUS

LEMMA HeadMember ==
  ASSUME NEW S, NEW q \in Seq(S), q # <<>>
  PROVE  Members(SubSeq(q, 1, 1)) = {Head(q)}
PROOF
<1>1. Len(SubSeq(q, 1, 1)) = 1 /\ SubSeq(q, 1, 1)[1] = Head(q)
  OBVIOUS
<1> QED BY <1>1 DEF Members

LEMMA DropFacts ==
  ASSUME NEW S, NEW g \in Gates(S)
  PROVE  /\ Drop(g) \in Gates(S) /\ Drop(g).waiters = <<>>
         /\ Drop(g).active = g.active /\ Drop(g).quarantined = g.quarantined
         /\ Close(g) \in Gates(S) /\ Close(g).waiters = <<>>
         /\ Close(g).active = g.active /\ Close(g).quarantined = g.quarantined
PROOF
<1>1. <<>> \in Seq(S)
  OBVIOUS
<1>2. [g EXCEPT !.closed = TRUE] \in Gates(S)
  BY DEF Gates
<1> QED BY <1>1, <1>2 DEF Drop, Close, Gates

LEMMA QuarantineFacts ==
  ASSUME NEW S, NEW g \in Gates(S)
  PROVE  /\ Quarantine(g) \in Gates(S) /\ Quarantine(g).waiters = g.waiters
         /\ Quarantine(g).active = g.active
         /\ Quarantine(g).quarantined = g.quarantined + 1
PROOF BY DEF Quarantine, Gates

LEMMA GiveBackFacts ==
  ASSUME NEW S, NEW g \in Gates(S), NEW quarantine \in BOOLEAN, g.active > 0
  PROVE  LET h == GiveBack(g, quarantine) IN
         /\ h \in Gates(S) /\ h.waiters = g.waiters /\ h.closed = g.closed
         /\ h.active = g.active - 1
         /\ h.quarantined = IF quarantine THEN g.quarantined + 1 ELSE g.quarantined
PROOF BY DEF GiveBack, Gates

LEMMA TailMembers ==
  ASSUME NEW S, NEW q \in Seq(S), q # <<>>,
         \A i, j \in 1..Len(q) : q[i] = q[j] => i = j
  PROVE  /\ Tail(q) \in Seq(S)
         /\ Members(Tail(q)) = Members(q) \ {Head(q)}
         /\ \A i, j \in 1..Len(Tail(q)) : Tail(q)[i] = Tail(q)[j] => i = j
         /\ Head(q) \in Members(q)
PROOF
<1> DEFINE t == Tail(q)
<1>1. t \in Seq(S) /\ Len(t) = Len(q) - 1 /\ Len(q) \in Nat /\ Len(q) >= 1
  OBVIOUS
<1>2. \A i \in 1..Len(t) : t[i] = q[i + 1] /\ i + 1 \in 1..Len(q) /\ i + 1 # 1
  OBVIOUS
<1>3. Head(q) = q[1] /\ 1 \in 1..Len(q)
  BY <1>1
<1>4. \A i \in 1..Len(q) : i # 1 => i - 1 \in 1..Len(t) /\ t[i - 1] = q[i]
  BY <1>1
<1>5. Members(t) \subseteq Members(q) \ {Head(q)}
  BY <1>2, <1>3 DEF Members
<1>6. Members(q) \ {Head(q)} \subseteq Members(t)
  BY <1>3, <1>4 DEF Members
<1>7. \A i, j \in 1..Len(t) : t[i] = t[j] => i = j
  <2>1. SUFFICES ASSUME NEW i \in 1..Len(t), NEW j \in 1..Len(t), t[i] = t[j] PROVE i = j
    OBVIOUS
  <2>2. i + 1 = j + 1
    BY <1>2, <2>1
  <2> QED BY <2>2
<1> QED BY <1>1, <1>3, <1>5, <1>6, <1>7 DEF Members

LEMMA AppendMembers ==
  ASSUME NEW S, NEW q \in Seq(S), NEW c \in S, c \notin Members(q),
         \A i, j \in 1..Len(q) : q[i] = q[j] => i = j
  PROVE  /\ Append(q, c) \in Seq(S) /\ Append(q, c) # <<>>
         /\ Members(Append(q, c)) = Members(q) \cup {c}
         /\ \A i, j \in 1..Len(Append(q, c)) : Append(q, c)[i] = Append(q, c)[j] => i = j
PROOF
<1> DEFINE a == Append(q, c)
<1>1. a \in Seq(S) /\ Len(a) = Len(q) + 1 /\ Len(q) \in Nat /\ a # <<>>
  OBVIOUS
<1>2. a[Len(q) + 1] = c /\ \A i \in 1..Len(q) : a[i] = q[i]
  OBVIOUS
<1>3. \A i \in 1..Len(a) : i \in 1..Len(q) \/ i = Len(q) + 1
  BY <1>1
<1>4. \A i \in 1..Len(q) : i \in 1..Len(a) /\ q[i] # c
  BY <1>1 DEF Members
<1>5. Len(q) + 1 \in 1..Len(a)
  BY <1>1
<1>6. Members(a) = Members(q) \cup {c}
  BY <1>2, <1>3, <1>4, <1>5 DEF Members
<1>7. \A i, j \in 1..Len(a) : a[i] = a[j] => i = j
  BY <1>2, <1>3, <1>4
<1> QED BY <1>1, <1>6, <1>7

(* What one release does to a gate on which nobody waits beside a free slot:*)
(* nothing to the queue, or fails all of it, or serves its head.            *)
ServeHead(g) ==
  [active |-> g.active, quarantined |-> g.quarantined,
   waiters |-> Tail(g.waiters), closed |-> g.closed]

LEMMA ReleaseCases ==
  ASSUME NEW S, NEW g \in Gates(S), NEW cap \in Nat \ {0}, NEW quarantine \in BOOLEAN,
         g.active > 0, g.active + g.quarantined <= cap,
         g.waiters # <<>> => Available(cap, g) = 0 /\ ~Hopeless(cap, g)
  PROVE  \/ /\ g.waiters = <<>>
            /\ Release(cap, g, quarantine) = GiveBack(g, quarantine)
            /\ Served(cap, g, quarantine) = {}
         \/ /\ g.waiters # <<>> /\ quarantine /\ Effective(cap, g) = 1
            /\ Release(cap, g, quarantine) = Drop(GiveBack(g, quarantine))
            /\ Served(cap, g, quarantine) = {}
         \/ /\ g.waiters # <<>> /\ quarantine /\ Effective(cap, g) > 1
            /\ Release(cap, g, quarantine) = GiveBack(g, quarantine)
            /\ Served(cap, g, quarantine) = {}
         \/ /\ g.waiters # <<>> /\ ~quarantine
            /\ Release(cap, g, quarantine) = ServeHead(g)
            /\ Served(cap, g, quarantine) = {Head(g.waiters)}
PROOF
<1> DEFINE h == GiveBack(g, quarantine)
<1>0. /\ g.active \in Nat /\ g.quarantined \in Nat /\ g.waiters \in Seq(S) /\ g.closed \in BOOLEAN
      /\ h \in Gates(S) /\ h.waiters = g.waiters /\ h.closed = g.closed
      /\ h.active = g.active - 1
      /\ h.quarantined = IF quarantine THEN g.quarantined + 1 ELSE g.quarantined
  BY GiveBackFacts DEF Gates
<1>1. \A n \in Nat : n = 0 => SubSeq(h.waiters, n + 1, Len(h.waiters)) = h.waiters
                            /\ Members(SubSeq(g.waiters, 1, n)) = {}
  BY <1>0, SubSeqAll DEF Members
<1>2. ASSUME Drained(cap, h) = 0 PROVE Drain(cap, h) = h /\ Members(SubSeq(g.waiters, 1, Drained(cap, h))) = {}
  <2>1. SubSeq(h.waiters, 1, Len(h.waiters)) = h.waiters
    BY <1>0, SubSeqAll
  <2>2. Drain(cap, h) = [active |-> h.active + 0, quarantined |-> h.quarantined,
                         waiters |-> h.waiters, closed |-> h.closed]
    BY <1>2, <2>1 DEF Drain
  <2>3. Drain(cap, h) = h
    BY <1>0, <2>2 DEF GiveBack
  <2> QED BY <1>1, <1>2, <2>2, <2>3
<1>3. CASE g.waiters = <<>>
  <2>1. Drop(h) = h
    BY <1>0, <1>3 DEF Drop, Gates
  <2>2. Drained(cap, h) = 0
    BY <1>0, <1>3 DEF Drained, Available
  <2> QED BY <1>2, <1>3, <2>1, <2>2 DEF Release, Served
<1>4. CASE g.waiters # <<>> /\ quarantine
  <2>1. Effective(cap, g) >= 1 /\ Effective(cap, h) = Effective(cap, g) - 1 /\ Available(cap, h) = 0
    BY <1>0, <1>4 DEF Effective, Available, Hopeless
  <2>2. Drained(cap, h) = 0
    BY <1>0, <2>1 DEF Drained
  <2>3. Effective(cap, g) \in Int
    BY <1>0 DEF Effective
  <2>4. CASE Effective(cap, g) = 1
    <3>1. Effective(cap, h) = 0
      BY <2>1, <2>4
    <3>2. Release(cap, g, quarantine) = Drop(h) /\ Served(cap, g, quarantine) = {}
      BY <3>1 DEF Release, Served
    <3> QED BY <1>4, <2>4, <3>2
  <2>5. CASE Effective(cap, g) > 1
    <3>1. Effective(cap, h) # 0
      BY <2>1, <2>3, <2>5
    <3>2. Release(cap, g, quarantine) = Drain(cap, h)
          /\ Served(cap, g, quarantine) = Members(SubSeq(g.waiters, 1, Drained(cap, h)))
      BY <3>1 DEF Release, Served
    <3> QED BY <1>2, <1>4, <2>2, <2>5, <3>2
  <2> QED BY <2>1, <2>3, <2>4, <2>5
<1>5. CASE g.waiters # <<>> /\ ~quarantine
  <2>1. Available(cap, h) = 1 /\ Effective(cap, h) # 0 /\ ~h.closed
    BY <1>0, <1>5 DEF Effective, Available, Hopeless
  <2>2. Drained(cap, h) = 1
    BY <1>0, <1>5, <2>1 DEF Drained
  <2>3. SubSeq(g.waiters, 2, Len(g.waiters)) = Tail(g.waiters)
    BY <1>0, <1>5
  <2>5. Members(SubSeq(g.waiters, 1, 1)) = {Head(g.waiters)}
    BY <1>0, <1>5, HeadMember
  <2>6. Drain(cap, h) = ServeHead(g)
    <3>1. Drain(cap, h) = [active |-> h.active + 1, quarantined |-> h.quarantined,
                           waiters |-> SubSeq(h.waiters, 2, Len(h.waiters)), closed |-> h.closed]
      BY <2>2 DEF Drain
    <3>2. h.active + 1 = g.active /\ h.quarantined = g.quarantined
      BY <1>0, <1>5
    <3> HIDE DEF h
    <3> QED BY <1>0, <2>3, <3>1, <3>2 DEF ServeHead
  <2> QED BY <1>5, <2>1, <2>2, <2>5, <2>6 DEF Release, Served
<1> QED BY <1>3, <1>4, <1>5

-------------------------------------------------------------------------------
GateInv ==
  /\ GateTypeOK
  /\ QueueIsWaiting
  /\ PermitsWithinCapacity
  /\ NoWaiterBesideFreeSlot

(* The same of any gate and any places of its clients: some steps are two of *)
(* the methods of the gate, and pass through a gate no state shows.          *)
Those(a, where) == {c \in Clients : a[c] = where}
Sound(g, a) ==
  /\ g \in Gates(Clients) /\ a \in [Clients -> {"idle", "waiting", "holding"}]
  /\ Members(g.waiters) = Those(a, "waiting")
  /\ \A i, j \in 1..Len(g.waiters) : g.waiters[i] = g.waiters[j] => i = j
  /\ g.active = Cardinality(Those(a, "holding")) /\ g.active + g.quarantined <= Capacity
  /\ g.waiters # <<>> => Available(Capacity, g) = 0 /\ ~Hopeless(Capacity, g)

LEMMA InvIsSound == (GateInv <=> Sound(gate, at)) /\ (GateInv' <=> Sound(gate', at'))
PROOF BY DEF GateInv, Sound, GateTypeOK, QueueIsWaiting, PermitsWithinCapacity, NoWaiterBesideFreeSlot,
             Those, Holders, Waiting

LEMMA GateStart == GateInit => GateInv
PROOF
<1> SUFFICES ASSUME GateInit PROVE GateInv
  OBVIOUS
<1>1. Holders = {} /\ Waiting = {} /\ Cardinality({}) = 0
  BY FS_EmptySet DEF GateInit, Holders, Waiting
<1> QED BY <1>1, GateAssumption
     DEF GateInit, GateInv, GateTypeOK, Gates, OpenGate, QueueIsWaiting, Members,
         PermitsWithinCapacity, NoWaiterBesideFreeSlot

(* A client that takes a free slot.                                          *)
LEMMA TakeKeeps ==
  ASSUME NEW g, NEW a, Sound(g, a), NEW c \in Clients, a[c] = "idle", SlotFree(Capacity, g)
  PROVE  Sound(Take(g), [a EXCEPT ![c] = "holding"])
PROOF
<1> DEFINE h == Take(g)  b == [a EXCEPT ![c] = "holding"]
<1> USE GateAssumption
<1>1. /\ h \in Gates(Clients) /\ g.waiters = <<>> /\ h.waiters = <<>>
      /\ h.active = g.active + 1 /\ h.quarantined = g.quarantined
      /\ g.active \in Nat /\ g.quarantined \in Nat
      /\ b \in [Clients -> {"idle", "waiting", "holding"}]
  BY DEF Sound, Gates, Take, SlotFree
<1>2. /\ Those(b, "holding") = Those(a, "holding") \cup {c} /\ c \notin Those(a, "holding")
      /\ Those(b, "waiting") = Those(a, "waiting")
  BY DEF Sound, Those
<1>3. IsFiniteSet(Those(a, "holding"))
  BY FS_Subset DEF Those
<1>4. Cardinality(Those(b, "holding")) = Cardinality(Those(a, "holding")) + 1
  BY <1>2, <1>3, FS_AddElement
<1>5. h.active = Cardinality(Those(b, "holding")) /\ h.active + h.quarantined <= Capacity
  BY <1>1, <1>4 DEF Sound, SlotFree, Available
<1> HIDE DEF h, b
<1>6. Sound(h, b)
  BY <1>1, <1>2, <1>5 DEF Sound
<1> QED BY <1>6 DEF h, b

(* A client that joins the queue.                                            *)
LEMMA EnqueueKeeps ==
  ASSUME NEW g, NEW a, Sound(g, a), NEW c \in Clients, a[c] = "idle",
         ~Hopeless(Capacity, g), ~SlotFree(Capacity, g)
  PROVE  Sound(Enqueue(g, c), [a EXCEPT ![c] = "waiting"])
PROOF
<1> DEFINE h == Enqueue(g, c)  b == [a EXCEPT ![c] = "waiting"]  q == g.waiters
<1> USE GateAssumption
<1>1. /\ g \in Gates(Clients) /\ q \in Seq(Clients)
      /\ g.active \in Nat /\ g.quarantined \in Nat /\ g.closed \in BOOLEAN
      /\ b \in [Clients -> {"idle", "waiting", "holding"}]
  BY DEF Sound, Gates
<1>2. /\ Those(b, "waiting") = Those(a, "waiting") \cup {c} /\ c \notin Those(a, "waiting")
      /\ Those(b, "holding") = Those(a, "holding")
  BY DEF Sound, Those
<1>3. c \notin Members(q) /\ \A i, j \in 1..Len(q) : q[i] = q[j] => i = j
  BY <1>2 DEF Sound
<1>4. /\ h.waiters = Append(q, c) /\ h.closed = g.closed
      /\ h.active = g.active /\ h.quarantined = g.quarantined
  BY <1>1 DEF Enqueue, Gates
<1> HIDE DEF q
<1>5. /\ Append(q, c) \in Seq(Clients)
      /\ Members(Append(q, c)) = Members(q) \cup {c}
      /\ \A i, j \in 1..Len(Append(q, c)) : Append(q, c)[i] = Append(q, c)[j] => i = j
  BY <1>1, <1>3, AppendMembers
<1>6. h \in Gates(Clients)
  BY <1>1, <1>5 DEF Gates, Enqueue, q
<1>7. Available(Capacity, g) = 0
  BY <1>1 DEF Sound, SlotFree, Hopeless, Available
<1>8. Available(Capacity, h) = 0 /\ ~Hopeless(Capacity, h)
  BY <1>4, <1>7 DEF Available, Hopeless, Effective
<1>9. Members(q) = Those(a, "waiting") /\ g.active = Cardinality(Those(a, "holding"))
      /\ g.active + g.quarantined <= Capacity
  BY DEF Sound, q
<1> HIDE DEF h, b
<1>10. Sound(h, b)
  BY <1>1, <1>2, <1>4, <1>5, <1>6, <1>8, <1>9 DEF Sound
<1> QED BY <1>10 DEF h, b

(* A permit given back, as a free or as a quarantined slot.                  *)
LEMMA GiveKeeps ==
  ASSUME GateInv, NEW c \in Clients, NEW quarantine \in BOOLEAN, at[c] = "holding"
  PROVE  /\ Sound(Release(Capacity, gate, quarantine), Given(c, quarantine))
         /\ Given(c, quarantine)[c] = "idle"
PROOF
<1> DEFINE h == Release(Capacity, gate, quarantine)  b == Given(c, quarantine)
<1> USE GateAssumption
<1>1. /\ gate \in Gates(Clients) /\ gate.waiters \in Seq(Clients)
      /\ gate.active \in Nat /\ gate.quarantined \in Nat /\ gate.closed \in BOOLEAN
      /\ at \in [Clients -> {"idle", "waiting", "holding"}]
      /\ gate.active = Cardinality(Holders) /\ gate.active + gate.quarantined <= Capacity
      /\ Members(gate.waiters) = Waiting
      /\ \A i, j \in 1..Len(gate.waiters) : gate.waiters[i] = gate.waiters[j] => i = j
  BY DEF GateInv, GateTypeOK, Gates, PermitsWithinCapacity, QueueIsWaiting
<1>2. c \in Holders /\ IsFiniteSet(Holders) /\ c \notin Waiting
  BY <1>1, FS_Subset DEF Holders, Waiting
<1>3. Cardinality(Holders \ {c}) = Cardinality(Holders) - 1 /\ IsFiniteSet(Holders \ {c})
  BY <1>2, FS_RemoveElement
<1>4. gate.active > 0
  BY <1>1, <1>2, <1>3, FS_CardinalityType
<1>5. \A d \in Clients :
        b[d] = IF d = c THEN "idle"
               ELSE IF d \in Served(Capacity, gate, quarantine) THEN "holding"
               ELSE IF at[d] = "waiting" /\ d \notin Members(h.waiters) THEN "idle"
               ELSE at[d]
  BY DEF Given
<1>6. b \in [Clients -> {"idle", "waiting", "holding"}]
  BY <1>1 DEF Given
<1>7. b[c] = "idle"
  BY <1>5
<1>8. gate.waiters # <<>> => Available(Capacity, gate) = 0 /\ ~Hopeless(Capacity, gate)
  BY DEF GateInv, NoWaiterBesideFreeSlot
<1> HIDE DEF b
<1>9. CASE h = GiveBack(gate, quarantine) /\ Served(Capacity, gate, quarantine) = {}
           /\ (gate.waiters = <<>> \/ (quarantine /\ Effective(Capacity, gate) > 1))
  <2> HIDE DEF h
  <2>1. /\ h \in Gates(Clients) /\ h.waiters = gate.waiters /\ h.closed = gate.closed
        /\ h.active = gate.active - 1
        /\ h.quarantined = IF quarantine THEN gate.quarantined + 1 ELSE gate.quarantined
    BY <1>1, <1>4, <1>9, GiveBackFacts
  <2>2. Those(b, "holding") = Holders \ {c} /\ Those(b, "waiting") = Waiting
    BY <1>1, <1>2, <1>5, <1>9, <2>1 DEF Holders, Waiting, Those
  <2>3. h.active = Cardinality(Those(b, "holding")) /\ h.active + h.quarantined <= Capacity
    <3>1. Cardinality(Those(b, "holding")) = gate.active - 1
      BY <1>1, <1>3, <2>2
    <3> QED BY <1>1, <2>1, <3>1
  <2>4. h.waiters # <<>> => Available(Capacity, h) = 0 /\ ~Hopeless(Capacity, h)
    <3>1. CASE gate.waiters = <<>>
      BY <2>1, <3>1
    <3>2. CASE gate.waiters # <<>> /\ quarantine /\ Effective(Capacity, gate) > 1
      BY <1>1, <1>8, <2>1, <3>2 DEF Available, Hopeless, Effective
    <3> QED BY <1>9, <3>1, <3>2
  <2>9. Sound(h, b)
    BY <1>1, <1>6, <2>1, <2>2, <2>3, <2>4 DEF Sound
  <2> QED BY <1>7, <2>9 DEF b, h
<1>10. CASE h = Drop(GiveBack(gate, quarantine)) /\ Served(Capacity, gate, quarantine) = {}
            /\ quarantine
  <2>1. /\ h \in Gates(Clients) /\ h.waiters = <<>>
        /\ h.active = gate.active - 1 /\ h.quarantined = gate.quarantined + 1
    <3> DEFINE k == GiveBack(gate, quarantine)
    <3>1. /\ k \in Gates(Clients) /\ k.active = gate.active - 1
          /\ k.quarantined = gate.quarantined + 1
      BY <1>1, <1>4, <1>10, GiveBackFacts
    <3>2. h = Drop(k)
      BY <1>10
    <3> HIDE DEF k, h
    <3> QED BY <3>1, <3>2, DropFacts
  <2> HIDE DEF h
  <2>2. Members(h.waiters) = {}
    BY <2>1 DEF Members
  <2>3. Those(b, "holding") = Holders \ {c} /\ Those(b, "waiting") = {}
    BY <1>1, <1>2, <1>5, <1>10, <2>2 DEF Holders, Waiting, Those
  <2>4. h.active = Cardinality(Those(b, "holding")) /\ h.active + h.quarantined <= Capacity
    <3>1. Cardinality(Those(b, "holding")) = gate.active - 1
      BY <1>1, <1>3, <2>3
    <3> QED BY <1>1, <2>1, <3>1
  <2>5. \A i, j \in 1..Len(h.waiters) : h.waiters[i] = h.waiters[j] => i = j
    <3>1. 1..Len(h.waiters) = {}
      BY <2>1
    <3> QED BY <3>1
  <2>6. Members(h.waiters) = Those(b, "waiting")
    BY <2>2, <2>3
  <2>9. Sound(h, b)
    BY <1>6, <2>1, <2>4, <2>5, <2>6 DEF Sound
  <2> QED BY <1>7, <2>9 DEF b, h
<1>11. CASE h = ServeHead(gate) /\ gate.waiters # <<>>
            /\ Served(Capacity, gate, quarantine) = {Head(gate.waiters)}
  <2> DEFINE w == Head(gate.waiters)
  <2> HIDE DEF h
  <2>1. /\ Tail(gate.waiters) \in Seq(Clients)
        /\ Members(Tail(gate.waiters)) = Members(gate.waiters) \ {w}
        /\ \A i, j \in 1..Len(Tail(gate.waiters)) :
              Tail(gate.waiters)[i] = Tail(gate.waiters)[j] => i = j
        /\ w \in Members(gate.waiters)
    BY <1>1, <1>11, TailMembers
  <2>2. /\ h \in Gates(Clients) /\ h.waiters = Tail(gate.waiters)
        /\ h.active = gate.active /\ h.quarantined = gate.quarantined
        /\ h.closed = gate.closed
    BY <1>1, <1>11, <2>1 DEF Gates, ServeHead
  <2>3. w \in Waiting /\ w \in Clients /\ w # c /\ w \notin Holders
    BY <1>1, <1>2, <2>1 DEF Waiting, Holders
  <2>4. Those(b, "holding") = (Holders \ {c}) \cup {w} /\ Those(b, "waiting") = Waiting \ {w}
    BY <1>1, <1>2, <1>5, <1>11, <2>1, <2>2, <2>3 DEF Holders, Waiting, Those
  <2>5. Cardinality(Those(b, "holding")) = Cardinality(Holders \ {c}) + 1
    BY <1>3, <2>3, <2>4, FS_AddElement
  <2>6. h.active = Cardinality(Those(b, "holding")) /\ h.active + h.quarantined <= Capacity
    BY <1>1, <1>3, <2>2, <2>5
  <2>7. h.waiters # <<>> => Available(Capacity, h) = 0 /\ ~Hopeless(Capacity, h)
    BY <1>1, <1>8, <1>11, <2>2 DEF Available, Hopeless, Effective
  <2>9. Sound(h, b)
    BY <1>1, <1>6, <2>1, <2>2, <2>4, <2>6, <2>7 DEF Sound
  <2> QED BY <1>7, <2>9 DEF b, h
<1> QED BY <1>1, <1>4, <1>7, <1>8, <1>9, <1>10, <1>11, ReleaseCases DEF b

(* A permit given back whose client asks for another before anybody else.    *)
LEMMA RenewStep ==
  ASSUME GateInv, NEW c \in Clients, NEW quarantine \in BOOLEAN, Renew(c, quarantine)
  PROVE  GateInv'
PROOF
<1> DEFINE g == Release(Capacity, gate, quarantine)  a == Given(c, quarantine)
<1>1. Sound(g, a) /\ a[c] = "idle"
  BY GiveKeeps DEF Renew
<1>2. \/ SlotFree(Capacity, g) /\ gate' = Take(g) /\ at' = [a EXCEPT ![c] = "holding"]
      \/ /\ ~SlotFree(Capacity, g) /\ ~Hopeless(Capacity, g)
         /\ gate' = Enqueue(g, c) /\ at' = [a EXCEPT ![c] = "waiting"]
  BY DEF Renew
<1> HIDE DEF g, a
<1>3. Sound(gate', at')
  BY <1>1, <1>2, TakeKeeps, EnqueueKeeps
<1> QED BY <1>3, InvIsSound

(* A permit handed from one client to another.                               *)
LEMMA PassStep ==
  ASSUME GateInv, NEW c \in Clients, NEW d \in Clients, PassOn(c, d)
  PROVE  GateInv'
PROOF
<1>1. /\ at \in [Clients -> {"idle", "waiting", "holding"}] /\ at[c] = "holding" /\ at[d] = "idle"
      /\ gate' = gate /\ at' = [at EXCEPT ![c] = "idle", ![d] = "holding"]
  BY DEF GateInv, GateTypeOK, PassOn
<1>2. at' \in [Clients -> {"idle", "waiting", "holding"}]
  BY <1>1
<1>3. Holders' = (Holders \ {c}) \cup {d} /\ Waiting' = Waiting /\ d \notin Holders /\ c \in Holders
  BY <1>1 DEF Holders, Waiting
<1>4. IsFiniteSet(Holders) /\ Cardinality(Holders) \in Nat
  BY FS_Subset, FS_CardinalityType, GateAssumption DEF Holders
<1>5. Cardinality(Holders \ {c}) = Cardinality(Holders) - 1 /\ IsFiniteSet(Holders \ {c})
  BY <1>3, <1>4, FS_RemoveElement
<1>6. Cardinality(Holders') = Cardinality(Holders \ {c}) + 1
  BY <1>3, <1>5, FS_AddElement
<1>7. Cardinality(Holders') = Cardinality(Holders)
  BY <1>4, <1>5, <1>6
<1> QED BY <1>1, <1>2, <1>3, <1>7
     DEF GateInv, GateTypeOK, QueueIsWaiting, PermitsWithinCapacity, NoWaiterBesideFreeSlot

(* A slot withheld without a release, and close.                             *)
LEMMA WithholdStep ==
  ASSUME GateInv, QuarantineAvailable \/ CloseGate
  PROVE  GateInv'
PROOF
<1> USE GateAssumption
<1>1. /\ gate \in Gates(Clients) /\ gate.waiters \in Seq(Clients)
      /\ gate.active \in Nat /\ gate.quarantined \in Nat /\ gate.closed \in BOOLEAN
      /\ at \in [Clients -> {"idle", "waiting", "holding"}]
      /\ Members(gate.waiters) = Waiting
  BY DEF GateInv, GateTypeOK, Gates, QueueIsWaiting
<1>2. /\ at' \in [Clients -> {"idle", "waiting", "holding"}]
      /\ \A d \in Clients :
          at'[d] = IF at[d] = "waiting" /\ d \notin Members(gate'.waiters) THEN "idle" ELSE at[d]
  BY <1>1 DEF QuarantineAvailable, CloseGate, FailDropped
<1>3. Holders' = Holders
  BY <1>1, <1>2 DEF Holders
<1>4. CASE gate' = Quarantine(gate) /\ Available(Capacity, gate) > 0
  <2>1. /\ gate' \in Gates(Clients) /\ gate'.waiters = gate.waiters
        /\ gate'.active = gate.active /\ gate'.quarantined = gate.quarantined + 1
    BY <1>1, <1>4 DEF Quarantine, Gates
  <2>2. gate.waiters = <<>>
    BY <1>4 DEF GateInv, NoWaiterBesideFreeSlot
  <2>3. Waiting' = Waiting
    BY <1>1, <1>2, <2>1 DEF Waiting
  <2>4. PermitsWithinCapacity'
    BY <1>1, <1>3, <1>4, <2>1 DEF GateInv, PermitsWithinCapacity, Available
  <2> QED BY <1>2, <2>1, <2>2, <2>3, <2>4
       DEF GateInv, GateTypeOK, QueueIsWaiting, NoWaiterBesideFreeSlot
<1>5. ASSUME gate' \in Gates(Clients), gate'.waiters = <<>>, gate'.active = gate.active,
             gate'.active + gate'.quarantined <= Capacity
      PROVE  GateInv'
  <2>1. Members(gate'.waiters) = {}
    BY <1>5 DEF Members
  <2>2. Waiting' = {}
    BY <1>1, <1>2, <2>1 DEF Waiting
  <2>3. PermitsWithinCapacity'
    BY <1>3, <1>5 DEF GateInv, PermitsWithinCapacity
  <2> QED BY <1>2, <1>5, <2>1, <2>2, <2>3
       DEF GateInv, GateTypeOK, QueueIsWaiting, NoWaiterBesideFreeSlot
<1>6. CASE CloseGate
  <2>1. /\ gate' \in Gates(Clients) /\ gate'.waiters = <<>> /\ gate'.active = gate.active
        /\ gate'.quarantined = gate.quarantined
    BY <1>1, <1>6, DropFacts DEF CloseGate
  <2> QED BY <1>5, <2>1 DEF GateInv, PermitsWithinCapacity
<1>7. CASE QuarantineAvailable
  <2>1. gate' = QuarantineSlot(Capacity, gate) /\ gate' # gate
    BY <1>7 DEF QuarantineAvailable
  <2>2. ~(gate.closed \/ Available(Capacity, gate) <= 0)
    BY <2>1 DEF QuarantineSlot
  <2>3. Available(Capacity, gate) > 0
    BY <1>1, <2>2 DEF Available
  <2>4. CASE Effective(Capacity, Quarantine(gate)) = 0
    <3>1. gate' = Drop(Quarantine(gate))
      BY <2>1, <2>2, <2>4 DEF QuarantineSlot
    <3>2. /\ gate' \in Gates(Clients) /\ gate'.waiters = <<>> /\ gate'.active = gate.active
          /\ gate'.quarantined = gate.quarantined + 1
      BY <1>1, <3>1, DropFacts, QuarantineFacts
    <3> QED BY <1>1, <1>5, <2>3, <3>2 DEF Available
  <2>5. CASE Effective(Capacity, Quarantine(gate)) # 0
    BY <1>4, <2>1, <2>2, <2>3, <2>5 DEF QuarantineSlot
  <2> QED BY <2>4, <2>5
<1> QED BY <1>6, <1>7

LEMMA GateStep == GateInv /\ [GateNext]_gateVars => GateInv'
PROOF
<1> SUFFICES ASSUME GateInv, [GateNext]_gateVars PROVE GateInv'
  OBVIOUS
<1>1. ASSUME NEW c \in Clients, TryAcquire(c) \/ Acquire(c) PROVE GateInv'
  <2>1. Sound(gate, at) /\ at[c] = "idle"
    BY <1>1, InvIsSound DEF TryAcquire, Acquire
  <2>2. \/ SlotFree(Capacity, gate) /\ gate' = Take(gate) /\ at' = [at EXCEPT ![c] = "holding"]
        \/ /\ ~Hopeless(Capacity, gate) /\ ~SlotFree(Capacity, gate)
           /\ gate' = Enqueue(gate, c) /\ at' = [at EXCEPT ![c] = "waiting"]
    BY <1>1 DEF TryAcquire, Acquire
  <2>3. Sound(gate', at')
    BY <2>1, <2>2, TakeKeeps, EnqueueKeeps
  <2> QED BY <2>3, InvIsSound
<1>2. ASSUME NEW c \in Clients, NEW quarantine \in BOOLEAN, GivePermit(c, quarantine) \/ Renew(c, quarantine)
      PROVE  GateInv'
  <2>1. CASE GivePermit(c, quarantine)
    <3>1. Sound(gate', at')
      BY <2>1, GiveKeeps DEF GivePermit
    <3> QED BY <3>1, InvIsSound
  <2> QED BY <1>2, <2>1, RenewStep
<1>3. CASE QuarantineAvailable \/ CloseGate
  BY <1>3, WithholdStep
<1>4. CASE UNCHANGED gateVars
  BY <1>4 DEF gateVars, GateInv, GateTypeOK, QueueIsWaiting, Waiting, Holders,
              PermitsWithinCapacity, NoWaiterBesideFreeSlot
<1>5. CASE \E c, d \in Clients : PassOn(c, d)
  BY <1>5, PassStep
<1> QED BY <1>1, <1>2, <1>3, <1>4, <1>5 DEF GateNext

(* The permits out and the slots withheld never exceed the capacity, and    *)
(* _activeCount is the number of permits out, for any capacity and clients  *)
(* (worker_capacity_gate.dart _release, _drainWaiters).                     *)
THEOREM GateCapacity == GateSpec => []PermitsWithinCapacity
PROOF
<1>1. GateInv => PermitsWithinCapacity
  BY DEF GateInv
<1> QED BY GateStart, GateStep, <1>1, PTL DEF GateSpec

(* No client ever waits beside an idle slot, or when no permit can come.    *)
THEOREM GateServesWaiters == GateSpec => []NoWaiterBesideFreeSlot
PROOF
<1>1. GateInv => NoWaiterBesideFreeSlot
  BY DEF GateInv
<1> QED BY GateStart, GateStep, <1>1, PTL DEF GateSpec

(* The two halves of ServedInOrder, as facts about one step.                *)
InOrder ==
  \A i, j \in 1..Len(gate.waiters) :
     i < j /\ at'[gate.waiters[j]] = "holding" => at'[gate.waiters[i]] = "holding"

NoOvertaking ==
  \A c \in Clients :
     at[c] = "idle" /\ at'[c] = "holding" /\ gate' # gate => gate.waiters = <<>>

(* Who is in the queue waits, so it does not hold; a step that serves nobody *)
(* from the queue, or only its head, serves it in order.                     *)
LEMMA QueuedWait ==
  ASSUME GateInv
  PROVE  /\ gate.waiters \in Seq(Clients)
         /\ \A i \in 1..Len(gate.waiters) :
              gate.waiters[i] \in Clients /\ at[gate.waiters[i]] = "waiting"
PROOF
<1>1. gate.waiters \in Seq(Clients) /\ Members(gate.waiters) = Waiting
  BY DEF GateInv, GateTypeOK, Gates, QueueIsWaiting
<1> QED BY <1>1 DEF Members, Waiting

LEMMA OrderOfOne ==
  ASSUME GateInv, NEW served, served = {} \/ (gate.waiters # <<>> /\ served = {Head(gate.waiters)}),
         \A d \in Clients : at[d] = "waiting" /\ at'[d] = "holding" => d \in served
  PROVE  InOrder
PROOF
<1>1. /\ gate.waiters \in Seq(Clients)
      /\ \A i \in 1..Len(gate.waiters) :
           gate.waiters[i] \in Clients /\ at[gate.waiters[i]] = "waiting"
  BY QueuedWait
<1>2. SUFFICES ASSUME NEW i \in 1..Len(gate.waiters), NEW j \in 1..Len(gate.waiters),
                      i < j, at'[gate.waiters[j]] = "holding"
               PROVE  FALSE
  BY DEF InOrder
<1>3. gate.waiters[j] \in served
  BY <1>1, <1>2
<1>4. gate.waiters # <<>> /\ gate.waiters[j] = Head(gate.waiters)
  BY <1>3
<1>5. 1 \in 1..Len(gate.waiters) /\ Head(gate.waiters) = gate.waiters[1]
  BY <1>1, <1>2, <1>4
<1>6. j = 1
  BY <1>4, <1>5 DEF GateInv, QueueIsWaiting
<1> QED BY <1>2, <1>6

(* Which waiters a release serves.                                          *)
LEMMA ServedFacts ==
  ASSUME GateInv, NEW c \in Clients, NEW quarantine \in BOOLEAN, at[c] = "holding"
  PROVE  LET s == Served(Capacity, gate, quarantine) IN
         s = {} \/ (gate.waiters # <<>> /\ s = {Head(gate.waiters)})
PROOF
<1>1. gate \in Gates(Clients) /\ gate.active = Cardinality(Holders)
      /\ gate.active + gate.quarantined <= Capacity
  BY DEF GateInv, GateTypeOK, PermitsWithinCapacity
<1>2. c \in Holders /\ IsFiniteSet(Holders)
  BY FS_Subset, GateAssumption DEF Holders
<1>3. gate.active > 0
  <2>1. Cardinality(Holders \ {c}) = Cardinality(Holders) - 1 /\ IsFiniteSet(Holders \ {c})
    BY <1>2, FS_RemoveElement
  <2> QED BY <1>1, <1>2, <2>1, FS_CardinalityType
<1>4. gate.waiters # <<>> => Available(Capacity, gate) = 0 /\ ~Hopeless(Capacity, gate)
  BY DEF GateInv, NoWaiterBesideFreeSlot
<1> QED BY <1>1, <1>3, <1>4, GateAssumption, ReleaseCases

LEMMA OrderStep == GateInv /\ GateNext => InOrder /\ NoOvertaking
PROOF
<1> SUFFICES ASSUME GateInv, GateNext PROVE InOrder /\ NoOvertaking
  OBVIOUS
<1>0. at \in [Clients -> {"idle", "waiting", "holding"}]
  BY DEF GateInv, GateTypeOK
<1>1. ASSUME NEW c \in Clients, TryAcquire(c) \/ Acquire(c)
      PROVE  InOrder /\ NoOvertaking
  <2>1. \A d \in Clients : at[d] = "waiting" /\ at'[d] = "holding" => d \in {}
    BY <1>0, <1>1 DEF TryAcquire, Acquire
  <2>2. NoOvertaking
    BY <1>0, <1>1 DEF TryAcquire, Acquire, SlotFree, NoOvertaking
  <2> QED BY <2>1, <2>2, OrderOfOne
<1>2. ASSUME NEW c \in Clients, NEW quarantine \in BOOLEAN, GivePermit(c, quarantine) \/ Renew(c, quarantine)
      PROVE  InOrder /\ NoOvertaking
  <2> DEFINE served == Served(Capacity, gate, quarantine)  a == Given(c, quarantine)
  <2>1. at[c] = "holding"
    BY <1>2 DEF GivePermit, Renew
  <2>2. served = {} \/ (gate.waiters # <<>> /\ served = {Head(gate.waiters)})
    BY <2>1, ServedFacts
  <2>3. \A d \in Clients : at'[d] = "holding" /\ at[d] # "holding" => d \in served
    <3>1. a \in [Clients -> {"idle", "waiting", "holding"}]
      BY <1>0 DEF Given
    <3>2. \A d \in Clients \ {c} : a[d] = "holding" /\ at[d] # "holding" => d \in served
      BY DEF Given
    <3>3. at' = a \/ at' = [a EXCEPT ![c] = "holding"] \/ at' = [a EXCEPT ![c] = "waiting"]
      BY <1>2 DEF GivePermit, Renew
    <3> HIDE DEF a, served
    <3> QED BY <2>1, <3>1, <3>2, <3>3
  <2>4. \A d \in served : d \in Clients /\ at[d] = "waiting"
    <3>1. gate.waiters # <<>> => 1 \in 1..Len(gate.waiters) /\ Head(gate.waiters) = gate.waiters[1]
      BY QueuedWait
    <3> QED BY <2>2, <3>1, QueuedWait
  <2>5. InOrder
    <3> HIDE DEF served
    <3>1. \A d \in Clients : at[d] = "waiting" /\ at'[d] = "holding" => d \in served
      BY <2>3
    <3> QED BY <2>2, <3>1, OrderOfOne
  <2> HIDE DEF served
  <2> QED BY <2>3, <2>4, <2>5 DEF NoOvertaking
<1>4. ASSUME NEW c \in Clients, NEW d \in Clients, PassOn(c, d) PROVE InOrder /\ NoOvertaking
  <2>1. \A e \in Clients : at[e] = "waiting" /\ at'[e] = "holding" => e \in {}
    BY <1>0, <1>4 DEF PassOn
  <2> QED BY <1>4, <2>1, OrderOfOne DEF PassOn, NoOvertaking
<1>3. CASE QuarantineAvailable \/ CloseGate
  <2>1. \A d \in Clients : at'[d] = "holding" => at[d] = "holding"
    BY <1>0, <1>3 DEF QuarantineAvailable, CloseGate, FailDropped
  <2>2. \A d \in Clients : at[d] = "waiting" /\ at'[d] = "holding" => d \in {}
    BY <2>1
  <2> QED BY <2>1, <2>2, OrderOfOne DEF NoOvertaking
<1> QED BY <1>1, <1>2, <1>3, <1>4 DEF GateNext

(* First come, first served, for any capacity and any number of clients: a  *)
(* release serves the oldest waiter before every other, and a call that     *)
(* comes later takes no slot while somebody waits (acquire, _drainWaiters). *)
THEOREM GateServesInOrder == GateSpec => ServedInOrder
PROOF
<1>1. GateInv /\ [GateNext]_gateVars =>
        [/\ \A i, j \in 1..Len(gate.waiters) :
              i < j /\ at'[gate.waiters[j]] = "holding" => at'[gate.waiters[i]] = "holding"
         /\ \A c \in Clients :
              at[c] = "idle" /\ at'[c] = "holding" /\ gate' # gate => gate.waiters = <<>>]_gateVars
  BY OrderStep DEF InOrder, NoOvertaking
<1> QED BY GateStart, GateStep, <1>1, PTL DEF GateSpec, ServedInOrder
===============================================================================
