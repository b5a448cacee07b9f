-------------------------- MODULE SessionLockProofs --------------------------
(***************************************************************************)
(* Type correctness, exclusion and the count of the session lock, for any  *)
(* set of callers, any finite set of sessions and any set of caps.  What   *)
(* makes exclusion inductive is where callers are queued: a caller in      *)
(* "ready" or in "parked" holds nothing and is queued once.                *)
(***************************************************************************)
EXTENDS SessionLockManager, FiniteSetTheorems, SequenceTheorems, TLAPS

\* Every queued caller is where its call record says, and queued once.
QueuesAgree ==
  /\ \A i \in 1..Len(ready) : call[ready[i]].at = "ready"
  /\ \A i, j \in 1..Len(ready) : ready[i] = ready[j] => i = j
  /\ \A s \in Sessions : \A i \in 1..Len(parked[s]) :
        call[parked[s][i]].at = "parked" /\ call[parked[s][i]].sid = s
  /\ \A s \in Sessions : \A i, j \in 1..Len(parked[s]) :
        parked[s][i] = parked[s][j] => i = j

LockInv == LockTypeOK /\ QueuesAgree /\ OneHolderPerSession

(* What is where in two sequences one after the other.                     *)
LEMMA ConcatAt ==
  ASSUME NEW S, NEW p \in Seq(S), NEW q \in Seq(S)
  PROVE  \A i \in 1..Len(p \o q) :
           \/ i \in 1..Len(p) /\ (p \o q)[i] = p[i]
           \/ i - Len(p) \in 1..Len(q) /\ (p \o q)[i] = q[i - Len(p)]
PROOF
<1>1. SUFFICES ASSUME NEW i \in 1..Len(p \o q)
               PROVE  \/ i \in 1..Len(p) /\ (p \o q)[i] = p[i]
                      \/ i - Len(p) \in 1..Len(q) /\ (p \o q)[i] = q[i - Len(p)]
  OBVIOUS
<1>2. Len(p) \in Nat /\ Len(q) \in Nat /\ Len(p \o q) = Len(p) + Len(q)
  OBVIOUS
<1>3. CASE i <= Len(p)
  BY <1>2, <1>3
<1>4. CASE i > Len(p)
  <2>1. i \in Len(p) + 1..Len(p) + Len(q) /\ i - Len(p) \in 1..Len(q)
    BY <1>1, <1>2, <1>4
  <2> QED BY <1>2, <2>1
<1> QED BY <1>2, <1>3, <1>4

(* Two queues that share no element and hold theirs once, one after the    *)
(* other: each element is there once.                                      *)
LEMMA ConcatOnce ==
  ASSUME NEW S, NEW p \in Seq(S), NEW q \in Seq(S),
         \A i, j \in 1..Len(p) : p[i] = p[j] => i = j,
         \A i, j \in 1..Len(q) : q[i] = q[j] => i = j,
         \A i \in 1..Len(p), j \in 1..Len(q) : p[i] # q[j],
         NEW i \in 1..Len(p \o q), NEW j \in 1..Len(p \o q), (p \o q)[i] = (p \o q)[j]
  PROVE  i = j
PROOF
<1>1. \A k \in 1..Len(p \o q) :
        \/ k \in 1..Len(p) /\ (p \o q)[k] = p[k]
        \/ k - Len(p) \in 1..Len(q) /\ (p \o q)[k] = q[k - Len(p)]
  BY ConcatAt, Zenon
<1>2. Len(p) \in Nat /\ i \in Int /\ j \in Int
  OBVIOUS
<1>3. CASE i \in 1..Len(p) /\ (p \o q)[i] = p[i]
  BY <1>1, <1>3
<1>4. CASE i - Len(p) \in 1..Len(q) /\ (p \o q)[i] = q[i - Len(p)]
  <2>1. j - Len(p) \in 1..Len(q) /\ (p \o q)[j] = q[j - Len(p)]
    BY <1>1, <1>4
  <2>2. i - Len(p) = j - Len(p)
    BY <1>4, <2>1
  <2> QED BY <1>2, <2>2
<1> QED BY <1>1, <1>3, <1>4

(* A pass of acquire by a caller that is queued nowhere leaves the queues   *)
(* and the locks consistent.                                               *)
LEMMA AcquirePassInv ==
  ASSUME LockInv, NEW c \in Callers, NEW s \in Sessions,
         call[c].at # "parked", call[c].at # "holding",
         \/ call[c].at = "idle" /\ ready' = ready
         \/ ready # <<>> /\ c = Head(ready) /\ ready' = Tail(ready),
         AcquirePass(c, s), UNCHANGED maxParallel
  PROVE  LockInv'
PROOF
<1> USE LockAssumption
<1>0. /\ parked \in [Sessions -> Seq(Callers)] /\ ready \in Seq(Callers)
      /\ locks \in [Sessions -> Callers \cup {NoCaller}]
      /\ call \in [Callers -> [at : {"idle", "parked", "ready", "holding"}, sid : Sessions]]
      /\ waits \in [Sessions -> SUBSET Stages] /\ activeCount \in Nat
      /\ maxParallel \in Caps
  BY DEF LockInv, LockTypeOK
<1>1. /\ ready' \in Seq(Callers)
      /\ \A i \in 1..Len(ready') : call[ready'[i]].at = "ready" /\ ready'[i] # c
      /\ \A i, j \in 1..Len(ready') : ready'[i] = ready'[j] => i = j
  <2>1. CASE call[c].at = "idle" /\ ready' = ready
    BY <1>0, <2>1 DEF LockInv, QueuesAgree
  <2>2. CASE ready # <<>> /\ c = Head(ready) /\ ready' = Tail(ready)
    <3>1. ready' \in Seq(Callers) /\ Len(ready') = Len(ready) - 1
      BY <1>0, <2>2
    <3>2. \A i \in 1..Len(ready') :
            i + 1 \in 1..Len(ready) /\ i + 1 # 1 /\ ready'[i] = ready[i + 1]
      BY <1>0, <2>2
    <3>3. c = ready[1] /\ 1 \in 1..Len(ready)
      BY <1>0, <2>2
    <3>4. \A i \in 1..Len(ready) : call[ready[i]].at = "ready"
      BY DEF LockInv, QueuesAgree
    <3>5. \A i, j \in 1..Len(ready) : ready[i] = ready[j] => i = j
      BY DEF LockInv, QueuesAgree
    <3>6. \A i \in 1..Len(ready') : call[ready'[i]].at = "ready" /\ ready'[i] # c
      <4>1. SUFFICES ASSUME NEW i \in 1..Len(ready')
                     PROVE  call[ready'[i]].at = "ready" /\ ready'[i] # c
        OBVIOUS
      <4>2. i + 1 \in 1..Len(ready) /\ i + 1 # 1 /\ ready'[i] = ready[i + 1]
        BY <3>2
      <4>3. call[ready[i + 1]].at = "ready"
        BY <3>4, <4>2
      <4>4. ready[i + 1] # ready[1]
        BY <3>3, <3>5, <4>2
      <4> QED BY <3>3, <4>2, <4>3, <4>4
    <3>7. \A i, j \in 1..Len(ready') : ready'[i] = ready'[j] => i = j
      <4>1. SUFFICES ASSUME NEW i \in 1..Len(ready'), NEW j \in 1..Len(ready'),
                            ready'[i] = ready'[j]
                     PROVE  i = j
        OBVIOUS
      <4>2. i + 1 = j + 1
        BY <3>2, <3>5, <4>1
      <4> QED BY <4>2
    <3> QED BY <3>1, <3>6, <3>7
  <2> QED BY <2>1, <2>2
<1>2. /\ \A d \in Callers : d # c => call'[d] = call[d]
      /\ call'[c].sid = s
      /\ call' \in [Callers -> [at : {"idle", "parked", "ready", "holding"}, sid : Sessions]]
  <2>1. CASE Park(c, s)
    BY <1>0, <2>1 DEF Park
  <2>2. CASE Busy(c, s)
    BY <1>0, <2>2 DEF Busy
  <2>3. CASE Take(c, s)
    BY <1>0, <2>3 DEF Take
  <2> QED BY <2>1, <2>2, <2>3 DEF AcquirePass
<1>3. \A t \in Sessions :
        /\ \A i \in 1..Len(parked[t]) :
             /\ parked[t][i] \in Callers /\ parked[t][i] # c
             /\ call[parked[t][i]].at = "parked" /\ call[parked[t][i]].sid = t
        /\ \A i, j \in 1..Len(parked[t]) : parked[t][i] = parked[t][j] => i = j
  BY <1>0 DEF LockInv, QueuesAgree
<1>4. /\ parked' \in [Sessions -> Seq(Callers)]
      /\ \A t \in Sessions : \A i \in 1..Len(parked'[t]) :
            call'[parked'[t][i]].at = "parked" /\ call'[parked'[t][i]].sid = t
      /\ \A t \in Sessions : \A i, j \in 1..Len(parked'[t]) :
            parked'[t][i] = parked'[t][j] => i = j
  <2>1. CASE Park(c, s)
    <3>1. parked' = [parked EXCEPT ![s] = Append(parked[s], c)]
      BY <2>1 DEF Park
    <3>2. \A t \in Sessions : t # s => parked'[t] = parked[t]
      BY <1>0, <3>1
    <3>3. /\ parked'[s] \in Seq(Callers) /\ Len(parked'[s]) = Len(parked[s]) + 1
          /\ \A i \in 1..Len(parked[s]) : parked'[s][i] = parked[s][i]
          /\ parked'[s][Len(parked[s]) + 1] = c
      BY <1>0, <3>1
    <3>4. call'[c].at = "parked"
      BY <1>0, <2>1 DEF Park
    <3>5. Len(parked[s]) \in Nat
      BY <1>0
    <3>6. \A i \in 1..Len(parked'[s]) : i \in 1..Len(parked[s]) \/ i = Len(parked[s]) + 1
      BY <3>3, <3>5
    <3>7. \A i \in 1..Len(parked'[s]) :
            call'[parked'[s][i]].at = "parked" /\ call'[parked'[s][i]].sid = s
      BY <1>2, <1>3, <3>3, <3>4, <3>6
    <3>8. \A i, j \in 1..Len(parked'[s]) : parked'[s][i] = parked'[s][j] => i = j
      <4>1. \A i \in 1..Len(parked[s]) : parked'[s][i] = parked[s][i] /\ parked[s][i] # c
        BY <1>3, <3>3
      <4>2. \A i, j \in 1..Len(parked[s]) : parked[s][i] = parked[s][j] => i = j
        BY <1>3
      <4> QED BY <3>3, <3>6, <4>1, <4>2
    <3>9. parked' \in [Sessions -> Seq(Callers)]
      BY <1>0, <3>1
    <3>10. \A t \in Sessions : t # s =>
            \A i \in 1..Len(parked[t]) :
               call'[parked[t][i]].at = "parked" /\ call'[parked[t][i]].sid = t
      BY <1>2, <1>3
    <3>11. \A t \in Sessions : \A i \in 1..Len(parked'[t]) :
            call'[parked'[t][i]].at = "parked" /\ call'[parked'[t][i]].sid = t
      <4>1. SUFFICES ASSUME NEW t \in Sessions, NEW i \in 1..Len(parked'[t])
                     PROVE  call'[parked'[t][i]].at = "parked" /\ call'[parked'[t][i]].sid = t
        OBVIOUS
      <4> QED BY <3>2, <3>7, <3>10
    <3>12. \A t \in Sessions : \A i, j \in 1..Len(parked'[t]) :
            parked'[t][i] = parked'[t][j] => i = j
      <4>1. SUFFICES ASSUME NEW t \in Sessions
                     PROVE  \A i, j \in 1..Len(parked'[t]) : parked'[t][i] = parked'[t][j] => i = j
        OBVIOUS
      <4> QED BY <1>3, <3>2, <3>8
    <3> QED BY <3>9, <3>11, <3>12
  <2>2. CASE Busy(c, s) \/ Take(c, s)
    <3>1. parked' = parked
      BY <2>2 DEF Busy, Take
    <3> QED BY <1>0, <1>2, <1>3, <3>1
  <2> QED BY <2>1, <2>2 DEF AcquirePass
<1>5. LockTypeOK'
  <2>1. /\ waits' \in [Sessions -> SUBSET Stages]
        /\ locks' \in [Sessions -> Callers \cup {NoCaller}]
        /\ activeCount' \in Nat
    <3>1. CASE Park(c, s)
      BY <1>0, <3>1 DEF Park, Stages
    <3>2. CASE Busy(c, s)
      BY <1>0, <3>2 DEF Busy
    <3>3. CASE Take(c, s)
      BY <1>0, <3>3 DEF Take
    <3> QED BY <3>1, <3>2, <3>3 DEF AcquirePass
  <2> QED BY <1>0, <1>1, <1>2, <1>4, <2>1 DEF LockTypeOK
<1>6. QueuesAgree'
  <2>1. \A i \in 1..Len(ready') : ready'[i] \in Callers
    BY <1>1
  <2>2. \A i \in 1..Len(ready') : call'[ready'[i]].at = "ready"
    BY <1>1, <1>2, <2>1
  <2> QED BY <1>1, <1>4, <2>2 DEF QueuesAgree
<1>7. OneHolderPerSession'
  <2>1. CASE Park(c, s)
    BY <1>0, <2>1 DEF Park, LockInv, OneHolderPerSession
  <2>2. CASE Busy(c, s)
    BY <1>0, <2>2 DEF Busy, LockInv, OneHolderPerSession
  <2>3. CASE Take(c, s)
    BY <1>0, <2>3 DEF Take, LockInv, OneHolderPerSession
  <2> QED BY <2>1, <2>2, <2>3 DEF AcquirePass
<1> QED BY <1>5, <1>6, <1>7 DEF LockInv

(* Releasing a lock moves its waiters to the back of the microtask queue.   *)
LEMMA ReleaseInv ==
  ASSUME LockInv, NEW c \in Callers, Release(c), activeCount' \in Nat
  PROVE  LockInv'
PROOF
<1> USE LockAssumption
<1> DEFINE s == call[c].sid
<1>0. /\ parked \in [Sessions -> Seq(Callers)] /\ ready \in Seq(Callers)
      /\ locks \in [Sessions -> Callers \cup {NoCaller}]
      /\ call \in [Callers -> [at : {"idle", "parked", "ready", "holding"}, sid : Sessions]]
      /\ waits \in [Sessions -> SUBSET Stages]
      /\ maxParallel \in Caps
      /\ s \in Sessions
  BY DEF LockInv, LockTypeOK
<1>1. /\ ready' = ready \o parked[s]
      /\ parked' = [parked EXCEPT ![s] = <<>>]
      /\ locks' = [locks EXCEPT ![s] = NoCaller]
      /\ waits' = [waits EXCEPT ![s] = {}]
      /\ call[c].at = "holding"
      /\ maxParallel' = maxParallel
  BY DEF Release
<1>2. \A d \in Callers :
        call'[d] = IF d = c THEN [at |-> "idle", sid |-> s]
                   ELSE IF call[d].at = "parked" /\ call[d].sid = s
                        THEN [at |-> "ready", sid |-> s] ELSE call[d]
  BY DEF Release
<1>3. \A t \in Sessions :
        /\ \A i \in 1..Len(parked[t]) :
             /\ parked[t][i] \in Callers /\ parked[t][i] # c
             /\ call[parked[t][i]].at = "parked" /\ call[parked[t][i]].sid = t
        /\ \A i, j \in 1..Len(parked[t]) : parked[t][i] = parked[t][j] => i = j
  BY <1>0, <1>1 DEF LockInv, QueuesAgree
<1>4. LockTypeOK'
  <2>1. parked[s] \in Seq(Callers)
    BY <1>0
  <2>2. ready' \in Seq(Callers)
    BY <1>0, <1>1, <2>1
  <2>3. parked' \in [Sessions -> Seq(Callers)]
    BY <1>0, <1>1
  <2>4. call' \in [Callers -> [at : {"idle", "parked", "ready", "holding"}, sid : Sessions]]
    BY <1>0 DEF Release
  <2>5. locks' \in [Sessions -> Callers \cup {NoCaller}] /\ waits' \in [Sessions -> SUBSET Stages]
    BY <1>0, <1>1 DEF Stages
  <2> QED BY <1>0, <1>1, <2>2, <2>3, <2>4, <2>5 DEF LockTypeOK
<1>5. QueuesAgree'
  <2>1. ready \in Seq(Callers) /\ parked[s] \in Seq(Callers) /\ ready' = ready \o parked[s]
    BY <1>0, <1>1
  <2>2. \A i \in 1..Len(ready) : /\ ready[i] \in Callers /\ ready[i] # c
                                 /\ call[ready[i]].at = "ready"
    BY <1>0, <1>1 DEF LockInv, QueuesAgree
  <2>3. \A i \in 1..Len(parked[s]) : /\ parked[s][i] \in Callers /\ parked[s][i] # c
                                     /\ call[parked[s][i]].at = "parked"
                                     /\ call[parked[s][i]].sid = s
    BY <1>0, <1>3
  <2>4. \A i, j \in 1..Len(ready) : ready[i] = ready[j] => i = j
    BY DEF LockInv, QueuesAgree
  <2>5. /\ \A i \in 1..Len(ready') : \/ \E k \in 1..Len(ready) : ready'[i] = ready[k]
                                     \/ \E k \in 1..Len(parked[s]) : ready'[i] = parked[s][k]
        /\ \A i, j \in 1..Len(ready') : ready'[i] = ready'[j] => i = j
    <3> DEFINE q == parked[s]
    <3>1. ready \in Seq(Callers) /\ q \in Seq(Callers) /\ ready' = ready \o q
      BY <2>1
    <3>2. \A i \in 1..Len(ready), j \in 1..Len(q) : ready[i] # q[j]
      BY <2>2, <2>3
    <3>3. \A i, j \in 1..Len(q) : q[i] = q[j] => i = j
      BY <1>0, <1>3
    <3> HIDE DEF q
    <3>4. \A i \in 1..Len(ready \o q) : \/ \E k \in 1..Len(ready) : (ready \o q)[i] = ready[k]
                                        \/ \E k \in 1..Len(q) : (ready \o q)[i] = q[k]
      <4>1. \A u, v \in Seq(Callers) : \A i \in 1..Len(u \o v) :
              \/ \E k \in 1..Len(u) : (u \o v)[i] = u[k]
              \/ \E k \in 1..Len(v) : (u \o v)[i] = v[k]
        BY ConcatAt
      <4> QED BY <3>1, <4>1
    <3>5. ASSUME NEW i \in 1..Len(ready \o q), NEW j \in 1..Len(ready \o q),
                 (ready \o q)[i] = (ready \o q)[j]
          PROVE  i = j
      <4>1. \A u, v \in Seq(Callers) : \A k, l \in 1..Len(u \o v) :
              /\ \A m, n \in 1..Len(u) : u[m] = u[n] => m = n
              /\ \A m, n \in 1..Len(v) : v[m] = v[n] => m = n
              /\ \A m \in 1..Len(u), n \in 1..Len(v) : u[m] # v[n]
              /\ (u \o v)[k] = (u \o v)[l]
              => k = l
        BY ConcatOnce
      <4> QED BY <2>4, <3>1, <3>2, <3>3, <3>5, <4>1
    <3> QED BY <3>1, <3>4, <3>5 DEF q
  <2>6. \A i \in 1..Len(ready') : call'[ready'[i]].at = "ready"
    <3>1. SUFFICES ASSUME NEW i \in 1..Len(ready') PROVE call'[ready'[i]].at = "ready"
      OBVIOUS
    <3>2. ASSUME NEW k \in 1..Len(ready), ready'[i] = ready[k]
          PROVE  call'[ready'[i]].at = "ready"
      BY <1>2, <2>2, <3>2
    <3>3. ASSUME NEW k \in 1..Len(parked[s]), ready'[i] = parked[s][k]
          PROVE  call'[ready'[i]].at = "ready"
      BY <1>2, <2>3, <3>3
    <3> QED BY <2>5, <3>2, <3>3
  <2>7. \A t \in Sessions : t # s => parked'[t] = parked[t]
    BY <1>0, <1>1
  <2>8. Len(parked'[s]) = 0
    BY <1>0, <1>1
  <2>9. \A t \in Sessions : \A i \in 1..Len(parked'[t]) :
          /\ t # s
          /\ call'[parked'[t][i]].at = "parked" /\ call'[parked'[t][i]].sid = t
    BY <1>2, <1>3, <2>7, <2>8
  <2>10. \A t \in Sessions : \A i, j \in 1..Len(parked'[t]) :
          parked'[t][i] = parked'[t][j] => i = j
    BY <1>3, <2>7, <2>8
  <2> QED BY <2>5, <2>6, <2>9, <2>10 DEF QueuesAgree
<1>6. OneHolderPerSession'
  <2>1. \A d \in Callers, t \in Sessions :
          (call[d].at = "holding" /\ call[d].sid = t) <=> (locks[t] = d)
    BY DEF LockInv, OneHolderPerSession
  <2>2. locks'[s] = NoCaller /\ \A t \in Sessions : t # s => locks'[t] = locks[t]
    BY <1>0, <1>1
  <2>3. SUFFICES ASSUME NEW d \in Callers, NEW t \in Sessions
                 PROVE  (call'[d].at = "holding" /\ call'[d].sid = t) <=> (locks'[t] = d)
    BY DEF OneHolderPerSession
  <2>4. CASE d = c
    <3>1. call'[d].at = "idle" /\ locks[s] = c
      BY <1>0, <1>1, <1>2, <2>1, <2>4
    <3>2. t # s => locks[t] # c
      BY <1>1, <2>1
    <3> QED BY <2>2, <2>4, <3>1, <3>2
  <2>5. CASE d # c /\ call[d].at = "parked"
    <3>1. call'[d].at # "holding" /\ locks[t] # d
      BY <1>2, <2>1, <2>5
    <3> QED BY <2>2, <3>1, LockAssumption
  <2>6. CASE d # c /\ call[d].at # "parked"
    <3>1. call'[d] = call[d] /\ locks[s] = c
      BY <1>0, <1>1, <1>2, <2>1, <2>6
    <3> QED BY <2>1, <2>2, <2>6, <3>1, LockAssumption
  <2> QED BY <2>4, <2>5, <2>6
<1> QED BY <1>4, <1>5, <1>6 DEF LockInv

------------------------------------------------------------------------------
(* The number of locks held follows each change of one entry of _locks.     *)
LEMMA CountFollowsLocks ==
  ASSUME LockInv, CountIsLocksHeld, [LockNext]_lockVars
  PROVE  CountIsLocksHeld' /\ activeCount' \in Nat
PROOF
<1> USE LockAssumption
<1>0. IsFiniteSet(Held) /\ Cardinality(Held) \in Nat
  BY FS_Subset, FS_CardinalityType DEF Held
<1>1. ASSUME UNCHANGED <<locks, activeCount>> PROVE CountIsLocksHeld' /\ activeCount' \in Nat
  BY <1>1 DEF CountIsLocksHeld, Held, LockInv, LockTypeOK
<1>2. ASSUME NEW c \in Callers, NEW s \in Sessions, Take(c, s)
      PROVE  CountIsLocksHeld' /\ activeCount' \in Nat
  <2>1. Held' = Held \cup {s} /\ s \notin Held
    BY <1>2 DEF Take, Held, LockInv, LockTypeOK
  <2>2. Cardinality(Held') = Cardinality(Held) + 1
    BY <1>0, <2>1, FS_AddElement
  <2>3. activeCount' = activeCount + 1 /\ activeCount = Cardinality(Held)
    BY <1>2 DEF Take, CountIsLocksHeld
  <2> QED BY <1>0, <2>2, <2>3 DEF CountIsLocksHeld
<1>3. ASSUME NEW c \in Callers, Release(c)
      PROVE  CountIsLocksHeld' /\ activeCount' \in Nat
  <2>1. call[c].sid \in Held /\ Held' = Held \ {call[c].sid}
    BY <1>3 DEF Release, Held, LockInv, LockTypeOK, OneHolderPerSession
  <2>2. Cardinality(Held') = Cardinality(Held) - 1
    BY <1>0, <2>1, FS_RemoveElement
  <2>3. Cardinality(Held') \in Nat
    BY <1>0, <2>1, FS_RemoveElement, FS_CardinalityType
  <2> QED BY <1>3, <2>2, <2>3 DEF Release, CountIsLocksHeld
<1>4. ASSUME NEW c \in Callers, NEW s \in Sessions, AcquirePass(c, s)
      PROVE  CountIsLocksHeld' /\ activeCount' \in Nat
  BY <1>1, <1>2, <1>4 DEF AcquirePass, Park, Busy
<1>5. CASE Resume
  <2>1. Head(ready) \in Callers /\ call[Head(ready)].sid \in Sessions
    BY <1>5 DEF Resume, LockInv, LockTypeOK
  <2> QED BY <1>4, <1>5, <2>1 DEF Resume
<1>6. CASE UNCHANGED lockVars
  BY <1>1, <1>6 DEF lockVars
<1>7. CASE \E s \in Sessions, stage \in {"warned", "stuck"} : WaitTimer(s, stage)
  BY <1>1, <1>7 DEF WaitTimer
<1>8. CASE \E m \in Caps : Reconfigure(m)
  BY <1>1, <1>8 DEF Reconfigure
<1>9. CASE \E c \in Callers, s \in Sessions : Acquire(c, s)
  BY <1>4, <1>9 DEF Acquire
<1>10. CASE \E c \in Callers : Release(c)
  BY <1>3, <1>10
<1> QED BY <1>5, <1>6, <1>7, <1>8, <1>9, <1>10 DEF LockNext

(* Every step of the lock keeps the queues, the locks and the count.        *)
LEMMA LockStep ==
  ASSUME LockInv, CountIsLocksHeld, [LockNext]_lockVars
  PROVE  LockInv' /\ CountIsLocksHeld'
PROOF
<1> USE LockAssumption
<1>0. CountIsLocksHeld' /\ activeCount' \in Nat
  BY CountFollowsLocks
<1>1. CASE \E c \in Callers, s \in Sessions : Acquire(c, s)
  <2>1. PICK c \in Callers, s \in Sessions : Acquire(c, s)
    BY <1>1
  <2>2. LockInv'
    BY <2>1, AcquirePassInv DEF Acquire, Idle
  <2> QED BY <1>0, <2>2
<1>2. CASE Resume
  <2>1. Head(ready) \in Callers /\ call[Head(ready)].sid \in Sessions
        /\ call[Head(ready)].at = "ready"
    BY <1>2 DEF Resume, LockInv, LockTypeOK, QueuesAgree
  <2>2. LockInv'
    BY <1>2, <2>1, AcquirePassInv DEF Resume
  <2> QED BY <1>0, <2>2
<1>3. CASE \E c \in Callers : Release(c)
  BY <1>0, <1>3, ReleaseInv
<1>4. CASE \E s \in Sessions, stage \in {"warned", "stuck"} : WaitTimer(s, stage)
  BY <1>0, <1>4 DEF WaitTimer, LockInv, LockTypeOK, Stages, QueuesAgree, OneHolderPerSession
<1>5. CASE \E m \in Caps : Reconfigure(m)
  BY <1>0, <1>5 DEF Reconfigure, LockInv, LockTypeOK, Stages, QueuesAgree, OneHolderPerSession
<1>6. CASE UNCHANGED lockVars
  <2>1. LockTypeOK'
    BY <1>6 DEF lockVars, LockInv, LockTypeOK
  <2>2. QueuesAgree'
    BY <1>6 DEF lockVars, LockInv, QueuesAgree
  <2>3. OneHolderPerSession'
    BY <1>6 DEF lockVars, LockInv, OneHolderPerSession
  <2> QED BY <1>0, <2>1, <2>2, <2>3 DEF LockInv
<1> QED BY <1>1, <1>2, <1>3, <1>4, <1>5, <1>6 DEF LockNext

LEMMA LockStart == ASSUME LockInit PROVE LockInv /\ CountIsLocksHeld
PROOF
<1> USE LockAssumption
<1>1. Held = {}
  BY DEF LockInit, Held
<1>2. CountIsLocksHeld
  BY <1>1, FS_EmptySet DEF LockInit, CountIsLocksHeld
<1>3. LockInv
  BY DEF LockInit, LockInv, LockTypeOK, Stages, QueuesAgree, OneHolderPerSession
<1> QED BY <1>2, <1>3

(* Two callers never hold the lock of one session, whatever the callers,   *)
(* the sessions, the order of resumption and the reloads of the cap        *)
(* (session_lock_manager.dart acquire and release).                        *)
THEOREM LockExclusion == LockSpec => [](LockTypeOK /\ OneHolderPerSession)
PROOF
<1>1. LockInit => LockInv /\ CountIsLocksHeld
  BY LockStart
<1>2. LockInv /\ CountIsLocksHeld /\ [LockNext]_lockVars => LockInv' /\ CountIsLocksHeld'
  BY LockStep
<1>3. LockInv => LockTypeOK /\ OneHolderPerSession
  BY DEF LockInv
<1> QED BY <1>1, <1>2, <1>3, PTL DEF LockSpec

(* The count admission compares with the cap is the number of locks held,  *)
(* so the cap bounds turns and not merely a counter.                       *)
THEOREM LockCount == LockSpec => []CountIsLocksHeld
PROOF
<1>1. LockInit => LockInv /\ CountIsLocksHeld
  BY LockStart
<1>2. LockInv /\ CountIsLocksHeld /\ [LockNext]_lockVars => LockInv' /\ CountIsLocksHeld'
  BY LockStep
<1> QED BY <1>1, <1>2, PTL DEF LockSpec

(* Taking a lock never exceeds the cap in force at that step.               *)
THEOREM LockCap == LockSpec => CapRespectedWhenTaking
PROOF
<1>1. LockInit => LockInv /\ CountIsLocksHeld
  BY LockStart
<1>2. LockInv /\ CountIsLocksHeld /\ [LockNext]_lockVars => LockInv' /\ CountIsLocksHeld'
  BY LockStep
<1>3. LockInv /\ CountIsLocksHeld /\ CountIsLocksHeld' /\ [LockNext]_lockVars =>
        [Cardinality(Held') > Cardinality(Held) => Cardinality(Held') <= maxParallel]_lockVars
  <2> SUFFICES ASSUME LockInv, CountIsLocksHeld, CountIsLocksHeld', [LockNext]_lockVars,
                      activeCount' > activeCount
               PROVE  activeCount' <= maxParallel
    BY DEF CountIsLocksHeld
  <2>1. ASSUME NEW c, NEW s, AcquirePass(c, s) PROVE activeCount' <= maxParallel
    BY <2>1, LockAssumption DEF AcquirePass, Park, Busy, Take, LockInv, LockTypeOK
  <2> QED
    BY <2>1, LockAssumption
       DEF LockNext, Acquire, Resume, Release, WaitTimer, Reconfigure, lockVars, LockInv, LockTypeOK
<1> QED BY <1>1, <1>2, <1>3, PTL DEF LockSpec, CapRespectedWhenTaking
=============================================================================
