------------------------ MODULE ExecutionWorkersProofs -----------------------
(***************************************************************************)
(* Who has which worker, for any calls, sessions, kinds, workers and pool: *)
(* a worker has one owner at a time, a container of its own serves one     *)
(* session, disposal leaves nothing behind, and, as long as no container   *)
(* is reset from outside, the workers fit in the pool and every orphan has *)
(* a slot of its own withheld.                                             *)
(***************************************************************************)
EXTENDS ExecutionSlotsProofs

-----------------------------------------------------------------------------
(* Who has a worker.                                                       *)

\* The workers that are on their way out without a call: of a continuity reset,
\* or of a temporary session that has ended.
Leaving == [s \in Sessions |-> IF Kind[s] = "temp" THEN ending[s] ELSE resetting[s]]

\* The workers of the cache.
CachedWorkers(q) == {e.worker : e \in Members(q)}

\* A worker is in one hand, in the cache once, or leaving for one session.
Sole(h, q, l) ==
  /\ \A c, d \in Calls : h[c] # None /\ h[c] = h[d] => c = d
  /\ \A i, j \in 1..Len(q) : q[i].worker = q[j].worker => i = j
  /\ \A s, r \in Sessions : l[s] # None /\ l[s] = l[r] => s = r
  /\ \A c \in Calls : h[c] \notin CachedWorkers(q)
  /\ \A c \in Calls, s \in Sessions : h[c] # None => h[c] # l[s]
  /\ \A s \in Sessions : l[s] \notin CachedWorkers(q)

\* The workers somebody has.
Held(h, q, l) ==
  {w \in Workers : \/ w \in CachedWorkers(q)
                   \/ \E c \in Calls : h[c] = w
                   \/ \E s \in Sessions : l[s] = w}

\* The stages in which a call has a worker; a lease of the primary has none.
Grasping == {"discarding", "discardingRetained", "evicting", "starting", "rejecting", "leased", "releasing"}
GraspOK ==
  \A c \in Calls : /\ hand[c] # None => at[c] \in Grasping /\ Lane(c) = "worker"
                   /\ at[c] \in Grasping \ {"leased"} => hand[c] \in Workers

LeavingOK ==
  /\ resetting \in [Sessions -> Workers \cup {None}]
  /\ \A s \in Sessions : /\ resetting[s] # None => Kind[s] = "bound"
                         /\ ending[s] # None => Kind[s] = "temp"

\* Until the cache is torn down a process runs exactly while somebody has its
\* worker.  From then on no call is left, and whatever runs is leaving or has
\* yet to be torn down.
TearingDown == {"closing", "closed"}
RunsOK ==
  /\ proc \in [Workers -> Live \cup {"none", "orphan"}]
  /\ phase \notin TearingDown => {w \in Workers : proc[w] \in Live} = Held(hand, cache, Leaving)
  /\ phase \in TearingDown =>
       \A w \in Workers : proc[w] \in Live =>
         \/ \E s \in Sessions : Leaving[s] = w
         \/ phase = "closing" /\ w \in Members(doomed)

PhaseOK ==
  /\ phase \in {"open", "draining", "drained", "closing", "closed"}
  /\ phase \in {"drained", "closing", "closed"} => \A c \in Calls : at[c] = "idle"
  /\ doomed \in Seq(Workers)

\* The sessions a worker has served are those its next user may share it with.
Hosts(S) == \A s \in S : Kind[s] = "host"
Fits(S, s) == IF Kind[s] = "host" THEN Hosts(S) ELSE S \subseteq {s}
ServedOK ==
  /\ served \in [Workers -> SUBSET Sessions]
  /\ \A w \in Workers : Hosts(served[w]) \/ \E s \in Sessions : served[w] \subseteq {s}
  /\ \A e \in Members(cache) : Fits(served[e.worker], e.sid)
  /\ \A c \in Calls : at[c] = "leased" /\ hand[c] # None => Fits(served[hand[c]], sid[c])

\* Who has a worker, which processes run, and whom they have served.
OwnersInv == Sole(hand, cache, Leaving) /\ GraspOK /\ LeavingOK /\ RunsOK /\ PhaseOK /\ ServedOK

-----------------------------------------------------------------------------
(* Workers change hands.                                                   *)

Hands == [Calls -> Workers \cup {None}]
Leavers == [Sessions -> Workers \cup {None}]

\* Only workers are cached.
LEMMA OnlyWorkersCached ==
  ASSUME NEW q \in Seq(Entries)
  PROVE  CachedWorkers(q) \subseteq Workers /\ None \notin CachedWorkers(q)
PROOF
<1>1. ASSUME NEW i \in 1..Len(q) PROVE q[i].worker \in Workers
  <2>1. q[i] \in Entries
    OBVIOUS
  <2> QED BY <2>1 DEF Entries
<1> QED BY <1>1, ExecutionAssumption DEF CachedWorkers, Members

\* An entry taken out of the cache is the only one of its worker.
LEMMA EntryTaken ==
  ASSUME NEW q \in Seq(Entries), NEW i \in 1..Len(q),
         \A j, k \in 1..Len(q) : q[j].worker = q[k].worker => j = k
  PROVE  /\ \A j, k \in 1..Len(Without(q, i)) : Without(q, i)[j].worker = Without(q, i)[k].worker => j = k
         /\ CachedWorkers(Without(q, i)) = CachedWorkers(q) \ {q[i].worker}
         /\ Members(Without(q, i)) \subseteq Members(q)
         /\ q[i] \in Members(q) /\ q[i] \in Entries /\ q[i].worker \in CachedWorkers(q)
PROOF
<1> DEFINE t == Without(q, i)
           o(j) == IF j < i THEN j ELSE j + 1
<1>1. Len(q) \in Nat /\ i \in Nat
  OBVIOUS
<1>2. Len(t) = Len(q) - 1 /\ \A j \in 1..Len(q) - 1 : t[j] = q[o(j)]
  BY WithoutFacts
<1>3. ASSUME NEW j \in 1..Len(t) PROVE o(j) \in 1..Len(q) /\ o(j) # i /\ t[j] = q[o(j)]
  BY <1>1, <1>2
<1>4. \A j, k \in 1..Len(t) : o(j) = o(k) => j = k
  BY <1>1, <1>2
<1>5. ASSUME NEW k \in 1..Len(q), k # i PROVE \E j \in 1..Len(t) : o(j) = k
  <2>1. CASE k < i
    <3>1. k \in 1..Len(t) /\ o(k) = k
      BY <1>1, <1>2, <2>1
    <3> QED BY <3>1
  <2>2. CASE ~(k < i)
    <3>1. k - 1 \in 1..Len(t) /\ o(k - 1) = k
      BY <1>1, <1>2, <1>5, <2>2
    <3> QED BY <3>1
  <2> QED BY <2>1, <2>2
<1> HIDE DEF t, o
<1>6. \A j, k \in 1..Len(t) : t[j].worker = t[k].worker => j = k
  BY <1>3, <1>4
<1>7. Members(t) \subseteq Members(q)
  BY <1>3 DEF Members
<1>8. CachedWorkers(t) \subseteq CachedWorkers(q) \ {q[i].worker}
  BY <1>3 DEF CachedWorkers, Members
<1>9. CachedWorkers(q) \ {q[i].worker} \subseteq CachedWorkers(t)
  <2>1. ASSUME NEW k \in 1..Len(q), q[k].worker # q[i].worker PROVE q[k].worker \in CachedWorkers(t)
    <3>1. PICK j \in 1..Len(t) : o(j) = k
      BY <1>5, <2>1
    <3>2. t[j] = q[k] /\ t[j] \in Members(t)
      BY <1>3, <3>1 DEF Members
    <3> QED BY <3>2 DEF CachedWorkers
  <2> QED BY <2>1 DEF CachedWorkers, Members
<1>10. q[i] \in Members(q) /\ q[i] \in Entries /\ q[i].worker \in CachedWorkers(q)
  BY DEF Members, CachedWorkers
<1> QED BY <1>6, <1>7, <1>8, <1>9, <1>10 DEF t

\* Whose worker is not in the cache may join it.
LEMMA EntryJoins ==
  ASSUME NEW q \in Seq(Entries), NEW e \in Entries, e.worker \notin CachedWorkers(q),
         \A j, k \in 1..Len(q) : q[j].worker = q[k].worker => j = k
  PROVE  /\ \A j, k \in 1..Len(Append(q, e)) : Append(q, e)[j].worker = Append(q, e)[k].worker => j = k
         /\ CachedWorkers(Append(q, e)) = CachedWorkers(q) \cup {e.worker}
         /\ Members(Append(q, e)) = Members(q) \cup {e}
PROOF
<1> DEFINE a == Append(q, e)
<1>1. /\ Len(q) \in Nat /\ Len(a) = Len(q) + 1 /\ a[Len(q) + 1] = e
      /\ \A j \in 1..Len(q) : a[j] = q[j] /\ j \in 1..Len(a)
      /\ \A j \in 1..Len(a) : j \in 1..Len(q) \/ j = Len(q) + 1
      /\ Len(q) + 1 \in 1..Len(a)
  OBVIOUS
<1> HIDE DEF a
<1>2. \A j \in 1..Len(q) : q[j].worker # e.worker
  BY DEF CachedWorkers, Members
<1>3. \A j, k \in 1..Len(a) : a[j].worker = a[k].worker => j = k
  BY <1>1, <1>2
<1>4. Members(a) \subseteq Members(q) \cup {e}
  BY <1>1 DEF Members
<1>5. Members(q) \subseteq Members(a) /\ e \in Members(a)
  BY <1>1 DEF Members
<1>6. Members(a) = Members(q) \cup {e}
  BY <1>4, <1>5
<1>7. CachedWorkers(a) = CachedWorkers(q) \cup {e.worker}
  BY <1>6 DEF CachedWorkers
<1> QED BY <1>3, <1>6, <1>7 DEF a

\* A call takes a worker from the cache.
LEMMA CallTakes ==
  ASSUME NEW h \in Hands, NEW q \in Seq(Entries), NEW l \in Leavers, Sole(h, q, l),
         NEW c \in Calls, NEW i \in 1..Len(q), h[c] = None,
         NEW k \in Hands, k[c] = q[i].worker, \A d \in Calls \ {c} : k[d] = h[d]
  PROVE  Sole(k, Without(q, i), l) /\ Held(k, Without(q, i), l) = Held(h, q, l)
PROOF
<1> DEFINE t == Without(q, i)
           w == q[i].worker
<1>1. /\ \A j, n \in 1..Len(t) : t[j].worker = t[n].worker => j = n
      /\ CachedWorkers(t) = CachedWorkers(q) \ {w} /\ w \in CachedWorkers(q) /\ w \in Workers
  BY EntryTaken DEF Sole, Entries
<1>2. k[c] = w /\ \A d \in Calls \ {c} : k[d] = h[d]
  BY DEF Hands
<1> HIDE DEF t, w
<1>3. \A d \in Calls : h[d] # w
  BY <1>1 DEF Sole
<1>4. \A s \in Sessions : l[s] # w
  BY <1>1 DEF Sole
<1>5. Sole(k, t, l)
  BY <1>1, <1>2, <1>3, <1>4 DEF Sole
<1>6. ASSUME NEW x \in Workers
      PROVE  x \in CachedWorkers(t) \/ (\E d \in Calls : k[d] = x)
               <=> x \in CachedWorkers(q) \/ (\E d \in Calls : h[d] = x)
  <2>1. CASE x = w
    BY <1>1, <1>2, <2>1
  <2>2. CASE x # w
    <3>1. \A d \in Calls : k[d] = x <=> h[d] = x
      BY <1>1, <1>2, <2>2, ExecutionAssumption
    <3> QED BY <1>1, <2>2, <3>1
  <2> QED BY <2>1, <2>2
<1>7. Held(k, t, l) = Held(h, q, l)
  BY <1>6 DEF Held
<1> QED BY <1>5, <1>7 DEF t

\* A worker leaves the cache for a reset or the end of a temporary session.
LEMMA SessionTakes ==
  ASSUME NEW h \in Hands, NEW q \in Seq(Entries), NEW l \in Leavers, Sole(h, q, l),
         NEW s \in Sessions, NEW i \in 1..Len(q), l[s] = None,
         NEW k \in Leavers, k[s] = q[i].worker, \A r \in Sessions \ {s} : k[r] = l[r]
  PROVE  Sole(h, Without(q, i), k) /\ Held(h, Without(q, i), k) = Held(h, q, l)
PROOF
<1> DEFINE t == Without(q, i)
           w == q[i].worker
<1>1. /\ \A j, n \in 1..Len(t) : t[j].worker = t[n].worker => j = n
      /\ CachedWorkers(t) = CachedWorkers(q) \ {w} /\ w \in CachedWorkers(q) /\ w \in Workers
  BY EntryTaken DEF Sole, Entries
<1>2. k[s] = w /\ \A r \in Sessions \ {s} : k[r] = l[r]
  BY DEF Leavers
<1> HIDE DEF t, w
<1>3. \A d \in Calls : h[d] # w
  BY <1>1 DEF Sole
<1>4. \A r \in Sessions : l[r] # w
  BY <1>1 DEF Sole
<1>5. Sole(h, t, k)
  BY <1>1, <1>2, <1>3, <1>4 DEF Sole
<1>6. ASSUME NEW x \in Workers
      PROVE  x \in CachedWorkers(t) \/ (\E r \in Sessions : k[r] = x)
               <=> x \in CachedWorkers(q) \/ (\E r \in Sessions : l[r] = x)
  <2>1. CASE x = w
    BY <1>1, <1>2, <2>1
  <2>2. CASE x # w
    <3>1. \A r \in Sessions : k[r] = x <=> l[r] = x
      BY <1>1, <1>2, <2>2, ExecutionAssumption
    <3> QED BY <1>1, <2>2, <3>1
  <2> QED BY <2>1, <2>2
<1>7. Held(h, t, k) = Held(h, q, l)
  BY <1>6 DEF Held
<1> QED BY <1>5, <1>7 DEF t

\* A call lets go of its worker, which nobody has then.
LEMMA CallDrops ==
  ASSUME NEW h \in Hands, NEW q \in Seq(Entries), NEW l \in Leavers, Sole(h, q, l),
         NEW c \in Calls, NEW k \in Hands, k[c] = None, \A d \in Calls \ {c} : k[d] = h[d]
  PROVE  Sole(k, q, l) /\ Held(k, q, l) = Held(h, q, l) \ {h[c]}
PROOF
<1>1. k[c] = None /\ (\A d \in Calls \ {c} : k[d] = h[d]) /\ None \notin Workers
  BY ExecutionAssumption DEF Hands
<1>2. None \notin CachedWorkers(q)
  BY OnlyWorkersCached
<1>3. Sole(k, q, l)
  BY <1>1, <1>2 DEF Sole
<1>4. Held(k, q, l) = Held(h, q, l) \ {h[c]}
  BY <1>1 DEF Held, Sole
<1> QED BY <1>3, <1>4

\* So does a session.
LEMMA SessionDrops ==
  ASSUME NEW h \in Hands, NEW q \in Seq(Entries), NEW l \in Leavers, Sole(h, q, l),
         NEW s \in Sessions, NEW k \in Leavers, k[s] = None, \A r \in Sessions \ {s} : k[r] = l[r]
  PROVE  Sole(h, q, k) /\ Held(h, q, k) = Held(h, q, l) \ {l[s]}
PROOF
<1>1. k[s] = None /\ (\A r \in Sessions \ {s} : k[r] = l[r]) /\ None \notin Workers
  BY ExecutionAssumption DEF Leavers
<1>2. None \notin CachedWorkers(q)
  BY OnlyWorkersCached
<1>3. Sole(h, q, k)
  BY <1>1, <1>2 DEF Sole
<1>4. Held(h, q, k) = Held(h, q, l) \ {l[s]}
  BY <1>1 DEF Held, Sole
<1> QED BY <1>3, <1>4

\* A call gets a worker that nobody has.
LEMMA CallGrasps ==
  ASSUME NEW h \in Hands, NEW q \in Seq(Entries), NEW l \in Leavers, Sole(h, q, l),
         NEW c \in Calls, h[c] = None, NEW w \in Workers, w \notin Held(h, q, l),
         NEW k \in Hands, k[c] = w, \A d \in Calls \ {c} : k[d] = h[d]
  PROVE  Sole(k, q, l) /\ Held(k, q, l) = Held(h, q, l) \cup {w}
PROOF
<1>1. k[c] = w /\ (\A d \in Calls \ {c} : k[d] = h[d]) /\ None \notin Workers
  BY ExecutionAssumption DEF Hands
<1>2. w \notin CachedWorkers(q) /\ (\A d \in Calls : h[d] # w) /\ \A s \in Sessions : l[s] # w
  BY DEF Held
<1>3. Sole(k, q, l)
  BY <1>1, <1>2 DEF Sole
<1>4. Held(k, q, l) = Held(h, q, l) \cup {w}
  BY <1>1 DEF Held
<1> QED BY <1>3, <1>4

\* A call leaves its worker to the cache.
LEMMA CallCaches ==
  ASSUME NEW h \in Hands, NEW q \in Seq(Entries), NEW l \in Leavers, Sole(h, q, l),
         NEW c \in Calls, h[c] \in Workers, NEW e \in Entries, e.worker = h[c],
         NEW k \in Hands, k[c] = None, \A d \in Calls \ {c} : k[d] = h[d]
  PROVE  Sole(k, Append(q, e), l) /\ Held(k, Append(q, e), l) = Held(h, q, l)
PROOF
<1> DEFINE a == Append(q, e)
<1>1. k[c] = None /\ (\A d \in Calls \ {c} : k[d] = h[d]) /\ None \notin Workers
  BY ExecutionAssumption DEF Hands
<1>2. h[c] \notin CachedWorkers(q) /\ h[c] # None
  BY <1>1 DEF Sole
<1>3. /\ \A j, n \in 1..Len(a) : a[j].worker = a[n].worker => j = n
      /\ CachedWorkers(a) = CachedWorkers(q) \cup {h[c]}
  BY <1>2, EntryJoins DEF Sole
<1> HIDE DEF a
<1>4. None \notin CachedWorkers(q)
  BY OnlyWorkersCached
<1>5. (\A d \in Calls \ {c} : h[d] # h[c]) /\ \A s \in Sessions : l[s] # h[c]
  BY <1>2 DEF Sole
<1>6. Sole(k, a, l)
  BY <1>1, <1>2, <1>3, <1>4, <1>5 DEF Sole
<1>7. Held(k, a, l) = Held(h, q, l)
  BY <1>1, <1>2, <1>3 DEF Held
<1> QED BY <1>6, <1>7 DEF a

-----------------------------------------------------------------------------
(* What a step of a call asks of the tables.                               *)

\* No call is left in these phases.
Over == {"drained", "closing", "closed"}

\* The tables the invariants before this one know.
LEMMA Known ==
  ASSUME SlotsInv, OwnersInv
  PROVE  /\ hand \in Hands /\ cache \in Seq(Entries) /\ Leaving \in Leavers /\ ending \in Leavers
         /\ resetting \in Leavers
         /\ at \in [Calls -> Stages] /\ sid \in [Calls -> Sessions \cup {None}]
         /\ served \in [Workers -> SUBSET Sessions] /\ proc \in [Workers -> Live \cup {"none", "orphan"}]
         /\ \A c \in Calls : at[c] # "idle" => sid[c] \in Sessions /\ phase \notin Over
         /\ \A c \in Calls : at[c] \in WorkerOnly => Lane(c) = "worker"
         /\ \A c \in Calls : at[c] \notin Grasping => hand[c] = None
         /\ \A c \in Calls : at[c] = "leased" => (hand[c] \in Workers <=> Lane(c) = "worker")
         /\ None \notin Workers \cup Calls \cup Sessions
PROOF
<1>1. /\ hand \in Hands /\ cache \in Seq(Entries) /\ ending \in Leavers /\ resetting \in Leavers
      /\ at \in [Calls -> Stages] /\ sid \in [Calls -> Sessions \cup {None}]
      /\ served \in [Workers -> SUBSET Sessions] /\ proc \in [Workers -> Live \cup {"none", "orphan"}]
  BY DEF SlotsInv, SlotTables, HandsOK, CacheOK, AdmissionInv, CallsOK, OwnersInv, LeavingOK, ServedOK, RunsOK,
     Hands, Leavers
<1>2. Leaving \in Leavers
  BY <1>1 DEF Leaving, Leavers
<1>3. \A c \in Calls : at[c] # "idle" => sid[c] \in Sessions /\ phase \notin Over
  BY DEF SlotsInv, AdmissionInv, CallsOK, OwnersInv, PhaseOK, Over
<1>4. \A c \in Calls : at[c] \in WorkerOnly => Lane(c) = "worker"
  BY DEF SlotsInv, SlotTables, HandsOK
<1>5. None \notin Workers \cup Calls \cup Sessions
  BY ExecutionAssumption
<1>6. \A c \in Calls : at[c] \notin Grasping => hand[c] = None
  BY DEF OwnersInv, GraspOK
<1>7. \A c \in Calls : at[c] = "leased" => (hand[c] \in Workers <=> Lane(c) = "worker")
  BY <1>1, <1>5 DEF OwnersInv, GraspOK, SlotsInv, SlotTables, HandsOK
<1> QED BY <1>1, <1>2, <1>3, <1>4, <1>5, <1>6, <1>7

\* What the workers have served stays fit for whoever has them; c has w now.
ServedNext(c, w) ==
  /\ served' \in [Workers -> SUBSET Sessions]
  /\ \A x \in Workers : served'[x] \subseteq served[x] \/ x = w
  /\ w \in Workers => Hosts(served'[w]) \/ \E s \in Sessions : served'[w] \subseteq {s}
  /\ \A e \in Members(cache') : e \in Members(cache) \/ Fits(served'[e.worker], e.sid)
  /\ c \in Calls /\ at'[c] = "leased" /\ w # None => Fits(served'[w], sid'[c])

\* Fewer sessions fit as well.
LEMMA FitsLess ==
  ASSUME NEW S, NEW T, T \subseteq S
  PROVE  /\ Hosts(S) => Hosts(T)
         /\ \A s : Fits(S, s) => Fits(T, s)
PROOF
  BY DEF Hosts, Fits

\* The sessions the workers have served fit, when they fit for what c has now.
LEMMA ServedStands ==
  ASSUME SlotsInv, OwnersInv, NEW c \in Calls \cup {None}, NEW w \in Workers \cup {None},
         OthersWait(c), \A d \in Calls \ {c} : sid'[d] = sid[d] /\ hand'[d] = hand[d],
         c \in Calls => hand'[c] = w, c = None => w = None,
         \A d \in Calls : hand'[d] # None /\ hand'[d] = w => d = c,
         w \notin CachedWorkers(cache'), cache' \in Seq(Entries), ServedNext(c, w)
  PROVE  ServedOK'
PROOF
<1> USE Known DEF ServedNext
<1>1. ServedOK
  BY DEF OwnersInv
<1>2. ASSUME NEW x \in Workers PROVE Hosts(served'[x]) \/ \E s \in Sessions : served'[x] \subseteq {s}
  <2>1. CASE x = w
    BY <2>1
  <2>2. CASE served'[x] \subseteq served[x]
    BY <1>1, <2>2, FitsLess DEF ServedOK
  <2> QED BY <2>1, <2>2
<1>3. ASSUME NEW e \in Members(cache') PROVE Fits(served'[e.worker], e.sid)
  <2>1. e.worker # w /\ e.worker \in Workers
    <3>1. e.worker \in CachedWorkers(cache')
      BY <1>3 DEF CachedWorkers
    <3> QED BY <3>1, OnlyWorkersCached
  <2>2. CASE e \in Members(cache)
    BY <1>1, <2>1, <2>2, FitsLess DEF ServedOK
  <2> QED BY <2>2
<1>4. ASSUME NEW d \in Calls, at'[d] = "leased", hand'[d] # None PROVE Fits(served'[hand'[d]], sid'[d])
  <2>1. CASE d = c
    BY <1>4, <2>1
  <2>2. CASE d # c
    <3>1. at[d] = "leased" /\ hand'[d] = hand[d] /\ sid'[d] = sid[d] /\ hand[d] # w /\ hand[d] \in Workers
      <4>1. at[d] = "leased"
        BY <1>4, <2>2 DEF OthersWait
      <4>2. hand'[d] = hand[d] /\ sid'[d] = sid[d]
        BY <2>2
      <4>3. hand[d] # w
        BY <1>4, <2>2, <4>2
      <4>4. hand[d] \in Workers
        <5>1. hand[d] \in Workers \cup {None}
          BY Known DEF Hands
        <5> QED BY <1>4, <4>2, <5>1
      <4> QED BY <4>1, <4>2, <4>3, <4>4
    <3>2. Fits(served[hand[d]], sid[d])
      <4>1. \A e \in Calls : at[e] = "leased" /\ hand[e] # None => Fits(served[hand[e]], sid[e])
        BY ONLY <1>1 DEF ServedOK
      <4>2. d \in Calls /\ hand[d] # None
        BY <1>4, <3>1
      <4> QED BY ONLY <3>1, <4>1, <4>2
    <3>3. served'[hand[d]] \subseteq served[hand[d]]
      BY <3>1
    <3> DEFINE fewer == served'[hand[d]]
               those == served[hand[d]]
    <3>4. fewer \subseteq those /\ Fits(those, sid[d])
      BY <3>2, <3>3
    <3> HIDE DEF fewer, those
    <3>5. Fits(fewer, sid[d])
      BY ONLY <3>4, FitsLess
    <3> QED BY ONLY <3>1, <3>5 DEF fewer
  <2> QED BY <2>1, <2>2
<1> QED BY <1>2, <1>3, <1>4 DEF ServedOK

\* What remains to be shown of a step of a call: the workers it moves have one
\* owner still, and those that run are those somebody has.
LEMMA CallMoves ==
  ASSUME SlotsInv, OwnersInv, NEW c \in Calls, phase \notin Over, phase' \in {phase, Settled(at')},
         UNCHANGED <<resetting, ending, doomed>>,
         at' \in [Calls -> Stages], OthersWait(c), \A d \in Calls \ {c} : sid'[d] = sid[d],
         NEW w \in Workers \cup {None}, hand' = [hand EXCEPT ![c] = w], cache' \in Seq(Entries),
         Sole(hand', cache', Leaving),
         proc' \in [Workers -> Live \cup {"none", "orphan"}],
         {x \in Workers : proc'[x] \in Live} = Held(hand', cache', Leaving),
         w # None => at'[c] \in Grasping /\ Lane(c)' = "worker",
         at'[c] \in Grasping \ {"leased"} => w # None,
         ServedNext(c, w)
  PROVE  OwnersInv'
PROOF
<1>1. Leaving' = Leaving /\ LeavingOK'
  BY DEF Leaving, OwnersInv, LeavingOK
<1>2. hand'[c] = w /\ \A d \in Calls \ {c} : hand'[d] = hand[d]
  BY Known DEF Hands
<1>3. GraspOK'
  <2>1. ASSUME NEW d \in Calls, d # c
        PROVE  /\ hand'[d] # None => at'[d] \in Grasping /\ Lane(d)' = "worker"
               /\ at'[d] \in Grasping \ {"leased"} => hand'[d] \in Workers
    <3>1. /\ hand[d] # None => at[d] \in Grasping /\ Lane(d) = "worker"
          /\ at[d] \in Grasping \ {"leased"} => hand[d] \in Workers
      BY DEF OwnersInv, GraspOK
    <3>2. Lane(d)' = Lane(d) /\ hand'[d] = hand[d]
      BY <1>2, <2>1 DEF Lane
    <3>3. at'[d] = at[d] \/ (at[d] \notin Grasping /\ at'[d] \notin Grasping)
      BY <2>1 DEF OthersWait, Grasping
    <3> QED BY <3>1, <3>2, <3>3
  <2>2. /\ hand'[c] # None => at'[c] \in Grasping /\ Lane(c)' = "worker"
        /\ at'[c] \in Grasping \ {"leased"} => hand'[c] \in Workers
    BY <1>2
  <2> QED BY <2>1, <2>2 DEF GraspOK
<1>4. PhaseOK' /\ phase' \notin TearingDown
  <2>1. phase \in {"open", "draining"} /\ doomed \in Seq(Workers)
    BY DEF OwnersInv, PhaseOK, Over
  <2>2. phase' \in {"open", "draining", "drained"} /\ (phase' = "drained" => \A d \in Calls : at'[d] = "idle")
    BY <2>1 DEF Settled
  <2> QED BY <2>1, <2>2 DEF PhaseOK, TearingDown
<1>5. RunsOK'
  BY <1>1, <1>4 DEF RunsOK
<1>6. w \notin CachedWorkers(cache') /\ \A d \in Calls : hand'[d] # None /\ hand'[d] = w => d = c
  BY <1>2, OnlyWorkersCached DEF Sole
<1>7. ServedOK'
  BY <1>2, <1>6, ServedStands, Known
<1> QED BY <1>1, <1>3, <1>4, <1>5, <1>7 DEF OwnersInv

\* No worker changes hands, and the call has none.
LEMMA EmptyHanded ==
  ASSUME SlotsInv, OwnersInv, NEW c \in Calls, phase \notin Over, phase' \in {phase, Settled(at')},
         UNCHANGED <<resetting, ending, doomed, cache, proc, served>>,
         at' \in [Calls -> Stages], OthersWait(c), \A d \in Calls \ {c} : sid'[d] = sid[d],
         hand[c] = None, hand' = hand \/ hand' = [hand EXCEPT ![c] = None],
         at'[c] \notin Grasping \ {"leased"}
  PROVE  OwnersInv'
PROOF
<1>1. hand' = [hand EXCEPT ![c] = None] /\ hand' = hand
  BY Known DEF Hands
<1>2. Sole(hand', cache', Leaving) /\ {x \in Workers : proc'[x] \in Live} = Held(hand', cache', Leaving)
  BY <1>1 DEF OwnersInv, RunsOK, TearingDown, Over
<1>3. ServedNext(c, None)
  BY Known DEF ServedNext
<1>4. None \in Workers \cup {None} /\ proc' \in [Workers -> Live \cup {"none", "orphan"}] /\ cache' \in Seq(Entries)
  BY Known
<1> QED BY <1>1, <1>2, <1>3, <1>4, CallMoves

\* The call takes entry i out of the cache.
LEMMA TakesEntry ==
  ASSUME SlotsInv, OwnersInv, NEW c \in Calls, at[c] # "idle",
         UNCHANGED <<resetting, ending, doomed, proc, phase, sid>>,
         at' \in [Calls -> Stages], OthersWait(c), NEW i \in 1..Len(cache), cache' = Without(cache, i),
         hand[c] = None, hand' = [hand EXCEPT ![c] = cache[i].worker], Lane(c) = "worker",
         at'[c] \in Grasping,
         \/ UNCHANGED served /\ (at'[c] = "leased" => Kind[sid[c]] # "host" /\ cache[i].sid = sid[c])
         \/ /\ served' = [served EXCEPT ![cache[i].worker] = @ \cup {sid[c]}] /\ at'[c] = "leased"
            /\ cache[i].sid = sid[c] \/ (Kind[sid[c]] = "host" /\ Kind[cache[i].sid] = "host")
  PROVE  OwnersInv'
PROOF
<1> DEFINE w == cache[i].worker
<1>0. phase \notin Over
  BY Known
<1>1. Sole(hand, cache, Leaving) /\ {x \in Workers : proc[x] \in Live} = Held(hand, cache, Leaving) /\ ServedOK
  BY <1>0 DEF OwnersInv, RunsOK, TearingDown, Over
<1>2. cache' \in Seq(Entries) /\ cache[i] \in Members(cache) /\ w \in Workers /\ Members(cache') \subseteq Members(cache)
  <2>1. cache \in Seq(Entries) /\ (\A j, k \in 1..Len(cache) : cache[j].worker = cache[k].worker => j = k)
    BY <1>1, Known DEF Sole
  <2>2. cache[i] \in Members(cache) /\ cache[i] \in Entries /\ Members(cache') \subseteq Members(cache)
    BY <2>1, EntryTaken
  <2>3. cache' \in Seq(Entries)
    BY <2>1, WithoutFacts
  <2> QED BY <2>2, <2>3 DEF Entries
<1>3. Sole(hand', cache', Leaving) /\ Held(hand', cache', Leaving) = Held(hand, cache, Leaving)
  <2>1. hand \in Hands /\ cache \in Seq(Entries) /\ Leaving \in Leavers
    BY Known
  <2>2. /\ Sole(hand, cache, Leaving) /\ hand[c] = None
        /\ hand' \in Hands /\ hand'[c] = cache[i].worker /\ \A d \in Calls \ {c} : hand'[d] = hand[d]
    BY <1>1, <1>2, <2>1 DEF Hands
  <2>3. Sole(hand', Without(cache, i), Leaving) /\ Held(hand', Without(cache, i), Leaving) = Held(hand, cache, Leaving)
    BY ONLY <2>1, <2>2, CallTakes
  <2> QED BY <2>3
<1>4. Fits(served[w], cache[i].sid) /\ (Hosts(served[w]) \/ \E s \in Sessions : served[w] \subseteq {s})
  <2>1. \A e \in Members(cache) : Fits(served[e.worker], e.sid)
    BY <1>1 DEF ServedOK
  <2>2. Hosts(served[w]) \/ \E s \in Sessions : served[w] \subseteq {s}
    BY <1>1, <1>2 DEF ServedOK
  <2> QED BY <1>2, <2>1, <2>2
<1>5. ServedNext(c, w)
  <2>1. CASE UNCHANGED served /\ (at'[c] = "leased" => Kind[sid[c]] # "host" /\ cache[i].sid = sid[c])
    BY <1>2, <1>4, <2>1, Known DEF ServedNext
  <2>2. CASE /\ served' = [served EXCEPT ![w] = @ \cup {sid[c]}] /\ at'[c] = "leased"
             /\ cache[i].sid = sid[c] \/ (Kind[sid[c]] = "host" /\ Kind[cache[i].sid] = "host")
    <3>1. sid[c] \in Sessions
      BY Known
    <3>2. served' \in [Workers -> SUBSET Sessions] /\ served'[w] = served[w] \cup {sid[c]}
          /\ \A x \in Workers \ {w} : served'[x] = served[x]
      BY <1>2, <2>2, <3>1, Known
    <3>3. Fits(served'[w], sid[c]) /\ (Hosts(served'[w]) \/ \E s \in Sessions : served'[w] \subseteq {s})
      BY <1>4, <2>2, <3>1, <3>2 DEF Fits, Hosts
    <3> QED BY <1>2, <3>2, <3>3, Known DEF ServedNext
  <2> QED BY <2>1, <2>2
<1>6. Lane(c)' = "worker" /\ w # None /\ proc' \in [Workers -> Live \cup {"none", "orphan"}]
  BY <1>2, Known DEF Lane
<1> HIDE DEF w
<1> QED BY <1>0, <1>1, <1>2, <1>3, <1>5, <1>6, CallMoves DEF w

-----------------------------------------------------------------------------
(* The steps of a call.                                                    *)

\* The call gives its worker up, and its process is gone or orphaned.
LEMMA GivesUp ==
  ASSUME SlotsInv, OwnersInv, NEW c \in Calls, NEW ok, ok \in BOOLEAN, TornDown(hand[c], ok),
         at[c] \in Grasping \ {"leased"}, phase' \in {phase, Settled(at')},
         UNCHANGED <<resetting, ending, doomed, cache>>, hand' = [hand EXCEPT ![c] = None],
         at' \in [Calls -> Stages], OthersWait(c), \A d \in Calls \ {c} : sid'[d] = sid[d],
         at'[c] \notin Grasping
  PROVE  OwnersInv'
PROOF
<1> DEFINE w == hand[c]
<1>0. w \in Workers /\ phase \notin Over
  BY Known DEF OwnersInv, GraspOK, Grasping
<1>1. Sole(hand, cache, Leaving) /\ {x \in Workers : proc[x] \in Live} = Held(hand, cache, Leaving)
  BY <1>0 DEF OwnersInv, RunsOK, TearingDown, Over
<1>2. Sole(hand', cache', Leaving) /\ Held(hand', cache', Leaving) = Held(hand, cache, Leaving) \ {w}
  <2>1. /\ hand \in Hands /\ cache \in Seq(Entries) /\ Leaving \in Leavers
        /\ hand' \in Hands /\ hand'[c] = None /\ \A d \in Calls \ {c} : hand'[d] = hand[d]
    BY Known DEF Hands
  <2>2. Sole(hand', cache, Leaving) /\ Held(hand', cache, Leaving) = Held(hand, cache, Leaving) \ {hand[c]}
    BY ONLY <1>1, <2>1, CallDrops
  <2> QED BY <2>2
<1>3. /\ proc' = [proc EXCEPT ![w] = IF ok THEN "none" ELSE "orphan"]
      /\ served' = [served EXCEPT ![w] = {}]
  BY DEF TornDown
<1> HIDE DEF w
<1>4. proc' \in [Workers -> Live \cup {"none", "orphan"}] /\ {x \in Workers : proc'[x] \in Live} = Held(hand', cache', Leaving)
  <2>1. proc'[w] \notin Live /\ \A x \in Workers \ {w} : proc'[x] = proc[x]
    BY <1>0, <1>3, Known DEF Live
  <2>2. proc' \in [Workers -> Live \cup {"none", "orphan"}]
    BY <1>0, <1>3, Known
  <2> QED BY <1>1, <1>2, <2>1, <2>2
<1>5. ServedNext(c, None)
  <2>1. served' \in [Workers -> SUBSET Sessions] /\ \A x \in Workers : served'[x] \subseteq served[x]
    BY <1>0, <1>3, Known
  <2> QED BY <2>1, Known DEF ServedNext
<1>6. None \in Workers \cup {None} /\ cache' \in Seq(Entries)
  BY Known
<1> QED BY <1>0, <1>2, <1>4, <1>5, <1>6, CallMoves

\* Only the process of the call's own worker changes, and it stays alive.
LEMMA WorkerChanges ==
  ASSUME SlotsInv, OwnersInv, NEW c \in Calls, at[c] # "idle", hand[c] \in Workers,
         UNCHANGED <<resetting, ending, doomed, cache, hand, phase, sid>>,
         NEW p \in Live, proc' = [proc EXCEPT ![hand[c]] = p],
         at' \in [Calls -> Stages], OthersWait(c), at'[c] \in Grasping,
         \/ UNCHANGED served /\ at'[c] # "leased"
         \/ served' = [served EXCEPT ![hand[c]] = {sid[c]}]
  PROVE  OwnersInv'
PROOF
<1> DEFINE w == hand[c]
<1>0. w \in Workers /\ w # None /\ phase \notin Over /\ Lane(c) = "worker" /\ sid[c] \in Sessions
  BY Known DEF OwnersInv, GraspOK
<1>1. Sole(hand, cache, Leaving) /\ {x \in Workers : proc[x] \in Live} = Held(hand, cache, Leaving) /\ ServedOK
  BY <1>0 DEF OwnersInv, RunsOK, TearingDown, Over
<1>2. hand' = [hand EXCEPT ![c] = w]
  BY Known DEF Hands
<1>3. w \in Held(hand, cache, Leaving)
  BY <1>0 DEF Held
<1>4. proc' = [proc EXCEPT ![w] = p] /\ (\/ UNCHANGED served /\ at'[c] # "leased"
                                         \/ served' = [served EXCEPT ![w] = {sid[c]}])
  OBVIOUS
<1>5. Lane(c)' = "worker"
  BY <1>0 DEF Lane
<1> HIDE DEF w
<1>6. proc' \in [Workers -> Live \cup {"none", "orphan"}] /\ {x \in Workers : proc'[x] \in Live} = Held(hand', cache', Leaving)
  <2>1. proc'[w] = p /\ \A x \in Workers \ {w} : proc'[x] = proc[x]
    BY <1>0, <1>4, Known
  <2>2. proc' \in [Workers -> Live \cup {"none", "orphan"}]
    BY <1>0, <1>4, Known
  <2> QED BY <1>0, <1>1, <1>3, <2>1, <2>2
<1>7. ServedNext(c, w)
  <2>1. CASE UNCHANGED served /\ at'[c] # "leased"
    BY <1>0, <1>1, <2>1, Known DEF ServedNext, ServedOK
  <2>2. CASE served' = [served EXCEPT ![w] = {sid[c]}]
    <3>1. served' \in [Workers -> SUBSET Sessions] /\ served'[w] = {sid[c]} /\ \A x \in Workers \ {w} : served'[x] = served[x]
      BY <1>0, <2>2, Known
    <3>2. Fits(served'[w], sid'[c]) /\ \E s \in Sessions : served'[w] \subseteq {s}
      BY <1>0, <3>1 DEF Fits, Hosts
    <3> QED BY <3>1, <3>2 DEF ServedNext
  <2> QED BY <1>4, <2>1, <2>2
<1>8. Sole(hand', cache', Leaving) /\ cache' \in Seq(Entries)
  BY <1>1, Known
<1> QED BY <1>0, <1>2, <1>5, <1>6, <1>7, <1>8, CallMoves

\* A new worker is nobody's.
LEMMA CreateOwns ==
  ASSUME SlotsInv, OwnersInv, NEW c \in Calls, NEW w \in Workers, NEW compatible, compatible \in BOOLEAN,
         Created(c, w, compatible)
  PROVE  OwnersInv'
PROOF
<1>0. /\ at[c] = "creating" /\ proc[w] = "none" /\ proc' = [proc EXCEPT ![w] = "new"]
      /\ hand' = [hand EXCEPT ![c] = w]
      /\ at' = [at EXCEPT ![c] = IF compatible THEN "starting" ELSE "rejecting"]
      /\ UNCHANGED <<sid, gates, cache, served, resetting, ending, phase, doomed>>
  BY DEF Created
<1>1. phase \notin Over /\ Lane(c) = "worker" /\ w # None /\ hand[c] = None
  BY <1>0, Known DEF WorkerOnly, Grasping
<1>2. Sole(hand, cache, Leaving) /\ {x \in Workers : proc[x] \in Live} = Held(hand, cache, Leaving) /\ ServedOK
  BY <1>1 DEF OwnersInv, RunsOK, TearingDown, Over
<1>3. w \notin Held(hand, cache, Leaving)
  BY <1>0, <1>2 DEF Live
<1>4. Sole(hand', cache, Leaving) /\ Held(hand', cache, Leaving) = Held(hand, cache, Leaving) \cup {w}
  <2>1. /\ hand \in Hands /\ cache \in Seq(Entries) /\ Leaving \in Leavers
        /\ hand' \in Hands /\ hand'[c] = w /\ \A d \in Calls \ {c} : hand'[d] = hand[d]
    BY <1>0, Known DEF Hands
  <2> QED BY <1>1, <1>2, <1>3, <2>1, CallGrasps
<1>5. \E next \in {"starting", "rejecting"} : at' = [at EXCEPT ![c] = next]
  BY <1>0
<1>6. at' \in [Calls -> Stages] /\ OthersWait(c) /\ at'[c] \in {"starting", "rejecting"}
  <2>1. PICK next \in {"starting", "rejecting"} : at' = [at EXCEPT ![c] = next]
    BY <1>5
  <2>2. next \in Stages \ {"queued"}
    BY DEF Stages
  <2> QED BY <1>0, <2>1, <2>2, Alone DEF SlotsInv
<1>7. at'[c] \in Grasping \ {"leased"} /\ Lane(c)' = "worker"
  BY <1>0, <1>1, <1>6 DEF Grasping, Lane
<1>8. proc' \in [Workers -> Live \cup {"none", "orphan"}] /\ {x \in Workers : proc'[x] \in Live} = Held(hand', cache', Leaving)
  <2>1. proc'[w] \in Live /\ \A x \in Workers \ {w} : proc'[x] = proc[x]
    BY <1>0, Known DEF Live
  <2>2. proc' \in [Workers -> Live \cup {"none", "orphan"}]
    BY <1>0, Known DEF Live
  <2> QED BY <1>0, <1>2, <1>4, <2>1, <2>2
<1>9. ServedNext(c, w)
  BY <1>0, <1>2, <1>6, Known DEF ServedNext, ServedOK
<1>10. cache' \in Seq(Entries) /\ Sole(hand', cache', Leaving)
  BY <1>0, <1>4, Known
<1> QED BY <1>0, <1>1, <1>6, <1>7, <1>8, <1>9, <1>10, CallMoves


\* Asking for an execution, failing and giving up leave the workers alone.
LEMMA AcquireOwns ==
  ASSUME SlotsInv, OwnersInv, NEW c \in Calls,
         \/ \E s \in Sessions, p \in Calls \cup {None} : Submit(c, s, p)
         \/ Admit(c) \/ AdmitRefused(c) \/ Fail(c)
         \/ Proceed(c) \/ UsePrimary(c) \/ CreateFails(c)
  PROVE  OwnersInv'
PROOF
<1>s. Stages \ {"queued"} = {"idle", "admitting", "admitted", "granted", "discarding", "discardingRetained", "scavenging",
                             "evicting", "creating", "starting", "rejecting", "failing", "leased", "releasing"}
  BY DEF Stages
<1>l. {"worker", "primary"} \subseteq Lanes /\ Lane(c) \in Lanes
  BY DEF Lanes, Lane
<1>i. AdmissionInv /\ at \in [Calls -> Stages]
  BY Known DEF SlotsInv
<1>1. CASE \E s \in Sessions, p \in Calls \cup {None} : Submit(c, s, p)
  <2>1. PICK s \in Sessions : /\ at[c] = "idle" /\ phase = "open" /\ at' = [at EXCEPT ![c] = "admitting"]
                              /\ sid' = [sid EXCEPT ![c] = s]
                              /\ UNCHANGED <<hand, gates, cache, proc, served, resetting, ending, phase, doomed>>
    BY <1>1 DEF Submit
  <2>2. at' \in [Calls -> Stages] /\ OthersWait(c) /\ at'[c] = "admitting"
    BY <1>i, <1>s, <2>1, Alone
  <2>3. hand[c] = None /\ phase \notin Over /\ (\A d \in Calls \ {c} : sid'[d] = sid[d]) /\ at'[c] \notin Grasping
    BY <2>1, <2>2, Known DEF Grasping, Over
  <2> QED BY <2>1, <2>2, <2>3, EmptyHanded
<1>2. CASE Admit(c) \/ AdmitRefused(c) \/ Fail(c)
  <2>1. /\ at[c] \in {"admitting", "failing"} /\ \E next \in {"admitted", "idle"} : at' = [at EXCEPT ![c] = next]
        /\ UNCHANGED <<gates, cache, proc, served, resetting, ending, doomed>> /\ phase' \in {phase, Settled(at')}
        /\ hand' = hand \/ hand' = [hand EXCEPT ![c] = None]
        /\ sid' = sid \/ sid' = [sid EXCEPT ![c] = None]
    BY <1>2 DEF Admit, AdmitRefused, Fail, Forget
  <2>2. at' \in [Calls -> Stages] /\ OthersWait(c) /\ at'[c] \in {"admitted", "idle"}
    BY <1>i, <1>s, <2>1, Alone
  <2>3. hand[c] = None /\ phase \notin Over /\ (\A d \in Calls \ {c} : sid'[d] = sid[d]) /\ at'[c] \notin Grasping
    BY <2>1, <2>2, Known DEF Grasping
  <2> QED BY <2>1, <2>2, <2>3, EmptyHanded
<1>3. CASE Proceed(c)
  <2> DEFINE g == gates[Lane(c)]
  <2>1. g \in AnyGate /\ Distinct(g.waiters) /\ {} \subseteq Members(g.waiters) /\ {} \cap Members(g.waiters) = {}
    BY <1>i, <1>l DEF AdmissionInv, QueuesOK
  <2>2. /\ at[c] = "admitted" /\ RequestPermit(c, Lane(c), g, {})
        /\ UNCHANGED <<sid, hand, cache, proc, served, resetting, ending, phase, doomed>>
    BY <1>3 DEF Proceed
  <2> HIDE DEF g
  <2>3. Members(g.waiters) \subseteq Members(gates[Lane(c)].waiters) /\ {} \subseteq Members(gates[Lane(c)].waiters)
    BY DEF g
  <2>4. at' \in [Calls -> Stages] /\ OthersWait(c) /\ at'[c] \in {"granted", "failing", "queued"}
    BY <1>i, <1>l, <2>1, <2>2, <2>3, Asked DEF Past, Stages
  <2>5. hand[c] = None /\ phase \notin Over /\ (\A d \in Calls \ {c} : sid'[d] = sid[d]) /\ at'[c] \notin Grasping
    BY <2>2, <2>4, Known DEF Grasping
  <2> QED BY <2>2, <2>4, <2>5, EmptyHanded
<1>4. CASE UsePrimary(c) \/ CreateFails(c)
  <2>1. /\ at[c] \in {"granted", "creating"}
        /\ UNCHANGED <<sid, hand, cache, proc, served, resetting, ending, phase, doomed>>
    BY <1>4 DEF UsePrimary, CreateFails
  <2>2. at' \in [Calls -> Stages] /\ OthersWait(c) /\ at'[c] \in {"leased", "failing"}
    <3>1. CASE at' = [at EXCEPT ![c] = "leased"] /\ UNCHANGED gates
      BY <1>i, <1>s, <2>1, <3>1, Alone
    <3>2. CASE \E l \in {"worker", "primary"} : GiveUp(l, c, FALSE, "failing")
      BY <1>i, <1>s, <1>l, <2>1, <3>2, GivenUp
    <3> QED BY <1>4, <3>1, <3>2 DEF UsePrimary, CreateFails
  <2>3. hand[c] = None /\ phase \notin Over /\ (\A d \in Calls \ {c} : sid'[d] = sid[d])
        /\ at'[c] \notin Grasping \ {"leased"}
    BY <2>1, <2>2, Known DEF Grasping
  <2> QED BY <2>1, <2>2, <2>3, EmptyHanded
<1> QED BY <1>1, <1>2, <1>3, <1>4

\* A worker is found in the cache, or evicted from it.
LEMMA SearchOwns ==
  ASSUME SlotsInv, OwnersInv, NEW c \in Calls,
         ProceedRetained(c) \/ UseCached(c) \/ SearchFails(c) \/ Scavenge(c)
  PROVE  OwnersInv'
PROOF
<1>s. Stages \ {"queued"} = {"idle", "admitting", "admitted", "granted", "discarding", "discardingRetained", "scavenging",
                             "evicting", "creating", "starting", "rejecting", "failing", "leased", "releasing"}
  BY DEF Stages
<1>l. "worker" \in Lanes
  BY DEF Lanes
<1>i. AdmissionInv /\ at \in [Calls -> Stages] /\ CacheOK /\ served \in [Workers -> SUBSET Sessions]
  BY Known DEF SlotsInv, SlotTables
<1>1. CASE ProceedRetained(c)
  <2> DEFINE i == First(Matches(sid[c]))
  <2>1. /\ at[c] = "admitted" /\ Kind[sid[c]] = "temp" /\ Matches(sid[c]) # {} /\ cache' = Without(cache, i)
        /\ hand' = [hand EXCEPT ![c] = cache[i].worker]
        /\ \E next \in {"leased", "discardingRetained"} : at' = [at EXCEPT ![c] = next]
        /\ UNCHANGED <<sid, gates, proc, served, resetting, ending, phase, doomed>>
    BY <1>1 DEF ProceedRetained
  <2>2. i \in 1..Len(cache) /\ cache[i].sid = sid[c]
    <3>1. Matches(sid[c]) \subseteq 1..Len(cache)
      BY DEF Matches
    <3>2. i \in Matches(sid[c])
      BY <1>i, <2>1, <3>1, EntryFound
    <3> QED BY <3>2 DEF Matches
  <2> HIDE DEF i
  <2>3. at' \in [Calls -> Stages] /\ OthersWait(c) /\ at'[c] \in {"leased", "discardingRetained"}
    BY <1>i, <1>s, <2>1, Alone
  <2>4. hand[c] = None /\ Lane(c) = "worker" /\ at'[c] \in Grasping
    BY <2>1, <2>3, Known DEF Grasping, Lane
  <2> QED BY <2>1, <2>2, <2>3, <2>4, TakesEntry
<1>2. CASE UseCached(c)
  <2> DEFINE i == First(Compatible(sid[c]))
  <2>1. /\ at[c] = "granted" /\ Lane(c) = "worker" /\ Compatible(sid[c]) # {} /\ cache' = Without(cache, i)
        /\ hand' = [hand EXCEPT ![c] = cache[i].worker]
        /\ \E next \in {"leased", "discarding", "rejecting"} : at' = [at EXCEPT ![c] = next]
        /\ served' = [served EXCEPT ![cache[i].worker] = IF at'[c] = "leased" THEN @ \cup {sid[c]} ELSE @]
        /\ UNCHANGED <<sid, gates, proc, resetting, ending, phase, doomed>>
    BY <1>2 DEF UseCached
  <2>2. /\ i \in 1..Len(cache)
        /\ cache[i].sid = sid[c] \/ (Kind[sid[c]] = "host" /\ Kind[cache[i].sid] = "host")
    <3>1. Compatible(sid[c]) \subseteq 1..Len(cache)
      BY DEF Compatible, Matches, HostEntries
    <3>2. i \in Compatible(sid[c])
      BY <1>i, <2>1, <3>1, EntryFound
    <3> HIDE DEF i
    <3> QED BY <3>1, <3>2 DEF Compatible, Matches, HostEntries
  <2> HIDE DEF i
  <2>3. at' \in [Calls -> Stages] /\ OthersWait(c) /\ at'[c] \in {"leased", "discarding", "rejecting"}
    BY <1>i, <1>s, <2>1, Alone
  <2>4. hand[c] = None /\ at'[c] \in Grasping
    BY <2>1, <2>3, Known DEF Grasping
  <2>5. \/ UNCHANGED served /\ at'[c] # "leased"
        \/ served' = [served EXCEPT ![cache[i].worker] = @ \cup {sid[c]}] /\ at'[c] = "leased"
    BY <1>i, <2>1
  <2> QED BY <2>1, <2>2, <2>3, <2>4, <2>5, TakesEntry
<1>3. CASE SearchFails(c) \/ Scavenge(c)
  <2>1. /\ at[c] \in {"granted", "scavenging"} /\ Lane(c) = "worker"
        /\ UNCHANGED <<sid, gates, proc, served, resetting, ending, phase, doomed>>
    BY <1>3, Known DEF SearchFails, Scavenge, Recycle, WorkerOnly
  <2>2. PICK n \in Nat : Recycle(c, n)
    <3>1. CASE SearchFails(c)
      <4>0. Cap("worker") = PoolSize /\ PoolSize \in Int /\ gates["worker"] \in AnyGate
        BY <1>i, <1>l, ExecutionAssumption DEF AdmissionInv, QueuesOK, Cap
      <4>1. Available(PoolSize, gates["worker"]) \in Nat
        <5>1. Available(PoolSize, gates["worker"]) >= 0
          BY <1>l, <4>0 DEF SlotsInv, RoomOK
        <5>2. gates["worker"].active \in Int /\ gates["worker"].quarantined \in Int
          BY <4>0 DEF AnyGate
        <5> QED BY <4>0, <5>1, <5>2 DEF Available
      <4> QED BY <3>1, <4>1 DEF SearchFails
    <3>2. CASE Scavenge(c)
      BY <3>2 DEF Scavenge, SlotsInv, RoomOK
    <3> QED BY <1>3, <3>1, <3>2
  <2>3. hand[c] = None
    BY <2>1, Known DEF Grasping
  <2>4. CASE Cardinality(Recyclable) > n
    <3> DEFINE i == First(Recyclable)
    <3>1. /\ cache' = Without(cache, i) /\ hand' = [hand EXCEPT ![c] = cache[i].worker]
          /\ at' = [at EXCEPT ![c] = "evicting"]
      BY <2>2, <2>4 DEF Recycle
    <3>2. Recyclable # {} /\ Recyclable \subseteq 1..Len(cache)
      <4>1. Recyclable \subseteq 1..Len(cache)
        BY DEF Recyclable
      <4>2. Cardinality({}) = 0 /\ ~(0 > n)
        BY <2>2, FS_EmptySet
      <4>3. Recyclable # {}
        BY <2>4, <4>2
      <4> QED BY <4>1, <4>3
    <3>3. i \in 1..Len(cache)
      BY <1>i, <3>2, EntryFound
    <3> HIDE DEF i
    <3>4. at' \in [Calls -> Stages] /\ OthersWait(c) /\ at'[c] = "evicting"
      BY <1>i, <1>s, <2>1, <3>1, Alone
    <3> QED BY <2>1, <2>3, <3>1, <3>3, <3>4, TakesEntry DEF Grasping
  <2>5. CASE ~(Cardinality(Recyclable) > n)
    <3>1. at' = [at EXCEPT ![c] = "creating"] /\ UNCHANGED <<cache, hand>>
      BY <2>2, <2>5 DEF Recycle
    <3>2. at' \in [Calls -> Stages] /\ OthersWait(c) /\ at'[c] = "creating"
      BY <1>i, <1>s, <2>1, <3>1, Alone
    <3>3. phase \notin Over /\ at'[c] \notin Grasping /\ \A d \in Calls \ {c} : sid'[d] = sid[d]
      BY <2>1, <3>2, Known DEF Grasping
    <3> QED BY <2>1, <2>3, <3>1, <3>2, <3>3, EmptyHanded
  <2> QED BY <2>4, <2>5
<1> QED BY <1>1, <1>2, <1>3


\* Teardowns and starts of a call end.
LEMMA WorkerOwns ==
  ASSUME SlotsInv, OwnersInv, NEW c \in Calls,
         \/ \E w \in Workers, compatible \in BOOLEAN : Created(c, w, compatible)
         \/ \E ok \in BOOLEAN : \/ DiscardRetainedDone(c, ok) \/ DiscardDone(c, ok) \/ StartDone(c, ok)
                                \/ RejectDone(c, ok) \/ ReleaseDone(c, ok)
  PROVE  OwnersInv'
PROOF
<1>s. Stages \ {"queued"} = {"idle", "admitting", "admitted", "granted", "discarding", "discardingRetained", "scavenging",
                             "evicting", "creating", "starting", "rejecting", "failing", "leased", "releasing"}
  BY DEF Stages
<1>l. {"worker", "primary"} \subseteq Lanes
  BY DEF Lanes
<1>i. AdmissionInv /\ at \in [Calls -> Stages] /\ sid \in [Calls -> Sessions \cup {None}]
  BY Known DEF SlotsInv
<1>1. CASE \E w \in Workers, compatible \in BOOLEAN : Created(c, w, compatible)
  BY <1>1, CreateOwns
<1>2. ASSUME NEW ok, ok \in BOOLEAN, DiscardRetainedDone(c, ok) PROVE OwnersInv'
  <2>1. /\ at[c] = "discardingRetained" /\ TornDown(hand[c], ok) /\ hand' = [hand EXCEPT ![c] = None]
        /\ UNCHANGED <<sid, cache, resetting, ending, phase, doomed>>
    BY <1>2 DEF DiscardRetainedDone
  <2>2. at' \in [Calls -> Stages] /\ OthersWait(c) /\ at'[c] \in {"granted", "failing", "queued"}
    <3>1. CASE GiveUp("worker", c, ~ok, "failing")
      BY <1>i, <1>l, <1>s, <2>1, <3>1, GivenUp
    <3> DEFINE g == Release(PoolSize, gates["worker"], ~ok)
               s == Served(PoolSize, gates["worker"], ~ok)
    <3>2. CASE RequestPermit(c, "worker", g, s)
      <4>1. gates["worker"] \in AnyGate /\ Distinct(gates["worker"].waiters) /\ PoolSize \in Int
        BY <1>i, <1>l, ExecutionAssumption DEF AdmissionInv, QueuesOK
      <4>2. /\ g \in AnyGate /\ Distinct(g.waiters) /\ Members(g.waiters) \subseteq Members(gates["worker"].waiters)
            /\ s \subseteq Members(gates["worker"].waiters) /\ s \cap Members(g.waiters) = {}
        BY <4>1, ReleaseQueue
      <4> HIDE DEF g, s
      <4>3. "worker" = Lane(c) /\ at[c] \in Past \ {"queued"}
        BY <1>i, <2>1 DEF AdmissionInv, RetainedOfWorkers, Past, Stages
      <4> QED BY <1>i, <1>l, <3>2, <4>2, <4>3, Asked
    <3> QED BY <1>2, <3>1, <3>2 DEF DiscardRetainedDone
  <2>3. at[c] \in Grasping \ {"leased"} /\ at'[c] \notin Grasping
    BY <2>1, <2>2 DEF Grasping
  <2> QED BY <1>2, <2>1, <2>2, <2>3, GivesUp
<1>3. ASSUME NEW ok, ok \in BOOLEAN, DiscardDone(c, ok) PROVE OwnersInv'
  <2>1. /\ at[c] \in {"discarding", "evicting"} /\ TornDown(hand[c], ok) /\ hand' = [hand EXCEPT ![c] = None]
        /\ UNCHANGED <<sid, cache, resetting, ending, phase, doomed>>
    BY <1>3 DEF DiscardDone
  <2>2. at' \in [Calls -> Stages] /\ OthersWait(c) /\ at'[c] \in {"granted", "scavenging", "failing"}
    <3>1. CASE ok
      <4>1. UNCHANGED gates /\ \E next \in {"granted", "scavenging"} : at' = [at EXCEPT ![c] = next]
        BY <1>i, <1>3, <2>1, <3>1 DEF DiscardDone
      <4> QED BY <1>i, <1>s, <2>1, <4>1, Alone
    <3>2. CASE GiveUp("worker", c, TRUE, "failing")
      BY <1>i, <1>l, <1>s, <2>1, <3>2, GivenUp
    <3> QED BY <1>3, <3>1, <3>2 DEF DiscardDone
  <2>3. at[c] \in Grasping \ {"leased"} /\ at'[c] \notin Grasping
    BY <2>1, <2>2 DEF Grasping
  <2> QED BY <1>3, <2>1, <2>2, <2>3, GivesUp
<1>4. ASSUME NEW ok, ok \in BOOLEAN, RejectDone(c, ok) \/ ReleaseDone(c, ok) PROVE OwnersInv'
  <2>1. /\ at[c] \in {"rejecting", "releasing"} /\ TornDown(hand[c], ok) /\ hand' = [hand EXCEPT ![c] = None]
        /\ UNCHANGED <<cache, resetting, ending, doomed>> /\ phase' \in {phase, Settled(at')}
        /\ sid' = sid \/ sid' = [sid EXCEPT ![c] = None]
        /\ \E next \in {"failing", "idle"} : GiveUp("worker", c, ~ok, next)
    BY <1>4 DEF RejectDone, ReleaseDone, Forget
  <2>2. at' \in [Calls -> Stages] /\ OthersWait(c) /\ at'[c] \in {"failing", "idle"}
    BY <1>i, <1>l, <1>s, <2>1, GivenUp
  <2>3. at[c] \in Grasping \ {"leased"} /\ at'[c] \notin Grasping /\ \A d \in Calls \ {c} : sid'[d] = sid[d]
    BY <1>i, <2>1, <2>2 DEF Grasping
  <2> QED BY <1>4, <2>1, <2>2, <2>3, GivesUp
<1>5. ASSUME NEW ok, ok \in BOOLEAN, StartDone(c, ok) PROVE OwnersInv'
  <2>1. /\ at[c] = "starting" /\ \E p \in Live : proc' = [proc EXCEPT ![hand[c]] = p]
        /\ \E next \in {"leased", "rejecting"} : at' = [at EXCEPT ![c] = next]
        /\ UNCHANGED <<sid, hand, gates, cache, resetting, ending, phase, doomed>>
    BY <1>5 DEF StartDone, Live
  <2>2. at' \in [Calls -> Stages] /\ OthersWait(c) /\ at'[c] \in {"leased", "rejecting"}
    BY <1>i, <1>s, <2>1, Alone
  <2>3. hand[c] \in Workers /\ at'[c] \in Grasping
    BY <2>1, <2>2 DEF OwnersInv, GraspOK, Grasping
  <2>4. \/ UNCHANGED served /\ at'[c] # "leased"
        \/ served' = [served EXCEPT ![hand[c]] = {sid[c]}]
    <3>1. CASE ok /\ phase = "open"
      BY <1>5, <3>1 DEF StartDone
    <3>2. CASE ~(ok /\ phase = "open")
      BY <1>i, <1>5, <3>2, Known DEF StartDone
    <3> QED BY <3>1, <3>2
  <2> QED BY <2>1, <2>2, <2>3, <2>4, WorkerChanges
<1> QED BY <1>1, <1>2, <1>3, <1>4, <1>5

\* A turn ends: its worker goes to the cache or to its teardown.
LEMMA EndOwns ==
  ASSUME SlotsInv, OwnersInv, NEW c \in Calls, NEW healthy, healthy \in BOOLEAN, EndTurn(c, healthy)
  PROVE  OwnersInv'
PROOF
<1> DEFINE keep == Lane(c) = "worker" /\ Cacheable(sid[c]) /\ phase = "open" /\ healthy
           over == keep \/ Lane(c) = "primary"
<1>s. {"idle", "releasing", "failing"} \subseteq Stages \ {"queued"}
  BY DEF Stages
<1>l. Lane(c) \in Lanes /\ Lane(c) \in {"primary", "worker"}
  BY DEF Lanes, Lane
<1>i. AdmissionInv /\ at \in [Calls -> Stages]
  BY Known DEF SlotsInv
<1>1. /\ at[c] = "leased" /\ UNCHANGED <<served, resetting, ending, doomed>>
      /\ proc' = [w \in Workers |-> IF w = hand[c] /\ ~healthy THEN "broken" ELSE proc[w]]
      /\ cache' = IF keep THEN Append(cache, [worker |-> hand[c], sid |-> sid[c]]) ELSE cache
      /\ ~over => at' = [at EXCEPT ![c] = "releasing"] /\ UNCHANGED <<gates, sid, hand, phase>>
      /\ over => \/ at' = [at EXCEPT ![c] = "idle"] /\ UNCHANGED gates
                 \/ GiveUp(Lane(c), c, FALSE, "idle")
      /\ over => Forget(c)
  BY DEF EndTurn
<1> HIDE DEF keep, over
<1>2. phase \notin Over /\ sid[c] \in Sessions /\ (hand[c] \in Workers <=> Lane(c) = "worker") /\ hand \in Hands
  BY <1>1, Known
<1>3. Sole(hand, cache, Leaving) /\ {x \in Workers : proc[x] \in Live} = Held(hand, cache, Leaving) /\ ServedOK
  BY <1>2 DEF OwnersInv, RunsOK, TearingDown, Over
<1>4. CASE ~over
  <2>1. hand[c] \in Workers /\ ~keep
    BY <1>2, <1>4, <1>l DEF over
  <2>2. proc[hand[c]] \in Live
    <3>1. hand[c] \in Held(hand, cache, Leaving)
      BY <2>1 DEF Held
    <3> QED BY <1>3, <3>1
  <2>3. \E p \in Live : proc' = [proc EXCEPT ![hand[c]] = p]
    <3>1. CASE healthy
      <4>1. proc' = [proc EXCEPT ![hand[c]] = proc[hand[c]]]
        BY <1>1, <3>1, Known
      <4> QED BY <2>2, <4>1
    <3>2. CASE ~healthy
      <4>1. proc' = [proc EXCEPT ![hand[c]] = "broken"] /\ "broken" \in Live
        BY <1>1, <2>1, <3>2, Known DEF Live
      <4> QED BY <4>1
    <3> QED BY <3>1, <3>2
  <2>4. at' \in [Calls -> Stages] /\ OthersWait(c) /\ at'[c] = "releasing"
    BY <1>i, <1>s, <1>1, <1>4, Alone
  <2>5. UNCHANGED <<resetting, ending, doomed, cache, hand, phase, sid, served>> /\ at[c] # "idle" /\ at'[c] \in Grasping
    BY <1>1, <1>4, <2>1, <2>4 DEF Grasping
  <2> QED BY <2>1, <2>3, <2>4, <2>5, WorkerChanges
<1>5. CASE over
  <2>1. at' \in [Calls -> Stages] /\ OthersWait(c) /\ at'[c] = "idle"
    BY <1>i, <1>l, <1>s, <1>1, <1>5, Alone, GivenUp
  <2>2. /\ hand' = [hand EXCEPT ![c] = None] /\ phase' \in {phase, Settled(at')} /\ \A d \in Calls \ {c} : sid'[d] = sid[d]
        /\ at'[c] \notin Grasping
    BY <1>1, <1>5, <2>1, Known DEF Forget, Grasping
  <2>3. CASE ~keep
    <3>1. hand[c] = None
      BY <1>2, <1>5, <2>3 DEF over, Hands
    <3>2. proc' = proc /\ cache' = cache
      BY <1>1, <2>3, <3>1, Known
    <3> QED BY <1>1, <1>2, <2>1, <2>2, <3>1, <3>2, EmptyHanded
  <2>4. CASE keep
    <3> DEFINE e == [worker |-> hand[c], sid |-> sid[c]]
    <3>1. e \in Entries /\ e.worker = hand[c] /\ hand[c] \in Workers /\ cache' = Append(cache, e) /\ proc' = proc
          /\ Fits(served[e.worker], e.sid)
      <4>1. hand[c] \in Workers /\ e \in Entries /\ e.worker = hand[c] /\ e.sid = sid[c] /\ hand[c] # None
        BY <1>2, <2>4, Known DEF keep, Entries
      <4>2. healthy
        BY <2>4 DEF keep
      <4>3. proc' = proc
        BY <1>1, <4>2, Known
      <4>4. Fits(served[hand[c]], sid[c])
        BY <1>1, <1>3, <4>1 DEF ServedOK
      <4> QED BY <1>1, <2>4, <4>1, <4>3, <4>4
    <3> HIDE DEF e
    <3>2. /\ hand \in Hands /\ cache \in Seq(Entries) /\ Leaving \in Leavers
          /\ hand' \in Hands /\ hand'[c] = None /\ \A d \in Calls \ {c} : hand'[d] = hand[d]
      BY <2>2, Known DEF Hands
    <3>3. Sole(hand', Append(cache, e), Leaving) /\ Held(hand', Append(cache, e), Leaving) = Held(hand, cache, Leaving)
      BY ONLY <1>3, <3>1, <3>2, CallCaches
    <3>4. Members(cache') = Members(cache) \cup {e} /\ cache' \in Seq(Entries)
      <4>1. hand[c] \notin CachedWorkers(cache) /\ \A j, k \in 1..Len(cache) : cache[j].worker = cache[k].worker => j = k
        BY <1>3 DEF Sole
      <4>2. Members(Append(cache, e)) = Members(cache) \cup {e}
        BY <3>1, <3>2, <4>1, EntryJoins
      <4> QED BY <3>1, <3>2, <4>2
    <3>5. ServedNext(c, None)
      BY <1>1, <3>1, <3>4, Known DEF ServedNext
    <3>6. None \in Workers \cup {None} /\ proc' \in [Workers -> Live \cup {"none", "orphan"}]
          /\ {x \in Workers : proc'[x] \in Live} = Held(hand', cache', Leaving) /\ Sole(hand', cache', Leaving)
      BY <1>3, <3>1, <3>3, Known
    <3> QED BY <1>1, <1>2, <2>1, <2>2, <3>4, <3>5, <3>6, CallMoves
  <2> QED BY <2>3, <2>4
<1> QED BY <1>4, <1>5


-----------------------------------------------------------------------------
(* The cache is emptied from outside.                                      *)

\* What remains to be shown of a step that moves no call but waiters.
LEMMA OutsideMoves ==
  ASSUME SlotsInv, OwnersInv, UNCHANGED <<sid, hand>>, at' \in [Calls -> Stages], OthersWait(None),
         cache' \in Seq(Entries), Members(cache') \subseteq Members(cache),
         served' \in [Workers -> SUBSET Sessions], \A x \in Workers : served'[x] \subseteq served[x],
         LeavingOK', RunsOK', PhaseOK', Sole(hand, cache', Leaving')
  PROVE  OwnersInv'
PROOF
<1>1. GraspOK'
  <2>1. ASSUME NEW d \in Calls
        PROVE  /\ hand'[d] # None => at'[d] \in Grasping /\ Lane(d)' = "worker"
               /\ at'[d] \in Grasping \ {"leased"} => hand'[d] \in Workers
    <3>1. /\ hand[d] # None => at[d] \in Grasping /\ Lane(d) = "worker"
          /\ at[d] \in Grasping \ {"leased"} => hand[d] \in Workers
      BY DEF OwnersInv, GraspOK
    <3>2. Lane(d)' = Lane(d) /\ hand'[d] = hand[d]
      BY DEF Lane
    <3>3. at'[d] = at[d] \/ (at[d] \notin Grasping /\ at'[d] \notin Grasping)
      BY Known DEF OthersWait, Grasping
    <3> QED BY <3>1, <3>2, <3>3
  <2> QED BY <2>1 DEF GraspOK
<1>2. ServedOK'
  <2>1. None \notin CachedWorkers(cache') /\ None \notin Workers /\ None \notin Calls
    BY OnlyWorkersCached, Known
  <2>2. ServedNext(None, None)
    BY <2>1 DEF ServedNext
  <2>3. \A d \in Calls : hand'[d] # None /\ hand'[d] = None => d = None
    OBVIOUS
  <2> QED BY <2>1, <2>2, <2>3, ServedStands
<1>3. Sole(hand', cache', Leaving')
  OBVIOUS
<1> QED BY <1>1, <1>2, <1>3 DEF OwnersInv

\* The phase stands when it does not change and no call starts anew.
LEMMA PhaseStands ==
  ASSUME SlotsInv, OwnersInv, phase' = phase, at' \in [Calls -> Stages], OthersWait(None), doomed' \in Seq(Workers)
  PROVE  PhaseOK'
PROOF
<1>1. \A d \in Calls : at[d] = "idle" => at'[d] = "idle"
  BY Known DEF OthersWait
<1> QED BY <1>1 DEF OwnersInv, PhaseOK

\* A worker leaves the cache for a session.
LEMMA LeavesCache ==
  ASSUME SlotsInv, OwnersInv, NEW s \in Sessions, Leaving[s] = None, phase # "closed",
         UNCHANGED <<at, sid, hand, proc, served, phase, doomed>>,
         NEW i \in 1..Len(cache), cache' = Without(cache, i),
         \/ Kind[s] = "bound" /\ resetting' = [resetting EXCEPT ![s] = cache[i].worker] /\ ending' = ending
         \/ Kind[s] = "temp" /\ ending' = [ending EXCEPT ![s] = cache[i].worker] /\ resetting' = resetting
  PROVE  OwnersInv'
PROOF
<1>1. /\ Sole(hand, cache, Leaving) /\ LeavingOK /\ RunsOK /\ hand \in Hands /\ cache \in Seq(Entries) /\ Leaving \in Leavers
      /\ ending \in Leavers /\ resetting \in Leavers
  BY Known DEF OwnersInv
<1>2. cache' \in Seq(Entries) /\ cache[i].worker \in Workers /\ Members(cache') \subseteq Members(cache)
  <2>1. \A j, k \in 1..Len(cache) : cache[j].worker = cache[k].worker => j = k
    BY <1>1 DEF Sole
  <2>2. cache[i] \in Entries /\ Members(Without(cache, i)) \subseteq Members(cache)
    BY <1>1, <2>1, EntryTaken
  <2>3. Without(cache, i) \in Seq(Entries)
    BY <1>1, WithoutFacts
  <2> QED BY <2>2, <2>3 DEF Entries
<1>3. Leaving' \in Leavers /\ Leaving'[s] = cache[i].worker /\ \A r \in Sessions \ {s} : Leaving'[r] = Leaving[r]
  <2>1. /\ resetting' \in Leavers /\ ending' \in Leavers
        /\ (IF Kind[s] = "temp" THEN ending'[s] ELSE resetting'[s]) = cache[i].worker
        /\ \A r \in Sessions \ {s} : ending'[r] = ending[r] /\ resetting'[r] = resetting[r]
    BY <1>1, <1>2 DEF Leavers
  <2> QED BY <2>1 DEF Leaving, Leavers
<1>4. LeavingOK'
  BY <1>1, <1>2 DEF LeavingOK, Leavers
<1>5. Sole(hand, Without(cache, i), Leaving') /\ Held(hand, Without(cache, i), Leaving') = Held(hand, cache, Leaving)
  <2>1. Leaving[s] = None
    OBVIOUS
  <2> QED BY ONLY <1>1, <1>3, <2>1, SessionTakes
<1>6. RunsOK'
  <2>1. \A w \in Workers : (\E r \in Sessions : Leaving[r] = w) => \E r \in Sessions : Leaving'[r] = w
    BY <1>3, Known
  <2>2. phase' \notin TearingDown => {w \in Workers : proc'[w] \in Live} = Held(hand', cache', Leaving')
    BY <1>1, <1>5 DEF RunsOK
  <2>3. phase' \in TearingDown =>
          \A w \in Workers : proc'[w] \in Live =>
            (\E r \in Sessions : Leaving'[r] = w) \/ (phase' = "closing" /\ w \in Members(doomed'))
    BY <1>1, <2>1 DEF RunsOK
  <2> QED BY <1>1, <2>2, <2>3 DEF RunsOK
<1>7. at' \in [Calls -> Stages] /\ OthersWait(None)
  BY Known DEF OthersWait
<1>8. PhaseOK' /\ served' \in [Workers -> SUBSET Sessions] /\ \A x \in Workers : served'[x] \subseteq served[x]
  BY <1>7, PhaseStands, Known DEF OwnersInv, PhaseOK
<1>9. UNCHANGED <<sid, hand>> /\ Sole(hand, cache', Leaving')
  BY <1>5
<1> QED BY <1>2, <1>4, <1>6, <1>7, <1>8, <1>9, OutsideMoves

\* Its teardown ends.
LEMMA LeavesForGood ==
  ASSUME SlotsInv, OwnersInv, NEW s \in Sessions, Leaving[s] # None, NEW ok, ok \in BOOLEAN, TornDown(Leaving[s], ok),
         UNCHANGED <<sid, hand, cache, phase, doomed>>, at' \in [Calls -> Stages], OthersWait(None),
         \/ Kind[s] # "temp" /\ resetting' = [resetting EXCEPT ![s] = None] /\ ending' = ending
         \/ Kind[s] = "temp" /\ ending' = [ending EXCEPT ![s] = None] /\ resetting' = resetting
  PROVE  OwnersInv'
PROOF
<1>1. /\ Sole(hand, cache, Leaving) /\ LeavingOK /\ RunsOK /\ hand \in Hands /\ cache \in Seq(Entries) /\ Leaving \in Leavers
      /\ ending \in Leavers /\ resetting \in Leavers
  BY Known DEF OwnersInv
<1>2. Leaving' \in Leavers /\ Leaving'[s] = None /\ \A r \in Sessions \ {s} : Leaving'[r] = Leaving[r]
  <2>1. /\ resetting' \in Leavers /\ ending' \in Leavers
        /\ (IF Kind[s] = "temp" THEN ending'[s] ELSE resetting'[s]) = None
        /\ \A r \in Sessions \ {s} : ending'[r] = ending[r] /\ resetting'[r] = resetting[r]
    BY <1>1 DEF Leavers
  <2> QED BY <2>1 DEF Leaving, Leavers
<1>3. LeavingOK'
  BY <1>1 DEF LeavingOK, Leavers
<1>4. Sole(hand, cache, Leaving') /\ Held(hand, cache, Leaving') = Held(hand, cache, Leaving) \ {Leaving[s]}
  BY ONLY <1>1, <1>2, SessionDrops
<1>5. PICK w \in Workers : w = Leaving[s]
  BY <1>1 DEF Leavers
<1>6. /\ proc' = [proc EXCEPT ![w] = IF ok THEN "none" ELSE "orphan"]
      /\ served' = [served EXCEPT ![w] = {}]
  BY <1>5 DEF TornDown
<1>7. /\ proc' \in [Workers -> Live \cup {"none", "orphan"}] /\ proc'[w] \notin Live
      /\ \A x \in Workers \ {w} : proc'[x] = proc[x]
  <2>1. proc'[w] \notin Live /\ \A x \in Workers \ {w} : proc'[x] = proc[x]
    BY <1>6, Known DEF Live
  <2>2. proc' \in [Workers -> Live \cup {"none", "orphan"}]
    BY <1>6, Known
  <2> QED BY <2>1, <2>2
<1>8. RunsOK'
  <2>1. phase' \notin TearingDown => {x \in Workers : proc'[x] \in Live} = Held(hand', cache', Leaving')
    BY <1>1, <1>4, <1>5, <1>7 DEF RunsOK
  <2>2. ASSUME phase' \in TearingDown, NEW x \in Workers, proc'[x] \in Live
        PROVE  (\E r \in Sessions : Leaving'[r] = x) \/ (phase' = "closing" /\ x \in Members(doomed'))
    <3>1. x # w /\ proc[x] \in Live
      BY <1>7, <2>2
    <3>2. (\E r \in Sessions : Leaving[r] = x) \/ (phase = "closing" /\ x \in Members(doomed))
      BY <1>1, <2>2, <3>1 DEF RunsOK
    <3> QED BY <1>2, <1>5, <3>1, <3>2
  <2> QED BY <1>7, <2>1, <2>2 DEF RunsOK
<1>9. PhaseOK' /\ cache' \in Seq(Entries) /\ Members(cache') \subseteq Members(cache) /\ Sole(hand, cache', Leaving')
  BY <1>1, <1>4, PhaseStands, Known DEF OwnersInv, PhaseOK
<1>10. served' \in [Workers -> SUBSET Sessions] /\ \A x \in Workers : served'[x] \subseteq served[x]
  BY <1>6, Known
<1> QED BY <1>3, <1>8, <1>9, <1>10, OutsideMoves


\* Resets and ends of temporary sessions.
LEMMA SessionOwns ==
  ASSUME SlotsInv, OwnersInv, NEW s \in Sessions,
         SessionStep(s) \/ Reset(s) \/ ResetShared(s) \/ EndTemp(s)
  PROVE  OwnersInv'
PROOF
<1>n. None \in Calls \cup {None} /\ None \notin Calls /\ "worker" \in Lanes /\ "idle" \in Stages \ {"queued"}
  BY ExecutionAssumption DEF Lanes, Stages
<1>i. AdmissionInv /\ CacheOK /\ at \in [Calls -> Stages] /\ LeavingOK
  BY Known DEF SlotsInv, SlotTables, OwnersInv
<1>1. CASE Reset(s) \/ EndTemp(s)
  <2> DEFINE i == First(Matches(s))
  <2>1. /\ Matches(s) # {} /\ phase # "closed" /\ cache' = Without(cache, i)
        /\ UNCHANGED <<at, sid, hand, proc, served, phase, doomed>>
        /\ \/ /\ Kind[s] = "bound" /\ resetting[s] = None
              /\ resetting' = [resetting EXCEPT ![s] = cache[i].worker] /\ ending' = ending
           \/ /\ Kind[s] = "temp" /\ ending[s] = None
              /\ ending' = [ending EXCEPT ![s] = cache[i].worker] /\ resetting' = resetting
    BY <1>1 DEF Reset, EndTemp, callVars
  <2>2. i \in 1..Len(cache)
    <3>1. Matches(s) \subseteq 1..Len(cache)
      BY DEF Matches
    <3> QED BY <1>i, <2>1, <3>1, EntryFound
  <2> HIDE DEF i
  <2>3. Leaving[s] = None
    BY <2>1 DEF Leaving
  <2> QED BY <2>1, <2>2, <2>3, LeavesCache
<1>2. ASSUME NEW ok, ok \in BOOLEAN, ResetDone(s, ok) \/ EndTempDone(s, ok) PROVE OwnersInv'
  <2>1. at' \in [Calls -> Stages] /\ OthersWait(None)
    <3>1. CASE ResetDone(s, ok) /\ ok
      <4>1. at' = at
        BY <3>1 DEF ResetDone
      <4> QED BY <1>i, <4>1 DEF OthersWait
    <3>2. CASE ResetDone(s, ok) /\ ~ok
      <4> DEFINE g == QuarantineSlot(PoolSize, gates["worker"])
      <4>1. gates["worker"] \in AnyGate /\ Distinct(gates["worker"].waiters) /\ PoolSize \in Int
        BY <1>i, <1>n, ExecutionAssumption DEF AdmissionInv, QueuesOK
      <4>2. g \in AnyGate /\ Distinct(g.waiters) /\ Members(g.waiters) \subseteq Members(gates["worker"].waiters)
        BY <4>1, QuarantineQueue
      <4>3. Regate("worker", g, {}, None, "idle", FALSE)
        BY <3>2 DEF ResetDone
      <4> HIDE DEF g
      <4>4. Requeues("worker", g, {}, None, "idle")
        BY <4>2 DEF Requeues
      <4> QED BY <1>i, <1>n, <4>3, <4>4, Regated
    <3>3. CASE EndTempDone(s, ok)
      <4>1. GiveUp("worker", None, ~ok, "idle")
        BY <3>3 DEF EndTempDone
      <4> QED BY <1>i, <1>n, <4>1, GivenUp
    <3> QED BY <1>2, <3>1, <3>2, <3>3
  <2>2. UNCHANGED <<sid, hand, cache, phase, doomed>>
    BY <1>2 DEF ResetDone, EndTempDone
  <2>3. /\ Leaving[s] # None /\ TornDown(Leaving[s], ok)
        /\ \/ Kind[s] # "temp" /\ resetting' = [resetting EXCEPT ![s] = None] /\ ending' = ending
           \/ Kind[s] = "temp" /\ ending' = [ending EXCEPT ![s] = None] /\ resetting' = resetting
    <3>1. CASE ResetDone(s, ok)
      <4>1. /\ resetting[s] # None /\ TornDown(resetting[s], ok)
            /\ resetting' = [resetting EXCEPT ![s] = None] /\ ending' = ending
        BY <3>1 DEF ResetDone
      <4>2. Kind[s] # "temp" /\ Leaving[s] = resetting[s]
        BY <1>i, <4>1 DEF LeavingOK, Leaving
      <4> QED BY <4>1, <4>2
    <3>2. CASE EndTempDone(s, ok)
      <4>1. /\ ending[s] # None /\ TornDown(ending[s], ok)
            /\ ending' = [ending EXCEPT ![s] = None] /\ resetting' = resetting
        BY <3>2 DEF EndTempDone
      <4>2. Kind[s] = "temp" /\ Leaving[s] = ending[s]
        BY <1>i, <4>1 DEF LeavingOK, Leaving
      <4> QED BY <4>1, <4>2
    <3> QED BY <1>2, <3>1, <3>2
  <2> QED BY <1>2, <2>1, <2>2, <2>3, LeavesForGood
<1>3. CASE ResetShared(s)
  <2>1. /\ served' = [w \in Workers |-> served[w] \ {s}]
        /\ UNCHANGED <<at, sid, hand, cache, proc, resetting, ending, phase, doomed>>
    BY <1>3 DEF ResetShared, callVars
  <2>2. at' \in [Calls -> Stages] /\ OthersWait(None)
    BY <1>i, <2>1 DEF OthersWait
  <2>3. Leaving' = Leaving /\ LeavingOK' /\ PhaseOK' /\ doomed' \in Seq(Workers)
    BY <2>1 DEF Leaving, LeavingOK, PhaseOK, OwnersInv
  <2>4. RunsOK' /\ Sole(hand, cache', Leaving')
    BY <2>1, <2>3 DEF RunsOK, OwnersInv
  <2>5. served' \in [Workers -> SUBSET Sessions] /\ \A x \in Workers : served'[x] \subseteq served[x]
    BY <2>1, Known
  <2>6. cache' \in Seq(Entries) /\ Members(cache') \subseteq Members(cache)
    BY <2>1, Known
  <2> QED BY <2>1, <2>2, <2>3, <2>4, <2>5, <2>6, OutsideMoves
<1> QED BY <1>1, <1>2, <1>3 DEF SessionStep

\* Workers that die in the cache, and disposal.
LEMMA DisposeOwns ==
  ASSUME SlotsInv, OwnersInv,
         \/ \E i \in 1..Cardinality(Workers) : CachedBreaks(i)
         \/ Dispose \/ DisposeStep \/ UNCHANGED execVars
  PROVE  OwnersInv'
PROOF
<1>i. /\ at \in [Calls -> Stages] /\ LeavingOK /\ RunsOK /\ PhaseOK /\ Sole(hand, cache, Leaving)
      /\ cache \in Seq(Entries) /\ served \in [Workers -> SUBSET Sessions] /\ doomed \in Seq(Workers)
      /\ proc \in [Workers -> Live \cup {"none", "orphan"}]
  BY Known DEF OwnersInv, PhaseOK
<1>a. ASSUME UNCHANGED <<at, sid, hand, resetting, ending>>
      PROVE  at' \in [Calls -> Stages] /\ OthersWait(None) /\ Leaving' = Leaving /\ LeavingOK'
  BY <1>a, <1>i DEF OthersWait, Leaving, LeavingOK
<1>1. ASSUME NEW i, CachedBreaks(i) PROVE OwnersInv'
  <2>1. /\ i \in 1..Len(cache) /\ proc[cache[i].worker] = "idle" /\ proc' = [proc EXCEPT ![cache[i].worker] = "broken"]
        /\ UNCHANGED <<at, sid, hand, cache, served, resetting, ending, phase, doomed>>
    BY <1>1 DEF CachedBreaks, callVars
  <2>2. PICK w \in Workers : w = cache[i].worker
    <3>1. cache[i] \in Entries
      BY <1>i, <2>1
    <3> QED BY <3>1 DEF Entries
  <2>3. proc' \in [Workers -> Live \cup {"none", "orphan"}] /\ \A x \in Workers : proc'[x] \in Live <=> proc[x] \in Live
    <3>1. proc[w] \in Live /\ "broken" \in Live /\ proc' = [proc EXCEPT ![w] = "broken"]
      BY <2>1, <2>2 DEF Live
    <3> HIDE DEF Live
    <3> QED BY <1>i, <3>1
  <2>4. Leaving' = Leaving /\ LeavingOK' /\ OthersWait(None) /\ at' \in [Calls -> Stages] /\ PhaseOK'
    BY <1>a, <1>i, <2>1 DEF PhaseOK
  <2>5. RunsOK'
    <3>1. {x \in Workers : proc'[x] \in Live} = {x \in Workers : proc[x] \in Live}
      BY <2>3
    <3> QED BY <1>i, <2>1, <2>3, <2>4, <3>1 DEF RunsOK
  <2> QED BY <1>i, <2>1, <2>4, <2>5, OutsideMoves
<1>2. CASE Dispose
  <2>1. /\ at' = [d \in Calls |-> IF at[d] = "queued" THEN "failing" ELSE at[d]] /\ phase = "open"
        /\ phase' = IF \E d \in Calls : InFlight(d) THEN "draining" ELSE "drained"
        /\ UNCHANGED <<sid, hand, cache, proc, served, resetting, ending, doomed>>
    BY <1>2 DEF Dispose
  <2>2. at' \in [Calls -> Stages] /\ OthersWait(None) /\ \A d \in Calls : at[d] = "idle" => at'[d] = "idle"
    BY <1>i, <2>1 DEF OthersWait, Stages
  <2>3. Leaving' = Leaving /\ LeavingOK'
    BY <1>i, <2>1 DEF Leaving, LeavingOK
  <2>4. PhaseOK'
    BY <1>i, <2>1, <2>2 DEF PhaseOK, InFlight
  <2>5. RunsOK'
    BY <1>i, <2>1, <2>3 DEF RunsOK, TearingDown
  <2> QED BY <1>i, <2>1, <2>2, <2>3, <2>4, <2>5, OutsideMoves
<1>3. CASE BeginTeardown
  <2>1. /\ phase = "drained" /\ phase' = "closing" /\ doomed' = [i \in 1..Len(cache) |-> cache[i].worker]
        /\ UNCHANGED <<at, sid, hand, cache, proc, served, resetting, ending>>
    BY <1>3 DEF BeginTeardown, callVars
  <2>2. at' \in [Calls -> Stages] /\ OthersWait(None) /\ Leaving' = Leaving /\ LeavingOK'
    BY <1>a, <2>1
  <2>3. doomed' \in Seq(Workers) /\ Members(doomed') = CachedWorkers(cache)
    <3>1. ASSUME NEW i \in 1..Len(cache) PROVE cache[i].worker \in Workers
      <4>1. cache[i] \in Entries
        BY <1>i
      <4> QED BY <4>1 DEF Entries
    <3>2. Len(cache) \in Nat /\ doomed' \in [1..Len(cache) -> Workers]
      BY <1>i, <2>1, <3>1
    <3>3. doomed' \in Seq(Workers) /\ Len(doomed') = Len(cache)
      BY <2>1, <3>2
    <3> QED BY <2>1, <3>3 DEF Members, CachedWorkers
  <2>4. PhaseOK'
    BY <1>i, <2>1, <2>3 DEF PhaseOK
  <2>5. RunsOK'
    <3>1. ASSUME NEW x \in Workers, proc[x] \in Live PROVE (\E r \in Sessions : Leaving[r] = x) \/ x \in Members(doomed')
      <4>1. x \in Held(hand, cache, Leaving)
        BY <1>i, <2>1, <3>1 DEF RunsOK, TearingDown
      <4>2. \A d \in Calls : hand[d] = None
        BY <1>i, <2>1, Known DEF PhaseOK, Grasping
      <4> QED BY <2>3, <4>1, <4>2, Known DEF Held
    <3> QED BY <1>i, <2>1, <2>2, <3>1 DEF RunsOK, TearingDown
  <2> QED BY <1>i, <2>1, <2>2, <2>4, <2>5, OutsideMoves
<1>4. ASSUME NEW ok, ok \in BOOLEAN, DisposeOne(ok) PROVE OwnersInv'
  <2>1. /\ phase = "closing" /\ doomed # <<>> /\ doomed' = Tail(doomed)
        /\ UNCHANGED <<at, sid, hand, cache, resetting, ending, phase>>
    BY <1>4 DEF DisposeOne, callVars
  <2>2. at' \in [Calls -> Stages] /\ OthersWait(None) /\ Leaving' = Leaving /\ LeavingOK'
    BY <1>a, <2>1
  <2>3. PICK w \in Workers : w = Head(doomed)
    BY <1>i, <2>1
  <2>4. doomed' \in Seq(Workers) /\ \A x \in Members(doomed) : x = w \/ x \in Members(doomed')
    <3>1. Len(doomed) \in Nat /\ Len(doomed) # 0 /\ w = doomed[1]
      BY <1>i, <2>1, <2>3
    <3>2. doomed' \in Seq(Workers) /\ Len(doomed') = Len(doomed) - 1 /\ \A j \in 1..Len(doomed) - 1 : doomed'[j] = doomed[j + 1]
      BY <1>i, <2>1
    <3>3. ASSUME NEW j \in 1..Len(doomed), j # 1 PROVE doomed[j] \in Members(doomed')
      <4>1. j - 1 \in 1..Len(doomed') /\ doomed'[j - 1] = doomed[j]
        BY <3>1, <3>2, <3>3
      <4> QED BY <4>1 DEF Members
    <3> QED BY <3>1, <3>2, <3>3 DEF Members
  <2>5. /\ proc' \in [Workers -> Live \cup {"none", "orphan"}] /\ proc'[w] \notin Live
        /\ \A x \in Workers \ {w} : proc'[x] = proc[x]
        /\ served' \in [Workers -> SUBSET Sessions] /\ \A x \in Workers : served'[x] \subseteq served[x]
    <3>1. CASE proc[w] \in Live
      <4>1. /\ proc' = [proc EXCEPT ![w] = IF ok THEN "none" ELSE "orphan"]
            /\ served' = [served EXCEPT ![w] = {}]
        BY <1>4, <2>3, <3>1 DEF DisposeOne, TornDown
      <4>2. proc'[w] \notin Live /\ \A x \in Workers \ {w} : proc'[x] = proc[x]
        BY <1>i, <4>1 DEF Live
      <4>3. proc' \in [Workers -> Live \cup {"none", "orphan"}]
        BY <1>i, <4>1
      <4> QED BY <1>i, <4>1, <4>2, <4>3
    <3>2. CASE proc[w] \notin Live
      BY <1>i, <1>4, <2>3, <3>2 DEF DisposeOne
    <3> QED BY <3>1, <3>2
  <2>6. RunsOK'
    <3>1. ASSUME NEW x \in Workers, proc'[x] \in Live PROVE (\E r \in Sessions : Leaving[r] = x) \/ x \in Members(doomed')
      <4>1. x # w /\ proc[x] \in Live
        BY <2>5, <3>1
      <4>2. (\E r \in Sessions : Leaving[r] = x) \/ x \in Members(doomed)
        BY <1>i, <2>1, <4>1 DEF RunsOK, TearingDown
      <4> QED BY <2>4, <4>1, <4>2
    <3> QED BY <2>1, <2>2, <2>5, <3>1 DEF RunsOK, TearingDown
  <2>7. PhaseOK'
    BY <2>1, <2>2, <2>4, PhaseStands
  <2> QED BY <1>i, <2>1, <2>2, <2>5, <2>6, <2>7, OutsideMoves
<1>5. CASE FinishDispose
  <2>1. /\ phase = "closing" /\ doomed = <<>> /\ cache' = <<>> /\ phase' = "closed"
        /\ UNCHANGED <<at, sid, hand, proc, served, resetting, ending, doomed>>
    BY <1>5 DEF FinishDispose, callVars
  <2>2. at' \in [Calls -> Stages] /\ OthersWait(None) /\ Leaving' = Leaving /\ LeavingOK'
    BY <1>a, <2>1
  <2>3. <<>> \in Seq(Entries) /\ 1..Len(<<>>) = {}
    OBVIOUS
  <2>4. Members(<<>>) = {} /\ CachedWorkers(<<>>) = {}
    BY <2>3 DEF Members, CachedWorkers
  <2>5. Sole(hand, cache', Leaving')
    <3>1. Sole(hand, <<>>, Leaving)
      BY <1>i, <2>3, <2>4 DEF Sole
    <3> QED BY <2>1, <2>2, <3>1
  <2>6. PhaseOK'
    BY <1>i, <2>1 DEF PhaseOK
  <2>7. RunsOK'
    <3>1. ASSUME NEW x \in Workers, proc[x] \in Live PROVE \E r \in Sessions : Leaving[r] = x
      BY <1>i, <2>1, <2>4, <3>1 DEF RunsOK, TearingDown
    <3> QED BY <1>i, <2>1, <2>2, <3>1 DEF RunsOK, TearingDown
  <2> QED BY <1>i, <2>1, <2>2, <2>3, <2>4, <2>5, <2>6, <2>7, OutsideMoves
<1>6. CASE UNCHANGED execVars
  <2>1. UNCHANGED <<at, sid, hand, cache, proc, served, resetting, ending, phase, doomed>>
    BY <1>6 DEF execVars, callVars
  <2>2. at' \in [Calls -> Stages] /\ OthersWait(None) /\ Leaving' = Leaving /\ LeavingOK'
    BY <1>a, <2>1
  <2>3. RunsOK' /\ PhaseOK'
    BY <1>i, <2>1, <2>2 DEF RunsOK, PhaseOK
  <2> QED BY <1>i, <2>1, <2>2, <2>3, OutsideMoves
<1> QED BY <1>1, <1>2, <1>3, <1>4, <1>5, <1>6 DEF DisposeStep


-----------------------------------------------------------------------------
(* The theorems about owners                                               *)

\* At first nobody has a worker.
LEMMA InitOwners == ExecInit => OwnersInv
PROOF
<1> SUFFICES ASSUME ExecInit PROVE OwnersInv
  OBVIOUS
<1>1. <<>> \in Seq(Entries) /\ <<>> \in Seq(Workers) /\ 1..Len(<<>>) = {}
  OBVIOUS
<1>2. Members(<<>>) = {} /\ CachedWorkers(<<>>) = {}
  BY <1>1 DEF Members, CachedWorkers
<1>3. /\ \A c \in Calls : hand[c] = None /\ at[c] = "idle"
      /\ \A s \in Sessions : Leaving[s] = None /\ resetting[s] = None /\ ending[s] = None
      /\ \A w \in Workers : proc[w] = "none" /\ served[w] = {}
      /\ cache = <<>> /\ phase = "open" /\ doomed = <<>> /\ None \notin Workers
  BY ExecutionAssumption DEF ExecInit, Leaving
<1>4. Sole(hand, cache, Leaving)
  BY <1>1, <1>2, <1>3 DEF Sole
<1>5. GraspOK /\ LeavingOK /\ PhaseOK
  BY <1>1, <1>3 DEF ExecInit, GraspOK, LeavingOK, PhaseOK, Grasping
<1>6. RunsOK
  <2>1. {w \in Workers : proc[w] \in Live} = {} /\ Held(hand, cache, Leaving) = {}
    BY <1>2, <1>3 DEF Held, Live
  <2> QED BY <1>3, <2>1 DEF ExecInit, RunsOK, TearingDown
<1>7. ServedOK
  BY <1>2, <1>3 DEF ExecInit, ServedOK, Hosts
<1> QED BY <1>4, <1>5, <1>6, <1>7 DEF OwnersInv

\* No step breaks the invariant of the owners.
LEMMA StepOwners == SlotsInv /\ OwnersInv /\ [ExecNext]_execVars => OwnersInv'
PROOF
<1> SUFFICES ASSUME SlotsInv, OwnersInv, [ExecNext]_execVars PROVE OwnersInv'
  OBVIOUS
<1>1. ASSUME NEW c \in Calls, CallStep(c) PROVE OwnersInv'
  <2>1. CASE Proceed(c) \/ UsePrimary(c) \/ Fail(c) \/ CreateFails(c)
    BY <2>1, AcquireOwns
  <2>2. CASE ProceedRetained(c) \/ UseCached(c) \/ SearchFails(c) \/ Scavenge(c)
    BY <2>2, SearchOwns
  <2>3. CASE \E compatible \in BOOLEAN : Created(c, FreeWorker, compatible)
    <3>1. \E w \in Workers, compatible \in BOOLEAN : Created(c, w, compatible)
      BY <2>3 DEF Created
    <3> QED BY <3>1, WorkerOwns
  <2>4. CASE \E ok \in BOOLEAN : \/ DiscardRetainedDone(c, ok) \/ DiscardDone(c, ok) \/ StartDone(c, ok)
                                 \/ RejectDone(c, ok) \/ ReleaseDone(c, ok)
    BY <2>4, WorkerOwns
  <2>5. CASE \E ok \in BOOLEAN : EndTurn(c, ok)
    BY <2>5, EndOwns
  <2> QED BY <1>1, <2>1, <2>2, <2>3, <2>4, <2>5 DEF CallStep
<1>2. ASSUME NEW c \in Calls, \/ Admit(c) \/ AdmitRefused(c)
                              \/ \E s \in Sessions, p \in Calls \cup {None} : Submit(c, s, p)
      PROVE  OwnersInv'
  BY <1>2, AcquireOwns
<1>3. CASE \E s \in Sessions : SessionStep(s) \/ Reset(s) \/ ResetShared(s) \/ EndTemp(s)
  BY <1>3, SessionOwns
<1>4. CASE \/ \E i \in 1..Cardinality(Workers) : CachedBreaks(i)
           \/ Dispose \/ DisposeStep \/ UNCHANGED execVars
  BY <1>4, DisposeOwns
<1> QED BY <1>1, <1>2, <1>3, <1>4 DEF ExecNext

\* Slots are accounted for and workers owned, always.
LEMMA OwnersHold == ExecSpec => [](SlotsInv /\ OwnersInv)
PROOF
<1>1. ExecInit => SlotsInv /\ OwnersInv
  BY InitSlots, InitOwners
<1>2. SlotsInv /\ OwnersInv /\ [ExecNext]_execVars => (SlotsInv /\ OwnersInv)'
  BY StepSlots, StepOwners
<1> QED BY <1>1, <1>2, PTL DEF ExecSpec

\* A set whose elements are all equal has one at most.
LEMMA AtMostOne ==
  ASSUME NEW S, \A x, y \in S : x = y
  PROVE  Cardinality(S) \in {0, 1} /\ (S = {} => Cardinality(S) = 0)
PROOF
<1>1. CASE S = {}
  BY <1>1, FS_EmptySet
<1>2. ASSUME NEW x \in S PROVE Cardinality(S) = 1
  <2>1. S = {x}
    BY <1>2
  <2> QED BY <2>1, FS_Singleton
<1> QED BY <1>1, <1>2

\* OneOwnerPerWorker: a worker is leased, started or torn down by one call, or
\* lies in _cache once, or is on its way out for one session; and the call that
\* has it owns a permit (_acquireWorker, _release, resetSessionContinuity,
\* releaseTemporarySession).
THEOREM ExecOneOwner == ExecSpec => []OneOwnerPerWorker
PROOF
<1>1. SlotsInv /\ OwnersInv => OneOwnerPerWorker
  <2> SUFFICES ASSUME SlotsInv, OwnersInv PROVE OneOwnerPerWorker
    OBVIOUS
  <2>1. Sole(hand, cache, Leaving) /\ LeavingOK /\ None \notin Workers
    BY Known DEF OwnersInv
  <2>2. ASSUME NEW w \in Workers
        PROVE Cardinality({c \in Calls : hand[c] = w})
                + Cardinality({i \in 1..Len(cache) : cache[i].worker = w})
                + Cardinality({s \in Sessions : resetting[s] = w})
                + Cardinality({s \in Sessions : ending[s] = w}) <= 1
    <3> DEFINE A == {c \in Calls : hand[c] = w}
               B == {i \in 1..Len(cache) : cache[i].worker = w}
               C == {s \in Sessions : resetting[s] = w}
               D == {s \in Sessions : ending[s] = w}
    <3>1. /\ \A s \in C : Leaving[s] = w /\ Kind[s] = "bound"
          /\ \A s \in D : Leaving[s] = w /\ Kind[s] = "temp"
      BY <2>1 DEF LeavingOK, Leaving
    <3>2. w # None
      BY <2>1
    <3>3. /\ \A x, y \in A : x = y
          /\ \A x, y \in B : x = y
          /\ \A x, y \in C : x = y
          /\ \A x, y \in D : x = y
      BY <2>1, <3>1, <3>2 DEF Sole
    <3>4. B = {} \/ w \in CachedWorkers(cache)
      BY DEF CachedWorkers, Members
    <3>5. /\ A = {} \/ B = {}
          /\ A = {} \/ C = {}
          /\ A = {} \/ D = {}
          /\ B = {} \/ C = {}
          /\ B = {} \/ D = {}
          /\ C = {} \/ D = {}
      <4>1. A = {} \/ B = {}
        BY <2>1, <3>4 DEF Sole
      <4>2. (A = {} \/ C = {}) /\ (A = {} \/ D = {})
        BY <2>1, <3>1, <3>2 DEF Sole
      <4>3. (B = {} \/ C = {}) /\ (B = {} \/ D = {})
        BY <2>1, <3>1, <3>4 DEF Sole
      <4>4. C = {} \/ D = {}
        BY <2>1, <3>1, <3>2 DEF Sole
      <4> QED BY <4>1, <4>2, <4>3, <4>4
    <3> HIDE DEF A, B, C, D
    <3>6. /\ Cardinality(A) \in {0, 1} /\ (A = {} => Cardinality(A) = 0)
          /\ Cardinality(B) \in {0, 1} /\ (B = {} => Cardinality(B) = 0)
          /\ Cardinality(C) \in {0, 1} /\ (C = {} => Cardinality(C) = 0)
          /\ Cardinality(D) \in {0, 1} /\ (D = {} => Cardinality(D) = 0)
      BY <3>3, AtMostOne
    <3>7. Cardinality(A) + Cardinality(B) + Cardinality(C) + Cardinality(D) <= 1
      BY <3>5, <3>6
    <3> QED BY <3>7 DEF A, B, C, D
  <2>3. ASSUME NEW c \in Calls, hand[c] # None PROVE permit[c]
    <3>1. at[c] \in Grasping
      BY <2>3 DEF OwnersInv, GraspOK
    <3> QED BY <3>1 DEF Grasping, WithPermit, SlotsInv, SlotTables, PermitsOK
  <2> QED BY <2>2, <2>3 DEF OneOwnerPerWorker
<1> QED BY <1>1, OwnersHold, PTL

\* ContainerServesOneSession: a worker that has served a session under any but
\* the host policy has served no other, through every reuse, eviction and
\* retained permit (_takeCached, _scavenge, releaseTemporarySession).
THEOREM ExecContainersServeOne == ExecSpec => []ContainerServesOneSession
PROOF
<1>1. SlotsInv /\ OwnersInv => ContainerServesOneSession
  <2> SUFFICES ASSUME OwnersInv, NEW w \in Workers, NEW s \in served[w], Kind[s] # "host"
               PROVE  Cardinality(served[w]) = 1
    BY DEF ContainerServesOneSession
  <2>1. Hosts(served[w]) \/ \E r \in Sessions : served[w] \subseteq {r}
    BY DEF OwnersInv, ServedOK
  <2>2. served[w] = {s}
    BY <2>1 DEF Hosts
  <2> QED BY <2>2, FS_Singleton
<1> QED BY <1>1, OwnersHold, PTL

\* DisposeLeavesNothing: once dispose is over no call is left that could start
\* a worker, and whatever still runs is being torn down by an unfinished reset
\* or end of a temporary session (dispose, _completeDrainIfIdle).
THEOREM ExecDisposeLeavesNothing == ExecSpec => []DisposeLeavesNothing
PROOF
<1>1. SlotsInv /\ OwnersInv => DisposeLeavesNothing
  <2> SUFFICES ASSUME SlotsInv, OwnersInv, phase = "closed"
               PROVE  /\ \A c \in Calls : at[c] = "idle"
                      /\ \A w \in Workers : proc[w] \in Live =>
                           \E s \in Sessions : w \in {resetting[s], ending[s]}
    BY DEF DisposeLeavesNothing
  <2>1. \A c \in Calls : at[c] = "idle"
    BY DEF OwnersInv, PhaseOK
  <2>2. ASSUME NEW w \in Workers, proc[w] \in Live PROVE \E s \in Sessions : w \in {resetting[s], ending[s]}
    <3>1. PICK s \in Sessions : Leaving[s] = w
      BY <2>2 DEF OwnersInv, RunsOK, TearingDown
    <3> QED BY <3>1 DEF Leaving
  <2> QED BY <2>1, <2>2
<1> QED BY <1>1, OwnersHold, PTL


-----------------------------------------------------------------------------
(* What the gates withhold.                                                *)

\* How many slots a release withholds, and a step that withholds n.
Count(b) == IF b THEN 1 ELSE 0
Withholds(n) ==
  /\ gates'["worker"].quarantined = gates["worker"].quarantined + n
  /\ gates'["primary"].quarantined = gates["primary"].quarantined

\* A release withholds a slot exactly when it is a quarantine.
LEMMA ReleaseWithholds ==
  ASSUME NEW g \in AnyGate, NEW cap \in Int, NEW quarantine, quarantine \in BOOLEAN
  PROVE  Release(cap, g, quarantine).quarantined = g.quarantined + Count(quarantine)
PROOF
<1> DEFINE h == GiveBack(g, quarantine)
<1>1. h \in AnyGate /\ h.quarantined = g.quarantined + Count(quarantine)
  BY DEF AnyGate, GiveBack, Count
<1> HIDE DEF h
<1>2. Drop(h).quarantined = h.quarantined /\ Drain(cap, h).quarantined = h.quarantined
  BY <1>1 DEF Drop, Drain, AnyGate
<1>3. Release(cap, g, quarantine) \in {Drop(h), Drain(cap, h)}
  BY DEF Release, h
<1> QED BY <1>1, <1>2, <1>3

\* A permit goes back or is withheld.
LEMMA GiveUpWithholds ==
  ASSUME AdmissionInv, NEW l \in Lanes, NEW c \in Calls \cup {None}, NEW quarantine, quarantine \in BOOLEAN,
         NEW next, GiveUp(l, c, quarantine, next), l = "worker" \/ ~quarantine
  PROVE  Withholds(Count(quarantine))
PROOF
<1>1. /\ gates \in [Lanes -> AnyGate] /\ gates[l] \in AnyGate /\ Cap(l) \in Int
      /\ Lanes = {"primary", "worker"}
  BY ExecutionAssumption DEF AdmissionInv, QueuesOK, Cap, Lanes
<1>2. gates'[l] = Release(Cap(l), gates[l], quarantine) /\ \A m \in Lanes \ {l} : gates'[m] = gates[m]
  BY <1>1 DEF GiveUp, Regate
<1>3. gates'[l].quarantined = gates[l].quarantined + Count(quarantine)
  BY <1>1, <1>2, ReleaseWithholds
<1>4. gates["primary"].quarantined \in Int /\ gates["worker"].quarantined \in Int
  BY <1>1 DEF AnyGate
<1> QED BY <1>1, <1>2, <1>3, <1>4 DEF Withholds, Count

\* A permit is asked for.
LEMMA AskWithholds ==
  ASSUME AdmissionInv, NEW l \in Lanes, NEW c \in Calls, NEW g \in AnyGate, NEW lucky, RequestPermit(c, l, g, lucky),
         NEW n \in {0, 1}, g.quarantined = gates[l].quarantined + n, l = "worker" \/ n = 0
  PROVE  Withholds(n)
PROOF
<1> DEFINE a == Answer(l, g, c)
<1>1. gates \in [Lanes -> AnyGate] /\ Lanes = {"primary", "worker"}
  BY DEF AdmissionInv, QueuesOK, Lanes
<1>2. gates'[l] = Requested(g, c, a) /\ \A m \in Lanes \ {l} : gates'[m] = gates[m]
  BY <1>1 DEF RequestPermit, Regate
<1> HIDE DEF a
<1>3. Requested(g, c, a).quarantined = g.quarantined
  BY DEF Requested, Take, Enqueue, AnyGate
<1>4. gates["primary"].quarantined \in Int /\ gates["worker"].quarantined \in Int
  BY <1>1 DEF AnyGate
<1> QED BY <1>1, <1>2, <1>3, <1>4 DEF Withholds

\* Untouched gates withhold nothing more.
LEMMA SameWithheld ==
  ASSUME AdmissionInv, UNCHANGED gates
  PROVE  Withholds(0)
PROOF
<1>1. gates["primary"].quarantined \in Int /\ gates["worker"].quarantined \in Int
  BY DEF AdmissionInv, QueuesOK, AnyGate, Lanes
<1> QED BY <1>1 DEF Withholds

\* The steps of a call that withhold nothing.
LEMMA NothingWithheld ==
  ASSUME AdmissionInv, NEW c \in Calls,
         \/ \E s \in Sessions, p \in Calls \cup {None} : Submit(c, s, p)
         \/ Admit(c) \/ AdmitRefused(c) \/ Fail(c) \/ Proceed(c) \/ UsePrimary(c) \/ CreateFails(c)
         \/ ProceedRetained(c) \/ UseCached(c) \/ SearchFails(c) \/ Scavenge(c)
         \/ \E w \in Workers, ok \in BOOLEAN : Created(c, w, ok)
         \/ \E ok \in BOOLEAN : StartDone(c, ok)
         \/ \E ok \in BOOLEAN : EndTurn(c, ok)
  PROVE  Withholds(0)
PROOF
<1>l. Lanes = {"primary", "worker"} /\ Lane(c) \in Lanes /\ c \in Calls \cup {None} /\ FALSE \in BOOLEAN
      /\ Count(FALSE) = 0 /\ Count(TRUE) = 1
  BY DEF Lanes, Lane, Count
<1>1. CASE \/ \E s \in Sessions, p \in Calls \cup {None} : Submit(c, s, p)
           \/ Admit(c) \/ AdmitRefused(c) \/ Fail(c)
           \/ ProceedRetained(c) \/ UseCached(c) \/ SearchFails(c) \/ Scavenge(c)
           \/ \E w \in Workers, ok \in BOOLEAN : Created(c, w, ok)
           \/ \E ok \in BOOLEAN : StartDone(c, ok)
  <2>1. UNCHANGED gates
    BY <1>1 DEF Submit, Admit, AdmitRefused, Fail, ProceedRetained, UseCached, SearchFails, Scavenge, Recycle, Created, StartDone
  <2> QED BY <2>1, SameWithheld
<1>2. CASE Proceed(c)
  <2>1. RequestPermit(c, Lane(c), gates[Lane(c)], {}) /\ gates[Lane(c)] \in AnyGate
    BY <1>2, <1>l DEF Proceed, AdmissionInv, QueuesOK
  <2>2. gates[Lane(c)].quarantined = gates[Lane(c)].quarantined + 0
    BY <2>1 DEF AnyGate
  <2> QED BY <1>l, <2>1, <2>2, AskWithholds
<1>3. CASE UsePrimary(c) \/ CreateFails(c) \/ \E ok \in BOOLEAN : EndTurn(c, ok)
  <2>1. CASE UNCHANGED gates
    BY <2>1, SameWithheld
  <2>2. ASSUME NEW l \in Lanes, NEW next, GiveUp(l, c, FALSE, next) PROVE Withholds(0)
    BY <1>l, <2>2, GiveUpWithholds
  <2>3. UNCHANGED gates \/ \E l \in Lanes, next \in {"failing", "idle"} : GiveUp(l, c, FALSE, next)
    <3>1. CASE UsePrimary(c)
      BY <1>l, <3>1 DEF UsePrimary
    <3>2. CASE CreateFails(c)
      BY <1>l, <3>2 DEF CreateFails
    <3>3. ASSUME NEW ok, ok \in BOOLEAN, EndTurn(c, ok)
          PROVE  UNCHANGED gates \/ GiveUp(Lane(c), c, FALSE, "idle")
      BY <3>3 DEF EndTurn
    <3> QED BY <1>3, <1>l, <3>1, <3>2, <3>3
  <2> QED BY <2>1, <2>2, <2>3
<1> QED BY <1>1, <1>2, <1>3

\* Only a teardown that cannot be confirmed withholds a slot.
LEMMA TeardownWithholds ==
  ASSUME AdmissionInv, NEW c \in Calls, NEW ok, ok \in BOOLEAN,
         DiscardRetainedDone(c, ok) \/ DiscardDone(c, ok) \/ RejectDone(c, ok) \/ ReleaseDone(c, ok)
  PROVE  Withholds(Count(~ok))
PROOF
<1>l. Lanes = {"primary", "worker"} /\ Lane(c) \in Lanes /\ c \in Calls \cup {None} /\ FALSE \in BOOLEAN
      /\ Count(FALSE) = 0 /\ Count(TRUE) = 1
  BY DEF Lanes, Lane, Count
<1>1. CASE DiscardRetainedDone(c, ok)
  <2> DEFINE g == Release(PoolSize, gates["worker"], ~ok)
             s == Served(PoolSize, gates["worker"], ~ok)
  <2>1. CASE GiveUp("worker", c, ~ok, "failing")
    BY <1>l, <2>1, GiveUpWithholds
  <2>2. CASE RequestPermit(c, "worker", g, s)
    <3>1. gates["worker"] \in AnyGate /\ Distinct(gates["worker"].waiters) /\ PoolSize \in Int /\ (~ok) \in BOOLEAN
      BY <1>l, ExecutionAssumption DEF AdmissionInv, QueuesOK
    <3>2. g \in AnyGate /\ g.quarantined = gates["worker"].quarantined + Count(~ok) /\ Count(~ok) \in {0, 1}
      BY <3>1, ReleaseQueue, ReleaseWithholds DEF Count
    <3> HIDE DEF g, s
    <3> QED BY <1>l, <2>2, <3>2, AskWithholds
  <2> QED BY <1>1, <2>1, <2>2 DEF DiscardRetainedDone
<1>2. CASE DiscardDone(c, ok)
  <2>1. CASE ok
    <3>1. UNCHANGED gates /\ Count(~ok) = 0
      BY <1>2, <2>1 DEF DiscardDone, Count
    <3> QED BY <3>1, SameWithheld
  <2>2. CASE ~ok
    <3>1. GiveUp("worker", c, TRUE, "failing") /\ Count(~ok) = Count(TRUE) /\ TRUE \in BOOLEAN
      BY <1>2, <2>2 DEF DiscardDone, Count
    <3> QED BY <1>l, <3>1, GiveUpWithholds
  <2> QED BY <2>1, <2>2
<1>3. CASE RejectDone(c, ok) \/ ReleaseDone(c, ok)
  <2>1. (\E next \in {"failing", "idle"} : GiveUp("worker", c, ~ok, next)) /\ (~ok) \in BOOLEAN
    BY <1>3 DEF RejectDone, ReleaseDone
  <2> QED BY <1>l, <2>1, GiveUpWithholds
<1> QED BY <1>1, <1>2, <1>3


\* Resets, ends of temporary sessions and disposal.
LEMMA OutsideWithholds ==
  ASSUME AdmissionInv
  PROVE  /\ (\/ \E s \in Sessions : Reset(s) \/ ResetShared(s) \/ EndTemp(s)
             \/ \E i \in 1..Cardinality(Workers) : CachedBreaks(i)
             \/ Dispose \/ DisposeStep \/ UNCHANGED execVars) => Withholds(0)
         /\ \A s \in Sessions, ok \in BOOLEAN : EndTempDone(s, ok) => Withholds(Count(~ok))
         /\ \A s \in Sessions, ok \in BOOLEAN : ResetDone(s, ok) =>
              (\E n \in {0, 1} : Withholds(n)) /\ \A l \in Lanes : gates'[l].active = gates[l].active
PROOF
<1>l. Lanes = {"primary", "worker"} /\ None \in Calls \cup {None} /\ gates \in [Lanes -> AnyGate]
  BY DEF Lanes, AdmissionInv, QueuesOK
<1>1. ASSUME \/ \E s \in Sessions : Reset(s) \/ ResetShared(s) \/ EndTemp(s)
             \/ \E i \in 1..Cardinality(Workers) : CachedBreaks(i)
             \/ Dispose \/ DisposeStep \/ UNCHANGED execVars
      PROVE  Withholds(0)
  <2>1. CASE Dispose
    <3>1. ASSUME NEW l \in Lanes PROVE gates'[l].quarantined = gates[l].quarantined + 0
      <4>1. gates'[l] = Close(gates[l]) /\ gates[l] \in AnyGate
        BY <1>l, <2>1 DEF Dispose
      <4> QED BY <4>1 DEF Close, Drop, AnyGate
    <3>2. gates["primary"].quarantined \in Int
      BY <1>l DEF AnyGate
    <3> QED BY <1>l, <3>1, <3>2 DEF Withholds
  <2>2. CASE \/ \E s \in Sessions : Reset(s) \/ ResetShared(s) \/ EndTemp(s)
             \/ \E i \in 1..Cardinality(Workers) : CachedBreaks(i)
             \/ DisposeStep \/ UNCHANGED execVars
    <3>1. UNCHANGED gates
      BY <2>2 DEF Reset, ResetShared, EndTemp, CachedBreaks, DisposeStep, BeginTeardown, DisposeOne, FinishDispose, execVars
    <3> QED BY <3>1, SameWithheld
  <2> QED BY <1>1, <2>1, <2>2
<1>2. ASSUME NEW s \in Sessions, NEW ok \in BOOLEAN, EndTempDone(s, ok) PROVE Withholds(Count(~ok))
  <2>1. GiveUp("worker", None, ~ok, "idle") /\ (~ok) \in BOOLEAN
    BY <1>2 DEF EndTempDone
  <2> QED BY <1>l, <2>1, GiveUpWithholds
<1>3. ASSUME NEW s \in Sessions, NEW ok, ok \in BOOLEAN, ResetDone(s, ok)
      PROVE  (\E n \in {0, 1} : Withholds(n)) /\ \A l \in Lanes : gates'[l].active = gates[l].active
  <2>1. CASE ok
    <3>1. UNCHANGED gates
      BY <1>3, <2>1 DEF ResetDone
    <3> QED BY <3>1, SameWithheld
  <2>2. CASE ~ok
    <3> DEFINE g == QuarantineSlot(PoolSize, gates["worker"])
    <3>1. gates'["worker"] = g /\ gates'["primary"] = gates["primary"]
      BY <1>l, <1>3, <2>2 DEF ResetDone, Regate
    <3>2. gates["worker"] \in AnyGate /\ gates["primary"].quarantined \in Int /\ gates["worker"].quarantined \in Int
      BY <1>l DEF AnyGate
    <3>3. g.active = gates["worker"].active /\ \E n \in {0, 1} : g.quarantined = gates["worker"].quarantined + n
      <4>1. LET q == Quarantine(gates["worker"]) IN
            /\ q.active = gates["worker"].active /\ q.quarantined = gates["worker"].quarantined + 1
            /\ Drop(q).active = q.active /\ Drop(q).quarantined = q.quarantined
        BY <3>2 DEF Quarantine, Drop, AnyGate
      <4>2. gates["worker"].quarantined = gates["worker"].quarantined + 0
        BY <3>2
      <4> QED BY <4>1, <4>2 DEF QuarantineSlot
    <3> HIDE DEF g
    <3> QED BY <1>l, <3>1, <3>2, <3>3 DEF Withholds
  <2> QED BY <2>1, <2>2
<1> QED BY <1>1, <1>2, <1>3

-----------------------------------------------------------------------------
(* Types                                                                   *)

\* What the types need beyond that: whoever waits waits for a call, nothing is
\* withheld in negative numbers, and a closed gate still counts the permits of
\* the temporary sessions that end.
CountsOK ==
  /\ parent \in [Calls -> Calls \cup {None}]
  /\ \A l \in Lanes : gates[l].quarantined \in Nat
  /\ phase = "closed" => gates["worker"].active >= Cardinality(Ending) /\ gates["primary"].active >= 0

\* Calls are part of no step once they have drained.
LEMMA CallsDrained ==
  ASSUME SlotsInv, OwnersInv, NEW c \in Calls,
         \/ CallStep(c) \/ Admit(c) \/ AdmitRefused(c)
         \/ \E s \in Sessions, p \in Calls \cup {None} : Submit(c, s, p)
  PROVE  phase \notin Over /\ phase' \notin TearingDown
PROOF
<1>1. phase \notin Over /\ phase \in {"open", "draining", "drained", "closing", "closed"}
  <2>1. at[c] # "idle" \/ phase = "open"
    BY DEF CallStep, Proceed, ProceedRetained, UsePrimary, UseCached, SearchFails, Scavenge, Fail, CreateFails, Created,
       DiscardRetainedDone, DiscardDone, StartDone, RejectDone, EndTurn, ReleaseDone, Admit, AdmitRefused, Submit
  <2> QED BY <2>1, Known DEF OwnersInv, PhaseOK, Over
<1>2. phase' \in {phase, "drained"}
  <2>1. CASE CallStep(c)
    BY <2>1 DEF CallStep, Proceed, ProceedRetained, UsePrimary, UseCached, SearchFails, Scavenge, Recycle, Fail, CreateFails,
       Created, DiscardRetainedDone, DiscardDone, StartDone, RejectDone, EndTurn, ReleaseDone, Forget, Settled
  <2>2. CASE \/ Admit(c) \/ AdmitRefused(c)
             \/ \E s \in Sessions, p \in Calls \cup {None} : Submit(c, s, p)
    BY <2>2 DEF Admit, AdmitRefused, Submit, Forget, Settled
  <2> QED BY <2>1, <2>2
<1> QED BY <1>1, <1>2 DEF Over, TearingDown

\* Who waits for whom is known of calls only.
LEMMA ParentsTyped ==
  ASSUME parent \in [Calls -> Calls \cup {None}], [ExecNext]_execVars
  PROVE  parent' \in [Calls -> Calls \cup {None}]
PROOF
<1>1. ASSUME NEW c \in Calls, CallStep(c) PROVE parent' \in [Calls -> Calls \cup {None}]
  <2>1. parent' = parent \/ parent' = [parent EXCEPT ![c] = None]
    BY <1>1 DEF CallStep, Proceed, ProceedRetained, UsePrimary, UseCached, SearchFails, Scavenge, Recycle, Fail, CreateFails,
       Created, DiscardRetainedDone, DiscardDone, StartDone, RejectDone, EndTurn, ReleaseDone, Forget
  <2> QED BY <2>1
<1>2. ASSUME NEW c \in Calls, \/ Admit(c) \/ AdmitRefused(c)
                              \/ \E s \in Sessions, p \in Calls \cup {None} : Submit(c, s, p)
      PROVE  parent' \in [Calls -> Calls \cup {None}]
  <2>1. parent' = parent \/ \E p \in Calls \cup {None} : parent' = [parent EXCEPT ![c] = p]
    BY <1>2 DEF Admit, AdmitRefused, Submit, Forget
  <2> QED BY <2>1
<1>3. ASSUME \/ \E s \in Sessions : SessionStep(s) \/ Reset(s) \/ ResetShared(s) \/ EndTemp(s)
             \/ \E i \in 1..Cardinality(Workers) : CachedBreaks(i)
             \/ Dispose \/ DisposeStep \/ UNCHANGED execVars
      PROVE  parent' \in [Calls -> Calls \cup {None}]
  BY <1>3 DEF SessionStep, ResetDone, EndTempDone, Reset, ResetShared, EndTemp, CachedBreaks, Dispose, DisposeStep,
     BeginTeardown, DisposeOne, FinishDispose, execVars, callVars
<1> QED BY <1>1, <1>2, <1>3 DEF ExecNext

\* Any step withholds one slot more at most, at the worker gate.
LEMMA StepWithholds ==
  ASSUME AdmissionInv, [ExecNext]_execVars
  PROVE  \E n \in {0, 1} : Withholds(n)
PROOF
<1>0. \A ok \in BOOLEAN : Count(~ok) \in {0, 1}
  BY DEF Count
<1>1. ASSUME NEW c \in Calls, CallStep(c) PROVE \E n \in {0, 1} : Withholds(n)
  <2>1. CASE \E ok \in BOOLEAN : DiscardRetainedDone(c, ok) \/ DiscardDone(c, ok) \/ RejectDone(c, ok) \/ ReleaseDone(c, ok)
    BY <1>0, <2>1, TeardownWithholds
  <2>2. CASE \E ok \in BOOLEAN : StartDone(c, ok) \/ EndTurn(c, ok)
    BY <2>2, NothingWithheld
  <2>3. CASE \/ Proceed(c) \/ ProceedRetained(c) \/ UsePrimary(c) \/ UseCached(c)
             \/ SearchFails(c) \/ Scavenge(c) \/ Fail(c) \/ CreateFails(c)
    BY <2>3, NothingWithheld
  <2>4. CASE \E compatible \in BOOLEAN : Created(c, FreeWorker, compatible)
    <3>1. \E w \in Workers, compatible \in BOOLEAN : Created(c, w, compatible)
      BY <2>4 DEF Created
    <3> QED BY <3>1, NothingWithheld
  <2> QED BY <1>1, <2>1, <2>2, <2>3, <2>4 DEF CallStep
<1>2. ASSUME NEW c \in Calls, \/ Admit(c) \/ AdmitRefused(c)
                              \/ \E s \in Sessions, p \in Calls \cup {None} : Submit(c, s, p)
      PROVE  \E n \in {0, 1} : Withholds(n)
  BY <1>2, NothingWithheld
<1>3. ASSUME \/ \E s \in Sessions : Reset(s) \/ ResetShared(s) \/ EndTemp(s)
             \/ \E i \in 1..Cardinality(Workers) : CachedBreaks(i)
             \/ Dispose \/ DisposeStep \/ UNCHANGED execVars
      PROVE  \E n \in {0, 1} : Withholds(n)
  <2>1. Withholds(0)
    BY <1>3, OutsideWithholds
  <2> QED BY <2>1
<1>4. ASSUME NEW s \in Sessions, SessionStep(s) PROVE \E n \in {0, 1} : Withholds(n)
  BY <1>0, <1>4, OutsideWithholds DEF SessionStep
<1> QED BY <1>1, <1>2, <1>3, <1>4 DEF ExecNext

\* No count falls below zero.
LEMMA StepCounts == SlotsInv /\ OwnersInv /\ CountsOK /\ [ExecNext]_execVars => CountsOK'
PROOF
<1> SUFFICES ASSUME SlotsInv, OwnersInv, CountsOK, [ExecNext]_execVars PROVE CountsOK'
  OBVIOUS
<1>i. AdmissionInv /\ CacheOK /\ Lanes = {"primary", "worker"} /\ gates \in [Lanes -> AnyGate]
  BY DEF SlotsInv, SlotTables, Lanes, AdmissionInv, QueuesOK
<1>1. parent' \in [Calls -> Calls \cup {None}]
  BY ParentsTyped DEF CountsOK
<1>2. \A l \in Lanes : gates'[l].quarantined \in Nat
  <2>1. PICK n \in {0, 1} : Withholds(n)
    BY <1>i, StepWithholds
  <2> QED BY <1>i, <2>1 DEF Withholds, CountsOK
<1>3. ASSUME phase' = "closed" PROVE gates'["worker"].active >= Cardinality(Ending') /\ gates'["primary"].active >= 0
  <2>0. gates["worker"].active >= Cardinality(Ending) /\ gates["primary"].active >= 0
    <3>1. CASE phase = "closed"
      BY <3>1 DEF CountsOK
    <3>2. CASE phase # "closed"
      <4>1. \A l \in Lanes : Slack(l) = Extra(l) /\ Cardinality(Holders(l)) \in Nat /\ gates[l].active \in Int
        BY <1>i, <3>2, FiniteHolders DEF SlotsInv, Balanced, AnyGate
      <4>2. Cardinality(Kept) \in Nat /\ Cardinality(Ending) \in Nat
        BY <1>i, FiniteExtra
      <4> QED BY <1>i, <4>1, <4>2 DEF Slack, Extra
    <3> QED BY <3>1, <3>2
  <2>1. CASE \E c \in Calls : \/ CallStep(c) \/ Admit(c) \/ AdmitRefused(c)
                              \/ \E s \in Sessions, p \in Calls \cup {None} : Submit(c, s, p)
    BY <1>3, <2>1, CallsDrained DEF TearingDown
  <2>2. CASE \/ \E s \in Sessions : Reset(s) \/ ResetShared(s)
             \/ \E i \in 1..Cardinality(Workers) : CachedBreaks(i)
             \/ DisposeStep \/ UNCHANGED execVars
    <3>1. UNCHANGED gates /\ ending' = ending
      BY <2>2 DEF Reset, ResetShared, CachedBreaks, DisposeStep, BeginTeardown, DisposeOne, FinishDispose, execVars
    <3>2. Ending' = Ending
      BY <3>1 DEF Ending
    <3> QED BY <2>0, <3>1, <3>2
  <2>3. CASE Dispose \/ \E s \in Sessions : EndTemp(s)
    BY <1>3, <2>3 DEF Dispose, EndTemp
  <2>4. ASSUME NEW s \in Sessions, NEW ok \in BOOLEAN, ResetDone(s, ok)
        PROVE  gates'["worker"].active >= Cardinality(Ending') /\ gates'["primary"].active >= 0
    <3>1. Ending' = Ending
      BY <2>4 DEF Ending, ResetDone
    <3> QED BY <1>i, <2>0, <2>4, <3>1, OutsideWithholds
  <2>5. ASSUME NEW s \in Sessions, NEW ok, ok \in BOOLEAN, EndTempDone(s, ok)
        PROVE  gates'["worker"].active >= Cardinality(Ending') /\ gates'["primary"].active >= 0
    <3>1. /\ ending[s] # None /\ GiveUp("worker", None, ~ok, "idle") /\ ending' = [ending EXCEPT ![s] = None]
      BY <2>5 DEF EndTempDone
    <3>2. Cardinality(Ending') = Cardinality(Ending) - 1 /\ Cardinality(Ending) \in Nat
      <4>1. Ending' = Ending \ {s} /\ s \in Ending
        BY <1>i, <3>1 DEF Ending, CacheOK
      <4> QED BY <1>i, <4>1, FiniteExtra, FS_RemoveElement
    <3>3. /\ gates'["worker"] = Release(PoolSize, gates["worker"], ~ok) /\ gates'["primary"] = gates["primary"]
      BY <1>i, <3>1 DEF GiveUp, Regate, Cap
    <3>4. gates["worker"] \in AnyGate /\ Distinct(gates["worker"].waiters) /\ PoolSize \in Int
      BY <1>i, ExecutionAssumption DEF AdmissionInv, QueuesOK
    <3> DEFINE served_ == Served(PoolSize, gates["worker"], ~ok)
    <3>5. IsFiniteSet(served_) /\ gates'["worker"].active = gates["worker"].active - 1 + Cardinality(served_)
      BY <3>3, <3>4, ReleaseCounts
    <3> HIDE DEF served_
    <3>6. Cardinality(served_) \in Nat /\ gates["worker"].active \in Int
      BY <3>4, <3>5, FS_CardinalityType DEF AnyGate
    <3> QED BY <2>0, <3>2, <3>3, <3>5, <3>6
  <2> QED BY <2>1, <2>2, <2>3, <2>4, <2>5 DEF ExecNext, SessionStep
<1> QED BY <1>1, <1>2, <1>3 DEF CountsOK

\* The invariants and the counts give every table its type.
LEMMA TypesKnown ==
  ASSUME SlotsInv, OwnersInv, CountsOK
  PROVE  ExecTypeOK
PROOF
<1>i. AdmissionInv /\ CacheOK /\ Lanes = {"primary", "worker"} /\ gates \in [Lanes -> AnyGate]
  BY DEF SlotsInv, SlotTables, Lanes, AdmissionInv, QueuesOK
<1>1. ASSUME NEW l \in Lanes PROVE gates[l].active \in Nat
  <2>1. gates[l].active \in Int /\ Cardinality(Kept) \in Nat /\ Cardinality(Ending) \in Nat
    BY <1>i, FiniteExtra DEF AnyGate
  <2>2. CASE phase = "closed"
    BY <1>i, <2>1, <2>2 DEF CountsOK
  <2>3. CASE phase # "closed"
    <3>1. Slack(l) = Extra(l) /\ Cardinality(Holders(l)) \in Nat
      BY <1>i, <2>3, FiniteHolders DEF SlotsInv, Balanced
    <3> QED BY <2>1, <3>1 DEF Slack, Extra
  <2> QED BY <2>2, <2>3
<1>2. gates \in [Lanes -> Gates(Calls)]
  <2>1. ASSUME NEW l \in Lanes PROVE gates[l] \in Gates(Calls)
    <3>1. gates[l] \in AnyGate /\ gates[l].active \in Nat /\ gates[l].quarantined \in Nat
      BY <1>i, <1>1 DEF CountsOK
    <3> QED BY <3>1 DEF AnyGate, Gates
  <2> QED BY <1>i, <2>1
<1>3. permit \in [Calls -> BOOLEAN] /\ allowed \in [Calls -> Int] /\ admitted \in [Sessions -> Calls \cup {None}]
  <2>1. allowed \in [Calls -> Nat]
    BY DEF SlotsInv, RoomOK
  <2>2. permit \in [Calls -> BOOLEAN] /\ admitted \in [Sessions -> Calls \cup {None}]
    BY DEF SlotsInv, SlotTables, PermitsOK, AdmissionInv, CallsOK
  <2> QED BY <2>1, <2>2
<1>4. parent \in [Calls -> Calls \cup {None}] /\ doomed \in Seq(Workers)
      /\ phase \in {"open", "draining", "drained", "closing", "closed"}
  BY DEF CountsOK, OwnersInv, PhaseOK
<1> QED BY <1>2, <1>3, <1>4, Known DEF ExecTypeOK, Hands, Leavers

\* The tables of the coordinator hold calls, sessions and workers, a gate
\* counts no fewer than no slots, for any calls, sessions, workers and pool.
THEOREM ExecTypes == ExecSpec => []ExecTypeOK
PROOF
<1>1. ExecInit => CountsOK
  <2> SUFFICES ASSUME ExecInit PROVE CountsOK
    OBVIOUS
  <2>1. \A l \in Lanes : gates[l].quarantined = 0
    BY DEF ExecInit, OpenGate
  <2> QED BY <2>1 DEF CountsOK, ExecInit
<1>2. SlotsInv /\ OwnersInv /\ CountsOK /\ [ExecNext]_execVars => CountsOK'
  BY StepCounts
<1>3. SlotsInv /\ OwnersInv /\ CountsOK => ExecTypeOK
  BY TypesKnown
<1> QED BY <1>1, <1>2, <1>3, OwnersHold, PTL DEF ExecSpec

-----------------------------------------------------------------------------
(* Room in the pool                                                        *)

\* No session with a container of its own is reset from outside: such a reset
\* tears its worker down without a permit of its own.
NoContainerResets == \A s \in Resets : Kind[s] # "bound"

\* The calls that have a worker of the pool, or are about to create one.
Using ==
  {"discarding", "discardingRetained", "evicting", "scavenging", "creating", "starting", "rejecting", "leased", "releasing"}
Users == {c \in Calls : at[c] \in Using /\ Lane(c) = "worker"}

\* Cached workers, those calls, the temporary sessions that end and the slots
\* withheld fit in the pool, and a slot is withheld for each orphan.
Roomy ==
  /\ Len(cache) + Cardinality(Users) + Cardinality(Ending) + gates["worker"].quarantined <= PoolSize
  /\ gates["worker"].quarantined = Cardinality(Orphans)

\* The workers that run, linger or may be left behind by a teardown under way.
Taken == {w \in Workers : proc[w] # "none"} \cup Held(hand, cache, Leaving)
NoResetRuns == \A s \in Sessions : resetting[s] = None

\* The pool: room while calls run, and from the teardown of the cache on no
\* worker that was not there.
PoolInv ==
  /\ phase \notin TearingDown => Roomy
  /\ phase \in TearingDown => Cardinality(Taken) <= PoolSize
  /\ NoResetRuns

\* What is added up are numbers.
LEMMA RoomTypes ==
  ASSUME SlotsInv, OwnersInv
  PROVE  /\ Len(cache) \in Nat /\ PoolSize \in Nat /\ gates["worker"].quarantined \in Int
         /\ IsFiniteSet(Users) /\ Cardinality(Users) \in Nat
         /\ IsFiniteSet(Ending) /\ Cardinality(Ending) \in Nat
         /\ IsFiniteSet(Orphans) /\ Cardinality(Orphans) \in Nat
PROOF
<1>1. Len(cache) \in Nat /\ PoolSize \in Nat /\ gates["worker"].quarantined \in Int
  BY Known, ExecutionAssumption DEF SlotsInv, AdmissionInv, QueuesOK, AnyGate, Lanes
<1>2. IsFiniteSet(Users) /\ IsFiniteSet(Orphans)
  <2>1. Users \in SUBSET Calls /\ Orphans \in SUBSET Workers
    BY DEF Users, Orphans
  <2> QED BY <2>1, FS_Subset, ExecutionAssumption
<1>3. IsFiniteSet(Ending) /\ Cardinality(Ending) \in Nat
  BY FiniteExtra DEF SlotsInv, SlotTables
<1> QED BY <1>1, <1>2, <1>3, FS_CardinalityType

\* There is room for one worker more.
RoomForOne == Len(cache) + Cardinality(Users) + 1 + Cardinality(Ending) + gates["worker"].quarantined <= PoolSize

\* In a step of c, m workers join the cache and n slots are withheld, in place
\* of the call or in the room there is for one more.
RoomFor(c, m, n) ==
  /\ Withholds(n) /\ Cardinality(Orphans') = Cardinality(Orphans) + n
  /\ Len(cache') = Len(cache) + m
  /\ \/ m + (IF c \in Users' THEN 1 ELSE 0) + n <= (IF c \in Users THEN 1 ELSE 0)
     \/ m = 0 /\ n = 0 /\ RoomForOne

\* A step of a call keeps within the room: what it takes from the cache or
\* withholds, it had or gives up itself, or there is room for one more.
LEMMA CallRoom ==
  ASSUME SlotsInv, OwnersInv, Roomy, NEW c \in Calls,
         OthersWait(c), \A d \in Calls \ {c} : sid'[d] = sid[d], ending' = ending,
         NEW n \in {0, 1}, NEW m \in Int, RoomFor(c, m, n)
  PROVE  Roomy'
PROOF
<1>f. /\ Withholds(n) /\ Cardinality(Orphans') = Cardinality(Orphans) + n
      /\ Len(cache') = Len(cache) + m
      /\ \/ m + (IF c \in Users' THEN 1 ELSE 0) + n <= (IF c \in Users THEN 1 ELSE 0)
         \/ m = 0 /\ n = 0 /\ RoomForOne
  BY DEF RoomFor
<1>1. Users' \ {c} = (Users \ {c}) \cup {}
  <2>1. ASSUME NEW d \in Calls \ {c}
        PROVE  (at'[d] \in Using <=> at[d] \in Using) /\ Lane(d)' = Lane(d)
    BY DEF OthersWait, Using, Lane
  <2>2. /\ \A d : d \in Users <=> d \in Calls /\ at[d] \in Using /\ Lane(d) = "worker"
        /\ \A d : d \in Users' <=> d \in Calls /\ at'[d] \in Using /\ Lane(d)' = "worker"
    BY DEF Users
  <2> QED BY <2>1, <2>2
<1>2. IsFiniteSet({}) /\ Cardinality({}) = 0 /\ {} \cap Users = {} /\ c \notin {}
  BY FS_EmptySet
<1> DEFINE x == IF c \in Users' THEN 1 ELSE 0
           y == IF c \in Users THEN 1 ELSE 0
<1>t. /\ Len(cache) \in Nat /\ PoolSize \in Nat /\ gates["worker"].quarantined \in Int
      /\ IsFiniteSet(Users) /\ Cardinality(Users) \in Nat /\ Cardinality(Ending) \in Nat
      /\ x \in {0, 1} /\ y \in {0, 1} /\ (m + x + n <= y \/ (m = 0 /\ n = 0 /\ RoomForOne))
  BY <1>f, RoomTypes
<1>3. Cardinality(Users') = Cardinality(Users) + x - y
  <2> DEFINE A == Users
             B == Users'
             L == {}
  <2>1. IsFiniteSet(A) /\ IsFiniteSet(L) /\ L \cap A = {} /\ c \notin L /\ B \ {c} = (A \ {c}) \cup L
    BY <1>1, <1>2, <1>t
  <2> HIDE DEF A, B, L
  <2>2. Cardinality(B) = Cardinality(A) + Cardinality(L) + (IF c \in B THEN 1 ELSE 0) - (IF c \in A THEN 1 ELSE 0)
    BY ONLY <2>1, Recount
  <2>3. Cardinality(Users') = Cardinality(Users) + 0 + x - y
    BY <1>2, <2>2 DEF A, B, L
  <2> HIDE DEF x, y
  <2> QED BY <1>t, <2>3
<1> HIDE DEF x, y
<1>4. Ending' = Ending
  BY DEF Ending
<1>5. gates'["worker"].quarantined = gates["worker"].quarantined + n
  BY <1>f DEF Withholds
<1>6. Len(cache') + Cardinality(Users') + Cardinality(Ending') + gates'["worker"].quarantined <= PoolSize
  <2>1. Len(cache) + Cardinality(Users) + Cardinality(Ending) + gates["worker"].quarantined <= PoolSize
    BY DEF Roomy
  <2>2. CASE m + x + n <= y
    <3> DEFINE cached == Len(cache)
               users == Cardinality(Users)
               leaving == Cardinality(Ending)
               withheld == gates["worker"].quarantined
    <3>1. /\ cached \in Int /\ users \in Int /\ leaving \in Int /\ withheld \in Int
          /\ PoolSize \in Int /\ m \in Int /\ n \in Int /\ x \in Int /\ y \in Int
      BY <1>t
    <3>2. /\ Len(cache') = cached + m /\ Cardinality(Users') = users + x - y
          /\ Cardinality(Ending') = leaving /\ gates'["worker"].quarantined = withheld + n
          /\ cached + users + leaving + withheld <= PoolSize
      BY <1>3, <1>4, <1>5, <1>f, <2>1
    <3> HIDE DEF cached, users, leaving, withheld
    <3>3. cached + m + (users + x - y) + leaving + (withheld + n) <= PoolSize
      BY ONLY <2>2, <3>1, <3>2
    <3> QED BY ONLY <3>2, <3>3
  <2>3. CASE m = 0 /\ n = 0 /\ RoomForOne
    BY <1>3, <1>4, <1>5, <1>f, <1>t, <2>3 DEF RoomForOne
  <2>4. m + x + n <= y \/ (m = 0 /\ n = 0 /\ RoomForOne)
    BY ONLY <1>t
  <2> QED BY ONLY <2>2, <2>3, <2>4
<1>7. gates'["worker"].quarantined = Cardinality(Orphans')
  BY <1>5, <1>f DEF Roomy
<1> QED BY <1>6, <1>7 DEF Roomy

\* So does a step that moves no call but waiters.
LEMMA OutsideRoom ==
  ASSUME SlotsInv, OwnersInv, Roomy, OthersWait(None), sid' = sid,
         NEW n \in {0, 1}, Withholds(n), Cardinality(Orphans') = Cardinality(Orphans) + n,
         NEW m \in Int, Len(cache') = Len(cache) + m,
         NEW k \in Int, Cardinality(Ending') = Cardinality(Ending) + k, m + k + n <= 0
  PROVE  Roomy'
PROOF
<1>1. Users' = Users
  <2>1. ASSUME NEW d \in Calls
        PROVE  (at'[d] \in Using <=> at[d] \in Using) /\ Lane(d)' = Lane(d)
    BY ExecutionAssumption DEF OthersWait, Using, Lane
  <2>2. /\ \A d : d \in Users <=> d \in Calls /\ at[d] \in Using /\ Lane(d) = "worker"
        /\ \A d : d \in Users' <=> d \in Calls /\ at'[d] \in Using /\ Lane(d)' = "worker"
    BY DEF Users
  <2> QED BY <2>1, <2>2
<1>2. gates'["worker"].quarantined = gates["worker"].quarantined + n
  BY DEF Withholds
<1>3. Len(cache') + Cardinality(Users') + Cardinality(Ending') + gates'["worker"].quarantined <= PoolSize
  <2>1. Len(cache) + Cardinality(Users) + Cardinality(Ending) + gates["worker"].quarantined <= PoolSize
    BY DEF Roomy
  <2>2. /\ Len(cache) \in Nat /\ PoolSize \in Nat /\ gates["worker"].quarantined \in Int
        /\ Cardinality(Users) \in Nat /\ Cardinality(Ending) \in Nat
    BY RoomTypes
  <2>3. Cardinality(Users') = Cardinality(Users)
    BY <1>1
  <2> DEFINE cached == Len(cache)
             users == Cardinality(Users)
             leaving == Cardinality(Ending)
             withheld == gates["worker"].quarantined
  <2>4. /\ cached \in Int /\ users \in Int /\ leaving \in Int /\ withheld \in Int /\ PoolSize \in Int
        /\ m \in Int /\ n \in Int /\ k \in Int /\ m + k + n <= 0
        /\ Len(cache') = cached + m /\ Cardinality(Users') = users
        /\ Cardinality(Ending') = leaving + k /\ gates'["worker"].quarantined = withheld + n
        /\ cached + users + leaving + withheld <= PoolSize
    BY <1>2, <2>1, <2>2, <2>3
  <2> HIDE DEF cached, users, leaving, withheld
  <2>5. cached + m + users + (leaving + k) + (withheld + n) <= PoolSize
    BY ONLY <2>4
  <2> QED BY ONLY <2>4, <2>5
<1>4. gates'["worker"].quarantined = Cardinality(Orphans')
  BY <1>2 DEF Roomy
<1> QED BY <1>3, <1>4 DEF Roomy

\* A teardown that cannot be confirmed leaves an orphan more.
LEMMA OrphanCount ==
  ASSUME SlotsInv, OwnersInv, NEW w \in Workers, proc[w] # "orphan", NEW ok, ok \in BOOLEAN, TornDown(w, ok)
  PROVE  Cardinality(Orphans') = Cardinality(Orphans) + Count(~ok) /\ Count(~ok) \in {0, 1}
PROOF
<1>1. /\ proc'[w] = IF ok THEN "none" ELSE "orphan"
      /\ \A x \in Workers \ {w} : proc'[x] = proc[x]
  BY Known DEF TornDown
<1>2. w \notin Orphans /\ IsFiniteSet(Orphans) /\ Cardinality(Orphans) \in Nat
  BY RoomTypes DEF Orphans
<1>3. CASE ok
  <2>1. Orphans' = Orphans /\ Count(~ok) = 0
    BY <1>1, <1>3 DEF Orphans, Count
  <2> QED BY <1>2, <2>1
<1>4. CASE ~ok
  <2>1. Orphans' = Orphans \cup {w} /\ Count(~ok) = 1
    BY <1>1, <1>4 DEF Orphans, Count
  <2> QED BY <1>2, <2>1, FS_AddElement
<1> QED BY <1>3, <1>4

\* A worker somebody has runs, until the cache is torn down.
LEMMA HeldRuns ==
  ASSUME SlotsInv, OwnersInv, phase \notin TearingDown, NEW w \in Held(hand, cache, Leaving)
  PROVE  w \in Workers /\ proc[w] \in Live /\ proc[w] # "orphan"
BY DEF OwnersInv, RunsOK, Held, Live

\* A step of a call moves no other call but waiters.
LEMMA CallAlone ==
  ASSUME SlotsInv, OwnersInv, NEW c \in Calls,
         \/ CallStep(c) \/ Admit(c) \/ AdmitRefused(c)
         \/ \E s \in Sessions, p \in Calls \cup {None} : Submit(c, s, p)
  PROVE  /\ OthersWait(c) /\ (\A d \in Calls \ {c} : sid'[d] = sid[d])
         /\ ending' = ending /\ resetting' = resetting /\ at' \in [Calls -> Stages]
PROOF
<1>s. Stages \ {"queued"} = {"idle", "admitting", "admitted", "granted", "discarding", "discardingRetained", "scavenging",
                             "evicting", "creating", "starting", "rejecting", "failing", "leased", "releasing"}
  BY DEF Stages
<1>l. {"worker", "primary"} \subseteq Lanes /\ Lane(c) \in Lanes
  BY DEF Lanes, Lane
<1>i. AdmissionInv /\ at \in [Calls -> Stages] /\ sid \in [Calls -> Sessions \cup {None}]
  BY Known DEF SlotsInv
<1> DEFINE Next == \/ CallStep(c) \/ Admit(c) \/ AdmitRefused(c)
                   \/ \E s \in Sessions, p \in Calls \cup {None} : Submit(c, s, p)
<1>1. /\ ending' = ending /\ resetting' = resetting
      /\ sid' = sid \/ \E s \in Sessions \cup {None} : sid' = [sid EXCEPT ![c] = s]
  <2>1. CASE CallStep(c)
    BY <2>1 DEF CallStep, Proceed, ProceedRetained, UsePrimary, UseCached, SearchFails, Scavenge, Recycle, Fail, CreateFails,
       Created, DiscardRetainedDone, DiscardDone, StartDone, RejectDone, EndTurn, ReleaseDone, Forget
  <2>2. CASE Admit(c) \/ AdmitRefused(c) \/ \E s \in Sessions, p \in Calls \cup {None} : Submit(c, s, p)
    BY <2>2 DEF Admit, AdmitRefused, Submit, Forget
  <2> QED BY <2>1, <2>2
<1>2. CASE (\E next \in Stages \ {"queued"} : at' = [at EXCEPT ![c] = next]) /\ UNCHANGED gates /\ at[c] # "queued"
  BY <1>i, <1>1, <1>2, Alone
<1>3. CASE at[c] # "queued" /\ \E l \in Lanes, q \in BOOLEAN, next \in Stages \ {"queued"} : GiveUp(l, c, q, next)
  BY <1>i, <1>1, <1>3, GivenUp
<1>4. CASE Proceed(c)
  <2> DEFINE g == gates[Lane(c)]
  <2>1. /\ g \in AnyGate /\ Distinct(g.waiters) /\ {} \subseteq Members(g.waiters) /\ {} \cap Members(g.waiters) = {}
        /\ at[c] = "admitted" /\ RequestPermit(c, Lane(c), g, {})
    BY <1>i, <1>l, <1>4 DEF AdmissionInv, QueuesOK, Proceed
  <2>2. Members(g.waiters) \subseteq Members(gates[Lane(c)].waiters) /\ {} \subseteq Members(gates[Lane(c)].waiters)
    OBVIOUS
  <2> HIDE DEF g
  <2>3. at' \in [Calls -> Stages] /\ OthersWait(c)
    BY <1>i, <1>l, <2>1, <2>2, Asked DEF Past, Stages
  <2> QED BY <1>i, <1>1, <2>3
<1>5. ASSUME NEW ok, ok \in BOOLEAN, DiscardRetainedDone(c, ok), ~GiveUp("worker", c, ~ok, "failing")
      PROVE  at' \in [Calls -> Stages] /\ OthersWait(c)
  <2> DEFINE g == Release(PoolSize, gates["worker"], ~ok)
             s == Served(PoolSize, gates["worker"], ~ok)
  <2>1. RequestPermit(c, "worker", g, s) /\ at[c] = "discardingRetained"
    BY <1>5 DEF DiscardRetainedDone
  <2>2. gates["worker"] \in AnyGate /\ Distinct(gates["worker"].waiters) /\ PoolSize \in Int
    BY <1>i, <1>l, ExecutionAssumption DEF AdmissionInv, QueuesOK
  <2>3. /\ g \in AnyGate /\ Distinct(g.waiters) /\ Members(g.waiters) \subseteq Members(gates["worker"].waiters)
        /\ s \subseteq Members(gates["worker"].waiters) /\ s \cap Members(g.waiters) = {}
    BY <2>2, ReleaseQueue
  <2> HIDE DEF g, s
  <2>4. "worker" = Lane(c) /\ at[c] \in Past \ {"queued"}
    BY <1>i, <2>1 DEF AdmissionInv, RetainedOfWorkers, Past, Stages
  <2> QED BY <1>i, <1>l, <2>1, <2>3, <2>4, Asked
<1>6. CASE \/ \E s \in Sessions, p \in Calls \cup {None} : Submit(c, s, p)
           \/ Admit(c) \/ AdmitRefused(c) \/ Fail(c) \/ ProceedRetained(c) \/ UseCached(c) \/ SearchFails(c) \/ Scavenge(c)
           \/ \E compatible \in BOOLEAN : Created(c, FreeWorker, compatible)
           \/ \E ok \in BOOLEAN : StartDone(c, ok)
  <2>1. (\E next \in Stages \ {"queued"} : at' = [at EXCEPT ![c] = next]) /\ UNCHANGED gates /\ at[c] # "queued"
    BY <1>s, <1>6 DEF Submit, Admit, AdmitRefused, Fail, ProceedRetained, UseCached, SearchFails, Scavenge, Recycle, Created,
       StartDone
  <2> QED BY <1>2, <2>1
<1>7. CASE UsePrimary(c) \/ CreateFails(c) \/ \E ok \in BOOLEAN : RejectDone(c, ok) \/ ReleaseDone(c, ok)
  <2>1. at[c] # "queued" /\ \/ \E l \in Lanes, q \in BOOLEAN, next \in Stages \ {"queued"} : GiveUp(l, c, q, next)
                            \/ at' = [at EXCEPT ![c] = "leased"] /\ UNCHANGED gates
    BY <1>s, <1>l, <1>7 DEF UsePrimary, CreateFails, RejectDone, ReleaseDone
  <2> QED BY <1>s, <1>2, <1>3, <2>1
<1>8. ASSUME NEW ok, ok \in BOOLEAN, DiscardDone(c, ok)
      PROVE  at' \in [Calls -> Stages] /\ OthersWait(c)
  <2>1. at[c] # "queued" /\ \/ GiveUp("worker", c, TRUE, "failing")
                            \/ UNCHANGED gates /\ \E next \in {"scavenging", "granted"} : at' = [at EXCEPT ![c] = next]
    BY <1>i, <1>8 DEF DiscardDone
  <2> QED BY <1>s, <1>l, <1>2, <1>3, <2>1
<1>9. ASSUME NEW ok, ok \in BOOLEAN, EndTurn(c, ok)
      PROVE  at' \in [Calls -> Stages] /\ OthersWait(c)
  <2>1. at[c] # "queued" /\ \/ GiveUp(Lane(c), c, FALSE, "idle")
                            \/ UNCHANGED gates /\ \E next \in {"releasing", "idle"} : at' = [at EXCEPT ![c] = next]
    BY <1>9 DEF EndTurn
  <2> QED BY <1>s, <1>l, <1>2, <1>3, <2>1
<1>10. at' \in [Calls -> Stages] /\ OthersWait(c)
  <2>1. ASSUME NEW ok, ok \in BOOLEAN, DiscardRetainedDone(c, ok) PROVE at' \in [Calls -> Stages] /\ OthersWait(c)
    <3>1. CASE GiveUp("worker", c, ~ok, "failing")
      <4>1. at[c] # "queued" /\ (~ok) \in BOOLEAN
        BY <2>1 DEF DiscardRetainedDone
      <4> QED BY <1>s, <1>l, <1>3, <3>1, <4>1
    <3> QED BY <1>5, <2>1, <3>1
  <2>2. CASE CallStep(c)
    BY <1>4, <1>6, <1>7, <1>8, <1>9, <2>1, <2>2 DEF CallStep
  <2> QED BY <1>6, <2>2
<1> QED BY <1>i, <1>1, <1>10


\* What a call answers its request with.
LEMMA StageAfter ==
  ASSUME NEW c \in Calls, at \in [Calls -> Stages], NEW l, NEW q, NEW next, NEW g, NEW lucky
  PROVE  /\ GiveUp(l, c, q, next) => at'[c] = next
         /\ RequestPermit(c, l, g, lucky) => at'[c] \in {"granted", "failing", "queued"}
BY DEF GiveUp, RequestPermit, Regate, Answer

\* Steps of a call that touch no worker, and leave it without one.
LEMMA AskRoom ==
  ASSUME SlotsInv, OwnersInv, Roomy, NEW c \in Calls,
         \/ \E s \in Sessions, p \in Calls \cup {None} : Submit(c, s, p)
         \/ Admit(c) \/ AdmitRefused(c) \/ Fail(c) \/ Proceed(c) \/ UsePrimary(c) \/ CreateFails(c)
  PROVE  Roomy'
PROOF
<1>i. AdmissionInv /\ at \in [Calls -> Stages] /\ Len(cache) \in Nat /\ Cardinality(Orphans) \in Nat
  BY Known, RoomTypes DEF SlotsInv
<1>1. Withholds(0)
  BY <1>i, NothingWithheld
<1>2. OthersWait(c) /\ (\A d \in Calls \ {c} : sid'[d] = sid[d]) /\ ending' = ending
  BY CallAlone DEF CallStep
<1>3. UNCHANGED <<cache, proc>>
  BY DEF Submit, Admit, AdmitRefused, Fail, Proceed, UsePrimary, CreateFails
<1>4. c \notin Users'
  <2>1. CASE UsePrimary(c)
    <3>1. Lane(c)' = "primary"
      BY <2>1 DEF UsePrimary, Lane
    <3> QED BY <3>1 DEF Users
  <2>2. CASE \/ \E s \in Sessions, p \in Calls \cup {None} : Submit(c, s, p)
             \/ Admit(c) \/ AdmitRefused(c) \/ Fail(c) \/ Proceed(c) \/ CreateFails(c)
    <3>1. at'[c] \in {"admitting", "admitted", "idle", "granted", "failing", "queued"}
      <4>1. CASE \/ \E s \in Sessions, p \in Calls \cup {None} : Submit(c, s, p)
                 \/ Admit(c) \/ AdmitRefused(c) \/ Fail(c)
        BY <1>i, <4>1 DEF Submit, Admit, AdmitRefused, Fail
      <4>2. CASE Proceed(c) \/ CreateFails(c)
        BY <1>i, <4>2, StageAfter DEF Proceed, CreateFails
      <4> QED BY <2>2, <4>1, <4>2
    <3> QED BY <3>1 DEF Users, Using
  <2> QED BY <2>1, <2>2
<1>5. Orphans' = Orphans
  BY <1>3 DEF Orphans
<1>6. Len(cache') = Len(cache) + 0 /\ Cardinality(Orphans') = Cardinality(Orphans) + 0
  BY <1>i, <1>3, <1>5
<1>7. 0 + (IF c \in Users' THEN 1 ELSE 0) + 0 <= (IF c \in Users THEN 1 ELSE 0)
  BY <1>4
<1>8. RoomFor(c, 0, 0) /\ 0 \in Int /\ 0 \in {0, 1}
  BY <1>1, <1>6, <1>7 DEF RoomFor
<1> QED BY ONLY SlotsInv, OwnersInv, Roomy, <1>2, <1>8, CallRoom

\* _scavenge leaves the room for the worker that is created next: the slots that
\* are neither active nor withheld are those of the cache.
LEMMA CreationFits ==
  ASSUME SlotsInv, OwnersInv, phase # "closed", NEW c \in Calls, at[c] = "granted", Lane(c) = "worker",
         ~(Cardinality(Recyclable) > Available(PoolSize, gates["worker"]))
  PROVE  RoomForOne
PROOF
<1>1. /\ gates["worker"].active = Cardinality(Holders("worker")) + Cardinality(Kept) + Cardinality(Ending)
      /\ Cardinality(Holders("worker")) \in Nat /\ IsFiniteSet(Holders("worker")) /\ Cardinality(Kept) \in Nat
      /\ gates["worker"].active \in Int
  <2>1. Slack("worker") = Extra("worker")
    BY DEF SlotsInv, Balanced, Lanes
  <2>2. gates["worker"].active \in Int
    BY DEF SlotsInv, AdmissionInv, QueuesOK, AnyGate, Lanes
  <2>3. Cardinality(Kept) \in Nat /\ Cardinality(Ending) \in Nat
    BY FiniteExtra DEF SlotsInv, SlotTables
  <2> QED BY <2>1, <2>2, <2>3, FiniteHolders DEF Slack, Extra
<1>2. Cardinality(Users) + 1 <= Cardinality(Holders("worker"))
  <2>1. c \notin Users
    BY DEF Users, Using
  <2>2. Users \cup {c} \in SUBSET Holders("worker")
    BY DEF Users, Using, Holders, SlotsInv, SlotTables, PermitsOK, WithPermit
  <2>3. Cardinality(Users \cup {c}) = Cardinality(Users) + 1
    BY <2>1, RoomTypes, FS_AddElement
  <2>4. Cardinality(Users \cup {c}) <= Cardinality(Holders("worker"))
    BY ONLY <1>1, <2>2, FS_Subset
  <2> QED BY <2>3, <2>4
<1>3. Len(cache) = Cardinality(Recyclable) + Cardinality(Kept) /\ Cardinality(Recyclable) \in Nat
  <2>1. Recyclable \cup Kept = 1..Len(cache) /\ Recyclable \cap Kept = {} /\ Len(cache) \in Nat
    BY RoomTypes DEF Recyclable, Kept
  <2>2. IsFiniteSet(1..Len(cache)) /\ Cardinality(1..Len(cache)) = Len(cache)
    <3>1. IsFiniteSet(1..Len(cache)) /\ Cardinality(1..Len(cache)) = IF 1 > Len(cache) THEN 0 ELSE Len(cache) - 1 + 1
      BY <2>1, FS_Interval
    <3> QED BY <2>1, <3>1
  <2>3. IsFiniteSet(Recyclable) /\ IsFiniteSet(Kept)
    BY <2>1, <2>2, FS_Subset
  <2>4. Cardinality({}) = 0
    BY FS_EmptySet
  <2>5. Cardinality(Recyclable \cup Kept) = Cardinality(Recyclable) + Cardinality(Kept) - Cardinality(Recyclable \cap Kept)
    BY ONLY <2>3, FS_Union
  <2>6. Cardinality(Recyclable) \in Nat
    BY <2>3, FS_CardinalityType
  <2>7. Cardinality(Recyclable \cup Kept) = Len(cache) /\ Cardinality(Recyclable \cap Kept) = 0
    BY <2>1, <2>2, <2>4
  <2> QED BY <1>1, <2>5, <2>6, <2>7
<1>4. Cardinality(Recyclable) <= PoolSize - gates["worker"].quarantined - gates["worker"].active
  <2> DEFINE r == Cardinality(Recyclable)
             room == PoolSize - gates["worker"].quarantined - gates["worker"].active
  <2>1. r \in Nat /\ room \in Int /\ ~(r > room)
    <3>1. PoolSize \in Int /\ gates["worker"].quarantined \in Int
      BY RoomTypes
    <3>2. room \in Int
      BY ONLY <1>1, <3>1
    <3> QED BY <1>3, <3>2 DEF Available
  <2> HIDE DEF r, room
  <2>2. r <= room
    BY ONLY <2>1
  <2> QED BY ONLY <2>2 DEF r, room
<1>5. /\ PoolSize \in Nat /\ gates["worker"].quarantined \in Int
      /\ Cardinality(Users) \in Nat /\ Cardinality(Ending) \in Nat
  BY RoomTypes
<1>6. Len(cache) + Cardinality(Users) + 1 + Cardinality(Ending) + gates["worker"].quarantined <= PoolSize
  <2> DEFINE u == Cardinality(Users)
             h == Cardinality(Holders("worker"))
             k == Cardinality(Kept)
             e == Cardinality(Ending)
             r == Cardinality(Recyclable)
             q == gates["worker"].quarantined
             a == gates["worker"].active
  <2>1. /\ a = h + k + e /\ h \in Nat /\ k \in Nat /\ a \in Int /\ u + 1 <= h /\ Len(cache) = r + k /\ r \in Nat
        /\ r <= PoolSize - q - a /\ PoolSize \in Nat /\ q \in Int /\ u \in Nat /\ e \in Nat
    BY <1>1, <1>2, <1>3, <1>4, <1>5
  <2>2. Len(cache) + u + 1 + e + q <= PoolSize
    <3> HIDE DEF u, h, k, e, r, q, a
    <3>1. r + a <= PoolSize - q
      BY <2>1
    <3> QED BY <2>1, <3>1
  <2> QED BY <2>2
<1> QED BY <1>6 DEF RoomForOne

\* A worker found or evicted moves from the cache to the call; one may be
\* created when what may stay cached leaves room for it.
LEMMA SearchRoom ==
  ASSUME SlotsInv, OwnersInv, Roomy, phase # "closed", NEW c \in Calls,
         ProceedRetained(c) \/ UseCached(c) \/ SearchFails(c) \/ Scavenge(c)
  PROVE  Roomy'
PROOF
<1>i. /\ AdmissionInv /\ at \in [Calls -> Stages] /\ CacheOK /\ Len(cache) \in Nat
      /\ Cardinality(Orphans) \in Nat
  BY Known, RoomTypes DEF SlotsInv, SlotTables
<1>1. Withholds(0)
  BY <1>i, NothingWithheld
<1>2. OthersWait(c) /\ (\A d \in Calls \ {c} : sid'[d] = sid[d]) /\ ending' = ending
  BY CallAlone DEF CallStep
<1>3. UNCHANGED <<proc, sid, gates>>
  BY DEF ProceedRetained, UseCached, SearchFails, Scavenge, Recycle
<1>4. Orphans' = Orphans /\ Cardinality(Orphans') = Cardinality(Orphans) + 0
  BY <1>i, <1>3 DEF Orphans
<1>5. ASSUME NEW i \in 1..Len(cache), cache' = Without(cache, i) PROVE Roomy'
  <2>1. Len(cache') = Len(cache) + (-1)
    <3>1. Len(Without(cache, i)) = Len(cache) - 1
      BY <1>i, WithoutFacts DEF CacheOK
    <3> QED BY <1>i, <1>5, <3>1
  <2>2. (-1) + (IF c \in Users' THEN 1 ELSE 0) + 0 <= (IF c \in Users THEN 1 ELSE 0) /\ (-1) \in Int
    OBVIOUS
  <2>3. RoomFor(c, -1, 0) /\ (-1) \in Int /\ 0 \in {0, 1}
    BY <1>1, <1>4, <2>1, <2>2 DEF RoomFor
  <2> QED BY ONLY SlotsInv, OwnersInv, Roomy, <1>2, <2>3, CallRoom
<1>6. CASE ProceedRetained(c)
  <2>1. Matches(sid[c]) # {} /\ Matches(sid[c]) \subseteq 1..Len(cache) /\ cache' = Without(cache, First(Matches(sid[c])))
    BY <1>6 DEF ProceedRetained, Matches
  <2> QED BY <1>i, <1>5, <2>1, EntryFound
<1>7. CASE UseCached(c)
  <2>1. /\ Compatible(sid[c]) # {} /\ Compatible(sid[c]) \subseteq 1..Len(cache)
        /\ cache' = Without(cache, First(Compatible(sid[c])))
    BY <1>7 DEF UseCached, Compatible, Matches, HostEntries
  <2> QED BY <1>i, <1>5, <2>1, EntryFound
<1>8. ASSUME NEW n \in Nat, Recycle(c, n), Cardinality(Recyclable) > n PROVE Roomy'
  <2>1. Recyclable \subseteq 1..Len(cache) /\ cache' = Without(cache, First(Recyclable))
    BY <1>8 DEF Recyclable, Recycle
  <2>2. Recyclable # {}
    <3>1. Cardinality({}) = 0 /\ ~(0 > n)
      BY <1>8, FS_EmptySet
    <3> QED BY <1>8, <3>1
  <2> QED BY <1>i, <1>5, <2>1, <2>2, EntryFound
<1>9. ASSUME cache' = cache, c \in Users \/ RoomForOne PROVE Roomy'
  <2>1. Len(cache') = Len(cache) + 0
    BY <1>i, <1>9
  <2>2. \/ 0 + (IF c \in Users' THEN 1 ELSE 0) + 0 <= (IF c \in Users THEN 1 ELSE 0)
        \/ 0 = 0 /\ 0 = 0 /\ RoomForOne
    BY <1>9
  <2>3. RoomFor(c, 0, 0) /\ 0 \in Int /\ 0 \in {0, 1}
    BY <1>1, <1>4, <2>1, <2>2 DEF RoomFor
  <2> QED BY ONLY SlotsInv, OwnersInv, Roomy, <1>2, <2>3, CallRoom
<1>10. ASSUME SearchFails(c) PROVE Roomy'
  <2> DEFINE n == Available(PoolSize, gates["worker"])
  <2>1. n \in Nat /\ Recycle(c, n) /\ at[c] = "granted" /\ Lane(c) = "worker"
    <3>1. n >= 0 /\ PoolSize \in Int /\ gates["worker"] \in AnyGate
      BY ExecutionAssumption DEF SlotsInv, RoomOK, Lanes, Cap, AdmissionInv, QueuesOK
    <3>2. n \in Int
      BY <3>1 DEF Available, AnyGate
    <3> HIDE DEF n
    <3> QED BY <1>10, <3>1, <3>2 DEF SearchFails, n
  <2>2. CASE Cardinality(Recyclable) > n
    BY <1>8, <2>1, <2>2
  <2>3. CASE ~(Cardinality(Recyclable) > n)
    <3>1. cache' = cache
      BY <2>1, <2>3 DEF Recycle
    <3>2. RoomForOne
      BY <1>10, <2>1, <2>3, CreationFits
    <3> QED BY <1>9, <3>1, <3>2
  <2> QED BY <2>2, <2>3
<1>11. ASSUME Scavenge(c) PROVE Roomy'
  <2>1. Recycle(c, allowed[c]) /\ allowed[c] \in Nat /\ c \in Users
    BY <1>11, Known DEF Scavenge, SlotsInv, RoomOK, Users, Using, WorkerOnly
  <2>2. CASE Cardinality(Recyclable) > allowed[c]
    BY <1>8, <2>1, <2>2
  <2>3. CASE ~(Cardinality(Recyclable) > allowed[c])
    <3>1. cache' = cache
      BY <2>1, <2>3 DEF Recycle
    <3> QED BY <1>9, <2>1, <3>1
  <2> QED BY <2>2, <2>3
<1> QED BY <1>6, <1>7, <1>10, <1>11


\* Creation, start and the end of a turn: the call had its worker, or gives it
\* to the cache.
LEMMA WorkRoom ==
  ASSUME SlotsInv, OwnersInv, Roomy, NEW c \in Calls,
         \/ \E compatible \in BOOLEAN : Created(c, FreeWorker, compatible)
         \/ \E ok \in BOOLEAN : StartDone(c, ok) \/ EndTurn(c, ok)
  PROVE  Roomy'
PROOF
<1>i. /\ AdmissionInv /\ at \in [Calls -> Stages] /\ Len(cache) \in Nat /\ Cardinality(Orphans) \in Nat
      /\ phase \notin TearingDown /\ proc \in [Workers -> Live \cup {"none", "orphan"}]
  <2>1. at[c] # "idle"
    BY DEF Created, StartDone, EndTurn
  <2> QED BY <2>1, Known, RoomTypes DEF SlotsInv, TearingDown, Over
<1>1. Withholds(0)
  <2>1. \/ \E w \in Workers, ok \in BOOLEAN : Created(c, w, ok)
        \/ \E ok \in BOOLEAN : StartDone(c, ok)
        \/ \E ok \in BOOLEAN : EndTurn(c, ok)
    BY DEF Created
  <2> QED BY <1>i, <2>1, NothingWithheld
<1>2. OthersWait(c) /\ (\A d \in Calls \ {c} : sid'[d] = sid[d]) /\ ending' = ending
  BY CallAlone DEF CallStep
<1>3. ASSUME Orphans' = Orphans, NEW m \in Int, Len(cache') = Len(cache) + m,
             m + (IF c \in Users' THEN 1 ELSE 0) + 0 <= (IF c \in Users THEN 1 ELSE 0)
      PROVE  Roomy'
  <2>1. Cardinality(Orphans') = Cardinality(Orphans) + 0
    BY <1>i, <1>3
  <2>2. RoomFor(c, m, 0) /\ m \in Int /\ 0 \in {0, 1}
    BY <1>1, <1>3, <2>1 DEF RoomFor
  <2> QED BY ONLY SlotsInv, OwnersInv, Roomy, <1>2, <2>2, CallRoom
<1>4. hand[c] \in Workers => proc[hand[c]] \in Live
  BY <1>i, HeldRuns DEF Held
<1>5. Orphans' = Orphans
  <2>1. CASE \E compatible \in BOOLEAN : Created(c, FreeWorker, compatible)
    <3>1. PICK w \in Workers : proc[w] = "none" /\ proc' = [proc EXCEPT ![w] = "new"]
      BY <2>1 DEF Created
    <3> QED BY <1>i, <3>1 DEF Orphans
  <2>2. CASE \E ok \in BOOLEAN : StartDone(c, ok)
    <3>1. \E p \in {"idle", "broken"} : proc' = [proc EXCEPT ![hand[c]] = p]
      BY <2>2 DEF StartDone
    <3> QED BY <1>i, <1>4, <3>1 DEF Orphans, Live
  <2>3. CASE \E ok \in BOOLEAN : EndTurn(c, ok)
    <3>1. \A w \in Workers : proc'[w] = proc[w] \/ (w = hand[c] /\ proc'[w] = "broken")
      BY <2>3 DEF EndTurn
    <3> QED BY <1>i, <1>4, <3>1 DEF Orphans, Live
  <2> QED BY <2>1, <2>2, <2>3
<1>6. CASE cache' = cache
  <2>1. Len(cache') = Len(cache) + 0
    BY <1>i, <1>6
  <2>2. c \in Users \/ c \notin Users'
    <3>1. CASE Lane(c) = "worker" /\ at[c] \in Using
      BY <3>1 DEF Users
    <3>2. CASE ~(Lane(c) = "worker" /\ at[c] \in Using)
      <4>1. \E ok \in BOOLEAN : EndTurn(c, ok)
        BY <3>2, Known DEF Created, StartDone, Using, WorkerOnly
      <4>2. at[c] = "leased" /\ Lane(c) # "worker"
        BY <3>2, <4>1 DEF EndTurn, Using
      <4>3. Lane(c) = "primary"
        BY <4>2 DEF Lane
      <4>4. at'[c] = "idle"
        BY <1>i, <4>1, <4>3, StageAfter DEF EndTurn
      <4> QED BY <4>4 DEF Users, Using
    <3> QED BY <3>1, <3>2
  <2>3. 0 + (IF c \in Users' THEN 1 ELSE 0) + 0 <= (IF c \in Users THEN 1 ELSE 0)
    BY <2>2
  <2>4. Cardinality(Orphans') = Cardinality(Orphans) + 0
    BY <1>i, <1>5
  <2>5. 0 \in Int /\ 0 \in {0, 1}
    OBVIOUS
  <2>6. RoomFor(c, 0, 0)
    BY <1>1, <2>1, <2>3, <2>4 DEF RoomFor
  <2> QED BY ONLY SlotsInv, OwnersInv, Roomy, <1>2, <2>5, <2>6, CallRoom
<1>7. CASE cache' # cache
  <2>1. PICK ok \in BOOLEAN : EndTurn(c, ok)
    BY <1>7 DEF Created, StartDone
  <2>2. /\ at[c] = "leased" /\ Lane(c) = "worker" /\ at'[c] = "idle"
        /\ cache' = Append(cache, [worker |-> hand[c], sid |-> sid[c]])
    BY <1>i, <1>7, <2>1, StageAfter DEF EndTurn
  <2>3. Len(cache') = Len(cache) + 1
    BY <2>2, Known
  <2>4. c \in Users /\ c \notin Users'
    BY <2>2 DEF Users, Using
  <2>5. 1 + (IF c \in Users' THEN 1 ELSE 0) + 0 <= (IF c \in Users THEN 1 ELSE 0)
    BY <2>4
  <2> QED BY <1>3, <1>5, <2>3, <2>5
<1> QED BY <1>6, <1>7

\* A teardown ends: the call gives up its place, which is withheld when the
\* worker may still run.
LEMMA TeardownRoom ==
  ASSUME SlotsInv, OwnersInv, Roomy, NEW c \in Calls, NEW ok, ok \in BOOLEAN,
         DiscardRetainedDone(c, ok) \/ DiscardDone(c, ok) \/ RejectDone(c, ok) \/ ReleaseDone(c, ok)
  PROVE  Roomy'
PROOF
<1>i. AdmissionInv /\ at \in [Calls -> Stages] /\ Len(cache) \in Nat
  BY Known, RoomTypes DEF SlotsInv
<1>1. Withholds(Count(~ok))
  BY <1>i, TeardownWithholds
<1>2. OthersWait(c) /\ (\A d \in Calls \ {c} : sid'[d] = sid[d]) /\ ending' = ending
  BY CallAlone DEF CallStep
<1>3. /\ at[c] \in {"discardingRetained", "discarding", "evicting", "rejecting", "releasing"}
      /\ TornDown(hand[c], ok) /\ cache' = cache
  BY DEF DiscardRetainedDone, DiscardDone, RejectDone, ReleaseDone
<1>4. hand[c] \in Held(hand, cache, Leaving) /\ c \in Users
  BY <1>3, Known DEF Held, OwnersInv, GraspOK, Grasping, Users, Using, WorkerOnly
<1>5. phase \notin TearingDown
  BY <1>3, Known DEF TearingDown, Over
<1>6. Cardinality(Orphans') = Cardinality(Orphans) + Count(~ok) /\ Count(~ok) \in {0, 1}
  <2>1. hand[c] \in Workers /\ proc[hand[c]] # "orphan"
    BY <1>4, <1>5, HeldRuns
  <2> QED BY <1>3, <2>1, OrphanCount
<1>7. 0 + (IF c \in Users' THEN 1 ELSE 0) + Count(~ok) <= (IF c \in Users THEN 1 ELSE 0)
  <2>1. CASE ok
    BY <1>4, <2>1 DEF Count
  <2>2. CASE ~ok
    <3>1. at'[c] \in {"granted", "failing", "queued", "idle"}
      BY <1>i, <2>2, StageAfter DEF DiscardRetainedDone, DiscardDone, RejectDone, ReleaseDone
    <3>2. c \notin Users'
      BY <3>1 DEF Users, Using
    <3> QED BY <1>4, <1>6, <3>2
  <2> QED BY <2>1, <2>2
<1>8. Len(cache') = Len(cache) + 0
  BY <1>i, <1>3
<1>9. PICK n \in {0, 1} : n = Count(~ok)
  BY <1>6
<1>10. /\ Withholds(n) /\ Cardinality(Orphans') = Cardinality(Orphans) + n
       /\ 0 + (IF c \in Users' THEN 1 ELSE 0) + n <= (IF c \in Users THEN 1 ELSE 0)
  BY <1>1, <1>6, <1>7, <1>9
<1>11. RoomFor(c, 0, n) /\ 0 \in Int
  BY <1>8, <1>10 DEF RoomFor
<1> QED BY ONLY SlotsInv, OwnersInv, Roomy, <1>2, <1>11, CallRoom

\* Whatever a call does, the pool has room for it.
LEMMA CallsRoom ==
  ASSUME SlotsInv, OwnersInv, Roomy, NEW c \in Calls,
         \/ CallStep(c) \/ Admit(c) \/ AdmitRefused(c)
         \/ \E s \in Sessions, p \in Calls \cup {None} : Submit(c, s, p)
  PROVE  Roomy'
PROOF
<1>1. phase # "closed"
  BY CallsDrained DEF Over
<1>2. CASE \/ \E s \in Sessions, p \in Calls \cup {None} : Submit(c, s, p)
           \/ Admit(c) \/ AdmitRefused(c) \/ Fail(c) \/ Proceed(c) \/ UsePrimary(c) \/ CreateFails(c)
  BY <1>2, AskRoom
<1>3. CASE ProceedRetained(c) \/ UseCached(c) \/ SearchFails(c) \/ Scavenge(c)
  BY <1>1, <1>3, SearchRoom
<1>4. CASE \/ \E compatible \in BOOLEAN : Created(c, FreeWorker, compatible)
           \/ \E ok \in BOOLEAN : StartDone(c, ok) \/ EndTurn(c, ok)
  BY <1>4, WorkRoom
<1>5. CASE \E ok \in BOOLEAN : \/ DiscardRetainedDone(c, ok) \/ DiscardDone(c, ok)
                               \/ RejectDone(c, ok) \/ ReleaseDone(c, ok)
  BY <1>5, TeardownRoom
<1> QED BY <1>2, <1>3, <1>4, <1>5 DEF CallStep


\* So it is of what moves no call: temporary sessions end, cached workers die,
\* disposal begins.
LEMMA OutsideFits ==
  ASSUME SlotsInv, OwnersInv, Roomy, phase \notin TearingDown,
         \/ \E s \in Sessions : EndTemp(s) \/ ResetShared(s)
         \/ \E s \in Sessions, ok \in BOOLEAN : EndTempDone(s, ok)
         \/ \E i \in 1..Cardinality(Workers) : CachedBreaks(i)
         \/ Dispose \/ BeginTeardown \/ UNCHANGED execVars
  PROVE  Roomy'
PROOF
<1>n. None \in Calls \cup {None} /\ None \notin Calls /\ "worker" \in Lanes /\ "idle" \in Stages \ {"queued"}
  BY ExecutionAssumption DEF Lanes, Stages
<1>i. /\ AdmissionInv /\ at \in [Calls -> Stages] /\ CacheOK /\ Len(cache) \in Nat
      /\ Cardinality(Orphans) \in Nat /\ Cardinality(Ending) \in Nat /\ IsFiniteSet(Ending)
      /\ proc \in [Workers -> Live \cup {"none", "orphan"}] /\ ending \in [Sessions -> Workers \cup {None}]
  BY Known, RoomTypes DEF SlotsInv, SlotTables, Leavers
<1>1. ASSUME NEW s \in Sessions, EndTemp(s) PROVE Roomy'
  <2> DEFINE i == First(Matches(s))
  <2>1. /\ Matches(s) # {} /\ Matches(s) \subseteq 1..Len(cache) /\ cache' = Without(cache, i)
        /\ ending[s] = None /\ ending' = [ending EXCEPT ![s] = cache[i].worker]
        /\ UNCHANGED <<at, sid, gates, proc>>
    BY <1>1 DEF EndTemp, Matches, callVars
  <2>2. i \in 1..Len(cache) /\ cache[i].worker \in Workers
    BY <1>i, <2>1, EntryFound
  <2>3. Len(cache') = Len(cache) + (-1)
    <3>1. Len(Without(cache, i)) = Len(cache) - 1
      BY <1>i, <2>2, WithoutFacts DEF CacheOK
    <3> QED BY <1>i, <2>1, <3>1
  <2> HIDE DEF i
  <2>4. Cardinality(Ending') = Cardinality(Ending) + 1
    <3>1. Ending' = Ending \cup {s} /\ s \notin Ending
      BY <1>i, <1>n, <2>1, <2>2, ExecutionAssumption DEF Ending
    <3> QED BY <1>i, <3>1, FS_AddElement
  <2>5. Withholds(0) /\ OthersWait(None) /\ sid' = sid
    BY <1>i, <2>1, SameWithheld DEF OthersWait
  <2>6. Cardinality(Orphans') = Cardinality(Orphans) + 0
    BY <1>i, <2>1 DEF Orphans
  <2>7. (-1) + 1 + 0 <= 0
    OBVIOUS
  <2> QED BY ONLY SlotsInv, OwnersInv, Roomy, <2>3, <2>4, <2>5, <2>6, <2>7, OutsideRoom
<1>2. ASSUME NEW s \in Sessions, NEW ok, ok \in BOOLEAN, EndTempDone(s, ok) PROVE Roomy'
  <2>1. /\ ending[s] # None /\ TornDown(ending[s], ok) /\ GiveUp("worker", None, ~ok, "idle")
        /\ ending' = [ending EXCEPT ![s] = None] /\ UNCHANGED <<sid, cache>>
    BY <1>2 DEF EndTempDone
  <2>2. OthersWait(None) /\ (~ok) \in BOOLEAN
    BY <1>i, <1>n, <2>1, GivenUp
  <2>3. Withholds(Count(~ok))
    BY <1>i, <1>n, <2>1, <2>2, GiveUpWithholds
  <2>4. Cardinality(Ending') = Cardinality(Ending) + (-1)
    <3>1. Ending' = Ending \ {s} /\ s \in Ending
      BY <1>i, <2>1 DEF Ending
    <3>2. Cardinality(Ending') = Cardinality(Ending) - 1
      BY <1>i, <3>1, FS_RemoveElement
    <3> QED BY <1>i, <3>2
  <2>5. Cardinality(Orphans') = Cardinality(Orphans) + Count(~ok) /\ Count(~ok) \in {0, 1}
    <3>1. ending[s] \in Workers /\ Leaving[s] = ending[s]
      BY <1>i, <2>1 DEF Leaving, OwnersInv, LeavingOK
    <3>2. ending[s] \in Held(hand, cache, Leaving)
      BY <3>1 DEF Held
    <3>3. proc[ending[s]] # "orphan"
      BY <3>2, HeldRuns
    <3>4. TornDown(ending[s], ok) /\ ending[s] \in Workers
      BY <2>1, <3>1
    <3> QED BY ONLY SlotsInv, OwnersInv, <1>2, <3>3, <3>4, OrphanCount
  <2>6. PICK n \in {0, 1} : n = Count(~ok)
    BY <2>5
  <2>7. Withholds(n) /\ Cardinality(Orphans') = Cardinality(Orphans) + n
    BY <2>3, <2>5, <2>6
  <2>8. Len(cache') = Len(cache) + 0 /\ sid' = sid
    BY <1>i, <2>1
  <2>9. 0 + (-1) + n <= 0
    BY <2>6
  <2> QED BY ONLY SlotsInv, OwnersInv, Roomy, <2>2, <2>4, <2>7, <2>8, <2>9, OutsideRoom
<1>3. ASSUME \/ \E s \in Sessions : ResetShared(s)
             \/ \E i \in 1..Cardinality(Workers) : CachedBreaks(i)
             \/ Dispose \/ BeginTeardown \/ UNCHANGED execVars
      PROVE  Roomy'
  <2>1. UNCHANGED <<sid, cache, ending>>
    BY <1>3 DEF ResetShared, CachedBreaks, Dispose, BeginTeardown, execVars, callVars
  <2>2. OthersWait(None)
    <3>1. CASE Dispose
      BY <1>i, <3>1 DEF Dispose, OthersWait
    <3>2. CASE UNCHANGED at
      BY <3>2 DEF OthersWait
    <3> QED BY <1>3, <3>1, <3>2 DEF ResetShared, CachedBreaks, BeginTeardown, execVars, callVars
  <2>3. Withholds(0)
    BY <1>3, <1>i, OutsideWithholds DEF DisposeStep
  <2>4. Orphans' = Orphans
    <3>1. CASE UNCHANGED proc
      BY <3>1 DEF Orphans
    <3>2. CASE \E i \in 1..Cardinality(Workers) : CachedBreaks(i)
      <4>1. PICK w : proc[w] = "idle" /\ proc' = [proc EXCEPT ![w] = "broken"]
        BY <3>2 DEF CachedBreaks
      <4> QED BY <1>i, <4>1 DEF Orphans
    <3> QED BY <1>3, <3>1, <3>2 DEF ResetShared, Dispose, BeginTeardown, execVars
  <2>5. Cardinality(Orphans') = Cardinality(Orphans) + 0 /\ Len(cache') = Len(cache) + 0
        /\ Cardinality(Ending') = Cardinality(Ending) + 0
    <3>1. Ending' = Ending
      BY <2>1 DEF Ending
    <3> QED BY <1>i, <2>1, <2>4, <3>1
  <2>6. 0 + 0 + 0 <= 0 /\ sid' = sid
    BY <2>1
  <2> QED BY ONLY SlotsInv, OwnersInv, Roomy, <2>2, <2>3, <2>5, <2>6, OutsideRoom
<1> QED BY <1>1, <1>2, <1>3

\* The values of a function are no more than its arguments.
LEMMA ImageBound ==
  ASSUME NEW S, IsFiniteSet(S), NEW f
  PROVE  LET T == {f[x] : x \in S} IN
         IsFiniteSet(T) /\ Cardinality(T) <= Cardinality(S) /\ Cardinality(T) \in Nat /\ Cardinality(S) \in Nat
PROOF
<1> DEFINE T == {f[x] : x \in S}
           g == [x \in S |-> f[x]]
<1>1. g \in Surjection(S, T)
  BY DEF Surjection
<1> HIDE DEF g
<1>2. IsFiniteSet(T) /\ Cardinality(T) <= Cardinality(S)
  BY <1>1, FS_Surjection
<1> QED BY <1>2, FS_CardinalityType

\* A union has no more elements than its parts.
LEMMA UnionBound ==
  ASSUME NEW S, NEW T, IsFiniteSet(S), IsFiniteSet(T)
  PROVE  /\ IsFiniteSet(S \cup T) /\ Cardinality(S \cup T) <= Cardinality(S) + Cardinality(T)
         /\ Cardinality(S) \in Nat /\ Cardinality(T) \in Nat /\ Cardinality(S \cup T) \in Nat
PROOF
<1>1. IsFiniteSet(S \cup T) /\ Cardinality(S \cup T) = Cardinality(S) + Cardinality(T) - Cardinality(S \cap T)
  BY FS_Union
<1>2. IsFiniteSet(S \cap T)
  BY FS_Intersection
<1>3. Cardinality(S) \in Nat /\ Cardinality(T) \in Nat /\ Cardinality(S \cup T) \in Nat /\ Cardinality(S \cap T) \in Nat
  BY <1>1, <1>2, FS_CardinalityType
<1> QED BY <1>1, <1>3

\* While there is room, the workers that run, linger or are torn down fit in
\* the pool.
LEMMA TakenFits ==
  ASSUME SlotsInv, OwnersInv, Roomy, NoResetRuns, phase \notin TearingDown
  PROVE  Cardinality(Taken) <= PoolSize
PROOF
<1> DEFINE Cached == {[k \in 1..Len(cache) |-> cache[k].worker][i] : i \in 1..Len(cache)}
           InHand == {hand[c] : c \in Users}
           Ended == {ending[s] : s \in Ending}
<1>t. /\ Len(cache) \in Nat /\ PoolSize \in Nat /\ gates["worker"].quarantined \in Int
      /\ IsFiniteSet(Users) /\ Cardinality(Users) \in Nat
      /\ IsFiniteSet(Ending) /\ Cardinality(Ending) \in Nat
      /\ IsFiniteSet(Orphans) /\ Cardinality(Orphans) \in Nat
  BY RoomTypes
<1>1. Taken \subseteq ((Cached \cup InHand) \cup Ended) \cup Orphans
  <2>1. ASSUME NEW w \in Held(hand, cache, Leaving) PROVE w \in (Cached \cup InHand) \cup Ended
    <3>1. CASE w \in CachedWorkers(cache)
      <4>1. PICK i \in 1..Len(cache) : w = cache[i].worker
        BY <3>1 DEF CachedWorkers, Members
      <4> QED BY <4>1
    <3>2. ASSUME NEW c \in Calls, hand[c] = w PROVE w \in InHand
      <4>1. c \in Users
        BY <2>1, <3>2, ExecutionAssumption DEF Held, OwnersInv, GraspOK, Grasping, Users, Using
      <4> QED BY <3>2, <4>1
    <3>3. ASSUME NEW s \in Sessions, Leaving[s] = w PROVE w \in Ended
      <4>1. ending[s] = w /\ w # None
        BY <2>1, <3>3, ExecutionAssumption DEF Held, Leaving, NoResetRuns
      <4>2. s \in Ending
        BY <4>1 DEF Ending
      <4> QED BY <4>1, <4>2
    <3> QED BY <2>1, <3>1, <3>2, <3>3 DEF Held
  <2>2. ASSUME NEW w \in Workers, proc[w] # "none" PROVE w \in Held(hand, cache, Leaving) \/ w \in Orphans
    <3>1. proc[w] \in Live \/ proc[w] = "orphan"
      BY <2>2, Known
    <3> QED BY <3>1 DEF OwnersInv, RunsOK, Orphans
  <2> HIDE DEF Cached, InHand, Ended
  <2> QED BY <2>1, <2>2 DEF Taken
<1>2. IsFiniteSet(1..Len(cache)) /\ Cardinality(1..Len(cache)) = Len(cache)
  <2>1. IsFiniteSet(1..Len(cache)) /\ Cardinality(1..Len(cache)) = IF 1 > Len(cache) THEN 0 ELSE Len(cache) - 1 + 1
    <3>1. 1 \in Int /\ Len(cache) \in Int
      BY <1>t
    <3> QED BY ONLY <3>1, FS_Interval
  <2> QED BY <1>t, <2>1
<1>3. IsFiniteSet(Cached) /\ Cardinality(Cached) <= Len(cache)
  BY ONLY <1>2, ImageBound
<1>4. IsFiniteSet(InHand) /\ Cardinality(InHand) <= Cardinality(Users)
  BY ONLY <1>t, ImageBound
<1>5. IsFiniteSet(Ended) /\ Cardinality(Ended) <= Cardinality(Ending)
  BY ONLY <1>t, ImageBound
<1> HIDE DEF Cached, InHand, Ended
<1>6. /\ IsFiniteSet(Cached \cup InHand) /\ Cardinality(Cached \cup InHand) <= Cardinality(Cached) + Cardinality(InHand)
      /\ Cardinality(Cached) \in Nat /\ Cardinality(InHand) \in Nat /\ Cardinality(Cached \cup InHand) \in Nat
  BY <1>3, <1>4, UnionBound
<1> DEFINE T == (Cached \cup InHand) \cup Ended
<1>7. /\ IsFiniteSet(T) /\ Cardinality(T) <= Cardinality(Cached \cup InHand) + Cardinality(Ended)
      /\ Cardinality(Ended) \in Nat /\ Cardinality(T) \in Nat
  BY <1>5, <1>6, UnionBound
<1>8. T \cup Orphans = ((Cached \cup InHand) \cup Ended) \cup Orphans
  OBVIOUS
<1> HIDE DEF T
<1>9. /\ IsFiniteSet(T \cup Orphans) /\ Cardinality(T \cup Orphans) <= Cardinality(T) + Cardinality(Orphans)
      /\ Cardinality(T \cup Orphans) \in Nat
  BY <1>t, <1>7, UnionBound
<1>10. Taken \in SUBSET (T \cup Orphans)
  BY <1>1, <1>8
<1>11. Cardinality(Taken) <= Cardinality(T \cup Orphans) /\ Cardinality(Taken) \in Nat
  BY <1>9, <1>10, FS_Subset, FS_CardinalityType
<1>12. Len(cache) + Cardinality(Users) + Cardinality(Ending) + Cardinality(Orphans) <= PoolSize
  BY DEF Roomy
<1>13. Cardinality(T \cup Orphans) <= Len(cache) + Cardinality(Users) + Cardinality(Ending) + Cardinality(Orphans)
  <2> DEFINE a == Cardinality(Cached)
             b == Cardinality(InHand)
             d == Cardinality(Ended)
             e == Cardinality(Cached \cup InHand)
             u == Cardinality(Users)
             g == Cardinality(Ending)
             o == Cardinality(Orphans)
             t == Cardinality(T)
             z == Cardinality(T \cup Orphans)
  <2>1. /\ a <= Len(cache) /\ b <= u /\ d <= g /\ e <= a + b /\ t <= e + d /\ z <= t + o
        /\ Len(cache) \in Nat /\ a \in Nat /\ b \in Nat /\ d \in Nat /\ e \in Nat /\ u \in Nat /\ g \in Nat
        /\ o \in Nat /\ t \in Nat /\ z \in Nat
    BY <1>t, <1>3, <1>4, <1>5, <1>6, <1>7, <1>9
  <2>2. z <= Len(cache) + u + g + o
    <3> HIDE DEF a, b, d, e, u, g, o, t, z
    <3> QED BY <2>1
  <2> QED BY <2>2
<1> QED BY <1>t, <1>9, <1>11, <1>12, <1>13


\* While the cache is torn down, no worker is taken that was not.
LEMMA TakenShrinks ==
  ASSUME SlotsInv, OwnersInv,
         \/ \E s \in Sessions : EndTemp(s) \/ ResetShared(s)
         \/ \E s \in Sessions, ok \in BOOLEAN : EndTempDone(s, ok)
         \/ \E i \in 1..Cardinality(Workers) : CachedBreaks(i)
         \/ BeginTeardown \/ FinishDispose \/ UNCHANGED execVars
         \/ \E ok \in BOOLEAN : DisposeOne(ok)
  PROVE  Taken' \subseteq Taken
PROOF
<1>i. /\ CacheOK /\ proc \in [Workers -> Live \cup {"none", "orphan"}] /\ ending \in [Sessions -> Workers \cup {None}]
      /\ cache \in Seq(Entries) /\ "none" \notin Live
  BY Known DEF SlotsInv, SlotTables, Leavers, Live
<1>h. hand' = hand
  BY DEF EndTemp, EndTempDone, ResetShared, CachedBreaks, BeginTeardown, FinishDispose, DisposeOne, execVars, callVars
<1>c. /\ \A w : w \in CachedWorkers(cache) <=> \E i \in 1..Len(cache) : w = cache[i].worker
      /\ \A w : w \in CachedWorkers(cache') <=> \E i \in 1..Len(cache') : w = cache'[i].worker
  BY DEF CachedWorkers, Members
<1>1. ASSUME CachedWorkers(cache') \subseteq CachedWorkers(cache),
             \A s \in Sessions : Leaving'[s] \in {Leaving[s], None} \cup CachedWorkers(cache),
             \A w \in Workers : proc'[w] # "none" => proc[w] # "none" \/ w \in Held(hand, cache, Leaving)
      PROVE  Taken' \subseteq Taken
  <2>1. ASSUME NEW w \in Held(hand', cache', Leaving') PROVE w \in Held(hand, cache, Leaving)
    <3>1. w \in Workers /\ w # None
      BY <2>1, ExecutionAssumption DEF Held
    <3>2. CASE w \in CachedWorkers(cache')
      BY <1>1, <3>1, <3>2 DEF Held
    <3>3. CASE \E c \in Calls : hand'[c] = w
      BY <1>h, <3>1, <3>3 DEF Held
    <3>4. CASE \E s \in Sessions : Leaving'[s] = w
      BY <1>1, <3>1, <3>4 DEF Held
    <3> QED BY <2>1, <3>2, <3>3, <3>4 DEF Held
  <2>2. /\ \A w : w \in Taken' <=> (w \in Workers /\ proc'[w] # "none") \/ w \in Held(hand', cache', Leaving')
        /\ \A w : w \in Taken <=> (w \in Workers /\ proc[w] # "none") \/ w \in Held(hand, cache, Leaving)
    BY DEF Taken
  <2> QED BY <1>1, <2>1, <2>2
<1>2. ASSUME NEW s \in Sessions, EndTemp(s) PROVE Taken' \subseteq Taken
  <2> DEFINE i == First(Matches(s))
  <2>1. /\ Matches(s) # {} /\ Matches(s) \subseteq 1..Len(cache) /\ cache' = Without(cache, i)
        /\ ending' = [ending EXCEPT ![s] = cache[i].worker] /\ UNCHANGED <<proc, resetting>>
    BY <1>2 DEF EndTemp, Matches
  <2>2. i \in 1..Len(cache)
    BY <1>i, <2>1, EntryFound
  <2> HIDE DEF i
  <2>3. \A j, k \in 1..Len(cache) : cache[j].worker = cache[k].worker => j = k
    BY DEF OwnersInv, Sole
  <2>4. CachedWorkers(cache') \subseteq CachedWorkers(cache) /\ cache[i].worker \in CachedWorkers(cache)
    BY <1>i, <2>1, <2>2, <2>3, EntryTaken
  <2>5. \A r \in Sessions : Leaving'[r] \in {Leaving[r], None} \cup CachedWorkers(cache)
    BY <1>i, <2>1, <2>4 DEF Leaving
  <2> QED BY <1>1, <2>1, <2>4, <2>5
<1>3. ASSUME NEW s \in Sessions, NEW ok, ok \in BOOLEAN, EndTempDone(s, ok) PROVE Taken' \subseteq Taken
  <2>1. /\ ending[s] # None /\ TornDown(ending[s], ok) /\ cache' = cache
        /\ ending' = [ending EXCEPT ![s] = None] /\ resetting' = resetting
    BY <1>3 DEF EndTempDone
  <2>2. ending[s] \in Workers /\ Leaving[s] = ending[s] /\ ending[s] \in Held(hand, cache, Leaving)
    <3>1. ending[s] \in Workers /\ Leaving[s] = ending[s]
      BY <1>i, <2>1 DEF Leaving, OwnersInv, LeavingOK
    <3> QED BY <3>1 DEF Held
  <2>3. \A w \in Workers : proc'[w] = proc[w] \/ w = ending[s]
    BY <1>i, <2>1, <2>2 DEF TornDown
  <2>4. \A r \in Sessions : Leaving'[r] \in {Leaving[r], None} \cup CachedWorkers(cache)
    BY <1>i, <2>1 DEF Leaving
  <2> QED BY <1>1, <2>1, <2>2, <2>3, <2>4
<1>4. ASSUME \/ \E s \in Sessions : ResetShared(s)
             \/ \E i \in 1..Cardinality(Workers) : CachedBreaks(i)
             \/ BeginTeardown \/ FinishDispose \/ UNCHANGED execVars
             \/ \E ok \in BOOLEAN : DisposeOne(ok)
      PROVE  Taken' \subseteq Taken
  <2>1. Leaving' = Leaving
    BY <1>4 DEF Leaving, ResetShared, CachedBreaks, BeginTeardown, FinishDispose, DisposeOne, execVars
  <2>2. CachedWorkers(cache') \subseteq CachedWorkers(cache)
    <3>1. cache' \in {cache, <<>>}
      BY <1>4 DEF ResetShared, CachedBreaks, BeginTeardown, FinishDispose, DisposeOne, execVars
    <3>2. CASE cache' = <<>>
      <4>1. 1..Len(cache') = {}
        BY <3>2
      <4> QED BY <1>c, <4>1
    <3> QED BY <3>1, <3>2
  <2>3. \A w \in Workers : proc'[w] # "none" => proc[w] # "none"
    <3>1. CASE UNCHANGED proc
      BY <3>1
    <3>2. CASE \E w, p : proc[w] \in Live /\ proc' = [proc EXCEPT ![w] = p]
      BY <1>i, <3>2
    <3>3. CASE \E i \in 1..Cardinality(Workers) : CachedBreaks(i)
      BY <3>2, <3>3 DEF CachedBreaks, Live
    <3>4. CASE \E ok \in BOOLEAN : DisposeOne(ok)
      BY <3>1, <3>2, <3>4 DEF DisposeOne, TornDown
    <3> QED BY <1>4, <3>1, <3>3, <3>4 DEF ResetShared, BeginTeardown, FinishDispose, execVars
  <2>4. \A s \in Sessions : Leaving'[s] \in {Leaving[s], None} \cup CachedWorkers(cache)
    BY <2>1
  <2> QED BY <1>1, <2>2, <2>3, <2>4
<1> QED BY <1>2, <1>3, <1>4

\* The room in the pool stands.
LEMMA StepPool ==
  ASSUME NoContainerResets, SlotsInv, OwnersInv, PoolInv, [ExecNext]_execVars
  PROVE  PoolInv'
PROOF
<1> DEFINE OfCalls == \E c \in Calls : \/ CallStep(c) \/ Admit(c) \/ AdmitRefused(c)
                                       \/ \E s \in Sessions, p \in Calls \cup {None} : Submit(c, s, p)
<1>1. \/ OfCalls
      \/ \E s \in Sessions : EndTemp(s) \/ ResetShared(s)
      \/ \E s \in Sessions, ok \in BOOLEAN : EndTempDone(s, ok)
      \/ \E i \in 1..Cardinality(Workers) : CachedBreaks(i)
      \/ Dispose \/ BeginTeardown \/ FinishDispose \/ UNCHANGED execVars
      \/ \E ok \in BOOLEAN : DisposeOne(ok)
  <2>1. \A s \in Sessions, ok \in BOOLEAN : ~Reset(s) /\ ~ResetDone(s, ok)
    BY DEF NoContainerResets, PoolInv, NoResetRuns, Reset, ResetDone
  <2>2. \A s \in Sessions : SessionStep(s) => \E ok \in BOOLEAN : EndTempDone(s, ok)
    BY <2>1 DEF SessionStep
  <2> HIDE DEF OfCalls
  <2>3. \/ OfCalls
        \/ \E s \in Sessions : SessionStep(s) \/ Reset(s) \/ ResetShared(s) \/ EndTemp(s)
        \/ \E i \in 1..Cardinality(Workers) : CachedBreaks(i)
        \/ Dispose \/ DisposeStep \/ UNCHANGED execVars
    BY DEF ExecNext, OfCalls
  <2> QED BY <2>1, <2>2, <2>3 DEF DisposeStep
<1>2. NoResetRuns'
  <2>1. CASE OfCalls
    <3>1. resetting' = resetting
      BY <2>1, CallAlone
    <3> QED BY <3>1 DEF PoolInv, NoResetRuns
  <2>2. CASE UNCHANGED resetting
    BY <2>2 DEF PoolInv, NoResetRuns
  <2> HIDE DEF OfCalls
  <2> QED BY <1>1, <2>1, <2>2 DEF EndTemp, ResetShared, EndTempDone, CachedBreaks, Dispose, BeginTeardown, FinishDispose,
         DisposeOne, execVars
<1>3. ASSUME phase \notin TearingDown, phase' \notin TearingDown PROVE Roomy'
  <2>1. Roomy
    BY <1>3 DEF PoolInv
  <2>2. CASE OfCalls
    BY <2>1, <2>2, CallsRoom
  <2>3. ~FinishDispose /\ ~\E ok \in BOOLEAN : DisposeOne(ok)
    BY <1>3 DEF FinishDispose, DisposeOne, TearingDown
  <2> HIDE DEF OfCalls
  <2> QED BY <1>1, <1>3, <2>1, <2>2, <2>3, OutsideFits
<1>4. ASSUME phase' \in TearingDown PROVE Cardinality(Taken') <= PoolSize
  <2>1. ~OfCalls
    BY <1>4, CallsDrained
  <2>2. ~Dispose
    BY <1>4 DEF Dispose, TearingDown
  <2> HIDE DEF OfCalls
  <2>3. Taken' \in SUBSET Taken
    BY <1>1, <2>1, <2>2, TakenShrinks
  <2>4. Cardinality(Taken) <= PoolSize
    <3>1. CASE phase \in TearingDown
      BY <3>1 DEF PoolInv
    <3>2. CASE phase \notin TearingDown
      BY <3>2, TakenFits DEF PoolInv
    <3> QED BY <3>1, <3>2
  <2>5. IsFiniteSet(Taken)
    <3>1. Taken \in SUBSET Workers
      BY DEF Taken, Held
    <3> QED BY <3>1, FS_Subset, ExecutionAssumption
  <2>6. Cardinality(Taken') <= Cardinality(Taken) /\ Cardinality(Taken') \in Nat /\ Cardinality(Taken) \in Nat
    BY <2>3, <2>5, FS_Subset, FS_CardinalityType
  <2> QED BY <2>4, <2>6, ExecutionAssumption
<1>5. ASSUME phase \in TearingDown PROVE phase' \in TearingDown
  <2>1. ~OfCalls
    BY <1>5, CallsDrained DEF Over, TearingDown
  <2> HIDE DEF OfCalls
  <2>2. CASE FinishDispose
    BY <2>2 DEF FinishDispose, TearingDown
  <2>3. CASE phase' = phase
    BY <1>5, <2>3
  <2> QED BY <1>1, <1>5, <2>1, <2>2, <2>3 DEF EndTemp, ResetShared, EndTempDone, CachedBreaks, Dispose, BeginTeardown,
         DisposeOne, TearingDown, execVars
<1> QED BY <1>2, <1>3, <1>4, <1>5 DEF PoolInv

\* It is there from the beginning.
LEMMA InitPool == ExecInit => PoolInv
PROOF
<1> SUFFICES ASSUME ExecInit PROVE PoolInv
  OBVIOUS
<1>1. Users = {} /\ Ending = {} /\ Orphans = {}
  BY DEF ExecInit, Users, Using, Ending, Orphans
<1>2. Cardinality({}) = 0 /\ Len(cache) = 0 /\ gates["worker"].quarantined = 0 /\ PoolSize \in Nat
  BY FS_EmptySet, ExecutionAssumption DEF ExecInit, OpenGate, Lanes
<1>3. Roomy
  BY <1>1, <1>2 DEF Roomy
<1> QED BY <1>3 DEF PoolInv, NoResetRuns, ExecInit, TearingDown

\* With its invariants, the pool is never exceeded.
LEMMA PoolHolds ==
  ASSUME NoContainerResets
  PROVE  ExecSpec => [](SlotsInv /\ OwnersInv /\ PoolInv)
PROOF
<1>1. ExecInit => SlotsInv /\ OwnersInv /\ PoolInv
  BY InitSlots, InitOwners, InitPool
<1>2. SlotsInv /\ OwnersInv /\ PoolInv /\ [ExecNext]_execVars => (SlotsInv /\ OwnersInv /\ PoolInv)'
  BY StepSlots, StepOwners, StepPool
<1> QED BY <1>1, <1>2, PTL DEF ExecSpec

\* WorkersOwned: with no container reset from outside, the tables are typed,
\* a worker has one owner, a session one execution, and the workers that exist,
\* confirmed dead or not, fit in pool_size (ADR-012; _acquireWorker, _scavenge,
\* _release, releaseTemporarySession, dispose).
THEOREM ExecWorkersOwned == NoContainerResets => (ExecSpec => []WorkersOwned)
PROOF
<1> SUFFICES ASSUME NoContainerResets PROVE ExecSpec => []WorkersOwned
  OBVIOUS
<1>1. SlotsInv /\ OwnersInv /\ PoolInv => WorkersWithinPool
  <2> SUFFICES ASSUME SlotsInv, OwnersInv, PoolInv PROVE WorkersWithinPool
    OBVIOUS
  <2>1. Cardinality(Taken) <= PoolSize
    BY TakenFits DEF PoolInv
  <2>2. IsFiniteSet(Taken)
    <3>1. Taken \in SUBSET Workers
      BY DEF Taken, Held
    <3> QED BY <3>1, FS_Subset, ExecutionAssumption
  <2> DEFINE S == {w \in Workers : proc[w] # "none"}
  <2>3. S \in SUBSET Taken
    BY DEF Taken
  <2> HIDE DEF S
  <2>4. Cardinality(S) <= Cardinality(Taken) /\ Cardinality(S) \in Nat /\ Cardinality(Taken) \in Nat
    BY <2>2, <2>3, FS_Subset, FS_CardinalityType
  <2>5. Cardinality(S) <= PoolSize
    BY <2>1, <2>4, ExecutionAssumption
  <2> QED BY <2>5 DEF WorkersWithinPool, S
<1>2. ExecTypeOK /\ OneOwnerPerWorker /\ OneExecutionPerSession /\ WorkersWithinPool => WorkersOwned
  BY DEF WorkersOwned
<1> QED BY <1>1, <1>2, ExecTypes, ExecOneOwner, ExecOnePerSession, PoolHolds, PTL

\* OrphansAreQuarantined: with no container reset from outside, until shutdown
\* every worker whose teardown could not be confirmed has a slot of its own
\* withheld (ADR-058; CapacityPermit.quarantine, _discardWorker).
THEOREM ExecOrphansQuarantined == NoContainerResets => (ExecSpec => []OrphansAreQuarantined)
PROOF
<1> SUFFICES ASSUME NoContainerResets PROVE ExecSpec => []OrphansAreQuarantined
  OBVIOUS
<1>1. SlotsInv /\ OwnersInv /\ PoolInv => OrphansAreQuarantined
  BY DEF PoolInv, Roomy, OrphansAreQuarantined, TearingDown
<1> QED BY <1>1, PoolHolds, PTL
=============================================================================
