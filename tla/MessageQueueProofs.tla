-------------------------- MODULE MessageQueueProofs --------------------------
(***************************************************************************)
(* For any sessions, senders, limits and strategy the queue keeps each     *)
(* sender's messages in order and neither loses nor duplicates a message,  *)
(* a slot or a wake-up; and with the fair strategy nobody is overtaken     *)
(* twice by the same sender.                                               *)
(***************************************************************************)
EXTENDS MessageQueue, FiniteSetTheorems, WellFoundedInduction, TLAPS

\* The invariant speaks of one session by its window b (per sender), the entry
\* in hand h, its queue q and its stage a.
Working == {"typing", "dispatching", "sending", "delaying", "notifying"}
Stages == {"none", "parked", "woken", "slot"} \cup Working

\* The entry in hand is there as long as _processNext works on it, with an
\* attempt left until it failed for the last time; a session that is to go on
\* has an entry to go on with; disposal (d) leaves neither windows nor queues.
HandOK(a, b, h, q, d) ==
  /\ IF a \in Working THEN h \in Entries ELSE h = NoEntry
  /\ a \in Working \ {"notifying"} => h.attempt < MaxAttempts
  /\ ~d /\ a \in {"parked", "woken", "slot"} => q # <<>>
  /\ \A i \in 1..Len(q) : q[i].attempt < MaxAttempts
  /\ d => q = <<>> /\ \A x \in Senders : b[x] = <<>>

\* An entry in hand may come back to its queue.
Within(a, h, q) ==
  /\ Len(q) <= IF a \in Working THEN MaxQueueDepth ELSE MaxQueueDepth + 1
  /\ \A x \in Senders \ Admins :
       MaxQueued > 0 => Cardinality(OfSender(q, x)) <= IF h.sender = x THEN MaxQueued ELSE MaxQueued + 1

SessionOK(s) ==
  /\ HandOK(at[s], buffer[s], hand[s], queue[s], disposed)
  /\ InOrder(buffer[s], hand[s], queue[s])
  /\ Within(at[s], hand[s], queue[s])

\* The sessions whose stage is in K.
Where(f, K) == {t \in Sessions : f[t] \in K}
HoldingIn(f) == Where(f, Holding)
WokenIn(f) == Where(f, {"woken"})

\* With the sessions at stages f, n slots in use and w waiting, the slots add
\* up: who waits is parked and waits once, no slot is leaked, no wake-up lost;
\* after disposal (d) sessions leave with their slots.
SlotsAt(f, n, w, d) ==
  /\ f \in [Sessions -> Stages] /\ w \in Seq(Sessions) /\ n \in Nat
  /\ \A i \in 1..Len(w) : f[w[i]] = "parked"
  /\ \A i, j \in 1..Len(w) : w[i] = w[j] => i = j
  /\ n >= Cardinality(HoldingIn(f)) /\ (~d => n = Cardinality(HoldingIn(f)))
  /\ w # <<>> => n + Cardinality(WokenIn(f)) >= MaxConcurrentTurns
SlotsNow == SlotsAt(at, active, waiting, disposed)

\* Message m is at spot c of a session: in the window of sender c[1], or in
\* entry c[2] of the queue, where entry 0 is the one in hand.
Spots == (Senders \cup {Nobody}) \X Nat
Has(b, h, q, m, c) ==
  IF c[1] # Nobody THEN c[2] = 0 /\ m \in Elements(b[c[1]])
  ELSE c[2] \in 0..Len(q) /\ m \in Elements(Entry(h, q, c[2]).msgs)
In(s, m, c) == Has(buffer[s], hand[s], queue[s], m, c)

\* A message is in one place while it is open, and in none when it is settled.
OnceOK ==
  /\ \A s \in Sessions : \A c \in Spots : \A m \in Messages : In(s, m, c) => Open(m)
  /\ \A m \in 1..Len(fate) : fate[m] = "open" => \E s \in Sessions : \E c \in Spots : In(s, m, c)
  /\ \A s, t \in Sessions : \A c, d \in Spots : \A m \in Messages :
       In(s, m, c) /\ In(t, m, d) => s = t /\ c = d

QueueInv == QueueTypeOK /\ SlotsNow /\ OnceOK /\ \A s \in Sessions : SessionOK(s)

-----------------------------------------------------------------------------
(* Sequences and sets of positions.                                        *)

\* A nonempty set of numbers has a first one.
LEMMA FirstExists ==
  ASSUME NEW S, S \subseteq Nat, S # {}
  PROVE  First(S) \in S /\ \A y \in S : First(S) <= y
PROOF
<1> DEFINE R == OpToRel(<, Nat)
<1>1. IsWellFoundedOn(R, Nat)
  BY NatLessThanWellFounded
<1>2. \A x, y \in Nat : <<y, x>> \in R <=> y < x
  BY DEF OpToRel
<1> HIDE DEF R
<1>3. PICK x \in S : \A y \in S : ~(<<y, x>> \in R)
  BY <1>1, WFMin
<1>4. ASSUME NEW y \in S PROVE x <= y
  <2>1. x \in Nat /\ y \in Nat /\ ~(y < x)
    BY <1>2, <1>3
  <2> QED BY <2>1
<1>5. \E z \in S : \A y \in S : z <= y
  BY <1>4
<1> QED BY <1>5 DEF First

LEMMA Joined ==
  ASSUME NEW S, NEW a \in Seq(S), NEW b \in Seq(S)
  PROVE  /\ a \o b \in Seq(S) /\ Len(a \o b) = Len(a) + Len(b)
         /\ \A j \in 1..Len(a) : (a \o b)[j] = a[j]
         /\ \A j \in 1..Len(b) : (a \o b)[Len(a) + j] = b[j]
OBVIOUS

\* Sequence w is sequence q with its entry i taken out.
Less(q, i, w) ==
  /\ Len(w) = Len(q) - 1
  /\ \A j \in 1..Len(w) : w[j] = q[IF j < i THEN j ELSE j + 1]

LEMMA WithoutFacts ==
  ASSUME NEW S, NEW q \in Seq(S), NEW i \in 1..Len(q)
  PROVE  Without(q, i) \in Seq(S) /\ Less(q, i, Without(q, i))
PROOF
<1> DEFINE a == SubSeq(q, 1, i - 1)
           b == SubSeq(q, i + 1, Len(q))
<1>1. Len(q) \in Nat /\ i \in Nat
  OBVIOUS
<1>2. a \in Seq(S) /\ Len(a) = i - 1 /\ \A j \in 1..i - 1 : a[j] = q[j]
  BY <1>1
<1>3. b \in Seq(S) /\ Len(b) = Len(q) - i /\ \A j \in 1..Len(q) - i : b[j] = q[i + j]
  BY <1>1
<1> HIDE DEF a, b
<1>4. a \o b \in Seq(S) /\ Len(a \o b) = Len(q) - 1
  <2>1. a \o b \in Seq(S) /\ Len(a \o b) = Len(a) + Len(b)
    BY <1>2, <1>3, Joined
  <2> QED BY <1>1, <1>2, <1>3, <2>1
<1>5. ASSUME NEW j \in 1..Len(q) - 1 PROVE (a \o b)[j] = q[IF j < i THEN j ELSE j + 1]
  <2>1. CASE j < i
    <3>1. j \in 1..Len(a) /\ j \in 1..i - 1
      BY <1>1, <1>2, <2>1
    <3> QED BY <1>2, <1>3, <2>1, <3>1, Joined
  <2>2. CASE ~(j < i)
    <3> DEFINE k == j - (i - 1)
    <3>1. k \in 1..Len(q) - i /\ k \in 1..Len(b) /\ i + k = j + 1 /\ Len(a) + k = j
      BY <1>1, <1>2, <1>3, <2>2
    <3>2. (a \o b)[Len(a) + k] = b[k] /\ b[k] = q[i + k]
      BY <1>2, <1>3, <3>1, Joined
    <3> QED BY <2>2, <3>1, <3>2
  <2> QED BY <2>1, <2>2
<1> QED BY <1>4, <1>5 DEF Without, Less, a, b

\* An entry in front or behind: without it the queue is what it was.
LEMMA Fronted ==
  ASSUME NEW S, NEW q \in Seq(S), NEW e \in S
  PROVE  /\ <<e>> \o q \in Seq(S) /\ Len(<<e>> \o q) = Len(q) + 1 /\ (<<e>> \o q)[1] = e
         /\ \A j \in 1..Len(q) : (<<e>> \o q)[j + 1] = q[j]
         /\ 1 \in 1..Len(<<e>> \o q) /\ Less(<<e>> \o q, 1, q)
PROOF
<1>1. PICK a \in Seq(S) : a = <<e>>
  <2>1. <<e>> \in Seq(S)
    OBVIOUS
  <2> QED BY <2>1
<1>3. Len(a) = 1 /\ a[1] = e /\ Len(q) \in Nat
  BY <1>1
<1>j. /\ a \o q \in Seq(S) /\ Len(a \o q) = Len(a) + Len(q)
      /\ \A j \in 1..Len(a) : (a \o q)[j] = a[j]
      /\ \A j \in 1..Len(q) : (a \o q)[Len(a) + j] = q[j]
  BY ONLY Joined
<1> DEFINE w == a \o q
<1>2. /\ w \in Seq(S) /\ Len(w) = Len(a) + Len(q)
      /\ \A j \in 1..Len(a) : w[j] = a[j]
      /\ \A j \in 1..Len(q) : w[Len(a) + j] = q[j]
  BY <1>j
<1> HIDE DEF w
<1>4. Len(w) = Len(q) + 1 /\ w[1] = e /\ \A j \in 1..Len(q) : w[j + 1] = q[j]
  <2>1. 1 \in 1..Len(a) /\ \A j \in 1..Len(q) : Len(a) + j = j + 1
    BY <1>3
  <2> QED BY <1>2, <1>3, <2>1
<1>5. 1 \in 1..Len(w) /\ Less(w, 1, q)
  BY <1>3, <1>4 DEF Less
<1>6. <<e>> \o q = w
  BY <1>1 DEF w
<1> QED BY <1>2, <1>4, <1>5, <1>6

LEMMA Appended ==
  ASSUME NEW S, NEW q \in Seq(S), NEW e \in S
  PROVE  /\ Append(q, e) \in Seq(S) /\ Len(Append(q, e)) = Len(q) + 1 /\ Append(q, e)[Len(q) + 1] = e
         /\ \A j \in 1..Len(q) : Append(q, e)[j] = q[j]
         /\ Len(q) + 1 \in 1..Len(Append(q, e)) /\ Less(Append(q, e), Len(q) + 1, q)
PROOF
  BY DEF Less

LEMMA AppendedElements ==
  ASSUME NEW S, NEW q \in Seq(S), NEW e \in S
  PROVE  \A k : k \in Elements(Append(q, e)) <=> k \in Elements(q) \/ k = e
PROOF
<1> DEFINE w == Append(q, e)
           n == Len(q)
<1>1. n \in Nat /\ Len(w) = n + 1 /\ w[n + 1] = e /\ \A j \in 1..n : w[j] = q[j]
  BY Appended
<1>2. Elements(q) = {q[i] : i \in 1..n} /\ Elements(w) = {w[i] : i \in 1..Len(w)}
  BY DEF Elements
<1> HIDE DEF w, n
<1>3. ASSUME NEW k \in Elements(w) PROVE k \in Elements(q) \/ k = e
  <2>1. PICK i \in 1..Len(w) : k = w[i]
    BY <1>2
  <2>2. i \in 1..n \/ i = n + 1
    BY <1>1
  <2> QED BY <1>1, <1>2, <2>1, <2>2
<1>4. ASSUME NEW k \in Elements(q) PROVE k \in Elements(w)
  <2>1. PICK i \in 1..n : k = q[i]
    BY <1>2
  <2>2. i \in 1..Len(w)
    BY <1>1
  <2> QED BY <1>1, <1>2, <2>1, <2>2
<1>5. e \in Elements(w)
  <2>1. n + 1 \in 1..Len(w)
    BY <1>1
  <2> QED BY <1>1, <1>2, <2>1
<1> QED BY <1>3, <1>4, <1>5 DEF w

\* The entries of a sender, counted.
LEMMA OfSenderFinite ==
  ASSUME NEW q \in Seq(Entries), NEW x
  PROVE  IsFiniteSet(OfSender(q, x)) /\ Cardinality(OfSender(q, x)) \in Nat
PROOF
<1>1. 1 \in Int /\ Len(q) \in Int
  OBVIOUS
<1>2. IsFiniteSet(1..Len(q))
  BY <1>1, FS_Interval
<1>3. OfSender(q, x) \in SUBSET (1..Len(q))
  BY DEF OfSender
<1> QED BY <1>2, <1>3, FS_Subset, FS_CardinalityType

LEMMA CountLess ==
  ASSUME NEW q \in Seq(Entries), NEW i \in 1..Len(q), NEW w \in Seq(Entries), Less(q, i, w), NEW x
  PROVE  Cardinality(OfSender(w, x)) = Cardinality(OfSender(q, x)) - IF q[i].sender = x THEN 1 ELSE 0
PROOF
<1>1. Len(q) \in Nat /\ i \in Nat /\ Len(w) = Len(q) - 1 /\ \A j \in 1..Len(q) - 1 : w[j] = q[IF j < i THEN j ELSE j + 1]
  BY DEF Less
<1> DEFINE A == OfSender(q, x) \ {i}
           B == OfSender(w, x)
           f == [j \in A |-> IF j < i THEN j ELSE j - 1]
<1>2. ASSUME NEW j \in A PROVE f[j] \in B
  <2>1. j \in 1..Len(q) /\ j # i /\ q[j].sender = x
    BY DEF OfSender
  <2>2. f[j] \in 1..Len(w) /\ w[f[j]] = q[j]
    BY <1>1, <2>1
  <2> QED BY <2>1, <2>2 DEF OfSender
<1>3. \A j, k \in A : f[j] = f[k] => j = k
  BY <1>1 DEF OfSender
<1>4. ASSUME NEW k \in B PROVE \E j \in A : f[j] = k
  <2> DEFINE j == IF k < i THEN k ELSE k + 1
  <2>1. k \in 1..Len(q) - 1 /\ w[k].sender = x /\ w[k] = q[j]
    BY <1>1 DEF OfSender
  <2>2. j \in 1..Len(q) /\ j # i
    BY <1>1, <2>1
  <2>3. j \in A
    BY <2>1, <2>2 DEF OfSender
  <2>4. f[j] = k
    BY <1>1, <2>1, <2>3
  <2> QED BY <2>3, <2>4
<1>5. f \in Bijection(A, B)
  <2>1. f \in [A -> B]
    <3>1. \A j \in A : f[j] \in B
      BY <1>2
    <3>2. f = [j \in A |-> f[j]]
      OBVIOUS
    <3> HIDE DEF A, B, f
    <3> QED BY <3>1, <3>2
  <2> HIDE DEF A, B, f
  <2> QED BY <1>3, <1>4, <2>1 DEF Bijection, Injection, Surjection, IsInjective
<1>6. IsFiniteSet(A) /\ Cardinality(A) = Cardinality(OfSender(q, x)) - IF q[i].sender = x THEN 1 ELSE 0
  <2>1. IsFiniteSet(OfSender(q, x)) /\ Cardinality(OfSender(q, x)) \in Nat
    BY OfSenderFinite
  <2>2. i \in OfSender(q, x) <=> q[i].sender = x
    BY DEF OfSender
  <2>3. /\ IsFiniteSet(A)
        /\ Cardinality(A) = IF i \in OfSender(q, x) THEN Cardinality(OfSender(q, x)) - 1 ELSE Cardinality(OfSender(q, x))
    BY <2>1, FS_RemoveElement
  <2> QED BY <2>1, <2>2, <2>3
<1> HIDE DEF A, B, f
<1>7. Cardinality(B) = Cardinality(A)
  BY <1>5, <1>6, FS_Bijection DEF ExistsBijection
<1> QED BY <1>6, <1>7 DEF B

\* From f to g session s alone moves: the count of K changes by that.
Counted(f, g, s, K) ==
  /\ Cardinality(Where(f, K)) \in Nat /\ Cardinality(Where(g, K)) \in Nat
  /\ Cardinality(Where(g, K)) =
       Cardinality(Where(f, K)) - (IF f[s] \in K THEN 1 ELSE 0) + (IF g[s] \in K THEN 1 ELSE 0)

\* Counting what is in a set of stages, when one session moves.
LEMMA CountMoved ==
  ASSUME NEW f, NEW g, NEW s \in Sessions, \A t \in Sessions \ {s} : f[t] = g[t], NEW K
  PROVE  Counted(f, g, s, K)
PROOF
<1> DEFINE F == Where(f, K)
           G == Where(g, K)
<1>1. F \in SUBSET Sessions /\ G \in SUBSET Sessions /\ F \ {s} = G \ {s}
      /\ (s \in F <=> f[s] \in K) /\ (s \in G <=> g[s] \in K)
  BY DEF Where
<1> HIDE DEF F, G
<1>2. IsFiniteSet(F) /\ IsFiniteSet(G)
  BY <1>1, FS_Subset, QueueAssumption
<1>3. Cardinality(F) \in Nat /\ Cardinality(G) \in Nat
  BY <1>2, FS_CardinalityType
<1>4. Cardinality(F \ {s}) = IF s \in F THEN Cardinality(F) - 1 ELSE Cardinality(F)
  BY <1>2, FS_RemoveElement
<1>5. Cardinality(G \ {s}) = IF s \in G THEN Cardinality(G) - 1 ELSE Cardinality(G)
  BY <1>2, FS_RemoveElement
<1>6. Cardinality(G) = Cardinality(F) - (IF f[s] \in K THEN 1 ELSE 0) + (IF g[s] \in K THEN 1 ELSE 0)
  <2> DEFINE m == Cardinality(F)
             n == Cardinality(G)
             a == IF s \in F THEN 1 ELSE 0
             b == IF s \in G THEN 1 ELSE 0
  <2>1. m \in Int /\ n \in Int /\ a \in Int /\ b \in Int
    BY <1>3
  <2>2. Cardinality(F \ {s}) = m - a /\ Cardinality(G \ {s}) = n - b
    BY <1>3, <1>4, <1>5
  <2>3. m - a = n - b
    BY ONLY <1>1, <2>2
  <2> HIDE DEF m, n, a, b
  <2>4. n = m - a + b
    BY ONLY <2>1, <2>3
  <2> QED BY <1>1, <2>4 DEF m, n, a, b
<1> QED BY <1>3, <1>6 DEF F, G, Counted

-----------------------------------------------------------------------------
(* _removeNextEntry: the entry that is next is the first of its sender.    *)

\* In a finite set of numbers there is one of each rank.
LEMMA OfRank ==
  ASSUME NEW N \in Nat, NEW F, F \subseteq 1..N, NEW n \in 1..Cardinality(F)
  PROVE  \E i \in F : Cardinality({j \in F : j <= i}) = n
PROOF
<1> DEFINE Below(k) == {j \in F : j <= k}
           Rank(k) == Cardinality(Below(k))
           G == {k \in Nat : Rank(k) >= n}
<1>1. IsFiniteSet(F) /\ Cardinality(F) \in Nat /\ n \in Nat /\ n >= 1
  <2>1. 1 \in Int /\ N \in Int
    OBVIOUS
  <2>2. IsFiniteSet(1..N)
    BY <2>1, FS_Interval
  <2>3. F \in SUBSET (1..N)
    OBVIOUS
  <2>4. IsFiniteSet(F) /\ Cardinality(F) \in Nat
    BY <2>2, <2>3, FS_Subset, FS_CardinalityType
  <2> QED BY <2>4
<1>2. ASSUME NEW k \in Nat PROVE IsFiniteSet(Below(k)) /\ Rank(k) \in Nat
  <2>1. Below(k) \in SUBSET F
    OBVIOUS
  <2> QED BY <1>1, <2>1, FS_Subset, FS_CardinalityType
<1>3. N \in G
  <2>1. Below(N) = F
    <3>1. \A j \in F : j \in 1..N
      OBVIOUS
    <3>2. \A j \in F : j <= N
      BY <3>1
    <3> QED BY <3>2
  <2>2. Rank(N) = Cardinality(F)
    BY <2>1
  <2>3. Cardinality(F) >= n
    BY <1>1
  <2> HIDE DEF Rank
  <2> QED BY <2>2, <2>3
<1>4. First(G) \in G /\ \A y \in G : First(G) <= y
  <2>1. G \subseteq Nat /\ G # {}
    BY <1>3
  <2> HIDE DEF G
  <2> QED BY <2>1, FirstExists
<1> DEFINE k == First(G)
<1>5. k \in Nat /\ Rank(k) >= n
  BY <1>4
<1>6. k # 0
  <2>1. Below(0) = {}
    <3>1. \A j \in F : j \in 1..N
      OBVIOUS
    <3>2. \A j \in F : ~(j <= 0)
      BY <3>1
    <3> QED BY <3>2
  <2>2. Rank(0) = 0
    BY <2>1, FS_EmptySet
  <2> QED BY <1>1, <1>5, <2>2
<1>7. k - 1 \in Nat /\ ~(Rank(k - 1) >= n)
  <2>1. k - 1 \in Nat /\ ~(k <= k - 1)
    BY <1>5, <1>6
  <2>2. k - 1 \notin G
    BY <1>4, <2>1
  <2> QED BY <2>1, <2>2
<1> HIDE DEF k, G
<1>8. k \in F
  <2> SUFFICES ASSUME k \notin F PROVE FALSE
    OBVIOUS
  <2>1. Below(k) = Below(k - 1)
    <3>1. ASSUME NEW j \in F PROVE j <= k <=> j <= k - 1
      BY <1>5, <3>1
    <3> QED BY <3>1
  <2> QED BY <1>5, <1>7, <2>1
<1>9. Rank(k) = Rank(k - 1) + 1
  <2>1. Below(k) = Below(k - 1) \cup {k} /\ k \notin Below(k - 1)
    <3>1. ASSUME NEW j \in F PROVE j <= k <=> j <= k - 1 \/ j = k
      BY <1>5, <3>1
    <3>2. ~(k <= k - 1)
      BY <1>5
    <3> QED BY <1>8, <3>1, <3>2
  <2> HIDE DEF Below
  <2>2. IsFiniteSet(Below(k - 1)) /\ Rank(k - 1) \in Nat
    BY <1>2, <1>7
  <2> QED BY <2>1, <2>2, FS_AddElement
<1>10. Rank(k) = n
  <2>1. Rank(k) \in Nat /\ Rank(k - 1) \in Nat
    BY <1>2, <1>5, <1>7
  <2> HIDE DEF Rank
  <2> QED BY <1>1, <1>5, <1>7, <1>9, <2>1
<1> QED BY <1>8, <1>10

LEMMA SeededType ==
  ASSUME NEW q \in Seq(Entries), q # <<>>, NEW r \in Seq(Senders)
  PROVE  Seeded(q, r) \in Seq(Senders) /\ Seeded(q, r) # <<>>
PROOF
<1> DEFINE F == {i \in 1..Len(q) : \A j \in 1..(i - 1) : q[j].sender # q[i].sender}
           nth(n) == CHOOSE i \in F : Cardinality({j \in F : j <= i}) = n
           t == [n \in 1..Cardinality(F) |-> q[nth(n)].sender]
<1>1. CASE r # <<>>
  BY <1>1 DEF Seeded
<1>2. CASE r = <<>>
  <2>1. Seeded(q, r) = t
    BY <1>2 DEF Seeded
  <2>2. Len(q) \in Nat /\ F \subseteq 1..Len(q) /\ 1 \in F
    OBVIOUS
  <2>3. \A i \in F : q[i].sender \in Senders
    <3>1. \A i \in 1..Len(q) : q[i] \in Entries
      OBVIOUS
    <3> QED BY <2>2, <3>1 DEF Entries
  <2>4. Cardinality(F) \in Nat \ {0}
    <3>1. 1 \in Int /\ Len(q) \in Int
      OBVIOUS
    <3>2. IsFiniteSet(1..Len(q)) /\ F \in SUBSET (1..Len(q))
      BY <3>1, FS_Interval
    <3>3. IsFiniteSet(F) /\ Cardinality(F) \in Nat
      BY <3>2, FS_Subset, FS_CardinalityType
    <3> HIDE DEF F
    <3>4. Cardinality(F) # 0
      BY <2>2, <3>3, FS_EmptySet
    <3> QED BY <3>3, <3>4
  <2> HIDE DEF F
  <2>5. ASSUME NEW n \in 1..Cardinality(F) PROVE nth(n) \in F
    BY <2>2, OfRank
  <2> HIDE DEF nth
  <2>6. t \in [1..Cardinality(F) -> Senders]
    BY <2>3, <2>5
  <2> DEFINE c == Cardinality(F)
  <2>7. c \in Nat \ {0} /\ t \in [1..c -> Senders]
    BY <2>4, <2>6
  <2> HIDE DEF c, t
  <2>8. t \in Seq(Senders) /\ Len(t) = c
    BY ONLY <2>7
  <2> QED BY <2>1, <2>7, <2>8
<1> QED BY <1>1, <1>2

LEMMA TurnedType ==
  ASSUME NEW r \in Seq(Senders), r # <<>>, NEW x
  PROVE  Turned(r, x) \in Seq(Senders) /\ Len(Turned(r, x)) = Len(r)
PROOF
  BY DEF Turned

LEMMA NextEntryFacts ==
  ASSUME NEW q \in Seq(Entries), q # <<>>, NEW r \in Seq(Senders), NEW x
  PROVE  LET e == NextEntry(q, r, x) IN
         /\ e.index \in 1..Len(q) /\ e.rotation \in Seq(Senders)
         /\ \A j \in 1..Len(q) : j < e.index => q[j].sender # q[e.index].sender
PROOF
<1> DEFINE e == NextEntry(q, r, x)
<1>1. Len(q) \in Nat /\ 1 \in 1..Len(q)
  OBVIOUS
<1>2. CASE ~Fair \/ Len(q) <= 1
  <2>1. e.index = 1 /\ e.rotation = r
    BY <1>2 DEF NextEntry
  <2> QED BY <1>1, <2>1
<1>3. CASE Fair /\ ~(Len(q) <= 1)
  <2> DEFINE order == Turned(Seeded(q, r), x)
             present == {k \in 1..Len(order) : OfSender(q, order[k]) # {}}
             k == IF present = {} THEN Len(order) ELSE First(present)
             i == IF present = {} THEN 1 ELSE First(OfSender(q, order[k]))
             y == q[i].sender
             rest == SubSeq(order, k + 1, Len(order))
             after == IF OfSender(Without(q, i), y) = {} THEN rest ELSE Append(rest, y)
  <2>1. e = [index |-> i, rotation |-> after]
    BY <1>3 DEF NextEntry
  <2>2. order \in Seq(Senders) /\ Len(order) \in Nat /\ order # <<>>
    <3>1. Seeded(q, r) \in Seq(Senders) /\ Seeded(q, r) # <<>>
      BY SeededType
    <3>2. order \in Seq(Senders) /\ Len(order) = Len(Seeded(q, r))
      BY <3>1, TurnedType
    <3> HIDE DEF order
    <3> QED BY <3>1, <3>2
  <2>3. k \in 1..Len(order)
    <3>1. CASE present = {}
      BY <2>2, <3>1
    <3>2. CASE present # {}
      <4>1. present \subseteq Nat
        OBVIOUS
      <4>2. First(present) \in present
        BY <3>2, <4>1, FirstExists
      <4> QED BY <3>2, <4>2
    <3> QED BY <3>1, <3>2
  <2>4. i \in 1..Len(q) /\ \A j \in 1..Len(q) : j < i => q[j].sender # q[i].sender
    <3>1. CASE present = {}
      BY <1>1, <3>1
    <3>2. CASE present # {}
      <4> DEFINE S == OfSender(q, order[k])
      <4>1. k \in present
        <5>1. present \subseteq Nat
          OBVIOUS
        <5>2. First(present) \in present
          BY <3>2, <5>1, FirstExists
        <5> QED BY <3>2, <5>2
      <4>2. S \subseteq 1..Len(q) /\ S # {} /\ \A j \in 1..Len(q) : j \in S <=> q[j].sender = order[k]
        BY <4>1 DEF OfSender
      <4>3. i = First(S)
        BY <3>2
      <4> HIDE DEF S, i, k, order, present
      <4>4. First(S) \in S /\ \A j \in S : First(S) <= j
        <5>1. S \subseteq Nat
          BY <4>2
        <5> QED BY <4>2, <5>1, FirstExists
      <4>5. ASSUME NEW j \in 1..Len(q), j < i PROVE q[j].sender # q[i].sender
        <5>1. i \in 1..Len(q) /\ q[i].sender = order[k]
          BY <4>2, <4>3, <4>4
        <5>2. j \notin S
          <6>1. ~(i <= j)
            BY <4>5, <5>1
          <6> QED BY <4>3, <4>4, <6>1
        <5> QED BY <4>2, <5>1, <5>2
      <4> QED BY <4>2, <4>3, <4>4, <4>5
    <3> QED BY <3>1, <3>2
  <2>5. rest \in Seq(Senders)
    <3> HIDE DEF order, k
    <3> QED BY <2>2, <2>3
  <2>6. y \in Senders
    <3>1. \A j \in 1..Len(q) : q[j] \in Entries
      OBVIOUS
    <3> HIDE DEF i
    <3>2. q[i] \in Entries
      BY <2>4, <3>1
    <3> QED BY <3>2 DEF Entries
  <2>7. after \in Seq(Senders)
    <3> HIDE DEF rest, y
    <3> QED BY <2>5, <2>6
  <2>8. e.index = i /\ e.rotation = after
    <3> HIDE DEF i, after
    <3> QED BY <2>1
  <2> HIDE DEF e, i, after
  <2> QED BY <2>4, <2>7, <2>8 DEF e
<1> QED BY <1>2, <1>3

-----------------------------------------------------------------------------
(* The slots: what is counted, who waits and who was woken.                *)

\* From f to g session s moves to stage v.
Moved(f, g, s, v) ==
  /\ g \in [Sessions -> Stages] /\ g[s] = v /\ \A t \in Sessions \ {s} : g[t] = f[t]
  /\ Cardinality(HoldingIn(f)) \in Nat /\ Cardinality(HoldingIn(g)) \in Nat
  /\ Cardinality(WokenIn(f)) \in Nat /\ Cardinality(WokenIn(g)) \in Nat
  /\ Cardinality(HoldingIn(g)) =
       Cardinality(HoldingIn(f)) - (IF f[s] \in Holding THEN 1 ELSE 0) + (IF v \in Holding THEN 1 ELSE 0)
  /\ Cardinality(WokenIn(g)) =
       Cardinality(WokenIn(f)) - (IF f[s] \in {"woken"} THEN 1 ELSE 0) + (IF v \in {"woken"} THEN 1 ELSE 0)

LEMMA OneMoves ==
  ASSUME NEW f \in [Sessions -> Stages], NEW s \in Sessions, NEW v \in Stages
  PROVE  Moved(f, [f EXCEPT ![s] = v], s, v)
PROOF
<1> DEFINE g == [f EXCEPT ![s] = v]
<1>1. g \in [Sessions -> Stages] /\ g[s] = v /\ \A t \in Sessions \ {s} : g[t] = f[t]
  OBVIOUS
<1> HIDE DEF g
<1>2. \A t \in Sessions \ {s} : f[t] = g[t]
  BY <1>1
<1>3. Counted(f, g, s, Holding) /\ Counted(f, g, s, {"woken"})
  BY <1>2, CountMoved
<1> QED BY <1>1, <1>3 DEF g, Moved, HoldingIn, WokenIn, Counted

\* A session without a slot asks for one.
LEMMA Acquired ==
  ASSUME NEW g \in [Sessions -> Stages], NEW s \in Sessions, NEW n, NEW w, NEW d,
         SlotsAt([g EXCEPT ![s] = "none"], n, w, d), AcquireSlot(s, g, n, w)
  PROVE  /\ SlotsAt(at', active', waiting', d)
         /\ at'[s] \in {"slot", "parked"} /\ \A t \in Sessions \ {s} : at'[t] = g[t]
PROOF
<1> DEFINE f == [g EXCEPT ![s] = "none"]
           H == Cardinality(HoldingIn(f))
           W == Cardinality(WokenIn(f))
<1>1. f \in [Sessions -> Stages] /\ f[s] = "none" /\ \A t \in Sessions \ {s} : f[t] = g[t]
  BY DEF Stages, Working
<1>2. \A v \in Stages : [g EXCEPT ![s] = v] = [f EXCEPT ![s] = v]
  OBVIOUS
<1>3. SlotsAt(f, n, w, d)
  OBVIOUS
<1> HIDE DEF f
<1>4. /\ w \in Seq(Sessions) /\ n \in Nat
      /\ \A i \in 1..Len(w) : w[i] \in Sessions /\ f[w[i]] = "parked" /\ w[i] # s
      /\ \A i, j \in 1..Len(w) : w[i] = w[j] => i = j
      /\ n >= H /\ (~d => n = H)
      /\ w # <<>> => n + W >= MaxConcurrentTurns
  BY <1>1, <1>3 DEF SlotsAt
<1>5. CASE n < MaxConcurrentTurns
  <2> DEFINE h == [f EXCEPT ![s] = "slot"]
  <2>1. active' = n + 1 /\ waiting' = w /\ at' = h
    BY <1>2, <1>5 DEF AcquireSlot
  <2>2. /\ h \in [Sessions -> Stages] /\ h[s] = "slot" /\ \A t \in Sessions \ {s} : h[t] = f[t]
        /\ H \in Nat /\ W \in Nat
        /\ Cardinality(HoldingIn(h)) = H + 1 /\ Cardinality(WokenIn(h)) = W
    <3>1. "slot" \in Stages /\ "slot" \in Holding /\ "none" \notin Holding /\ "slot" \notin {"woken"} /\ "none" \notin {"woken"}
      BY DEF Holding, Stages
    <3>2. Moved(f, h, s, "slot")
      BY <1>1, <3>1, OneMoves
    <3> HIDE DEF h
    <3> QED BY <1>1, <3>1, <3>2 DEF Moved
  <2> HIDE DEF h, H, W
  <2>3. \A i \in 1..Len(w) : h[w[i]] = "parked"
    BY <1>4, <2>2
  <2>4. n + 1 \in Nat /\ n + 1 >= H + 1 /\ (~d => n + 1 = H + 1) /\ (w # <<>> => n + 1 + W >= MaxConcurrentTurns)
    BY <1>4, <2>2, QueueAssumption
  <2>5. SlotsAt(h, n + 1, w, d)
    BY <1>4, <2>2, <2>3, <2>4 DEF SlotsAt
  <2> QED BY <1>1, <2>1, <2>2, <2>5
<1>6. CASE ~(n < MaxConcurrentTurns)
  <2> DEFINE h == [f EXCEPT ![s] = "parked"]
             v == Append(w, s)
  <2>1. active' = n /\ waiting' = v /\ at' = h
    BY <1>2, <1>6 DEF AcquireSlot
  <2>2. /\ h \in [Sessions -> Stages] /\ h[s] = "parked" /\ \A t \in Sessions \ {s} : h[t] = f[t]
        /\ Cardinality(HoldingIn(h)) = H /\ Cardinality(WokenIn(h)) \in Nat
    <3>1. "parked" \in Stages /\ "parked" \notin Holding /\ "none" \notin Holding
      BY DEF Holding, Stages
    <3>2. Moved(f, h, s, "parked")
      BY <1>1, <3>1, OneMoves
    <3> HIDE DEF h
    <3> QED BY <1>1, <3>1, <3>2 DEF Moved
  <2> HIDE DEF h, H, W
  <2>3. /\ v \in Seq(Sessions) /\ Len(v) = Len(w) + 1 /\ v[Len(w) + 1] = s
        /\ \A i \in 1..Len(w) : v[i] = w[i]
        /\ Len(w) \in Nat
    BY <1>4
  <2> HIDE DEF v
  <2>4. \A i \in 1..Len(v) : h[v[i]] = "parked"
    BY <1>4, <2>2, <2>3
  <2>5. \A i, j \in 1..Len(v) : v[i] = v[j] => i = j
    BY <1>4, <2>3
  <2>6. n + Cardinality(WokenIn(h)) >= MaxConcurrentTurns
    BY <1>4, <1>6, <2>2, QueueAssumption
  <2>7. SlotsAt(h, n, v, d)
    BY <1>4, <2>2, <2>3, <2>4, <2>5, <2>6 DEF SlotsAt
  <2> QED BY <1>1, <2>1, <2>2, <2>7
<1> QED BY <1>5, <1>6

\* A session that works gives its slot back: the counter falls, and the one
\* that has waited longest is woken.
LEMMA Released ==
  ASSUME SlotsNow, NEW s \in Sessions, at[s] \in Holding
  PROVE  LET parked == IF waiting = <<>> THEN <<>> ELSE Tail(waiting)
             stages == IF waiting = <<>> THEN at ELSE [at EXCEPT ![Head(waiting)] = "woken"]
         IN /\ stages \in [Sessions -> Stages]
            /\ \A t \in Sessions \ {s} : stages[t] = at[t] \/ (at[t] = "parked" /\ stages[t] = "woken")
            /\ SlotsAt([stages EXCEPT ![s] = "none"], active - 1, parked, disposed)
PROOF
<1> DEFINE H == Cardinality(HoldingIn(at))
           W == Cardinality(WokenIn(at))
<1>1. /\ at \in [Sessions -> Stages] /\ waiting \in Seq(Sessions) /\ active \in Nat
      /\ \A i \in 1..Len(waiting) : waiting[i] \in Sessions /\ at[waiting[i]] = "parked" /\ waiting[i] # s
      /\ \A i, j \in 1..Len(waiting) : waiting[i] = waiting[j] => i = j
      /\ active >= H /\ (~disposed => active = H)
      /\ waiting # <<>> => active + W >= MaxConcurrentTurns
      /\ Len(waiting) \in Nat
  BY DEF SlotsNow, SlotsAt, Holding
<1>h. /\ "none" \in Stages /\ "woken" \in Stages /\ "none" \notin Holding /\ "woken" \notin Holding
      /\ "parked" \notin Holding /\ "none" \notin {"woken"} /\ "parked" \notin {"woken"} /\ at[s] \notin {"woken"}
  BY DEF Holding, Stages
<1>2. CASE waiting = <<>>
  <2> DEFINE h == [at EXCEPT ![s] = "none"]
  <2>0. Moved(at, h, s, "none")
    BY <1>1, <1>h, OneMoves
  <2> HIDE DEF h
  <2>1. /\ h \in [Sessions -> Stages] /\ H \in Nat /\ Cardinality(HoldingIn(h)) \in Nat
        /\ Cardinality(HoldingIn(h)) =
             H - (IF at[s] \in Holding THEN 1 ELSE 0) + (IF "none" \in Holding THEN 1 ELSE 0)
    BY <2>0 DEF Moved
  <2> HIDE DEF H, W
  <2>2. Cardinality(HoldingIn(h)) = H - 1
    BY <1>h, <2>1
  <2>3. active - 1 \in Nat /\ active - 1 >= H - 1 /\ (~disposed => active - 1 = H - 1)
    BY <1>1, <2>1, <2>2
  <2>4. SlotsAt(h, active - 1, <<>>, disposed)
    BY <2>1, <2>2, <2>3 DEF SlotsAt
  <2> QED BY <1>1, <1>2, <2>4 DEF h
<1>3. CASE waiting # <<>>
  <2> DEFINE b == Head(waiting)
             w == Tail(waiting)
             f == [at EXCEPT ![b] = "woken"]
             h == [f EXCEPT ![s] = "none"]
  <2>1. /\ w \in Seq(Sessions) /\ Len(w) = Len(waiting) - 1 /\ \A i \in 1..Len(w) : w[i] = waiting[i + 1]
        /\ 1 \in 1..Len(waiting) /\ b = waiting[1]
    BY <1>1, <1>3
  <2> HIDE DEF w, b
  <2>2. b \in Sessions /\ b # s /\ at[b] = "parked"
    BY <1>1, <2>1
  <2>f. Moved(at, f, b, "woken")
    BY <1>1, <1>h, <2>2, OneMoves
  <2> HIDE DEF f
  <2>3. /\ f \in [Sessions -> Stages] /\ f[b] = "woken" /\ \A t \in Sessions \ {b} : f[t] = at[t]
        /\ H \in Nat /\ W \in Nat /\ Cardinality(HoldingIn(f)) \in Nat /\ Cardinality(WokenIn(f)) \in Nat
        /\ Cardinality(HoldingIn(f)) =
             H - (IF at[b] \in Holding THEN 1 ELSE 0) + (IF "woken" \in Holding THEN 1 ELSE 0)
        /\ Cardinality(WokenIn(f)) =
             W - (IF at[b] \in {"woken"} THEN 1 ELSE 0) + (IF "woken" \in {"woken"} THEN 1 ELSE 0)
    BY <2>f DEF Moved
  <2> HIDE DEF H, W
  <2>4. Cardinality(HoldingIn(f)) = H /\ Cardinality(WokenIn(f)) = W + 1 /\ f[s] = at[s]
    BY <1>h, <2>2, <2>3
  <2>h. Moved(f, h, s, "none")
    BY <1>h, <2>3, OneMoves
  <2> HIDE DEF h
  <2>5. /\ h \in [Sessions -> Stages] /\ h[s] = "none" /\ \A t \in Sessions \ {s} : h[t] = f[t]
        /\ Cardinality(HoldingIn(h)) \in Nat /\ Cardinality(WokenIn(h)) \in Nat
        /\ Cardinality(HoldingIn(h)) =
             Cardinality(HoldingIn(f)) - (IF f[s] \in Holding THEN 1 ELSE 0) + (IF "none" \in Holding THEN 1 ELSE 0)
        /\ Cardinality(WokenIn(h)) =
             Cardinality(WokenIn(f)) - (IF f[s] \in {"woken"} THEN 1 ELSE 0) + (IF "none" \in {"woken"} THEN 1 ELSE 0)
    BY <2>h DEF Moved
  <2>6. Cardinality(HoldingIn(h)) = H - 1 /\ Cardinality(WokenIn(h)) = W + 1
    BY <1>h, <2>3, <2>4, <2>5
  <2>7. active - 1 \in Nat /\ active - 1 >= H - 1 /\ (~disposed => active - 1 = H - 1)
        /\ active - 1 + (W + 1) >= MaxConcurrentTurns
    <3>1. H - 1 \in Nat
      BY <2>5, <2>6
    <3>2. active \in Nat /\ active >= H /\ (~disposed => active = H) /\ active + W >= MaxConcurrentTurns
      BY <1>1, <1>3 DEF H, W
    <3>3. MaxConcurrentTurns \in Nat
      BY QueueAssumption
    <3> QED BY <2>3, <3>1, <3>2, <3>3
  <2>8. /\ \A i \in 1..Len(w) : h[w[i]] = "parked"
        /\ \A i, j \in 1..Len(w) : w[i] = w[j] => i = j
    <3>1. \A i \in 1..Len(w) : i + 1 \in 1..Len(waiting) /\ i + 1 # 1
      BY <1>1, <2>1
    <3>2. ASSUME NEW i \in 1..Len(w) PROVE h[w[i]] = "parked"
      <4>1. w[i] = waiting[i + 1] /\ w[i] # b /\ w[i] # s /\ w[i] \in Sessions /\ at[w[i]] = "parked"
        BY <1>1, <2>1, <3>1
      <4> QED BY <2>3, <2>5, <4>1
    <3>3. ASSUME NEW i \in 1..Len(w), NEW j \in 1..Len(w), w[i] = w[j] PROVE i = j
      <4>1. i + 1 = j + 1
        BY <1>1, <2>1, <3>1, <3>3
      <4> QED BY <4>1
    <3> QED BY <3>2, <3>3
  <2>9. SlotsAt(h, active - 1, w, disposed)
    BY <2>1, <2>5, <2>6, <2>7, <2>8 DEF SlotsAt
  <2>10. \A t \in Sessions \ {s} : f[t] = at[t] \/ (at[t] = "parked" /\ f[t] = "woken")
    BY <2>2, <2>3
  <2> QED BY <1>3, <2>3, <2>9, <2>10 DEF h, f, b, w
<1> QED BY <1>2, <1>3

\* The other sessions of a step of session s: at most one, that waits, is woken.
OthersStay(s) ==
  \A t \in Sessions \ {s} : at'[t] = at[t] \/ (at[t] = "parked" /\ at'[t] = "woken")

\* _releaseSlot, and the head of the loop.
LEMMA ReleaseStep ==
  ASSUME SlotsNow, NEW s \in Sessions, at[s] \in Holding, NEW q, ReleaseAndLoop(s, q), disposed' = disposed
  PROVE  /\ SlotsNow' /\ OthersStay(s)
         /\ at'[s] \in {"none", "slot", "parked"} /\ (at'[s] # "none" => ~disposed /\ q # <<>>)
PROOF
<1> DEFINE parked == IF waiting = <<>> THEN <<>> ELSE Tail(waiting)
           stages == IF waiting = <<>> THEN at ELSE [at EXCEPT ![Head(waiting)] = "woken"]
<1>1. /\ stages \in [Sessions -> Stages]
      /\ \A t \in Sessions \ {s} : stages[t] = at[t] \/ (at[t] = "parked" /\ stages[t] = "woken")
      /\ SlotsAt([stages EXCEPT ![s] = "none"], active - 1, parked, disposed)
  BY Released
<1>2. IF disposed \/ q = <<>>
      THEN /\ active' = active - 1 /\ waiting' = parked /\ at' = [stages EXCEPT ![s] = "none"]
      ELSE AcquireSlot(s, stages, active - 1, parked)
  BY DEF ReleaseAndLoop
<1> HIDE DEF stages, parked
<1>3. CASE disposed \/ q = <<>>
  BY <1>1, <1>2, <1>3 DEF SlotsNow, OthersStay
<1>4. CASE ~(disposed \/ q = <<>>)
  <2>1. AcquireSlot(s, stages, active - 1, parked)
    BY <1>2, <1>4
  <2>2. /\ SlotsAt(at', active', waiting', disposed)
        /\ at'[s] \in {"slot", "parked"} /\ \A t \in Sessions \ {s} : at'[t] = stages[t]
    BY <1>1, <2>1, Acquired
  <2> QED BY <1>1, <1>4, <2>2 DEF SlotsNow, OthersStay
<1> QED BY <1>3, <1>4

\* A session that has none asks for a slot.
LEMMA AcquireStep ==
  ASSUME SlotsNow, NEW s \in Sessions, at[s] = "none", AcquireSlot(s, at, active, waiting), disposed' = disposed
  PROVE  SlotsNow' /\ OthersStay(s) /\ at'[s] \in {"slot", "parked"}
PROOF
<1>1. at \in [Sessions -> Stages] /\ SlotsAt(at, active, waiting, disposed)
  BY DEF SlotsNow, SlotsAt
<1>2. [at EXCEPT ![s] = "none"] = at
  BY <1>1
<1>3. /\ SlotsAt(at', active', waiting', disposed)
      /\ at'[s] \in {"slot", "parked"} /\ \A t \in Sessions \ {s} : at'[t] = at[t]
  BY <1>1, <1>2, Acquired
<1> QED BY <1>3 DEF SlotsNow, OthersStay

\* A session that has a slot goes from one await to the next.
LEMMA KeepsSlot ==
  ASSUME SlotsNow, NEW s \in Sessions, at[s] \in Holding, NEW v \in Holding, at' = [at EXCEPT ![s] = v],
         active' = active, waiting' = waiting, disposed' = disposed
  PROVE  SlotsNow' /\ OthersStay(s) /\ at'[s] = v
PROOF
<1>1. /\ at \in [Sessions -> Stages] /\ waiting \in Seq(Sessions) /\ active \in Nat
      /\ \A i \in 1..Len(waiting) : waiting[i] \in Sessions /\ at[waiting[i]] = "parked" /\ waiting[i] # s
  BY DEF SlotsNow, SlotsAt, Holding
<1>2. v \in Stages /\ at[s] \notin {"woken"} /\ v \notin {"woken"}
  BY DEF Holding, Stages, Working
<1>3. Moved(at, at', s, v)
  BY <1>1, <1>2, OneMoves
<1>4. /\ at' \in [Sessions -> Stages] /\ at'[s] = v /\ \A t \in Sessions \ {s} : at'[t] = at[t]
      /\ Cardinality(HoldingIn(at')) = Cardinality(HoldingIn(at)) /\ Cardinality(WokenIn(at')) = Cardinality(WokenIn(at))
  BY <1>2, <1>3 DEF Moved
<1>5. \A i \in 1..Len(waiting) : at'[waiting[i]] = "parked"
  BY <1>1, <1>4
<1> QED BY <1>4, <1>5 DEF SlotsNow, SlotsAt, OthersStay

\* A session that was woken counts its slot.
LEMMA CountsSlot ==
  ASSUME SlotsNow, NEW s \in Sessions, at[s] = "woken", at' = [at EXCEPT ![s] = "slot"],
         active' = active + 1, waiting' = waiting, disposed' = disposed
  PROVE  SlotsNow' /\ OthersStay(s) /\ at'[s] = "slot"
PROOF
<1>1. /\ at \in [Sessions -> Stages] /\ waiting \in Seq(Sessions) /\ active \in Nat
      /\ \A i \in 1..Len(waiting) : waiting[i] \in Sessions /\ at[waiting[i]] = "parked" /\ waiting[i] # s
      /\ \A i, j \in 1..Len(waiting) : waiting[i] = waiting[j] => i = j
      /\ active >= Cardinality(HoldingIn(at)) /\ (~disposed => active = Cardinality(HoldingIn(at)))
      /\ waiting # <<>> => active + Cardinality(WokenIn(at)) >= MaxConcurrentTurns
  BY DEF SlotsNow, SlotsAt
<1>2. "slot" \in Stages /\ "slot" \in Holding /\ at[s] \notin Holding /\ at[s] \in {"woken"} /\ "slot" \notin {"woken"}
  BY DEF Holding, Stages
<1>3. Moved(at, at', s, "slot")
  BY <1>1, <1>2, OneMoves
<1> DEFINE H == Cardinality(HoldingIn(at))
           W == Cardinality(WokenIn(at))
<1>4. /\ at' \in [Sessions -> Stages] /\ at'[s] = "slot" /\ \A t \in Sessions \ {s} : at'[t] = at[t]
      /\ H \in Nat /\ W \in Nat /\ Cardinality(HoldingIn(at')) = H + 1 /\ Cardinality(WokenIn(at')) = W - 1
  BY <1>2, <1>3 DEF Moved
<1>5. \A i \in 1..Len(waiting) : at'[waiting[i]] = "parked"
  BY <1>1, <1>4
<1>6. /\ active + 1 \in Nat /\ active + 1 >= H + 1 /\ (~disposed => active + 1 = H + 1)
      /\ (waiting # <<>> => active + 1 + (W - 1) >= MaxConcurrentTurns)
  BY <1>1, <1>4, QueueAssumption
<1> HIDE DEF H, W
<1> QED BY <1>1, <1>4, <1>5, <1>6 DEF SlotsNow, SlotsAt, OthersStay

\* A session that the disposal met leaves with its slot.
LEMMA LeavesWithSlot ==
  ASSUME SlotsNow, NEW s \in Sessions, at[s] = "slot", at' = [at EXCEPT ![s] = "none"],
         active' = active, waiting' = waiting, disposed, disposed' = disposed
  PROVE  SlotsNow' /\ OthersStay(s) /\ at'[s] = "none"
PROOF
<1>1. /\ at \in [Sessions -> Stages] /\ waiting \in Seq(Sessions) /\ active \in Nat
      /\ \A i \in 1..Len(waiting) : waiting[i] \in Sessions /\ at[waiting[i]] = "parked" /\ waiting[i] # s
      /\ active >= Cardinality(HoldingIn(at))
  BY DEF SlotsNow, SlotsAt
<1>2. "none" \in Stages /\ "none" \notin Holding /\ at[s] \in Holding /\ at[s] \notin {"woken"} /\ "none" \notin {"woken"}
  BY DEF Holding, Stages
<1>3. Moved(at, at', s, "none")
  BY <1>1, <1>2, OneMoves
<1> DEFINE H == Cardinality(HoldingIn(at))
<1>4. /\ at' \in [Sessions -> Stages] /\ at'[s] = "none" /\ \A t \in Sessions \ {s} : at'[t] = at[t]
      /\ H \in Nat /\ Cardinality(HoldingIn(at')) = H - 1
      /\ Cardinality(WokenIn(at')) = Cardinality(WokenIn(at))
  BY <1>2, <1>3 DEF Moved
<1>5. \A i \in 1..Len(waiting) : at'[waiting[i]] = "parked"
  BY <1>1, <1>4
<1>6. active >= H - 1
  BY <1>1, <1>4
<1> HIDE DEF H
<1> QED BY <1>4, <1>5, <1>6 DEF SlotsNow, SlotsAt, OthersStay

\* Disposal wakes those who wait for good.
LEMMA NobodyWaits ==
  ASSUME SlotsNow, at' = [t \in Sessions |-> IF at[t] = "parked" THEN "none" ELSE at[t]],
         active' = active, waiting' = <<>>, disposed'
  PROVE  SlotsNow'
PROOF
<1>1. at \in [Sessions -> Stages] /\ active \in Nat /\ active >= Cardinality(HoldingIn(at))
  BY DEF SlotsNow, SlotsAt
<1>2. at' \in [Sessions -> Stages]
  BY <1>1 DEF Stages
<1>3. HoldingIn(at') = HoldingIn(at)
  BY <1>1 DEF HoldingIn, Where, Holding
<1> QED BY <1>1, <1>2, <1>3 DEF SlotsNow, SlotsAt

-----------------------------------------------------------------------------
(* The order of a session's messages, as its window, hand and queue change. *)

\* Entry i of a session: its messages ascend, and those of its sender that come
\* after it are later.
EntryOK(b, h, q, i) ==
  LET e == Entry(h, q, i) IN
  /\ Ascending(e.msgs)
  /\ e.msgs # <<>> =>
       /\ Precede(e.msgs, b[e.sender])
       /\ \A j \in (i + 1)..Len(q) : q[j].sender = e.sender => Precede(e.msgs, q[j].msgs)

LEMMA InOrderIs ==
  ASSUME NEW b, NEW h, NEW q
  PROVE  InOrder(b, h, q) <=> /\ \A x \in Senders : Ascending(b[x])
                              /\ \A i \in 0..Len(q) : EntryOK(b, h, q, i)
PROOF
  BY DEF InOrder, EntryOK

LEMMA EntryIs ==
  ASSUME NEW h \in Entries \cup {NoEntry}, NEW q \in Seq(Entries), NEW i \in 0..Len(q)
  PROVE  /\ Entry(h, q, i) \in Entries \cup {NoEntry} /\ Entry(h, q, i).msgs \in Seq(Messages)
         /\ Entry(h, q, i).msgs # <<>> => Entry(h, q, i).sender \in Senders
PROOF
<1>1. Entry(h, q, i) \in Entries \cup {NoEntry}
  <2>1. CASE i = 0
    BY <2>1 DEF Entry
  <2>2. CASE i # 0
    <3>1. i \in 1..Len(q)
      BY <2>2
    <3> QED BY <2>2, <3>1 DEF Entry
  <2> QED BY <2>1, <2>2
<1>2. ASSUME NEW e \in Entries \cup {NoEntry} PROVE e.msgs \in Seq(Messages) /\ (e.msgs # <<>> => e.sender \in Senders)
  <2>1. CASE e = NoEntry
    BY <2>1 DEF NoEntry
  <2>2. CASE e \in Entries
    BY <2>2 DEF Entries
  <2> QED BY <2>1, <2>2
<1> QED BY <1>1, <1>2

LEMMA NothingPrecedes ==
  /\ \A u : Precede(u, <<>>) /\ Precede(<<>>, u)
  /\ Ascending(<<>>)
PROOF
  BY DEF Precede, Ascending, Elements

\* The window of sender x closes: its messages become the last entry.
LEMMA WindowCloses ==
  ASSUME NEW b \in [Senders -> Seq(Messages)], NEW h \in Entries \cup {NoEntry}, NEW q \in Seq(Entries),
         NEW x \in Senders, InOrder(b, h, q),
         NEW e \in Entries, e.sender = x, e.msgs = b[x]
  PROVE  /\ InOrder([b EXCEPT ![x] = <<>>], h, q)
         /\ InOrder([b EXCEPT ![x] = <<>>], h, Append(q, e))
PROOF
<1> DEFINE c == [b EXCEPT ![x] = <<>>]
           w == Append(q, e)
<1>1. c[x] = <<>> /\ \A y \in Senders : y # x => c[y] = b[y]
  OBVIOUS
<1>2. w \in Seq(Entries) /\ Len(w) = Len(q) + 1 /\ w[Len(q) + 1] = e /\ \A j \in 1..Len(q) : w[j] = q[j]
  BY Appended
<1>n. Len(q) \in Nat
  OBVIOUS
<1> HIDE DEF c, w
<1>3. \A y \in Senders : Ascending(c[y])
  BY <1>1, NothingPrecedes, InOrderIs
<1>4. ASSUME NEW i \in 0..Len(q) PROVE EntryOK(c, h, q, i) /\ EntryOK(c, h, w, i)
  <2> DEFINE f == Entry(h, q, i)
  <2>1. EntryOK(b, h, q, i)
    BY InOrderIs
  <2>2. f.msgs # <<>> => f.sender \in Senders
    BY EntryIs
  <2>3. Entry(h, w, i) = f
    BY <1>2, <1>n DEF Entry
  <2>4. /\ Ascending(f.msgs)
        /\ f.msgs # <<>> => /\ Precede(f.msgs, b[f.sender])
                            /\ \A j \in (i + 1)..Len(q) : q[j].sender = f.sender => Precede(f.msgs, q[j].msgs)
    BY <2>1 DEF EntryOK
  <2> HIDE DEF f
  <2>5. f.msgs # <<>> => Precede(f.msgs, c[f.sender])
    BY <1>1, <2>2, <2>4, NothingPrecedes
  <2>6. ASSUME f.msgs # <<>>, NEW j \in (i + 1)..Len(w), w[j].sender = f.sender PROVE Precede(f.msgs, w[j].msgs)
    <3>1. CASE j \in (i + 1)..Len(q)
      <4>1. j \in 1..Len(q)
        BY <1>n, <3>1
      <4> QED BY <1>2, <2>4, <2>6, <3>1, <4>1
    <3>2. CASE j = Len(q) + 1
      BY <1>2, <2>4, <2>6, <3>2
    <3> QED BY <1>2, <1>n, <3>1, <3>2
  <2>7. EntryOK(c, h, q, i)
    BY <2>4, <2>5 DEF EntryOK, f
  <2>8. EntryOK(c, h, w, i)
    <3>1. LET g == Entry(h, w, i) IN
            /\ Ascending(g.msgs)
            /\ g.msgs # <<>> => /\ Precede(g.msgs, c[g.sender])
                                /\ \A j \in (i + 1)..Len(w) : w[j].sender = g.sender => Precede(g.msgs, w[j].msgs)
      BY <2>3, <2>4, <2>5, <2>6
    <3> QED BY <3>1 DEF EntryOK
  <2> QED BY <2>7, <2>8
<1>5. EntryOK(c, h, w, Len(q) + 1)
  <2>1. Entry(h, w, Len(q) + 1) = e
    BY <1>2, <1>n DEF Entry
  <2>2. Ascending(e.msgs)
    BY InOrderIs
  <2>3. Precede(e.msgs, c[e.sender])
    BY <1>1, NothingPrecedes
  <2>4. \A j \in (Len(q) + 1 + 1)..Len(w) : FALSE
    BY <1>2, <1>n
  <2> QED BY <2>1, <2>2, <2>3, <2>4 DEF EntryOK
<1>6. \A i \in 0..Len(w) : EntryOK(c, h, w, i)
  BY <1>2, <1>n, <1>4, <1>5
<1>7. InOrder(c, h, q)
  BY <1>3, <1>4, InOrderIs
<1>8. InOrder(c, h, w)
  BY <1>3, <1>6, InOrderIs
<1> QED BY <1>7, <1>8 DEF c, w

\* The first entry of its sender is taken in hand.
LEMMA EntryTaken ==
  ASSUME NEW b, NEW q \in Seq(Entries), InOrder(b, NoEntry, q),
         NEW i \in 1..Len(q), \A j \in 1..Len(q) : j < i => q[j].sender # q[i].sender,
         NEW w \in Seq(Entries), Less(q, i, w)
  PROVE  InOrder(b, q[i], w)
PROOF
<1>1. Len(q) \in Nat /\ i \in Nat /\ Len(w) = Len(q) - 1 /\ \A j \in 1..Len(w) : w[j] = q[IF j < i THEN j ELSE j + 1]
  <2>1. Len(q) \in Nat /\ i \in Nat
    OBVIOUS
  <2> QED BY ONLY <2>1, Less(q, i, w) DEF Less
<1>2. \A k \in 1..Len(q) : /\ Entry(NoEntry, q, k) = q[k] /\ Ascending(q[k].msgs)
                           /\ q[k].msgs # <<>> =>
                                /\ Precede(q[k].msgs, b[q[k].sender])
                                /\ \A j \in (k + 1)..Len(q) : q[j].sender = q[k].sender => Precede(q[k].msgs, q[j].msgs)
  <2> TAKE k \in 1..Len(q)
  <2>1. k \in 0..Len(q) /\ k # 0
    OBVIOUS
  <2>2. EntryOK(b, NoEntry, q, k)
    BY <2>1, InOrderIs
  <2>3. Entry(NoEntry, q, k) = q[k]
    BY <2>1 DEF Entry
  <2> QED BY <2>2, <2>3 DEF EntryOK
<1>3. EntryOK(b, q[i], w, 0)
  <2>1. Entry(q[i], w, 0) = q[i]
    BY DEF Entry
  <2>2. ASSUME q[i].msgs # <<>>, NEW j \in (0 + 1)..Len(w), w[j].sender = q[i].sender PROVE Precede(q[i].msgs, w[j].msgs)
    <3>1. j \in 1..Len(w)
      OBVIOUS
    <3>2. ~(j < i)
      BY <1>1, <2>2, <3>1
    <3>3. w[j] = q[j + 1] /\ j + 1 \in (i + 1)..Len(q)
      BY <1>1, <3>1, <3>2
    <3> QED BY <1>2, <2>2, <3>3
  <2> QED BY <1>2, <2>1, <2>2 DEF EntryOK
<1>4. ASSUME NEW k \in 1..Len(w) PROVE EntryOK(b, q[i], w, k)
  <2> DEFINE l == IF k < i THEN k ELSE k + 1
  <2>1. l \in 1..Len(q) /\ w[k] = q[l]
    BY <1>1
  <2>2. Entry(q[i], w, k) = q[l]
    BY <2>1 DEF Entry
  <2>3. ASSUME q[l].msgs # <<>>, NEW j \in (k + 1)..Len(w), w[j].sender = q[l].sender PROVE Precede(q[l].msgs, w[j].msgs)
    <3> DEFINE n == IF j < i THEN j ELSE j + 1
    <3>1. j \in 1..Len(w) /\ n \in (l + 1)..Len(q)
      BY <1>1
    <3>2. w[j] = q[n]
      BY <1>1, <3>1
    <3> HIDE DEF l, n
    <3> QED BY <1>2, <2>1, <2>3, <3>1, <3>2
  <2> HIDE DEF l
  <2> QED BY <1>2, <2>1, <2>2, <2>3 DEF EntryOK
<1>5. \A k \in 0..Len(w) : EntryOK(b, q[i], w, k)
  <2>1. ASSUME NEW k \in 0..Len(w) PROVE k = 0 \/ k \in 1..Len(w)
    BY <1>1
  <2> QED BY <1>3, <1>4, <2>1
<1>6. \A x \in Senders : Ascending(b[x])
  BY InOrderIs
<1> QED BY <1>5, <1>6, InOrderIs

\* The entry in hand is done with, or returns to the front.
LEMMA EntryLeaves ==
  ASSUME NEW b, NEW h \in Entries, NEW q \in Seq(Entries), InOrder(b, h, q)
  PROVE  InOrder(b, NoEntry, q) /\ InOrder(b, NoEntry, <<h>> \o q)
PROOF
<1>1. PICK w \in Seq(Entries) : w = <<h>> \o q
  BY Fronted
<1>2. Len(q) \in Nat /\ Len(w) = Len(q) + 1 /\ w[1] = h /\ \A j \in 1..Len(q) : w[j + 1] = q[j]
  BY <1>1, Fronted
<1>3. ASSUME NEW v PROVE EntryOK(b, NoEntry, v, 0)
  <2>1. Entry(NoEntry, v, 0).msgs = <<>>
    BY DEF Entry, NoEntry
  <2> QED BY <2>1, NothingPrecedes DEF EntryOK
<1>4. ASSUME NEW i \in 1..Len(q) PROVE EntryOK(b, NoEntry, q, i)
  <2>1. EntryOK(b, h, q, i)
    BY <1>2, InOrderIs
  <2>2. Entry(NoEntry, q, i) = Entry(h, q, i)
    BY <1>2 DEF Entry
  <2> QED BY <2>1, <2>2 DEF EntryOK
<1>5. ASSUME NEW i \in 1..Len(w) PROVE EntryOK(b, NoEntry, w, i)
  <2> DEFINE k == i - 1
  <2>1. k \in 0..Len(q) /\ i = k + 1 /\ i # 0
    BY <1>2
  <2>2. EntryOK(b, h, q, k)
    BY <2>1, InOrderIs
  <2>3. Entry(NoEntry, w, i) = Entry(h, q, k)
    <3>1. CASE k = 0
      BY <1>2, <2>1, <3>1 DEF Entry
    <3>2. CASE k # 0
      <4>1. k \in 1..Len(q)
        BY <2>1, <3>2
      <4> QED BY <1>2, <2>1, <3>2, <4>1 DEF Entry
    <3> QED BY <3>1, <3>2
  <2> DEFINE f == Entry(h, q, k)
  <2>4. /\ Ascending(f.msgs)
        /\ f.msgs # <<>> => /\ Precede(f.msgs, b[f.sender])
                            /\ \A j \in (k + 1)..Len(q) : q[j].sender = f.sender => Precede(f.msgs, q[j].msgs)
    BY <2>2 DEF EntryOK
  <2> HIDE DEF f
  <2>5. ASSUME f.msgs # <<>>, NEW j \in (i + 1)..Len(w), w[j].sender = f.sender PROVE Precede(f.msgs, w[j].msgs)
    <3>1. j - 1 \in (k + 1)..Len(q) /\ j - 1 \in 1..Len(q) /\ j - 1 + 1 = j
      BY <1>2, <2>1
    <3>2. w[j] = q[j - 1]
      BY <1>2, <3>1
    <3> QED BY <2>4, <2>5, <3>1, <3>2
  <2>6. Entry(NoEntry, w, i) = f
    BY <2>3 DEF f
  <2> QED BY <2>4, <2>5, <2>6 DEF EntryOK
<1>6. \A x \in Senders : Ascending(b[x])
  BY InOrderIs
<1>7. \A i \in 0..Len(q) : EntryOK(b, NoEntry, q, i)
  <2>1. ASSUME NEW i \in 0..Len(q) PROVE i = 0 \/ i \in 1..Len(q)
    BY <1>2
  <2> QED BY <1>3, <1>4, <2>1
<1>8. \A i \in 0..Len(w) : EntryOK(b, NoEntry, w, i)
  <2>1. ASSUME NEW i \in 0..Len(w) PROVE i = 0 \/ i \in 1..Len(w)
    BY <1>2
  <2> QED BY <1>3, <1>5, <2>1
<1> QED BY <1>1, <1>6, <1>7, <1>8, InOrderIs

\* A message arrives that is later than all.
LEMMA WindowGrows ==
  ASSUME NEW b \in [Senders -> Seq(Messages)], NEW h \in Entries \cup {NoEntry}, NEW q \in Seq(Entries),
         NEW x \in Senders, InOrder(b, h, q), NEW n \in Messages,
         \A k \in Elements(b[x]) : k < n, \A i \in 0..Len(q) : \A k \in Elements(Entry(h, q, i).msgs) : k < n
  PROVE  InOrder([b EXCEPT ![x] = Append(b[x], n)], h, q)
PROOF
<1> DEFINE c == [b EXCEPT ![x] = Append(b[x], n)]
<1>1. /\ b[x] \in Seq(Messages) /\ c[x] = Append(b[x], n)
      /\ \A y \in Senders : y # x => c[y] = b[y]
  OBVIOUS
<1>2. /\ Append(b[x], n) \in Seq(Messages) /\ Len(Append(b[x], n)) = Len(b[x]) + 1
      /\ Append(b[x], n)[Len(b[x]) + 1] = n /\ \A j \in 1..Len(b[x]) : Append(b[x], n)[j] = b[x][j]
      /\ Len(b[x]) \in Nat
  BY <1>1, Appended
<1> HIDE DEF c
<1>3. \A y \in Senders : Ascending(c[y])
  <2>1. Ascending(b[x])
    BY InOrderIs
  <2>2. ASSUME NEW i \in 1..Len(c[x]), NEW j \in 1..Len(c[x]), i < j PROVE c[x][i] < c[x][j]
    <3>1. i \in 1..Len(b[x]) /\ c[x][i] = b[x][i]
      BY <1>1, <1>2, <2>2
    <3>2. CASE j \in 1..Len(b[x])
      BY <1>1, <1>2, <2>1, <2>2, <3>1, <3>2 DEF Ascending
    <3>3. CASE j = Len(b[x]) + 1
      <4>1. c[x][j] = n /\ b[x][i] \in Elements(b[x])
        BY <1>1, <1>2, <3>1, <3>3 DEF Elements
      <4> QED BY <3>1, <4>1
    <3> QED BY <1>1, <1>2, <3>2, <3>3
  <2>3. Ascending(c[x])
    BY <2>2 DEF Ascending
  <2> QED BY <1>1, <2>3, InOrderIs
<1>4. ASSUME NEW i \in 0..Len(q) PROVE EntryOK(c, h, q, i)
  <2> DEFINE f == Entry(h, q, i)
  <2>1. EntryOK(b, h, q, i) /\ (f.msgs # <<>> => f.sender \in Senders)
    BY InOrderIs, EntryIs
  <2>2. /\ Ascending(f.msgs)
        /\ f.msgs # <<>> => /\ Precede(f.msgs, b[f.sender])
                            /\ \A j \in (i + 1)..Len(q) : q[j].sender = f.sender => Precede(f.msgs, q[j].msgs)
    BY <2>1 DEF EntryOK
  <2>3. \A k \in Elements(f.msgs) : k < n
    OBVIOUS
  <2> HIDE DEF f
  <2>4. ASSUME f.msgs # <<>> PROVE Precede(f.msgs, c[f.sender])
    <3>1. CASE f.sender # x
      BY <1>1, <2>1, <2>2, <2>4, <3>1
    <3>2. CASE f.sender = x
      <4>1. ASSUME NEW l \in Elements(c[x]) PROVE l = n \/ l \in Elements(b[x])
        BY <1>1, <1>2 DEF Elements
      <4>2. Precede(f.msgs, b[x])
        BY <2>2, <2>4, <3>2
      <4>3. Precede(f.msgs, c[x])
        BY <2>3, <4>1, <4>2 DEF Precede
      <4> QED BY <3>2, <4>3
    <3> QED BY <3>1, <3>2
  <2> QED BY <2>2, <2>4 DEF EntryOK, f
<1> QED BY <1>3, <1>4, InOrderIs DEF c

\* Order is a matter of messages and senders only.
LEMMA OrderOfMessages ==
  ASSUME NEW b, NEW h, NEW g, NEW q \in Seq(Entries), g.sender = h.sender, g.msgs = h.msgs, InOrder(b, h, q)
  PROVE  InOrder(b, g, q)
PROOF
<1>1. ASSUME NEW i \in 0..Len(q) PROVE EntryOK(b, g, q, i)
  <2>1. EntryOK(b, h, q, i)
    BY InOrderIs
  <2>2. Entry(g, q, i).msgs = Entry(h, q, i).msgs /\ Entry(g, q, i).sender = Entry(h, q, i).sender
    BY DEF Entry
  <2> QED BY <2>1, <2>2 DEF EntryOK
<1> QED BY <1>1, InOrderIs

\* Only the entry in hand is left.
LEMMA OrderOfOne ==
  ASSUME NEW b, NEW c, NEW h, NEW q, InOrder(b, h, q), Len(q) \in Nat, \A x \in Senders : c[x] = <<>>,
         h.msgs # <<>> => h.sender \in Senders
  PROVE  InOrder(c, h, <<>>)
PROOF
<1>1. EntryOK(c, h, <<>>, 0)
  <2>1. EntryOK(b, h, q, 0)
    BY InOrderIs
  <2>2. Entry(h, <<>>, 0) = h /\ Entry(h, q, 0) = h
    BY DEF Entry
  <2>3. Ascending(h.msgs)
    BY <2>1, <2>2 DEF EntryOK
  <2>4. \A j \in (0 + 1)..Len(<<>>) : FALSE
    OBVIOUS
  <2>5. h.msgs # <<>> => Precede(h.msgs, c[h.sender])
    BY NothingPrecedes
  <2> QED BY <2>2, <2>3, <2>4, <2>5 DEF EntryOK
<1>2. \A i \in 0..Len(<<>>) : i = 0
  OBVIOUS
<1>3. \A i \in 0..Len(<<>>) : EntryOK(c, h, <<>>, i)
  BY <1>1, <1>2
<1>4. \A x \in Senders : Ascending(c[x])
  BY NothingPrecedes
<1> QED BY <1>3, <1>4, InOrderIs

-----------------------------------------------------------------------------
(* The limits of a session.                                                 *)

LEMMA LimitsAreNumbers ==
  /\ MaxQueueDepth \in Nat /\ MaxQueued \in Nat /\ MaxAttempts \in Nat \ {0} /\ Nobody \notin Senders
PROOF
  BY QueueAssumption

LEMMA WithinGrows ==
  ASSUME NEW a, NEW h, NEW q \in Seq(Entries), NEW e \in Entries, Within(a, h, q), Len(q) < MaxQueueDepth,
         MaxQueued > 0 /\ e.sender \notin Admins => Cardinality(OfSender(q, e.sender)) < MaxQueued,
         NEW c
  PROVE  Within(c, h, Append(q, e))
PROOF
<1>1. PICK w \in Seq(Entries) : w = Append(q, e)
  BY Appended
<1>2. /\ Len(w) = Len(q) + 1 /\ w[Len(q) + 1] = e /\ Len(q) + 1 \in 1..Len(w) /\ Less(w, Len(q) + 1, q)
  BY <1>1, Appended
<1>3. Len(w) <= MaxQueueDepth
  <2>1. Len(q) \in Nat
    OBVIOUS
  <2> QED BY <1>2, <2>1, LimitsAreNumbers
<1>4. ASSUME NEW x \in Senders \ Admins, MaxQueued > 0
      PROVE  Cardinality(OfSender(w, x)) <= IF h.sender = x THEN MaxQueued ELSE MaxQueued + 1
  <2>1. Cardinality(OfSender(q, x)) = Cardinality(OfSender(w, x)) - IF w[Len(q) + 1].sender = x THEN 1 ELSE 0
    BY <1>2, CountLess
  <2>2. Cardinality(OfSender(q, x)) \in Nat /\ Cardinality(OfSender(w, x)) \in Nat
    BY OfSenderFinite
  <2>3. Cardinality(OfSender(q, x)) <= IF h.sender = x THEN MaxQueued ELSE MaxQueued + 1
    BY <1>4 DEF Within
  <2> DEFINE m == Cardinality(OfSender(q, x))
             n == Cardinality(OfSender(w, x))
  <2>4. m \in Nat /\ n \in Nat /\ m = n - (IF e.sender = x THEN 1 ELSE 0)
    BY <1>2, <2>1, <2>2
  <2>5. m <= IF h.sender = x THEN MaxQueued ELSE MaxQueued + 1
    BY <2>3
  <2>6. e.sender = x => m < MaxQueued
    BY <1>4
  <2> HIDE DEF m, n
  <2>7. n <= IF h.sender = x THEN MaxQueued ELSE MaxQueued + 1
    BY <2>4, <2>5, <2>6, LimitsAreNumbers
  <2> QED BY <2>7 DEF n
<1>5. Len(w) <= IF c \in Working THEN MaxQueueDepth ELSE MaxQueueDepth + 1
  <2>1. Len(w) \in Nat
    OBVIOUS
  <2> QED BY <1>3, <2>1, LimitsAreNumbers
<1> QED BY <1>1, <1>4, <1>5 DEF Within

LEMMA WithinTaken ==
  ASSUME NEW a, NEW q \in Seq(Entries), NEW i \in 1..Len(q), Within(a, NoEntry, q),
         NEW w \in Seq(Entries), Less(q, i, w), NEW c
  PROVE  Within(c, q[i], w)
PROOF
<1>1. Len(w) = Len(q) - 1 /\ Len(q) \in Nat /\ Len(w) \in Nat
  BY DEF Less
<1>2. Len(w) <= IF c \in Working THEN MaxQueueDepth ELSE MaxQueueDepth + 1
  <2>1. Len(q) <= IF a \in Working THEN MaxQueueDepth ELSE MaxQueueDepth + 1
    BY DEF Within
  <2> QED BY <1>1, <2>1, LimitsAreNumbers
<1>3. ASSUME NEW x \in Senders \ Admins, MaxQueued > 0
      PROVE  Cardinality(OfSender(w, x)) <= IF q[i].sender = x THEN MaxQueued ELSE MaxQueued + 1
  <2> DEFINE m == Cardinality(OfSender(q, x))
             n == Cardinality(OfSender(w, x))
  <2>1. n = m - IF q[i].sender = x THEN 1 ELSE 0
    BY CountLess
  <2>2. m \in Nat /\ n \in Nat
    BY OfSenderFinite
  <2>3. m <= MaxQueued + 1
    <3>1. x # Nobody /\ NoEntry.sender = Nobody
      BY LimitsAreNumbers DEF NoEntry
    <3> QED BY <1>3, <3>1 DEF Within
  <2> HIDE DEF m, n
  <2>4. n <= IF q[i].sender = x THEN MaxQueued ELSE MaxQueued + 1
    BY <2>1, <2>2, <2>3, LimitsAreNumbers
  <2> QED BY <2>4 DEF n
<1> QED BY <1>2, <1>3 DEF Within

LEMMA WithinLeaves ==
  ASSUME NEW a \in Working, NEW h \in Entries, NEW q \in Seq(Entries), Within(a, h, q),
         NEW c, c \notin Working
  PROVE  Within(c, NoEntry, q) /\ Within(c, NoEntry, <<h>> \o q)
PROOF
<1>1. PICK w \in Seq(Entries) : w = <<h>> \o q
  BY Fronted
<1>2. /\ Len(w) = Len(q) + 1 /\ w[1] = h /\ 1 \in 1..Len(w) /\ Less(w, 1, q) /\ Len(q) \in Nat
  BY <1>1, Fronted
<1>3. Len(q) <= MaxQueueDepth
  BY DEF Within
<1>4. Len(q) <= MaxQueueDepth + 1 /\ Len(w) <= MaxQueueDepth + 1
  BY <1>2, <1>3, LimitsAreNumbers
<1>5. ASSUME NEW x \in Senders \ Admins, MaxQueued > 0
      PROVE  /\ Cardinality(OfSender(q, x)) <= IF NoEntry.sender = x THEN MaxQueued ELSE MaxQueued + 1
             /\ Cardinality(OfSender(w, x)) <= IF NoEntry.sender = x THEN MaxQueued ELSE MaxQueued + 1
  <2> DEFINE m == Cardinality(OfSender(q, x))
             n == Cardinality(OfSender(w, x))
  <2>1. m = n - IF w[1].sender = x THEN 1 ELSE 0
    BY <1>2, CountLess
  <2>2. m \in Nat /\ n \in Nat
    BY OfSenderFinite
  <2>3. m <= IF h.sender = x THEN MaxQueued ELSE MaxQueued + 1
    BY <1>5 DEF Within
  <2>4. NoEntry.sender # x
    BY LimitsAreNumbers DEF NoEntry
  <2> HIDE DEF m, n
  <2>5. m <= MaxQueued + 1 /\ n <= MaxQueued + 1
    BY <1>2, <2>1, <2>2, <2>3, LimitsAreNumbers
  <2> QED BY <2>4, <2>5 DEF m, n
<1> QED BY <1>1, <1>4, <1>5 DEF Within

LEMMA WithinOfSender ==
  ASSUME NEW a \in Working, NEW c \in Working, NEW h, NEW g, NEW q, g.sender = h.sender, Within(a, h, q)
  PROVE  Within(c, g, q)
PROOF
  BY DEF Within

LEMMA WithinEmpty ==
  ASSUME NEW a, NEW h
  PROVE  Within(a, h, <<>>)
PROOF
<1>1. \A x : OfSender(<<>>, x) = {}
  BY DEF OfSender
<1>2. \A x : Cardinality(OfSender(<<>>, x)) = 0
  BY <1>1, FS_EmptySet
<1>3. Len(<<>>) = 0
  OBVIOUS
<1> QED BY <1>2, <1>3, LimitsAreNumbers DEF Within

-----------------------------------------------------------------------------
(* The places of messages.                                                  *)

\* No message is at two spots of the session.
HasOnce(b, h, q) ==
  \A c, d \in Spots : \A m \in Messages : Has(b, h, q, m, c) /\ Has(b, h, q, m, d) => c = d

\* The session goes from window b, hand h and queue q to b2, h2 and q2 and
\* drops the messages D: the others move, each from one spot to one spot.
Carries(b, h, q, b2, h2, q2, D) ==
  \E g \in [Spots -> Spots] :
    /\ \A c \in Spots : \A m \in Messages :
         Has(b2, h2, q2, m, c) => Has(b, h, q, m, g[c]) /\ m \notin D
    /\ \A c, d \in Spots : \A m \in Messages :
         Has(b2, h2, q2, m, c) /\ Has(b2, h2, q2, m, d) /\ g[c] = g[d] => c = d
    /\ \A c \in Spots : \A m \in Messages :
         Has(b, h, q, m, c) => m \in D \/ \E d \in Spots : Has(b2, h2, q2, m, d)

\* A spot is that of a window, of the hand or of an entry.
LEMMA SpotIs ==
  ASSUME NEW c \in Spots
  PROVE  /\ c = <<c[1], c[2]>> /\ c[2] \in Nat
         /\ c[1] \in Senders \/ c[1] = Nobody
         /\ c[1] \in Senders => c[1] # Nobody
PROOF
  BY LimitsAreNumbers DEF Spots

\* What is nowhere else is dropped.
LEMMA DropCarries ==
  ASSUME NEW b, NEW h, NEW q, HasOnce(b, h, q), NEW b2, NEW h2, NEW q2, NEW z \in Spots,
         \A c \in Spots : \A m \in Messages : Has(b2, h2, q2, m, c) <=> c # z /\ Has(b, h, q, m, c),
         NEW D, \A m \in Messages : m \in D <=> Has(b, h, q, m, z)
  PROVE  Carries(b, h, q, b2, h2, q2, D)
PROOF
<1> DEFINE g == [c \in Spots |-> c]
<1>1. g \in [Spots -> Spots] /\ \A c \in Spots : g[c] = c
  OBVIOUS
<1> HIDE DEF g
<1>2. \A c \in Spots : \A m \in Messages : Has(b2, h2, q2, m, c) => Has(b, h, q, m, g[c]) /\ m \notin D
  BY <1>1 DEF HasOnce
<1>3. \A c, d \in Spots : \A m \in Messages :
        Has(b2, h2, q2, m, c) /\ Has(b2, h2, q2, m, d) /\ g[c] = g[d] => c = d
  BY <1>1
<1>4. ASSUME NEW c \in Spots, NEW m \in Messages, Has(b, h, q, m, c)
      PROVE  m \in D \/ \E d \in Spots : Has(b2, h2, q2, m, d)
  BY <1>4
<1> QED BY <1>1, <1>2, <1>3, <1>4 DEF Carries

\* A window is emptied, its messages rejected.
LEMMA WindowDropped ==
  ASSUME NEW b \in [Senders -> Seq(Messages)], NEW h, NEW q, HasOnce(b, h, q), NEW x \in Senders
  PROVE  Carries(b, h, q, [b EXCEPT ![x] = <<>>], h, q, Elements(b[x]))
PROOF
<1> DEFINE c == [b EXCEPT ![x] = <<>>]
           z == <<x, 0>>
<1>1. c[x] = <<>> /\ (\A y \in Senders : y # x => c[y] = b[y]) /\ Elements(c[x]) = {}
  BY DEF Elements
<1>2. z \in Spots /\ z[1] = x /\ z[2] = 0 /\ x # Nobody
  BY LimitsAreNumbers DEF Spots
<1> HIDE DEF c, z
<1>3. ASSUME NEW d \in Spots, NEW m \in Messages PROVE Has(c, h, q, m, d) <=> d # z /\ Has(b, h, q, m, d)
  <2>1. CASE d[1] = Nobody
    BY <1>2, <2>1 DEF Has
  <2>2. CASE d[1] # Nobody /\ d[1] # x
    <3>1. d[1] \in Senders /\ d # z
      BY <1>2, <2>2, SpotIs
    <3> QED BY <1>1, <2>2, <3>1 DEF Has
  <2>3. CASE d[1] = x
    <3>1. ~Has(c, h, q, m, d)
      BY <1>1, <1>2, <2>3 DEF Has
    <3>2. Has(b, h, q, m, d) => d[2] = 0
      BY <1>2, <2>3 DEF Has
    <3>3. d[2] = 0 => d = z
      BY <2>3, SpotIs DEF z
    <3> QED BY <3>1, <3>2, <3>3
  <2> QED BY <2>1, <2>2, <2>3
<1>4. \A m \in Messages : m \in Elements(b[x]) <=> Has(b, h, q, m, z)
  BY <1>2 DEF Has
<1> QED BY <1>2, <1>3, <1>4, DropCarries DEF c

\* The entry in hand is done with.
LEMMA HandDropped ==
  ASSUME NEW b, NEW h, NEW q \in Seq(Entries), HasOnce(b, h, q)
  PROVE  Carries(b, h, q, b, NoEntry, q, Elements(h.msgs))
PROOF
<1> DEFINE z == <<Nobody, 0>>
<1>1. z \in Spots /\ z[1] = Nobody /\ z[2] = 0 /\ Elements(NoEntry.msgs) = {} /\ Len(q) \in Nat
  BY DEF Spots, NoEntry, Elements
<1>2. ASSUME NEW d \in Spots, d[1] = Nobody, d[2] = 0 PROVE d = z
  BY <1>2, SpotIs
<1> HIDE DEF z
<1>3. ASSUME NEW d \in Spots, NEW m \in Messages PROVE Has(b, NoEntry, q, m, d) <=> d # z /\ Has(b, h, q, m, d)
  <2>1. CASE d[1] # Nobody
    BY <1>1, <2>1 DEF Has
  <2>2. CASE d[1] = Nobody /\ d[2] # 0
    <3>1. Entry(NoEntry, q, d[2]) = Entry(h, q, d[2]) /\ d # z
      BY <1>1, <2>2 DEF Entry
    <3> QED BY <2>2, <3>1 DEF Has
  <2>3. CASE d[1] = Nobody /\ d[2] = 0
    <3>1. Entry(NoEntry, q, d[2]) = NoEntry /\ d = z
      BY <1>2, <2>3 DEF Entry
    <3> QED BY <1>1, <2>3, <3>1 DEF Has
  <2> QED BY <2>1, <2>2, <2>3
<1>4. \A m \in Messages : m \in Elements(h.msgs) <=> Has(b, h, q, m, z)
  BY <1>1 DEF Has, Entry
<1> QED BY <1>1, <1>3, <1>4, DropCarries

\* Messages move from the spots z to the spots y, the others stay.
LEMMA MoveCarries ==
  ASSUME NEW b, NEW h, NEW q, NEW b2, NEW h2, NEW q2, NEW g \in [Spots -> Spots],
         \A c \in Spots : \A m \in Messages : Has(b2, h2, q2, m, c) => Has(b, h, q, m, g[c]),
         \A c, d \in Spots : \A m \in Messages :
           Has(b2, h2, q2, m, c) /\ Has(b2, h2, q2, m, d) /\ g[c] = g[d] => c = d,
         \A c \in Spots : \A m \in Messages : Has(b, h, q, m, c) => \E d \in Spots : Has(b2, h2, q2, m, d)
  PROVE  Carries(b, h, q, b2, h2, q2, {})
PROOF
  BY DEF Carries

\* Nothing moves.
LEMMA StayCarries ==
  ASSUME NEW b, NEW h, NEW q, NEW h2, h2.msgs = h.msgs
  PROVE  Carries(b, h, q, b, h2, q, {})
PROOF
<1> DEFINE g == [c \in Spots |-> c]
<1>1. g \in [Spots -> Spots] /\ \A c \in Spots : g[c] = c
  OBVIOUS
<1> HIDE DEF g
<1>2. \A i : Entry(h2, q, i).msgs = Entry(h, q, i).msgs
  BY DEF Entry
<1>3. \A c \in Spots : \A m \in Messages : Has(b, h2, q, m, c) <=> Has(b, h, q, m, c)
  BY <1>2 DEF Has
<1> QED BY <1>1, <1>3, MoveCarries

\* The messages of entry k, where entry 0 is the one in hand.
Held(h, q, k) == Elements(IF k = 0 THEN h.msgs ELSE q[k].msgs)

\* The entries of a queue, by spot.
LEMMA QueueSpots ==
  ASSUME NEW b, NEW h, NEW q \in Seq(Entries), NEW k \in 0..Len(q), NEW m
  PROVE  /\ <<Nobody, k>> \in Spots
         /\ Has(b, h, q, m, <<Nobody, k>>) <=> m \in Held(h, q, k)
PROOF
<1> DEFINE c == <<Nobody, k>>
<1>1. c \in Spots /\ c[1] = Nobody /\ c[2] = k
  BY DEF Spots
<1> HIDE DEF c
<1>2. Has(b, h, q, m, c) <=> m \in Held(h, q, k)
  BY <1>1 DEF Has, Entry, Held
<1> QED BY <1>1, <1>2 DEF c

LEMMA WindowSpots ==
  ASSUME NEW b, NEW h, NEW q, NEW x \in Senders, NEW m
  PROVE  /\ <<x, 0>> \in Spots
         /\ Has(b, h, q, m, <<x, 0>>) <=> m \in Elements(b[x])
PROOF
<1> DEFINE c == <<x, 0>>
<1>1. c \in Spots /\ c[1] = x /\ c[2] = 0 /\ x # Nobody
  BY LimitsAreNumbers DEF Spots
<1> HIDE DEF c
<1>2. Has(b, h, q, m, c) <=> m \in Elements(b[x])
  BY <1>1 DEF Has
<1> QED BY <1>1, <1>2 DEF c

\* There are no other spots.
LEMMA SpotCases ==
  ASSUME NEW b, NEW h, NEW q \in Seq(Entries), NEW c \in Spots, NEW m, Has(b, h, q, m, c)
  PROVE  (\E x \in Senders : c = <<x, 0>>) \/ (\E k \in 0..Len(q) : c = <<Nobody, k>>)
PROOF
<1>1. CASE c[1] # Nobody
  <2>1. c[1] \in Senders /\ c[2] = 0
    BY <1>1, SpotIs DEF Has
  <2> QED BY <2>1, SpotIs
<1>2. CASE c[1] = Nobody
  <2>1. c[2] \in 0..Len(q)
    BY <1>2 DEF Has
  <2> QED BY <1>2, <2>1, SpotIs
<1> QED BY <1>1, <1>2

\* Entries change their numbers: f says which entry it was.
LEMMA Renumbered ==
  ASSUME NEW b, NEW h, NEW q \in Seq(Entries), NEW h2, NEW q2 \in Seq(Entries),
         NEW f \in [0..Len(q2) -> 0..Len(q)],
         \A k \in 0..Len(q2) : \A m \in Messages : m \in Held(h2, q2, k) => m \in Held(h, q, f[k]),
         \A k, l \in 0..Len(q2) : \A m \in Messages :
           m \in Held(h2, q2, k) /\ m \in Held(h2, q2, l) /\ f[k] = f[l] => k = l,
         \A l \in 0..Len(q) : \A m \in Messages :
           m \in Held(h, q, l) => \E k \in 0..Len(q2) : m \in Held(h2, q2, k)
  PROVE  Carries(b, h, q, b, h2, q2, {})
PROOF
<1> DEFINE g == [c \in Spots |-> IF c[1] = Nobody /\ c[2] \in 0..Len(q2) THEN <<Nobody, f[c[2]]>> ELSE c]
<1>0. \A k \in 0..Len(q2) : f[k] \in 0..Len(q)
  BY ONLY f \in [0..Len(q2) -> 0..Len(q)]
<1>1. g \in [Spots -> Spots]
  <2>1. ASSUME NEW c \in Spots, c[1] = Nobody /\ c[2] \in 0..Len(q2) PROVE <<Nobody, f[c[2]]>> \in Spots
    <3>1. f[c[2]] \in 0..Len(q)
      BY ONLY <1>0, <2>1
    <3>2. f[c[2]] \in Nat
      BY ONLY <3>1
    <3> QED BY ONLY <3>2 DEF Spots
  <2> QED BY <2>1
<1>2. ASSUME NEW k \in 0..Len(q2) PROVE <<Nobody, k>> \in Spots /\ g[<<Nobody, k>>] = <<Nobody, f[k]>>
  <2>1. <<Nobody, k>> \in Spots
    BY QueueSpots
  <2> QED BY <2>1
<1>3. ASSUME NEW x \in Senders PROVE <<x, 0>> \in Spots /\ g[<<x, 0>>] = <<x, 0>>
  <2>1. <<x, 0>> \in Spots /\ x # Nobody
    BY WindowSpots, LimitsAreNumbers
  <2> QED BY <2>1
<1> HIDE DEF g
<1>4. ASSUME NEW c \in Spots, NEW m \in Messages, Has(b, h2, q2, m, c) PROVE Has(b, h, q, m, g[c])
  <2>1. CASE \E x \in Senders : c = <<x, 0>>
    <3>1. PICK x \in Senders : c = <<x, 0>>
      BY <2>1
    <3>2. m \in Elements(b[x]) /\ g[c] = <<x, 0>>
      BY <1>3, <1>4, <3>1, WindowSpots
    <3> QED BY <3>2, WindowSpots
  <2>2. CASE \E k \in 0..Len(q2) : c = <<Nobody, k>>
    <3>1. PICK k \in 0..Len(q2) : c = <<Nobody, k>>
      BY <2>2
    <3>2. m \in Held(h2, q2, k) /\ g[c] = <<Nobody, f[k]>>
      BY <1>2, <1>4, <3>1, QueueSpots
    <3>3. m \in Held(h, q, f[k]) /\ f[k] \in 0..Len(q)
      BY <3>2
    <3> QED BY <3>2, <3>3, QueueSpots
  <2> QED BY <1>4, <2>1, <2>2, SpotCases
<1>5. ASSUME NEW c \in Spots, NEW d \in Spots, NEW m \in Messages,
             Has(b, h2, q2, m, c), Has(b, h2, q2, m, d), g[c] = g[d]
      PROVE  c = d
  <2>1. ASSUME NEW x \in Senders, NEW y \in Senders, c = <<x, 0>>, d = <<y, 0>> PROVE c = d
    BY <1>3, <1>5, <2>1
  <2>2. ASSUME NEW x \in Senders, NEW k \in 0..Len(q2),
               (c = <<x, 0>> /\ d = <<Nobody, k>>) \/ (d = <<x, 0>> /\ c = <<Nobody, k>>) PROVE FALSE
    <3>1. <<x, 0>> = <<Nobody, f[k]>>
      BY <1>2, <1>3, <1>5, <2>2
    <3>2. x = Nobody
      BY <3>1
    <3> QED BY <3>2, LimitsAreNumbers
  <2>3. ASSUME NEW k \in 0..Len(q2), NEW l \in 0..Len(q2), c = <<Nobody, k>>, d = <<Nobody, l>> PROVE c = d
    <3>1. m \in Held(h2, q2, k) /\ m \in Held(h2, q2, l)
      BY <1>5, <2>3, QueueSpots
    <3>2. <<Nobody, f[k]>> = <<Nobody, f[l]>>
      BY <1>2, <1>5, <2>3
    <3>3. f[k] = f[l]
      BY <3>2
    <3> QED BY <2>3, <3>1, <3>3
  <2>4. /\ (\E x \in Senders : c = <<x, 0>>) \/ (\E k \in 0..Len(q2) : c = <<Nobody, k>>)
        /\ (\E x \in Senders : d = <<x, 0>>) \/ (\E k \in 0..Len(q2) : d = <<Nobody, k>>)
    BY <1>5, SpotCases
  <2> QED BY <2>1, <2>2, <2>3, <2>4
<1>6. ASSUME NEW c \in Spots, NEW m \in Messages, Has(b, h, q, m, c)
      PROVE  \E d \in Spots : Has(b, h2, q2, m, d)
  <2>1. CASE \E x \in Senders : c = <<x, 0>>
    BY <1>6, <2>1, WindowSpots
  <2>2. CASE \E k \in 0..Len(q) : c = <<Nobody, k>>
    <3>1. PICK l \in 0..Len(q) : c = <<Nobody, l>>
      BY <2>2
    <3>2. m \in Held(h, q, l)
      BY <1>6, <3>1, QueueSpots
    <3>3. PICK k \in 0..Len(q2) : m \in Held(h2, q2, k)
      BY <3>2
    <3> QED BY <3>3, QueueSpots
  <2> QED BY <1>6, <2>1, <2>2, SpotCases
<1> QED BY <1>1, <1>4, <1>5, <1>6, MoveCarries

\* An entry is taken in hand.
LEMMA TakenCarries ==
  ASSUME NEW b, NEW q \in Seq(Entries), NEW i \in 1..Len(q), NEW w \in Seq(Entries), Less(q, i, w)
  PROVE  Carries(b, NoEntry, q, b, q[i], w, {})
PROOF
<1>0. Len(q) \in Nat /\ i \in Nat
  OBVIOUS
<1>1. Len(w) = Len(q) - 1 /\ \A j \in 1..Len(w) : w[j] = q[IF j < i THEN j ELSE j + 1]
  BY ONLY Less(q, i, w) DEF Less
<1> DEFINE f == [k \in 0..Len(w) |-> IF k = 0 THEN i ELSE IF k < i THEN k ELSE k + 1]
<1>2. f \in [0..Len(w) -> 0..Len(q)] /\ \A k \in 0..Len(w) : f[k] # 0
  BY <1>0, <1>1
<1>3. ASSUME NEW k \in 0..Len(w) PROVE Held(q[i], w, k) = Held(NoEntry, q, f[k])
  <2>1. CASE k = 0
    BY <1>0, <2>1 DEF Held
  <2>2. CASE k # 0
    <3>1. w[k] = q[f[k]]
      BY <1>0, <1>1, <2>2
    <3> QED BY <1>2, <2>2, <3>1 DEF Held
  <2> QED BY <2>1, <2>2
<1>4. \A k, l \in 0..Len(w) : f[k] = f[l] => k = l
  BY <1>0, <1>1
<1>5. ASSUME NEW l \in 0..Len(q), l # 0 PROVE \E k \in 0..Len(w) : f[k] = l
  <2> DEFINE k == IF l = i THEN 0 ELSE IF l < i THEN l ELSE l - 1
  <2>1. k \in 0..Len(w) /\ f[k] = l
    BY <1>0, <1>1, <1>5
  <2> QED BY <2>1
<1>6. Held(NoEntry, q, 0) = {}
  BY DEF Held, NoEntry, Elements
<1> HIDE DEF f
<1>7. \A l \in 0..Len(q) : \A m \in Messages : m \in Held(NoEntry, q, l) => \E k \in 0..Len(w) : m \in Held(q[i], w, k)
  BY <1>3, <1>5, <1>6
<1> QED BY <1>2, <1>3, <1>4, <1>7, Renumbered

\* The entry in hand returns to the front.
LEMMA ReturnedCarries ==
  ASSUME NEW b, NEW h \in Entries, NEW q \in Seq(Entries)
  PROVE  Carries(b, h, q, b, NoEntry, <<h>> \o q, {})
PROOF
<1>1. PICK w \in Seq(Entries) : w = <<h>> \o q
  BY Fronted
<1>2. Len(q) \in Nat /\ Len(w) = Len(q) + 1 /\ w[1] = h /\ \A j \in 1..Len(q) : w[j + 1] = q[j]
  BY <1>1, Fronted
<1> DEFINE f == [k \in 0..Len(w) |-> IF k = 0 THEN 0 ELSE k - 1]
<1>3. f \in [0..Len(w) -> 0..Len(q)] /\ \A k \in 1..Len(w) : f[k] = k - 1
  BY <1>2
<1>4. Held(NoEntry, w, 0) = {}
  BY DEF Held, NoEntry, Elements
<1>5. ASSUME NEW k \in 0..Len(q) PROVE k + 1 \in 1..Len(w) /\ f[k + 1] = k /\ Held(NoEntry, w, k + 1) = Held(h, q, k)
  <2>1. k + 1 \in 1..Len(w) /\ f[k + 1] = k /\ k + 1 # 0
    BY <1>2
  <2>2. CASE k = 0
    <3>1. k + 1 = 1 /\ w[k + 1] = h
      BY <1>2, <2>2
    <3> QED BY <2>1, <2>2, <3>1 DEF Held
  <2>3. CASE k # 0
    <3>1. k \in 1..Len(q)
      BY <2>3
    <3>2. w[k + 1] = q[k]
      BY <1>2, <3>1
    <3> QED BY <2>1, <2>3, <3>2 DEF Held
  <2> QED BY <2>2, <2>3
<1> HIDE DEF f
<1>6. ASSUME NEW k \in 1..Len(w) PROVE f[k] \in 0..Len(q) /\ f[k] + 1 = k /\ Held(NoEntry, w, k) = Held(h, q, f[k])
  <2>1. k - 1 \in 0..Len(q) /\ k - 1 + 1 = k
    BY <1>2
  <2> QED BY <1>3, <1>5, <2>1
<1>7. \A k \in 0..Len(w) : k = 0 \/ k \in 1..Len(w)
  BY <1>2
<1>8. \A k \in 0..Len(w) : \A m \in Messages : m \in Held(NoEntry, w, k) => m \in Held(h, q, f[k])
  BY <1>4, <1>6, <1>7
<1>9. \A k, l \in 0..Len(w) : \A m \in Messages :
        m \in Held(NoEntry, w, k) /\ m \in Held(NoEntry, w, l) /\ f[k] = f[l] => k = l
  BY <1>4, <1>6, <1>7
<1>10. \A l \in 0..Len(q) : \A m \in Messages : m \in Held(h, q, l) => \E k \in 0..Len(w) : m \in Held(NoEntry, w, k)
  <2>1. ASSUME NEW l \in 0..Len(q) PROVE l + 1 \in 0..Len(w)
    BY <1>2
  <2> QED BY <1>5, <2>1
<1> QED BY <1>1, <1>3, <1>8, <1>9, <1>10, Renumbered

\* A window becomes the last entry.
LEMMA JoinedCarries ==
  ASSUME NEW b \in [Senders -> Seq(Messages)], NEW h, NEW q \in Seq(Entries), NEW x \in Senders,
         NEW e \in Entries, e.msgs = b[x]
  PROVE  Carries(b, h, q, [b EXCEPT ![x] = <<>>], h, Append(q, e), {})
PROOF
<1> DEFINE c == [b EXCEPT ![x] = <<>>]
           n == Len(q) + 1
           g == [p \in Spots |-> IF p = <<Nobody, n>> THEN <<x, 0>> ELSE p]
<1>1. c[x] = <<>> /\ (\A y \in Senders : y # x => c[y] = b[y]) /\ Elements(c[x]) = {}
  BY DEF Elements
<1>2. PICK w \in Seq(Entries) : w = Append(q, e)
  BY Appended
<1>3. Len(q) \in Nat /\ n \in Nat /\ Len(w) = n /\ w[n] = e /\ \A j \in 1..Len(q) : w[j] = q[j]
  BY <1>2, Appended
<1>4. ASSUME NEW k \in 0..Len(q) PROVE k \in 0..Len(w) /\ k # n /\ Held(h, w, k) = Held(h, q, k)
  <2>1. k \in 0..Len(w) /\ k # n /\ (k # 0 => k \in 1..Len(q))
    BY <1>3
  <2> QED BY <1>3, <2>1 DEF Held
<1>5. n \in 0..Len(w) /\ Held(h, w, n) = Elements(b[x])
  BY <1>3 DEF Held
<1>6. \A k \in 0..Len(w) : k = n \/ k \in 0..Len(q)
  BY <1>3
<1>7. <<x, 0>> \in Spots /\ <<Nobody, n>> \in Spots
  BY <1>5, WindowSpots, QueueSpots
<1>8. g \in [Spots -> Spots] /\ g[<<Nobody, n>>] = <<x, 0>> /\ \A p \in Spots : p # <<Nobody, n>> => g[p] = p
  BY <1>7
<1>9. \A y \in Senders : <<y, 0>> \in Spots /\ <<y, 0>> # <<Nobody, n>>
  BY WindowSpots, LimitsAreNumbers
<1>10. \A k \in 0..Len(q) : <<Nobody, k>> \in Spots /\ <<Nobody, k>> # <<Nobody, n>>
  BY <1>4, QueueSpots
<1> HIDE DEF c, g, n
\* Where a message is now, it or its window was.
<1>11. ASSUME NEW p \in Spots, NEW m \in Messages, Has(c, h, w, m, p)
       PROVE  /\ Has(b, h, q, m, g[p]) /\ p # <<x, 0>>
              /\ p = <<Nobody, n>> \/ g[p] = p
  <2>1. ASSUME NEW y \in Senders, p = <<y, 0>> PROVE Has(b, h, q, m, g[p]) /\ p # <<x, 0>> /\ g[p] = p
    <3>1. m \in Elements(c[y])
      BY <1>11, <2>1, WindowSpots
    <3>2. y # x /\ m \in Elements(b[y])
      BY <1>1, <3>1
    <3>3. g[p] = p
      BY <1>8, <1>9, <2>1
    <3>4. Has(b, h, q, m, <<y, 0>>)
      BY <3>2, WindowSpots
    <3> QED BY <2>1, <3>2, <3>3, <3>4
  <2>2. ASSUME NEW k \in 0..Len(q), p = <<Nobody, k>> PROVE Has(b, h, q, m, g[p]) /\ p # <<x, 0>> /\ g[p] = p
    <3>1. m \in Held(h, w, k)
      BY <1>4, <1>11, <2>2, QueueSpots
    <3>2. m \in Held(h, q, k)
      BY <1>4, <3>1
    <3>3. g[p] = p /\ Has(b, h, q, m, p)
      BY <1>8, <1>10, <2>2, <3>2, QueueSpots
    <3>4. x # Nobody
      BY LimitsAreNumbers
    <3> QED BY <2>2, <3>3, <3>4
  <2>3. ASSUME p = <<Nobody, n>> PROVE Has(b, h, q, m, g[p]) /\ p # <<x, 0>>
    <3>1. m \in Elements(b[x])
      BY <1>5, <1>11, <2>3, QueueSpots
    <3>2. Has(b, h, q, m, <<x, 0>>)
      BY <3>1, WindowSpots
    <3>3. x # Nobody
      BY LimitsAreNumbers
    <3> QED BY <1>8, <2>3, <3>2, <3>3
  <2>4. (\E y \in Senders : p = <<y, 0>>) \/ (\E k \in 0..Len(w) : p = <<Nobody, k>>)
    BY <1>11, SpotCases
  <2> QED BY <1>6, <2>1, <2>2, <2>3, <2>4
<1>12. ASSUME NEW p \in Spots, NEW m \in Messages, Has(b, h, q, m, p)
       PROVE  \E d \in Spots : Has(c, h, w, m, d)
  <2>1. ASSUME NEW y \in Senders, p = <<y, 0>> PROVE \E d \in Spots : Has(c, h, w, m, d)
    <3>1. m \in Elements(b[y])
      BY <1>12, <2>1, WindowSpots
    <3>2. CASE y = x
      BY <1>5, <1>7, <3>1, <3>2, QueueSpots
    <3>3. CASE y # x
      BY <1>1, <1>9, <3>1, <3>3, WindowSpots
    <3> QED BY <3>2, <3>3
  <2>2. ASSUME NEW k \in 0..Len(q), p = <<Nobody, k>> PROVE \E d \in Spots : Has(c, h, w, m, d)
    <3>1. m \in Held(h, q, k)
      BY <1>12, <2>2, QueueSpots
    <3> QED BY <1>4, <1>10, <3>1, QueueSpots
  <2> QED BY <1>12, <2>1, <2>2, SpotCases
<1>13. ASSUME NEW p \in Spots, NEW d \in Spots, NEW m \in Messages,
              Has(c, h, w, m, p), Has(c, h, w, m, d), g[p] = g[d]
       PROVE  p = d
  <2>1. /\ p # <<x, 0>> /\ d # <<x, 0>>
        /\ p = <<Nobody, n>> \/ g[p] = p
        /\ d = <<Nobody, n>> \/ g[d] = d
    BY <1>11, <1>13
  <2> QED BY <1>8, <1>13, <2>1
<1>14. \A p \in Spots : \A m \in Messages : Has(c, h, w, m, p) => Has(b, h, q, m, g[p])
  BY <1>11
<1>15. \A p \in Spots : \A m \in Messages : Has(b, h, q, m, p) => \E d \in Spots : Has(c, h, w, m, d)
  BY <1>12
<1>16. \A p, d \in Spots : \A m \in Messages : Has(c, h, w, m, p) /\ Has(c, h, w, m, d) /\ g[p] = g[d] => p = d
  BY <1>13
<1>17. g \in [Spots -> Spots]
  BY <1>8
<1>18. Carries(b, h, q, c, h, w, {})
  BY ONLY <1>14, <1>15, <1>16, <1>17, MoveCarries
<1> QED BY <1>2, <1>18 DEF c

-----------------------------------------------------------------------------
(* Steps of one session.                                                    *)

\* The other sessions keep their windows, hands and queues.
OthersKeep(s) ==
  \A t \in Sessions \ {s} : buffer'[t] = buffer[t] /\ hand'[t] = hand[t] /\ queue'[t] = queue[t]

\* The messages D are settled with f.
Settles(D, f) ==
  Len(fate') = Len(fate) /\ \A m \in 1..Len(fate) : fate'[m] = IF m \in D THEN f ELSE fate[m]

LEMMA FateIs ==
  ASSUME QueueTypeOK
  PROVE  Len(fate) \in Nat /\ 1..Len(fate) \subseteq Messages /\ \A m \in 1..Len(fate) : fate[m] \in Fates
PROOF
<1>1. fate \in Seq(Fates) /\ Len(fate) <= MaxMessages /\ MaxMessages \in Nat
  BY QueueAssumption DEF QueueTypeOK
<1> QED BY <1>1 DEF Messages

LEMMA Settling ==
  ASSUME QueueTypeOK, NEW msgs, NEW f \in Fates, Settle(msgs, f)
  PROVE  fate' \in Seq(Fates) /\ Len(fate') <= MaxMessages /\ Settles(Elements(msgs), f)
PROOF
<1>1. Len(fate) \in Nat /\ \A m \in 1..Len(fate) : fate[m] \in Fates
  BY FateIs
<1>2. fate' = [m \in 1..Len(fate) |-> IF m \in Elements(msgs) THEN f ELSE fate[m]]
  BY DEF Settle
<1> DEFINE n == Len(fate)
<1>3. n \in Nat /\ fate' \in [1..n -> Fates]
  BY <1>1, <1>2
<1>4. \A m \in 1..n : fate'[m] = IF m \in Elements(msgs) THEN f ELSE fate[m]
  BY <1>2
<1> HIDE DEF n
<1>5. fate' \in Seq(Fates) /\ Len(fate') = n
  BY ONLY <1>3
<1> QED BY <1>4, <1>5 DEF n, Settles, QueueTypeOK

\* Messages that are carried or settled are still at one place or none.
LEMMA Carried ==
  ASSUME QueueTypeOK, OnceOK, NEW s \in Sessions, OthersKeep(s), NEW D, NEW f, f # "open", Settles(D, f),
         Carries(buffer[s], hand[s], queue[s], buffer'[s], hand'[s], queue'[s], D),
         \A m \in D : m \in Messages /\ \E c \in Spots : In(s, m, c)
  PROVE  OnceOK'
PROOF
<1>1. PICK g \in [Spots -> Spots] :
        /\ \A c \in Spots : \A m \in Messages : In(s, m, c)' => In(s, m, g[c]) /\ m \notin D
        /\ \A c, d \in Spots : \A m \in Messages : In(s, m, c)' /\ In(s, m, d)' /\ g[c] = g[d] => c = d
        /\ \A c \in Spots : \A m \in Messages : In(s, m, c) => m \in D \/ \E d \in Spots : In(s, m, d)'
  BY DEF Carries, In
<1>2. \A t \in Sessions \ {s} : \A c \in Spots : \A m \in Messages : In(t, m, c)' <=> In(t, m, c)
  BY DEF OthersKeep, In
<1>3. \A t, u \in Sessions : \A c, d \in Spots : \A m \in Messages : In(t, m, c) /\ In(u, m, d) => t = u /\ c = d
  BY DEF OnceOK
<1>4. Len(fate) \in Nat /\ 1..Len(fate) \subseteq Messages
  BY FateIs
<1>5. Len(fate') = Len(fate) /\ \A m \in 1..Len(fate) : fate'[m] = IF m \in D THEN f ELSE fate[m]
  BY DEF Settles
\* Where a message is now, one was before that is not settled.
<1>6. ASSUME NEW t \in Sessions, NEW c \in Spots, NEW m \in Messages, In(t, m, c)'
      PROVE  m \notin D /\ \E d \in Spots : In(t, m, d)
  <2>1. CASE t = s
    BY <1>1, <1>6, <2>1
  <2>2. CASE t # s
    <3>1. In(t, m, c)
      BY <1>2, <1>6, <2>2
    <3>2. ASSUME m \in D PROVE FALSE
      <4>1. PICK d \in Spots : In(s, m, d)
        BY <3>2
      <4> QED BY <1>3, <2>2, <3>1, <4>1
    <3> QED BY <3>1, <3>2
  <2> QED BY <2>1, <2>2
<1>7. ASSUME NEW t \in Sessions, NEW c \in Spots, NEW m \in Messages, In(t, m, c)' PROVE Open(m)'
  <2>1. m \notin D /\ Open(m)
    BY <1>6, <1>7 DEF OnceOK
  <2>2. m \in 1..Len(fate)
    BY <1>4, <2>1 DEF Open, Messages
  <2> QED BY <1>5, <2>1, <2>2 DEF Open
<1>8. ASSUME NEW m \in 1..Len(fate'), fate'[m] = "open" PROVE \E t \in Sessions : \E c \in Spots : In(t, m, c)'
  <2>1. m \in 1..Len(fate) /\ m \notin D /\ fate[m] = "open" /\ m \in Messages
    BY <1>4, <1>5, <1>8
  <2>2. PICK t \in Sessions, c \in Spots : In(t, m, c)
    BY <2>1 DEF OnceOK
  <2>3. CASE t = s
    BY <1>1, <2>1, <2>2, <2>3
  <2>4. CASE t # s
    BY <1>2, <2>1, <2>2, <2>4
  <2> QED BY <2>3, <2>4
<1>9. ASSUME NEW t \in Sessions, NEW u \in Sessions, NEW c \in Spots, NEW d \in Spots, NEW m \in Messages,
             In(t, m, c)', In(u, m, d)'
      PROVE  t = u /\ c = d
  <2>1. t = u
    BY <1>3, <1>6, <1>9
  <2>2. CASE t = s
    <3>1. In(s, m, g[c]) /\ In(s, m, g[d]) /\ g[c] \in Spots /\ g[d] \in Spots
      BY <1>1, <1>9, <2>1, <2>2
    <3>2. g[c] = g[d]
      BY <1>3, <3>1
    <3> QED BY <1>1, <1>9, <2>1, <2>2, <3>2
  <2>3. CASE t # s
    BY <1>2, <1>3, <1>9, <2>1, <2>3
  <2> QED BY <2>1, <2>2, <2>3
<1> QED BY <1>7, <1>8, <1>9 DEF OnceOK

\* The same when nothing is settled.
LEMMA Kept ==
  ASSUME QueueTypeOK, OnceOK, NEW s \in Sessions, OthersKeep(s), fate' = fate,
         Carries(buffer[s], hand[s], queue[s], buffer'[s], hand'[s], queue'[s], {})
  PROVE  OnceOK'
PROOF
<1>1. Settles({}, "dropped")
  BY DEF Settles
<1>2. "dropped" # "open" /\ \A m \in {} : m \in Messages /\ \E c \in Spots : In(s, m, c)
  OBVIOUS
<1> QED BY <1>1, <1>2, Carried

LEMMA HasOnceNow ==
  ASSUME OnceOK, NEW s \in Sessions
  PROVE  HasOnce(buffer[s], hand[s], queue[s])
PROOF
  BY DEF OnceOK, In, HasOnce

\* A session that is not at work is as it was, but may have been woken.
LEMMA OthersOK ==
  ASSUME NEW s \in Sessions, OthersKeep(s), OthersStay(s), disposed' = disposed, \A t \in Sessions : SessionOK(t),
         SessionOK(s)'
  PROVE  \A t \in Sessions : SessionOK(t)'
PROOF
<1> SUFFICES ASSUME NEW t \in Sessions \ {s} PROVE SessionOK(t)'
  OBVIOUS
<1>1. /\ HandOK(at[t], buffer[t], hand[t], queue[t], disposed)
      /\ InOrder(buffer[t], hand[t], queue[t])
      /\ Within(at[t], hand[t], queue[t])
  BY DEF SessionOK
<1>2. buffer'[t] = buffer[t] /\ hand'[t] = hand[t] /\ queue'[t] = queue[t]
  BY DEF OthersKeep
<1>3. at'[t] = at[t] \/ (at[t] = "parked" /\ at'[t] = "woken")
  BY DEF OthersStay
<1>4. HandOK(at'[t], buffer[t], hand[t], queue[t], disposed) /\ Within(at'[t], hand[t], queue[t])
  BY <1>1, <1>3 DEF HandOK, Within, Working
<1> QED BY <1>1, <1>2, <1>4 DEF SessionOK

\* The variables of one session.
LEMMA SessionTypes ==
  ASSUME QueueTypeOK, NEW s \in Sessions
  PROVE  /\ buffer[s] \in [Senders -> Seq(Messages)] /\ queue[s] \in Seq(Entries)
         /\ hand[s] \in Entries \cup {NoEntry} /\ rotation[s] \in Seq(Senders)
         /\ current[s] \in Senders \cup {Nobody} /\ last[s] \in Senders \cup {Nobody}
         /\ overtaken[s] \in SUBSET (Senders \X Senders)
PROOF
  BY DEF QueueTypeOK

-----------------------------------------------------------------------------
(* The actions.                                                             *)

\* Messages that are somewhere have arrived.
LEMMA Arrived ==
  ASSUME QueueInv, NEW s \in Sessions, NEW c \in Spots, NEW m \in Messages, In(s, m, c)
  PROVE  m \in 1..Len(fate) /\ fate[m] = "open"
PROOF
<1>1. Open(m) /\ Len(fate) \in Nat
  BY FateIs DEF QueueInv, OnceOK
<1> QED BY <1>1 DEF Open, Messages

LEMMA EnqueueKeeps ==
  ASSUME QueueInv, NEW s \in Sessions, NEW x \in Senders, Enqueue(s, x)
  PROVE  QueueInv'
PROOF
<1> DEFINE n == Len(fate) + 1
<1>1. /\ QueueTypeOK /\ SlotsNow /\ OnceOK /\ \A t \in Sessions : SessionOK(t)
      /\ Len(fate) \in Nat /\ n \in Messages
      /\ queue' = queue /\ at' = at /\ hand' = hand /\ active' = active /\ waiting' = waiting
      /\ rotation' = rotation /\ current' = current /\ last' = last /\ overtaken' = overtaken
      /\ disposed' = disposed /\ ~disposed
  BY FateIs DEF QueueInv, Enqueue, fairVars, Messages
<1>2. SlotsNow'
  BY <1>1 DEF SlotsNow
<1>3. OthersStay(s)
  BY <1>1 DEF OthersStay
<1>4. \A t \in Sessions : \A c \in Spots : \A m \in Messages : In(t, m, c) => m \in 1..Len(fate) /\ m < n /\ fate[m] = "open"
  BY <1>1, Arrived
<1>5. CASE Len(queue[s]) >= MaxQueueDepth
  <2>1. fate' = Append(fate, "rejected") /\ buffer' = buffer
    BY <1>5 DEF Enqueue
  <2>2. fate' \in Seq(Fates) /\ Len(fate') = n /\ fate'[n] = "rejected" /\ \A m \in 1..Len(fate) : fate'[m] = fate[m]
    <3>1. fate \in Seq(Fates) /\ "rejected" \in Fates
      BY <1>1 DEF QueueTypeOK, Fates
    <3> QED BY <2>1, <3>1, Appended
  <2>3. QueueTypeOK'
    <3>1. Len(fate') <= MaxMessages
      BY <1>1, <2>2, QueueAssumption DEF Messages
    <3> QED BY <1>1, <2>1, <2>2, <3>1 DEF QueueTypeOK
  <2>4. \A t \in Sessions : \A c \in Spots : \A m \in Messages : In(t, m, c)' <=> In(t, m, c)
    BY <1>1, <2>1 DEF In
  <2>5. OnceOK'
    <3>1. ASSUME NEW t \in Sessions, NEW c \in Spots, NEW m \in Messages, In(t, m, c)' PROVE Open(m)'
      <4>1. m \in 1..Len(fate) /\ fate[m] = "open"
        BY <1>4, <2>4, <3>1
      <4> QED BY <1>1, <2>2, <4>1 DEF Open
    <3>2. ASSUME NEW m \in 1..Len(fate'), fate'[m] = "open" PROVE \E t \in Sessions : \E c \in Spots : In(t, m, c)'
      <4>1. m \in 1..Len(fate) /\ fate[m] = "open" /\ m \in Messages
        BY <1>1, <2>2, <3>2, FateIs
      <4> QED BY <1>1, <2>4, <4>1 DEF OnceOK
    <3>3. \A t, u \in Sessions : \A c, d \in Spots : \A m \in Messages : In(t, m, c)' /\ In(u, m, d)' => t = u /\ c = d
      BY <1>1, <2>4 DEF OnceOK
    <3> QED BY <3>1, <3>2, <3>3 DEF OnceOK
  <2>6. \A t \in Sessions : SessionOK(t)'
    BY <1>1, <2>1 DEF SessionOK
  <2> QED BY <1>2, <2>3, <2>5, <2>6 DEF QueueInv
<1>6. CASE ~(Len(queue[s]) >= MaxQueueDepth)
  <2>1. fate' = Append(fate, "open") /\ buffer' = [buffer EXCEPT ![s][x] = Append(@, n)]
    BY <1>6 DEF Enqueue
  <2>2. fate' \in Seq(Fates) /\ Len(fate') = n /\ fate'[n] = "open" /\ \A m \in 1..Len(fate) : fate'[m] = fate[m]
    <3>1. fate \in Seq(Fates) /\ "open" \in Fates
      BY <1>1 DEF QueueTypeOK, Fates
    <3> QED BY <2>1, <3>1, Appended
  <2>3. /\ buffer'[s] = [buffer[s] EXCEPT ![x] = Append(buffer[s][x], n)]
        /\ buffer' \in [Sessions -> [Senders -> Seq(Messages)]]
        /\ \A t \in Sessions \ {s} : buffer'[t] = buffer[t]
    <3>1. buffer \in [Sessions -> [Senders -> Seq(Messages)]]
      BY <1>1 DEF QueueTypeOK
    <3>2. Append(buffer[s][x], n) \in Seq(Messages)
      BY <1>1, <3>1, Appended
    <3> HIDE DEF n
    <3> QED BY <2>1, <3>1, <3>2
  <2>4. QueueTypeOK'
    <3>1. Len(fate') <= MaxMessages
      BY <1>1, <2>2, QueueAssumption DEF Messages
    <3> QED BY <1>1, <2>2, <2>3, <3>1 DEF QueueTypeOK
  <2>5. OthersKeep(s)
    BY <1>1, <2>3 DEF OthersKeep
  <2>6. /\ buffer[s] \in [Senders -> Seq(Messages)] /\ buffer[s][x] \in Seq(Messages)
        /\ hand[s] \in Entries \cup {NoEntry} /\ queue[s] \in Seq(Entries)
    BY <1>1, SessionTypes
  <2>7. SessionOK(s)'
    <3>1. HandOK(at[s], buffer[s], hand[s], queue[s], disposed) /\ InOrder(buffer[s], hand[s], queue[s]) /\ Within(at[s], hand[s], queue[s])
      BY <1>1 DEF SessionOK
    <3>2. ASSUME NEW k \in Elements(buffer[s][x]) PROVE k < n
      <4>1. k \in Messages
        BY <2>6 DEF Elements
      <4>2. In(s, k, <<x, 0>>) /\ <<x, 0>> \in Spots
        BY WindowSpots DEF In
      <4> QED BY <1>4, <4>1, <4>2
    <3>3. ASSUME NEW i \in 0..Len(queue[s]), NEW k \in Elements(Entry(hand[s], queue[s], i).msgs) PROVE k < n
      <4>1. k \in Messages
        <5>1. Entry(hand[s], queue[s], i).msgs \in Seq(Messages)
          BY <2>6, EntryIs
        <5> QED BY <5>1 DEF Elements
      <4>2. In(s, k, <<Nobody, i>>) /\ <<Nobody, i>> \in Spots
        BY <2>6, QueueSpots DEF In, Held, Entry
      <4> QED BY <1>4, <4>1, <4>2
    <3> HIDE DEF n
    <3>4. InOrder(buffer'[s], hand[s], queue[s])
      <4>1. n \in Messages /\ InOrder(buffer[s], hand[s], queue[s])
        BY <1>1, <3>1
      <4>2. InOrder([buffer[s] EXCEPT ![x] = Append(buffer[s][x], n)], hand[s], queue[s])
        BY <2>6, <3>2, <3>3, <4>1, WindowGrows
      <4> QED BY <2>3, <4>2
    <3>5. HandOK(at[s], buffer'[s], hand[s], queue[s], disposed)
      BY <1>1, <3>1 DEF HandOK
    <3> QED BY <1>1, <3>1, <3>4, <3>5 DEF SessionOK
  <2>8. \A t \in Sessions : SessionOK(t)'
    BY <1>1, <1>3, <2>5, <2>7, OthersOK
  <2> DEFINE z == <<x, 0>>
  <2>9. z \in Spots /\ \A d \in Spots : d[1] = x /\ d[2] = 0 => d = z
    <3>1. z \in Spots
      BY WindowSpots
    <3>2. \A d \in Spots : d[1] = x /\ d[2] = 0 => d = z
      BY SpotIs
    <3> QED BY <3>1, <3>2
  \* The message is in the window of its sender.
  <2>10. ASSUME NEW t \in Sessions, NEW c \in Spots, NEW m \in Messages
         PROVE  In(t, m, c)' <=> In(t, m, c) \/ (t = s /\ c = z /\ m = n)
    <3>0. z[1] = x /\ z[2] = 0 /\ x # Nobody
      BY LimitsAreNumbers
    <3>1. \A k : k \in Elements(buffer'[s][x]) <=> k \in Elements(buffer[s][x]) \/ k = n
      <4>1. buffer'[s][x] = Append(buffer[s][x], n) /\ n \in Messages
        BY <1>1, <2>3, <2>6
      <4> HIDE DEF n
      <4> QED BY <2>6, <4>1, AppendedElements
    <3> HIDE DEF n, z
    <3>2. CASE t # s
      BY <1>1, <2>3, <3>2 DEF In
    <3>3. CASE t = s /\ c = z
      BY <3>0, <3>1, <3>3 DEF In, Has
    <3>4. CASE t = s /\ c # z
      <4>1. c[1] # Nobody /\ c[1] # x => c[1] \in Senders /\ buffer'[s][c[1]] = buffer[s][c[1]]
        BY <2>3, <2>6, SpotIs
      <4>2. c[1] = x => c[2] # 0
        BY <2>9, <3>4
      <4> QED BY <1>1, <3>0, <3>4, <4>1, <4>2 DEF In, Has
    <3> QED BY <3>2, <3>3, <3>4
  <2>11. OnceOK'
    <3> HIDE DEF z
    <3>1. ASSUME NEW t \in Sessions, NEW c \in Spots, NEW m \in Messages, In(t, m, c)' PROVE Open(m)'
      <4>1. (m \in 1..Len(fate) /\ fate[m] = "open") \/ m = n
        BY <1>4, <2>10, <3>1
      <4>2. n <= Len(fate') /\ \A k \in 1..Len(fate) : k <= Len(fate')
        BY <1>1, <2>2
      <4> HIDE DEF n
      <4> QED BY <1>1, <2>2, <4>1, <4>2 DEF Open
    <3>2. ASSUME NEW m \in 1..Len(fate'), fate'[m] = "open" PROVE \E t \in Sessions : \E c \in Spots : In(t, m, c)'
      <4>1. m \in Messages /\ (m = n \/ (m \in 1..Len(fate) /\ fate[m] = "open"))
        BY <1>1, <2>2, <3>2, FateIs
      <4>2. CASE m = n
        BY <1>1, <2>9, <2>10, <4>2
      <4>3. CASE m # n
        <5>1. PICK t \in Sessions, c \in Spots : In(t, m, c)
          BY <1>1, <4>1, <4>3 DEF OnceOK
        <5> QED BY <2>10, <4>1, <5>1
      <4> QED BY <4>2, <4>3
    <3>3. ASSUME NEW t \in Sessions, NEW u \in Sessions, NEW c \in Spots, NEW d \in Spots, NEW m \in Messages,
                 In(t, m, c)', In(u, m, d)'
          PROVE  t = u /\ c = d
      <4>1. CASE m = n
        <5>1. \A v \in Sessions : \A p \in Spots : ~In(v, m, p)
          BY <1>1, <1>4, <4>1
        <5> QED BY <2>10, <3>3, <5>1
      <4>2. CASE m # n
        <5>1. In(t, m, c) /\ In(u, m, d)
          BY <2>10, <3>3, <4>2
        <5> QED BY <1>1, <5>1 DEF OnceOK
      <4> QED BY <4>1, <4>2
    <3> QED BY <3>1, <3>2, <3>3 DEF OnceOK
  <2> QED BY <1>2, <2>4, <2>8, <2>11 DEF QueueInv
<1> QED BY <1>5, <1>6

\* A step of session s: what is left to show of the invariant.
LEMMA StepKeeps ==
  ASSUME QueueInv, NEW s \in Sessions, QueueTypeOK', SlotsNow', OthersKeep(s), OthersStay(s),
         disposed' = disposed, SessionOK(s)', OnceOK'
  PROVE  QueueInv'
PROOF
<1>1. \A t \in Sessions : SessionOK(t)
  BY DEF QueueInv
<1>2. \A t \in Sessions : SessionOK(t)'
  BY <1>1, OthersOK
<1> QED BY <1>2 DEF QueueInv

LEMMA FlushKeeps ==
  ASSUME QueueInv, NEW s \in Sessions, NEW x \in Senders, Flush(s, x)
  PROVE  QueueInv'
PROOF
<1> DEFINE e == [sender |-> x, msgs |-> buffer[s][x], attempt |-> 0]
           b == [buffer[s] EXCEPT ![x] = <<>>]
<1>1. /\ QueueTypeOK /\ SlotsNow /\ OnceOK /\ SessionOK(s)
      /\ ~disposed /\ disposed' = disposed /\ hand' = hand /\ current' = current
      /\ last' = last /\ overtaken' = overtaken
      /\ buffer' = [buffer EXCEPT ![s][x] = <<>>]
  BY DEF QueueInv, Flush
<1>2. /\ HandOK(at[s], buffer[s], hand[s], queue[s], disposed)
      /\ InOrder(buffer[s], hand[s], queue[s]) /\ Within(at[s], hand[s], queue[s])
  BY <1>1 DEF SessionOK
<1>3. /\ buffer[s] \in [Senders -> Seq(Messages)] /\ buffer[s][x] \in Seq(Messages)
      /\ hand[s] \in Entries \cup {NoEntry} /\ queue[s] \in Seq(Entries) /\ rotation[s] \in Seq(Senders)
  BY <1>1, SessionTypes
<1>4. e \in Entries /\ e.sender = x /\ e.msgs = buffer[s][x] /\ e.attempt = 0
  <2>1. 0 \in 0..MaxAttempts
    BY LimitsAreNumbers
  <2> QED BY <1>3, <2>1 DEF Entries
<1>5. /\ buffer'[s] = b /\ buffer' \in [Sessions -> [Senders -> Seq(Messages)]]
      /\ \A t \in Sessions \ {s} : buffer'[t] = buffer[t]
  <2>1. buffer \in [Sessions -> [Senders -> Seq(Messages)]] /\ <<>> \in Seq(Messages)
    BY <1>1 DEF QueueTypeOK
  <2> QED BY <1>1, <2>1
<1> HIDE DEF b, e
<1>6. InOrder(b, hand[s], queue[s]) /\ InOrder(b, hand[s], Append(queue[s], e))
  BY <1>2, <1>3, <1>4, WindowCloses DEF b
<1>7. HasOnce(buffer[s], hand[s], queue[s])
  BY <1>1, HasOnceNow
<1>8. CASE OverLimit(s, x)
  <2>1. Settle(e.msgs, "rejected") /\ UNCHANGED <<queue, rotation, at, active, waiting>>
    BY <1>8 DEF Flush, e
  <2>2. fate' \in Seq(Fates) /\ Len(fate') <= MaxMessages /\ Settles(Elements(buffer[s][x]), "rejected")
    <3>1. "rejected" \in Fates
      BY DEF Fates
    <3> QED BY <1>1, <1>4, <2>1, <3>1, Settling
  <2>3. SlotsNow' /\ OthersStay(s) /\ OthersKeep(s)
    BY <1>1, <1>5, <2>1 DEF SlotsNow, OthersStay, OthersKeep
  <2>4. QueueTypeOK'
    BY <1>1, <1>5, <2>1, <2>2 DEF QueueTypeOK
  <2>5. SessionOK(s)'
    BY <1>1, <1>2, <1>5, <1>6, <2>1 DEF SessionOK, HandOK
  <2>6. Carries(buffer[s], hand[s], queue[s], buffer'[s], hand'[s], queue'[s], Elements(buffer[s][x]))
    <3>1. Carries(buffer[s], hand[s], queue[s], b, hand[s], queue[s], Elements(buffer[s][x]))
      BY <1>3, <1>7, WindowDropped DEF b
    <3> QED BY <1>1, <1>5, <2>1, <3>1
  <2>7. \A m \in Elements(buffer[s][x]) : m \in Messages /\ \E c \in Spots : In(s, m, c)
    <3>1. \A m \in Elements(buffer[s][x]) : m \in Messages
      BY <1>3 DEF Elements
    <3> QED BY <3>1, WindowSpots DEF In
  <2>8. OnceOK'
    <3>1. "rejected" # "open"
      OBVIOUS
    <3> QED BY <1>1, <2>2, <2>3, <2>6, <2>7, <3>1, Carried
  <2> QED BY <1>1, <2>3, <2>4, <2>5, <2>8, StepKeeps
<1>9. CASE ~OverLimit(s, x)
  <2>1. /\ queue' = [queue EXCEPT ![s] = Append(@, e)] /\ fate' = fate
        /\ rotation' = IF Fair /\ current[s] # x /\ x \notin Elements(rotation[s])
                       THEN [rotation EXCEPT ![s] = Append(@, x)] ELSE rotation
        /\ IF at[s] = "none" THEN AcquireSlot(s, at, active, waiting) ELSE UNCHANGED <<at, active, waiting>>
    BY <1>9 DEF Flush, e
  <2>2. PICK w \in Seq(Entries) : w = Append(queue[s], e)
    BY <1>3, <1>4, Appended
  <2>3. /\ queue' \in [Sessions -> Seq(Entries)] /\ queue'[s] = w
        /\ \A t \in Sessions \ {s} : queue'[t] = queue[t]
    <3>1. queue \in [Sessions -> Seq(Entries)] /\ queue' = [queue EXCEPT ![s] = w]
      BY <1>1, <2>1, <2>2 DEF QueueTypeOK
    <3> QED BY <3>1
  <2>4. rotation' \in [Sessions -> Seq(Senders)]
    <3>1. rotation \in [Sessions -> Seq(Senders)] /\ Append(rotation[s], x) \in Seq(Senders)
      BY <1>1, <1>3 DEF QueueTypeOK
    <3> QED BY <2>1, <3>1
  <2>5. /\ SlotsNow' /\ OthersStay(s)
        /\ (at[s] = "none" /\ at'[s] \in {"slot", "parked"}) \/ (at[s] # "none" /\ at'[s] = at[s])
    <3>1. CASE at[s] = "none"
      BY <1>1, <2>1, <3>1, AcquireStep
    <3>2. CASE at[s] # "none"
      BY <1>1, <2>1, <3>2 DEF SlotsNow, OthersStay
    <3> QED BY <3>1, <3>2
  <2>6. OthersKeep(s)
    BY <1>1, <1>5, <2>3 DEF OthersKeep
  <2>7. QueueTypeOK'
    <3>1. at' \in [Sessions -> Stages] /\ waiting' \in Seq(Sessions) /\ active' \in Nat
      BY <2>5 DEF SlotsNow, SlotsAt
    <3> QED BY <1>1, <1>5, <2>1, <2>3, <2>4, <3>1 DEF QueueTypeOK, Stages, Working
  <2>8. HandOK(at'[s], b, hand[s], w, disposed)
    <3>1. /\ Len(w) = Len(queue[s]) + 1 /\ w[Len(queue[s]) + 1] = e /\ Len(queue[s]) \in Nat
          /\ \A j \in 1..Len(queue[s]) : w[j] = queue[s][j]
      BY <1>3, <1>4, <2>2, Appended
    <3>2. w # <<>>
      BY <3>1
    <3>3. 0 < MaxAttempts
      BY LimitsAreNumbers
    <3>4. ASSUME NEW i \in 1..Len(w) PROVE w[i].attempt < MaxAttempts
      <4>1. i \in 1..Len(queue[s]) \/ i = Len(queue[s]) + 1
        BY <3>1
      <4> QED BY <1>2, <1>4, <3>1, <3>3, <4>1 DEF HandOK
    <3> QED BY <1>1, <1>2, <2>5, <3>2, <3>4 DEF HandOK, Working
  <2>9. Within(at'[s], hand[s], w)
    <3>1. Len(queue[s]) < MaxQueueDepth
      BY <1>3, <1>9, LimitsAreNumbers DEF OverLimit
    <3>2. MaxQueued > 0 /\ e.sender \notin Admins => Cardinality(OfSender(queue[s], e.sender)) < MaxQueued
      BY <1>3, <1>4, <1>9, OfSenderFinite, LimitsAreNumbers DEF OverLimit
    <3> QED BY <1>2, <1>3, <1>4, <2>2, <3>1, <3>2, WithinGrows
  <2>10. SessionOK(s)'
    BY <1>1, <1>5, <1>6, <2>2, <2>3, <2>8, <2>9 DEF SessionOK
  <2>11. Carries(buffer[s], hand[s], queue[s], buffer'[s], hand'[s], queue'[s], {})
    <3>1. Carries(buffer[s], hand[s], queue[s], b, hand[s], Append(queue[s], e), {})
      BY <1>3, <1>4, JoinedCarries DEF b
    <3> QED BY <1>1, <1>5, <2>2, <2>3, <3>1
  <2>12. OnceOK'
    BY <1>1, <2>1, <2>6, <2>11, Kept
  <2> QED BY <1>1, <2>5, <2>6, <2>7, <2>10, <2>12, StepKeeps
<1> QED BY <1>8, <1>9

\* A step of session s that leaves its messages where they are.
LEMMA NothingMoves ==
  ASSUME QueueInv, NEW s \in Sessions, buffer' = buffer, queue' = queue, fate' = fate,
         hand' \in [Sessions -> Entries \cup {NoEntry}], \A t \in Sessions \ {s} : hand'[t] = hand[t],
         hand'[s].msgs = hand[s].msgs
  PROVE  OthersKeep(s) /\ OnceOK'
PROOF
<1>1. OthersKeep(s)
  BY DEF OthersKeep
<1>2. Carries(buffer[s], hand[s], queue[s], buffer[s], hand'[s], queue[s], {})
  BY StayCarries
<1> QED BY <1>1, <1>2, Kept DEF QueueInv

LEMMA ResumeKeeps ==
  ASSUME QueueInv, NEW s \in Sessions, Resume(s)
  PROVE  QueueInv'
PROOF
<1>1. /\ QueueTypeOK /\ SlotsNow /\ SessionOK(s) /\ at[s] = "woken"
      /\ active' = active + 1 /\ at' = [at EXCEPT ![s] = "slot"] /\ disposed' = disposed /\ waiting' = waiting
      /\ fate' = fate /\ buffer' = buffer /\ queue' = queue /\ hand' = hand
      /\ rotation' = rotation /\ current' = current /\ last' = last /\ overtaken' = overtaken
  BY DEF QueueInv, Resume, fairVars
<1>2. SlotsNow' /\ OthersStay(s) /\ at'[s] = "slot"
  BY <1>1, CountsSlot
<1>3. QueueTypeOK'
  <2>1. at' \in [Sessions -> Stages] /\ active' \in Nat
    BY <1>2 DEF SlotsNow, SlotsAt
  <2> QED BY <1>1, <2>1 DEF QueueTypeOK, Stages, Working
<1>4. OthersKeep(s) /\ OnceOK'
  BY <1>1, NothingMoves DEF QueueTypeOK
<1>5. SessionOK(s)'
  BY <1>1, <1>2 DEF SessionOK, HandOK, Within, Working
<1> QED BY <1>1, <1>2, <1>3, <1>4, <1>5, StepKeeps

LEMMA BeginKeeps ==
  ASSUME QueueInv, NEW s \in Sessions, Begin(s)
  PROVE  QueueInv'
PROOF
<1>1. /\ QueueTypeOK /\ SlotsNow /\ SessionOK(s) /\ OnceOK /\ at[s] = "slot"
      /\ fate' = fate /\ buffer' = buffer /\ active' = active /\ waiting' = waiting
      /\ last' = last /\ disposed' = disposed
  BY DEF QueueInv, Begin
<1>2. /\ HandOK(at[s], buffer[s], hand[s], queue[s], disposed)
      /\ InOrder(buffer[s], hand[s], queue[s]) /\ Within(at[s], hand[s], queue[s])
  BY <1>1 DEF SessionOK
<1>3. /\ queue[s] \in Seq(Entries) /\ rotation[s] \in Seq(Senders)
      /\ overtaken[s] \in SUBSET (Senders \X Senders)
  BY <1>1, SessionTypes
<1>4. hand[s] = NoEntry
  BY <1>1, <1>2 DEF HandOK, Working
<1>5. CASE disposed
  <2>1. /\ at' = [at EXCEPT ![s] = "none"] /\ current' = [current EXCEPT ![s] = Nobody]
        /\ queue' = queue /\ hand' = hand /\ rotation' = rotation /\ overtaken' = overtaken
    BY <1>5 DEF Begin
  <2>2. SlotsNow' /\ OthersStay(s) /\ at'[s] = "none"
    BY <1>1, <1>5, <2>1, LeavesWithSlot
  <2>3. QueueTypeOK'
    <3>1. at' \in [Sessions -> Stages] /\ current' \in [Sessions -> Senders \cup {Nobody}]
      BY <1>1, <2>1, <2>2 DEF SlotsNow, SlotsAt, QueueTypeOK
    <3> QED BY <1>1, <2>1, <3>1 DEF QueueTypeOK, Stages, Working
  <2>4. OthersKeep(s) /\ OnceOK'
    BY <1>1, <2>1, NothingMoves DEF QueueTypeOK
  <2>5. SessionOK(s)'
    BY <1>1, <1>2, <2>1, <2>2 DEF SessionOK, HandOK, Within, Working
  <2> QED BY <1>1, <2>2, <2>3, <2>4, <2>5, StepKeeps
<1>6. CASE ~disposed
  <2> DEFINE next == NextEntry(queue[s], rotation[s], last[s])
             entry == queue[s][next.index]
             rest == Without(queue[s], next.index)
             behind == {x \in Senders : x # entry.sender /\ OfSender(rest, x) # {}}
  <2>1. /\ at' = [at EXCEPT ![s] = "typing"] /\ queue' = [queue EXCEPT ![s] = rest]
        /\ hand' = [hand EXCEPT ![s] = entry] /\ rotation' = [rotation EXCEPT ![s] = next.rotation]
        /\ current' = IF Fair THEN [current EXCEPT ![s] = entry.sender] ELSE current
        /\ overtaken' = IF ~Fair THEN overtaken ELSE
             [overtaken EXCEPT ![s] = {p \in @ : p[1] \in behind} \cup (behind \X {entry.sender})]
    BY <1>6 DEF Begin
  <2>2. queue[s] # <<>>
    BY <1>1, <1>2, <1>6 DEF HandOK
  <2>3. /\ next.index \in 1..Len(queue[s]) /\ next.rotation \in Seq(Senders)
        /\ \A j \in 1..Len(queue[s]) : j < next.index => queue[s][j].sender # queue[s][next.index].sender
    BY <1>3, <2>2, NextEntryFacts
  <2> HIDE DEF next
  <2> DEFINE i == next.index
  <2>4. rest \in Seq(Entries) /\ Less(queue[s], i, rest)
    BY <1>3, <2>3, WithoutFacts
  <2>5. entry \in Entries /\ entry.sender \in Senders
    <3>1. entry \in Entries
      BY <1>3, <2>3
    <3> QED BY <3>1 DEF Entries
  <2>6. entry.attempt < MaxAttempts
    BY <1>2, <2>3 DEF HandOK
  <2>7. behind \subseteq Senders
    OBVIOUS
  <2>e. entry = queue[s][i]
    OBVIOUS
  <2> HIDE DEF entry, rest, behind
  <2>8. SlotsNow' /\ OthersStay(s) /\ at'[s] = "typing"
    <3>1. "slot" \in Holding /\ "typing" \in Holding
      BY DEF Holding
    <3> QED BY <1>1, <2>1, <3>1, KeepsSlot
  <2>9. /\ queue' \in [Sessions -> Seq(Entries)] /\ queue'[s] = rest /\ \A t \in Sessions \ {s} : queue'[t] = queue[t]
    <3>1. queue \in [Sessions -> Seq(Entries)]
      BY <1>1 DEF QueueTypeOK
    <3> QED BY <2>1, <2>4, <3>1
  <2>10. /\ hand' \in [Sessions -> Entries \cup {NoEntry}] /\ hand'[s] = entry
         /\ \A t \in Sessions \ {s} : hand'[t] = hand[t]
    <3>1. hand \in [Sessions -> Entries \cup {NoEntry}]
      BY <1>1 DEF QueueTypeOK
    <3> QED BY <2>1, <2>5, <3>1
  <2>11. QueueTypeOK'
    <3>1. at' \in [Sessions -> Stages] /\ waiting' \in Seq(Sessions) /\ active' \in Nat
      BY <2>8 DEF SlotsNow, SlotsAt
    <3>2. rotation' \in [Sessions -> Seq(Senders)]
      <4>1. rotation \in [Sessions -> Seq(Senders)]
        BY <1>1 DEF QueueTypeOK
      <4> QED BY <2>1, <2>3, <4>1
    <3>3. current' \in [Sessions -> Senders \cup {Nobody}]
      <4>1. current \in [Sessions -> Senders \cup {Nobody}]
        BY <1>1 DEF QueueTypeOK
      <4> QED BY <2>1, <2>5, <4>1
    <3>4. overtaken' \in [Sessions -> SUBSET (Senders \X Senders)]
      <4>1. overtaken \in [Sessions -> SUBSET (Senders \X Senders)]
        BY <1>1 DEF QueueTypeOK
      <4>2. behind \X {entry.sender} \in SUBSET (Senders \X Senders)
        BY <2>5, <2>7
      <4>3. {p \in overtaken[s] : p[1] \in behind} \cup (behind \X {entry.sender}) \in SUBSET (Senders \X Senders)
        BY <1>3, <4>2
      <4> QED BY <2>1, <4>1, <4>3
    <3> QED BY <1>1, <2>9, <2>10, <3>1, <3>2, <3>3, <3>4 DEF QueueTypeOK, Stages, Working
  <2>12. OthersKeep(s)
    BY <1>1, <2>9, <2>10 DEF OthersKeep
  <2>13. SessionOK(s)'
    <3>1. InOrder(buffer[s], entry, rest)
      BY <1>2, <1>3, <1>4, <2>3, <2>4, <2>e, EntryTaken
    <3>2. Within("typing", entry, rest)
      BY <1>2, <1>3, <1>4, <2>3, <2>4, <2>e, WithinTaken
    <3>3. HandOK("typing", buffer[s], entry, rest, disposed)
      <4>1. Len(queue[s]) \in Nat /\ Len(rest) = Len(queue[s]) - 1
            /\ \A j \in 1..Len(rest) : rest[j] = queue[s][IF j < i THEN j ELSE j + 1]
        BY <1>3, <2>4 DEF Less
      <4>2. ASSUME NEW j \in 1..Len(rest) PROVE rest[j].attempt < MaxAttempts
        <5>1. (IF j < i THEN j ELSE j + 1) \in 1..Len(queue[s])
          BY <2>3, <4>1
        <5> QED BY <1>2, <4>1, <5>1 DEF HandOK
      <4> QED BY <1>6, <2>5, <2>6, <4>2 DEF HandOK, Working
    <3> QED BY <1>1, <2>8, <2>9, <2>10, <3>1, <3>2, <3>3 DEF SessionOK
  <2>14. OnceOK'
    <3>1. Carries(buffer[s], NoEntry, queue[s], buffer[s], queue[s][i], rest, {})
      BY <1>3, <2>3, <2>4, TakenCarries
    <3>2. Carries(buffer[s], hand[s], queue[s], buffer'[s], hand'[s], queue'[s], {})
      BY <1>1, <1>4, <2>9, <2>10, <2>e, <3>1
    <3> QED BY <1>1, <2>12, <3>2, Kept
  <2> QED BY <1>1, <2>8, <2>11, <2>12, <2>13, <2>14, StepKeeps
<1> QED BY <1>5, <1>6

\* The next await, with the entry in hand.
LEMMA StaysKeeps ==
  ASSUME QueueInv, NEW s \in Sessions, at[s] \in Working, NEW v \in Working,
         v = "notifying" \/ at[s] # "notifying",
         at' = [at EXCEPT ![s] = v],
         UNCHANGED <<fate, buffer, queue, hand, active, waiting, fairVars, disposed>>
  PROVE  QueueInv'
PROOF
<1>1. /\ QueueTypeOK /\ SlotsNow /\ SessionOK(s) /\ at[s] \in Holding /\ v \in Holding
      /\ active' = active /\ disposed' = disposed /\ waiting' = waiting
      /\ fate' = fate /\ buffer' = buffer /\ queue' = queue /\ hand' = hand
      /\ rotation' = rotation /\ current' = current /\ last' = last /\ overtaken' = overtaken
  BY DEF QueueInv, fairVars, Holding, Working
<1>2. SlotsNow' /\ OthersStay(s) /\ at'[s] = v
  BY <1>1, KeepsSlot
<1>3. QueueTypeOK'
  <2>1. at' \in [Sessions -> Stages]
    BY <1>2 DEF SlotsNow, SlotsAt
  <2> QED BY <1>1, <2>1 DEF QueueTypeOK, Stages, Working
<1>4. OthersKeep(s) /\ OnceOK'
  BY <1>1, NothingMoves DEF QueueTypeOK
<1>5. SessionOK(s)'
  <2>1. HandOK(v, buffer[s], hand[s], queue[s], disposed)
    BY <1>1 DEF SessionOK, HandOK, Working
  <2>2. Within(v, hand[s], queue[s]) /\ InOrder(buffer[s], hand[s], queue[s])
    BY <1>1 DEF SessionOK, Within
  <2> QED BY <1>1, <1>2, <2>1, <2>2 DEF SessionOK
<1> QED BY <1>1, <1>2, <1>3, <1>4, <1>5, StepKeeps

LEMMA FailKeeps ==
  ASSUME QueueInv, NEW s \in Sessions, at[s] \in {"dispatching", "sending"}, Fail(s)
  PROVE  QueueInv'
PROOF
<1> DEFINE a == hand[s].attempt + 1
           v == IF a < MaxAttempts THEN "delaying" ELSE "notifying"
<1>1. /\ QueueTypeOK /\ SlotsNow /\ SessionOK(s) /\ at[s] \in Holding /\ v \in Holding
      /\ at[s] \in Working /\ at[s] # "notifying" /\ v \in Working
      /\ at' = [at EXCEPT ![s] = v] /\ hand' = [hand EXCEPT ![s].attempt = a]
      /\ active' = active /\ disposed' = disposed /\ waiting' = waiting
      /\ fate' = fate /\ buffer' = buffer /\ queue' = queue
      /\ rotation' = rotation /\ current' = current /\ last' = last /\ overtaken' = overtaken
  BY DEF QueueInv, Fail, fairVars, Holding, Working
<1>2. /\ HandOK(at[s], buffer[s], hand[s], queue[s], disposed)
      /\ InOrder(buffer[s], hand[s], queue[s]) /\ Within(at[s], hand[s], queue[s])
  BY <1>1 DEF SessionOK
<1>3. hand[s] \in Entries /\ hand[s].attempt < MaxAttempts
  BY <1>1, <1>2 DEF HandOK, Working
<1>4. a \in 0..MaxAttempts /\ (v # "notifying" => a < MaxAttempts)
  BY <1>3, LimitsAreNumbers DEF Entries
<1> DEFINE g == [hand[s] EXCEPT !.attempt = a]
<1>5. g \in Entries /\ g.msgs = hand[s].msgs /\ g.sender = hand[s].sender /\ g.attempt = a
  <2> HIDE DEF a
  <2> QED BY <1>3, <1>4 DEF Entries
<1>6. /\ hand' \in [Sessions -> Entries \cup {NoEntry}] /\ hand'[s] = g
      /\ \A t \in Sessions \ {s} : hand'[t] = hand[t]
  <2>1. hand \in [Sessions -> Entries \cup {NoEntry}] /\ hand' = [hand EXCEPT ![s] = g]
    BY <1>1 DEF QueueTypeOK
  <2> HIDE DEF g
  <2> QED BY <1>5, <2>1
<1> HIDE DEF a, v, g
<1>7. SlotsNow' /\ OthersStay(s) /\ at'[s] = v
  BY <1>1, KeepsSlot
<1>8. QueueTypeOK'
  <2>1. at' \in [Sessions -> Stages]
    BY <1>7 DEF SlotsNow, SlotsAt
  <2> QED BY <1>1, <1>6, <2>1 DEF QueueTypeOK, Stages, Working
<1>9. OthersKeep(s) /\ OnceOK'
  BY <1>1, <1>5, <1>6, NothingMoves
<1>10. SessionOK(s)'
  <2>1. HandOK(v, buffer[s], g, queue[s], disposed)
    BY <1>1, <1>2, <1>4, <1>5 DEF HandOK, Working
  <2>2. InOrder(buffer[s], g, queue[s])
    BY <1>1, <1>2, <1>5, SessionTypes, OrderOfMessages
  <2>3. Within(v, g, queue[s])
    BY <1>1, <1>2, <1>5, WithinOfSender
  <2> QED BY <1>1, <1>6, <1>7, <2>1, <2>2, <2>3 DEF SessionOK
<1> QED BY <1>1, <1>7, <1>8, <1>9, <1>10, StepKeeps

\* The end of an iteration that leaves queue q, apart from what became of the
\* messages.
LEMMA CompleteFacts ==
  ASSUME QueueInv, NEW s \in Sessions, at[s] \in Working, NEW q \in Seq(Entries), Complete(s, q),
         fate' \in Seq(Fates), Len(fate') <= MaxMessages
  PROVE  /\ QueueTypeOK' /\ SlotsNow' /\ OthersStay(s) /\ OthersKeep(s) /\ disposed' = disposed
         /\ hand[s] \in Entries /\ buffer'[s] = buffer[s] /\ hand'[s] = NoEntry /\ queue'[s] = q
         /\ at'[s] \notin Working /\ (at'[s] # "none" => q # <<>>)
PROOF
<1> DEFINE x == hand[s].sender
           cleared == ~disposed /\ q = <<>>
           again == Fair /\ OfSender(q, x) # {} /\ x \notin Elements(rotation[s])
           r == IF cleared THEN <<>> ELSE IF again THEN Append(rotation[s], x) ELSE rotation[s]
           l == IF cleared THEN Nobody ELSE IF Fair THEN x ELSE last[s]
<1>1. /\ QueueTypeOK /\ SlotsNow /\ SessionOK(s) /\ at[s] \in Holding
      /\ queue' = [queue EXCEPT ![s] = q] /\ hand' = [hand EXCEPT ![s] = NoEntry]
      /\ current' = [current EXCEPT ![s] = Nobody] /\ ReleaseAndLoop(s, q)
      /\ buffer' = buffer /\ overtaken' = overtaken /\ disposed' = disposed
  BY DEF QueueInv, Complete, Holding, Working
<1>2. rotation' = [rotation EXCEPT ![s] = r] /\ last' = [last EXCEPT ![s] = l]
  BY DEF Complete
<1>3. hand[s] \in Entries /\ x \in Senders
  <2>1. hand[s] \in Entries
    BY <1>1 DEF SessionOK, HandOK
  <2> QED BY <2>1 DEF Entries
<1> HIDE DEF x, cleared, again
<1>4. r \in Seq(Senders) /\ l \in Senders \cup {Nobody}
  <2>1. rotation[s] \in Seq(Senders) /\ last[s] \in Senders \cup {Nobody}
    BY <1>1, SessionTypes
  <2> QED BY <1>3, <2>1
<1> HIDE DEF r, l
<1>5. /\ SlotsNow' /\ OthersStay(s)
      /\ at'[s] \in {"none", "slot", "parked"} /\ (at'[s] # "none" => ~disposed /\ q # <<>>)
  BY <1>1, ReleaseStep
<1>6. /\ queue' \in [Sessions -> Seq(Entries)] /\ queue'[s] = q /\ \A t \in Sessions \ {s} : queue'[t] = queue[t]
  <2>1. queue \in [Sessions -> Seq(Entries)]
    BY <1>1 DEF QueueTypeOK
  <2> QED BY <1>1, <2>1
<1>7. /\ hand' \in [Sessions -> Entries \cup {NoEntry}] /\ hand'[s] = NoEntry
      /\ \A t \in Sessions \ {s} : hand'[t] = hand[t]
  <2>1. hand \in [Sessions -> Entries \cup {NoEntry}]
    BY <1>1 DEF QueueTypeOK
  <2> QED BY <1>1, <2>1
<1>8. /\ rotation' \in [Sessions -> Seq(Senders)] /\ current' \in [Sessions -> Senders \cup {Nobody}]
      /\ last' \in [Sessions -> Senders \cup {Nobody}]
  <2>1. /\ rotation \in [Sessions -> Seq(Senders)] /\ current \in [Sessions -> Senders \cup {Nobody}]
        /\ last \in [Sessions -> Senders \cup {Nobody}]
    BY <1>1 DEF QueueTypeOK
  <2> QED BY <1>1, <1>2, <1>4, <2>1
<1>9. at' \in [Sessions -> Stages] /\ waiting' \in Seq(Sessions) /\ active' \in Nat
  BY <1>5 DEF SlotsNow, SlotsAt
<1>10. QueueTypeOK'
  BY <1>1, <1>6, <1>7, <1>8, <1>9 DEF QueueTypeOK, Stages, Working
<1>11. OthersKeep(s)
  BY <1>1, <1>6, <1>7 DEF OthersKeep
<1>12. at'[s] \notin Working
  BY <1>5 DEF Working
<1> QED BY <1>1, <1>3, <1>5, <1>6, <1>7, <1>10, <1>11, <1>12

\* The entry in hand is settled.
LEMMA FinishKeeps ==
  ASSUME QueueInv, NEW s \in Sessions, at[s] \in Working, NEW f \in Fates \ {"open"},
         Settle(hand[s].msgs, f), Complete(s, queue[s])
  PROVE  QueueInv'
PROOF
<1>1. /\ QueueTypeOK /\ OnceOK /\ SessionOK(s) /\ queue[s] \in Seq(Entries)
      /\ \A t \in Sessions : SessionOK(t)
  BY SessionTypes DEF QueueInv
<1>2. fate' \in Seq(Fates) /\ Len(fate') <= MaxMessages /\ Settles(Elements(hand[s].msgs), f)
  BY <1>1, Settling
<1>3. /\ QueueTypeOK' /\ SlotsNow' /\ OthersStay(s) /\ OthersKeep(s) /\ disposed' = disposed
      /\ hand[s] \in Entries /\ buffer'[s] = buffer[s] /\ hand'[s] = NoEntry /\ queue'[s] = queue[s]
      /\ at'[s] \notin Working /\ (at'[s] # "none" => queue[s] # <<>>)
  BY <1>1, <1>2, CompleteFacts
<1>4. SessionOK(s)'
  <2>1. /\ HandOK(at[s], buffer[s], hand[s], queue[s], disposed)
        /\ InOrder(buffer[s], hand[s], queue[s]) /\ Within(at[s], hand[s], queue[s])
    BY <1>1 DEF SessionOK
  <2>2. InOrder(buffer[s], NoEntry, queue[s])
    BY <1>1, <1>3, <2>1, EntryLeaves
  <2>3. Within(at'[s], NoEntry, queue[s])
    BY <1>1, <1>3, <2>1, WithinLeaves
  <2>4. HandOK(at'[s], buffer[s], NoEntry, queue[s], disposed)
    BY <1>3, <2>1 DEF HandOK
  <2> QED BY <1>3, <2>2, <2>3, <2>4 DEF SessionOK
<1>5. OnceOK'
  <2>1. Carries(buffer[s], hand[s], queue[s], buffer[s], NoEntry, queue[s], Elements(hand[s].msgs))
    BY <1>1, HasOnceNow, HandDropped
  <2>2. Carries(buffer[s], hand[s], queue[s], buffer'[s], hand'[s], queue'[s], Elements(hand[s].msgs))
    BY <1>3, <2>1
  <2>3. \A m \in Elements(hand[s].msgs) : m \in Messages /\ \E c \in Spots : In(s, m, c)
    <3>1. \A m \in Elements(hand[s].msgs) : m \in Messages
      BY <1>3 DEF Elements, Entries
    <3>2. 0 \in 0..Len(queue[s])
      BY <1>1
    <3>3. \A m : In(s, m, <<Nobody, 0>>) <=> m \in Elements(hand[s].msgs)
      BY <1>1, <3>2, QueueSpots DEF In, Held
    <3>4. <<Nobody, 0>> \in Spots
      BY <1>1, <3>2, QueueSpots
    <3> QED BY <3>1, <3>3, <3>4
  <2> QED BY <1>1, <1>2, <1>3, <2>2, <2>3, Carried
<1> QED BY <1>3, <1>4, <1>5, StepKeeps

\* The entry in hand returns to the front of the queue.
LEMMA RetryKeeps ==
  ASSUME QueueInv, NEW s \in Sessions, at[s] = "delaying", ~disposed,
         Complete(s, <<hand[s]>> \o queue[s]), fate' = fate
  PROVE  QueueInv'
PROOF
<1>1. /\ QueueTypeOK /\ OnceOK /\ SessionOK(s) /\ queue[s] \in Seq(Entries)
      /\ at[s] \in Working
  BY SessionTypes DEF QueueInv, Working
<1>2. /\ HandOK(at[s], buffer[s], hand[s], queue[s], disposed)
      /\ InOrder(buffer[s], hand[s], queue[s]) /\ Within(at[s], hand[s], queue[s])
  BY <1>1 DEF SessionOK
<1>3. hand[s] \in Entries /\ hand[s].attempt < MaxAttempts
  BY <1>1, <1>2 DEF HandOK, Working
<1>4. PICK w \in Seq(Entries) : w = <<hand[s]>> \o queue[s]
  BY <1>1, <1>3, Fronted
<1>5. fate' \in Seq(Fates) /\ Len(fate') <= MaxMessages
  BY <1>1 DEF QueueTypeOK
<1>6. /\ QueueTypeOK' /\ SlotsNow' /\ OthersStay(s) /\ OthersKeep(s) /\ disposed' = disposed
      /\ buffer'[s] = buffer[s] /\ hand'[s] = NoEntry /\ queue'[s] = w
      /\ at'[s] \notin Working /\ (at'[s] # "none" => w # <<>>)
  BY <1>1, <1>4, <1>5, CompleteFacts
<1>7. SessionOK(s)'
  <2>1. InOrder(buffer[s], NoEntry, w)
    BY <1>1, <1>2, <1>3, <1>4, EntryLeaves
  <2>2. Within(at'[s], NoEntry, w)
    BY <1>1, <1>2, <1>3, <1>4, <1>6, WithinLeaves
  <2>3. HandOK(at'[s], buffer[s], NoEntry, w, disposed)
    <3>1. Len(queue[s]) \in Nat /\ Len(w) = Len(queue[s]) + 1 /\ w[1] = hand[s]
          /\ \A j \in 1..Len(queue[s]) : w[j + 1] = queue[s][j]
      BY <1>1, <1>3, <1>4, Fronted
    <3>2. ASSUME NEW j \in 1..Len(w) PROVE w[j].attempt < MaxAttempts
      <4>1. CASE j = 1
        BY <1>3, <3>1, <4>1
      <4>2. CASE j # 1
        <5>1. j - 1 \in 1..Len(queue[s]) /\ j - 1 + 1 = j
          BY <3>1, <4>2
        <5>2. w[j] = queue[s][j - 1]
          BY <3>1, <5>1
        <5> QED BY <1>2, <5>1, <5>2 DEF HandOK
      <4> QED BY <4>1, <4>2
    <3> QED BY <1>6, <3>2 DEF HandOK
  <2> QED BY <1>6, <2>1, <2>2, <2>3 DEF SessionOK
<1>8. OnceOK'
  <2>1. Carries(buffer[s], hand[s], queue[s], buffer[s], NoEntry, <<hand[s]>> \o queue[s], {})
    BY <1>1, <1>3, ReturnedCarries
  <2>2. Carries(buffer[s], hand[s], queue[s], buffer'[s], hand'[s], queue'[s], {})
    BY <1>4, <1>6, <2>1
  <2> QED BY <1>1, <1>6, <2>2, Kept
<1> QED BY <1>6, <1>7, <1>8, StepKeeps

LEMMA DisposeKeeps ==
  ASSUME QueueInv, Dispose
  PROVE  QueueInv'
PROOF
<1> DEFINE held == UNION {Elements(hand[s].msgs) : s \in Sessions}
<1>1. /\ QueueTypeOK /\ SlotsNow /\ OnceOK /\ \A s \in Sessions : SessionOK(s)
      /\ disposed' = TRUE
      /\ fate' = [m \in 1..Len(fate) |-> IF fate[m] = "open" /\ m \notin held THEN "dropped" ELSE fate[m]]
      /\ buffer' = [s \in Sessions |-> [x \in Senders |-> <<>>]]
      /\ queue' = [s \in Sessions |-> <<>>]
      /\ at' = [s \in Sessions |-> IF at[s] = "parked" THEN "none" ELSE at[s]]
      /\ waiting' = <<>> /\ rotation' = [s \in Sessions |-> <<>>]
      /\ current' = [s \in Sessions |-> Nobody] /\ last' = [s \in Sessions |-> Nobody]
      /\ hand' = hand /\ active' = active /\ overtaken' = overtaken
  BY DEF QueueInv, Dispose
<1>2. SlotsNow'
  BY <1>1, NobodyWaits
<1> DEFINE n == Len(fate)
<1>3. n \in Nat /\ 1..n \subseteq Messages /\ \A m \in 1..n : fate[m] \in Fates
  BY <1>1, FateIs
<1> HIDE DEF held
<1>4. fate' \in Seq(Fates) /\ Len(fate') = n
      /\ \A m \in 1..n : fate'[m] = IF fate[m] = "open" /\ m \notin held THEN "dropped" ELSE fate[m]
  <2>1. fate' = [m \in 1..n |-> IF fate[m] = "open" /\ m \notin held THEN "dropped" ELSE fate[m]]
    BY <1>1
  <2>2. "dropped" \in Fates
    BY DEF Fates
  <2> HIDE DEF n
  <2>3. fate' \in [1..n -> Fates]
    BY <1>3, <2>1, <2>2
  <2>4. fate' \in Seq(Fates) /\ Len(fate') = n
    BY ONLY <1>3, <2>3
  <2> QED BY <2>1, <2>4
<1>5. QueueTypeOK'
  <2>1. at' \in [Sessions -> Stages]
    BY <1>2 DEF SlotsNow, SlotsAt
  <2>2. n <= MaxMessages
    BY <1>1 DEF QueueTypeOK
  <2>3. <<>> \in Seq(Messages) /\ <<>> \in Seq(Entries) /\ <<>> \in Seq(Senders) /\ <<>> \in Seq(Sessions)
    OBVIOUS
  <2> HIDE DEF n
  <2>4. /\ fate' \in Seq(Fates) /\ Len(fate') <= MaxMessages
        /\ buffer' \in [Sessions -> [Senders -> Seq(Messages)]] /\ queue' \in [Sessions -> Seq(Entries)]
        /\ rotation' \in [Sessions -> Seq(Senders)]
    BY <1>1, <1>4, <2>2, <2>3
  <2> QED BY <1>1, <2>1, <2>3, <2>4 DEF QueueTypeOK, Stages, Working
<1>6. ASSUME NEW s \in Sessions PROVE SessionOK(s)'
  <2>1. /\ HandOK(at[s], buffer[s], hand[s], queue[s], disposed)
        /\ InOrder(buffer[s], hand[s], queue[s]) /\ queue[s] \in Seq(Entries) /\ hand[s] \in Entries \cup {NoEntry}
    BY <1>1, SessionTypes DEF SessionOK
  <2>2. /\ buffer'[s] = [x \in Senders |-> <<>>] /\ queue'[s] = <<>> /\ hand'[s] = hand[s]
        /\ at'[s] = IF at[s] = "parked" THEN "none" ELSE at[s]
    BY <1>1
  <2>3. HandOK(at'[s], buffer'[s], hand[s], <<>>, TRUE)
    BY <2>1, <2>2 DEF HandOK, Working
  <2>4. InOrder(buffer'[s], hand[s], <<>>)
    <3>1. hand[s].msgs # <<>> => hand[s].sender \in Senders
      <4>1. CASE hand[s] = NoEntry
        BY <4>1 DEF NoEntry
      <4>2. CASE hand[s] \in Entries
        BY <4>2 DEF Entries
      <4> QED BY <2>1, <4>1, <4>2
    <3>2. Len(queue[s]) \in Nat /\ \A x \in Senders : buffer'[s][x] = <<>>
      BY <2>1, <2>2
    <3> QED BY <2>1, <3>1, <3>2, OrderOfOne
  <2>5. Within(at'[s], hand[s], <<>>)
    BY WithinEmpty
  <2> QED BY <1>1, <2>2, <2>3, <2>4, <2>5 DEF SessionOK
\* What is in hand stays there, and nothing else is left.
<1>7. ASSUME NEW s \in Sessions, NEW c \in Spots, NEW m \in Messages
      PROVE  In(s, m, c)' <=> c[1] = Nobody /\ c[2] = 0 /\ In(s, m, c)
  <2>1. /\ buffer'[s] = [x \in Senders |-> <<>>] /\ queue'[s] = <<>> /\ hand'[s] = hand[s]
        /\ Len(<<>>) = 0 /\ Elements(<<>>) = {} /\ Len(queue[s]) \in Nat
    BY <1>1, SessionTypes DEF Elements
  <2>2. CASE c[1] # Nobody
    <3>1. c[1] \in Senders
      BY <2>2, SpotIs
    <3>2. ~Has(buffer'[s], hand'[s], queue'[s], m, c)
      BY <2>1, <2>2, <3>1 DEF Has
    <3> QED BY <2>2, <3>2 DEF In
  <2>3. CASE c[1] = Nobody /\ c[2] # 0
    <3>1. ~Has(buffer'[s], hand'[s], queue'[s], m, c)
      BY <2>1, <2>3 DEF Has
    <3> QED BY <2>3, <3>1 DEF In
  <2>4. CASE c[1] = Nobody /\ c[2] = 0
    <3>1. Has(buffer'[s], hand'[s], queue'[s], m, c) <=> m \in Elements(hand[s].msgs)
      BY <2>1, <2>4 DEF Has, Entry
    <3>2. Has(buffer[s], hand[s], queue[s], m, c) <=> m \in Elements(hand[s].msgs)
      BY <2>1, <2>4 DEF Has, Entry
    <3> QED BY <2>4, <3>1, <3>2 DEF In
  <2> QED BY <2>2, <2>3, <2>4
<1>8. ASSUME NEW s \in Sessions, NEW c \in Spots, NEW m \in Messages, In(s, m, c)'
      PROVE  m \in held /\ m \in 1..n /\ fate[m] = "open"
  <2>1. In(s, m, c) /\ c[1] = Nobody /\ c[2] = 0
    BY <1>7, <1>8
  <2>2. m \in Elements(hand[s].msgs)
    BY <2>1 DEF In, Has, Entry
  <2>3. m \in held
    BY <2>2 DEF held
  <2> QED BY <2>1, <2>3, Arrived
<1>9. OnceOK'
  <2>1. ASSUME NEW s \in Sessions, NEW c \in Spots, NEW m \in Messages, In(s, m, c)' PROVE Open(m)'
    <3>1. m \in held /\ m \in 1..n /\ fate[m] = "open"
      BY <1>8, <2>1
    <3>2. m <= Len(fate') /\ fate'[m] = "open"
      BY <1>3, <1>4, <3>1
    <3> QED BY <3>2 DEF Open
  <2>2. ASSUME NEW m \in 1..Len(fate'), fate'[m] = "open" PROVE \E s \in Sessions : \E c \in Spots : In(s, m, c)'
    <3>1. m \in 1..n /\ m \in held /\ m \in Messages
      BY <1>3, <1>4, <2>2
    <3>2. PICK s \in Sessions : m \in Elements(hand[s].msgs)
      BY <3>1 DEF held
    <3> DEFINE z == <<Nobody, 0>>
    <3>3. z \in Spots /\ z[1] = Nobody /\ z[2] = 0
      BY DEF Spots
    <3>4. In(s, m, z)
      <4>1. Len(queue[s]) \in Nat
        BY <1>1, SessionTypes
      <4> HIDE DEF z
      <4> QED BY <3>2, <3>3, <4>1 DEF In, Has, Entry
    <3> HIDE DEF z
    <3> QED BY <1>7, <3>1, <3>3, <3>4
  <2>3. ASSUME NEW s \in Sessions, NEW t \in Sessions, NEW c \in Spots, NEW d \in Spots, NEW m \in Messages,
               In(s, m, c)', In(t, m, d)'
        PROVE  s = t /\ c = d
    <3>1. In(s, m, c) /\ In(t, m, d)
      BY <1>7, <2>3
    <3> QED BY <1>1, <3>1 DEF OnceOK
  <2> QED BY <2>1, <2>2, <2>3 DEF OnceOK
<1> QED BY <1>2, <1>5, <1>6, <1>9 DEF QueueInv

LEMMA QueueStarts ==
  ASSUME QueueInit
  PROVE  QueueInv
PROOF
<1>1. /\ fate = <<>> /\ active = 0 /\ waiting = <<>> /\ disposed = FALSE
      /\ buffer = [s \in Sessions |-> [x \in Senders |-> <<>>]]
      /\ queue = [s \in Sessions |-> <<>>] /\ at = [s \in Sessions |-> "none"]
      /\ hand = [s \in Sessions |-> NoEntry] /\ rotation = [s \in Sessions |-> <<>>]
      /\ current = [s \in Sessions |-> Nobody] /\ last = [s \in Sessions |-> Nobody]
      /\ overtaken = [s \in Sessions |-> {}]
  BY DEF QueueInit
<1>2. QueueTypeOK
  <2>1. /\ <<>> \in Seq(Messages) /\ <<>> \in Seq(Entries) /\ <<>> \in Seq(Senders) /\ <<>> \in Seq(Sessions)
        /\ <<>> \in Seq(Fates) /\ Len(<<>>) = 0 /\ 0 <= MaxMessages
    BY QueueAssumption
  <2> QED BY <1>1, <2>1 DEF QueueTypeOK
<1>3. SlotsNow
  <2>1. HoldingIn(at) = {}
    BY <1>1 DEF HoldingIn, Where, Holding
  <2>2. Cardinality(HoldingIn(at)) = 0
    BY <2>1, FS_EmptySet
  <2>3. at \in [Sessions -> Stages]
    BY <1>1 DEF Stages
  <2> QED BY <1>1, <2>2, <2>3 DEF SlotsNow, SlotsAt
<1>4. ASSUME NEW s \in Sessions, NEW c \in Spots, NEW m PROVE ~In(s, m, c)
  <2>1. /\ buffer[s] = [x \in Senders |-> <<>>] /\ queue[s] = <<>> /\ hand[s] = NoEntry
        /\ Len(<<>>) = 0 /\ Elements(<<>>) = {} /\ NoEntry.msgs = <<>>
    BY <1>1 DEF Elements, NoEntry
  <2>2. CASE c[1] # Nobody
    <3>1. c[1] \in Senders
      BY <2>2, SpotIs
    <3> QED BY <2>1, <2>2, <3>1 DEF In, Has
  <2>3. CASE c[1] = Nobody
    BY <2>1, <2>3 DEF In, Has, Entry
  <2> QED BY <2>2, <2>3
<1>5. OnceOK
  BY <1>1, <1>4 DEF OnceOK
<1>6. ASSUME NEW s \in Sessions PROVE SessionOK(s)
  <2>1. /\ buffer[s] = [x \in Senders |-> <<>>] /\ queue[s] = <<>> /\ hand[s] = NoEntry /\ at[s] = "none"
    BY <1>1
  <2>2. HandOK("none", buffer[s], NoEntry, <<>>, FALSE)
    BY DEF HandOK, Working
  <2>3. InOrder(buffer[s], NoEntry, <<>>)
    <3>1. \A x \in Senders : Ascending(buffer[s][x])
      BY <2>1, NothingPrecedes
    <3>2. EntryOK(buffer[s], NoEntry, <<>>, 0)
      BY NothingPrecedes DEF EntryOK, Entry, NoEntry
    <3>3. \A i \in 0..Len(<<>>) : i = 0
      OBVIOUS
    <3>4. \A i \in 0..Len(<<>>) : EntryOK(buffer[s], NoEntry, <<>>, i)
      BY <3>2, <3>3
    <3> QED BY <3>1, <3>4, InOrderIs
  <2>4. Within("none", NoEntry, <<>>)
    BY WithinEmpty
  <2> QED BY <1>1, <2>1, <2>2, <2>3, <2>4 DEF SessionOK
<1> QED BY <1>2, <1>3, <1>5, <1>6 DEF QueueInv

LEMMA ProcessKeeps ==
  ASSUME QueueInv, NEW s \in Sessions, Process(s)
  PROVE  QueueInv'
PROOF
<1>1. \A f \in {"answered", "dropped", "dead", "refused"} : f \in Fates \ {"open"}
  BY DEF Fates
<1>2. CASE Resume(s)
  BY <1>2, ResumeKeeps
<1>3. CASE Begin(s)
  BY <1>3, BeginKeeps
<1>4. CASE Dispatch(s)
  BY <1>4, StaysKeeps DEF Dispatch, Working
<1>5. CASE TurnAnswers(s)
  <2>1. at[s] = "dispatching" /\ at[s] \in Working
    BY <1>5 DEF TurnAnswers, Working
  <2>2. CASE Settle(hand[s].msgs, "answered") /\ Complete(s, queue[s])
    BY <1>1, <2>1, <2>2, FinishKeeps
  <2>3. CASE /\ at' = [at EXCEPT ![s] = "sending"]
             /\ UNCHANGED <<fate, buffer, queue, hand, active, waiting, fairVars, disposed>>
    BY <2>1, <2>3, StaysKeeps DEF Working
  <2> QED BY <1>5, <2>2, <2>3 DEF TurnAnswers
<1>6. CASE TurnFails(s)
  BY <1>6, FailKeeps DEF TurnFails
<1>7. CASE TurnOverBudget(s)
  BY <1>7, StaysKeeps DEF TurnOverBudget, Working
<1>8. CASE SendDone(s)
  BY <1>1, <1>8, FinishKeeps DEF SendDone, Working
<1>9. CASE SendFails(s)
  BY <1>9, FailKeeps DEF SendFails
<1>10. CASE DelayOver(s)
  <2>1. at[s] = "delaying" /\ at[s] \in Working
    BY <1>10 DEF DelayOver, Working
  <2>2. CASE disposed
    BY <1>1, <1>10, <2>1, <2>2, FinishKeeps DEF DelayOver
  <2>3. CASE ~disposed
    BY <1>10, <2>1, <2>3, RetryKeeps DEF DelayOver
  <2> QED BY <2>2, <2>3
<1>11. CASE NotifyDone(s)
  <2>1. at[s] \in Working /\ Complete(s, queue[s])
        /\ Settle(hand[s].msgs, IF hand[s].attempt = MaxAttempts THEN "dead" ELSE "refused")
    BY <1>11 DEF NotifyDone, Working
  <2>2. CASE hand[s].attempt = MaxAttempts
    BY <1>1, <2>1, <2>2, FinishKeeps
  <2>3. CASE hand[s].attempt # MaxAttempts
    BY <1>1, <2>1, <2>3, FinishKeeps
  <2> QED BY <2>2, <2>3
<1> QED BY <1>2, <1>3, <1>4, <1>5, <1>6, <1>7, <1>8, <1>9, <1>10, <1>11 DEF Process

\* The invariant of the queue is inductive
THEOREM QueueInvariant == QueueSpec => []QueueInv
PROOF
<1>1. QueueInit => QueueInv
  BY QueueStarts
<1>2. QueueInv /\ [QueueNext]_queueVars => QueueInv'
  <2> SUFFICES ASSUME QueueInv, [QueueNext]_queueVars PROVE QueueInv'
    OBVIOUS
  <2>1. ASSUME NEW s \in Sessions, NEW x \in Senders, Enqueue(s, x) PROVE QueueInv'
    BY <2>1, EnqueueKeeps
  <2>2. ASSUME NEW s \in Sessions, NEW x \in Senders, Flush(s, x) PROVE QueueInv'
    BY <2>2, FlushKeeps
  <2>3. ASSUME NEW s \in Sessions, Process(s) PROVE QueueInv'
    BY <2>3, ProcessKeeps
  <2>4. CASE Dispose
    BY <2>4, DisposeKeeps
  <2>5. CASE UNCHANGED queueVars
    BY <2>5 DEF queueVars, fairVars, QueueInv, QueueTypeOK, SlotsNow, OnceOK, In, Open, SessionOK
  <2> QED BY <2>1, <2>2, <2>3, <2>4, <2>5 DEF QueueNext
<1> QED BY <1>1, <1>2, PTL DEF QueueSpec

-----------------------------------------------------------------------------
(* What the invariant says of a message, a slot and a limit.                *)

\* The invariant gives the limits of the queues.
LEMMA BoundedByInv == QueueInv => QueueBounded
PROOF
<1> SUFFICES ASSUME QueueInv, NEW s \in Sessions
             PROVE  /\ Len(queue[s]) <= MaxQueueDepth + 1
                    /\ \A x \in Senders \ Admins :
                         MaxQueued > 0 => Cardinality(OfSender(queue[s], x)) <= MaxQueued + 1
  BY DEF QueueBounded
<1>1. Within(at[s], hand[s], queue[s]) /\ queue[s] \in Seq(Entries)
  BY SessionTypes DEF QueueInv, SessionOK
<1>2. Len(queue[s]) <= MaxQueueDepth + 1
  <2>1. Len(queue[s]) \in Nat /\ Len(queue[s]) <= IF at[s] \in Working THEN MaxQueueDepth ELSE MaxQueueDepth + 1
    BY <1>1 DEF Within
  <2> QED BY <2>1, LimitsAreNumbers
<1>3. ASSUME NEW x \in Senders \ Admins, MaxQueued > 0
      PROVE  Cardinality(OfSender(queue[s], x)) <= MaxQueued + 1
  <2> DEFINE n == Cardinality(OfSender(queue[s], x))
  <2>1. n \in Nat /\ n <= IF hand[s].sender = x THEN MaxQueued ELSE MaxQueued + 1
    BY <1>1, <1>3, OfSenderFinite DEF Within
  <2> HIDE DEF n
  <2>2. n <= MaxQueued + 1
    BY <2>1, LimitsAreNumbers
  <2> QED BY <2>2 DEF n
<1> QED BY <1>2, <1>3

\* The places of a message, as the property counts them, are its spots.
LEMMA PlacesAre ==
  ASSUME QueueInv, NEW m \in Messages
  PROVE  \A p : p \in Places(m) <=> \E s \in Sessions : \E c \in Spots : p = <<s, c[1], c[2]>> /\ In(s, m, c)
PROOF
<1> SUFFICES ASSUME NEW p PROVE p \in Places(m) <=> \E s \in Sessions : \E c \in Spots : p = <<s, c[1], c[2]>> /\ In(s, m, c)
  OBVIOUS
<1> DEFINE At(s) == {<<s, x, 0>> : x \in {y \in Senders : m \in Elements(buffer[s][y])}}
                    \cup {<<s, Nobody, i>> : i \in {j \in 1..Len(queue[s]) : m \in Elements(queue[s][j].msgs)}}
                    \cup {<<s, Nobody, 0>> : i \in {j \in {0} : m \in Elements(hand[s].msgs)}}
<1>1. Places(m) = UNION {At(s) : s \in Sessions}
  BY DEF Places
<1>2. ASSUME NEW s \in Sessions PROVE p \in At(s) <=> \E c \in Spots : p = <<s, c[1], c[2]>> /\ In(s, m, c)
  <2>1. queue[s] \in Seq(Entries) /\ Len(queue[s]) \in Nat
    BY SessionTypes DEF QueueInv
  <2>2. p \in At(s) <=> \/ \E x \in Senders : p = <<s, x, 0>> /\ m \in Elements(buffer[s][x])
                        \/ \E i \in 1..Len(queue[s]) : p = <<s, Nobody, i>> /\ m \in Elements(queue[s][i].msgs)
                        \/ p = <<s, Nobody, 0>> /\ m \in Elements(hand[s].msgs)
    OBVIOUS
  <2> HIDE DEF At
  <2>3. ASSUME NEW x \in Senders, p = <<s, x, 0>>, m \in Elements(buffer[s][x])
        PROVE  \E c \in Spots : p = <<s, c[1], c[2]>> /\ In(s, m, c)
    <3>1. <<x, 0>> \in Spots /\ In(s, m, <<x, 0>>)
      BY <2>3, WindowSpots DEF In
    <3> QED BY <2>3, <3>1
  <2>4. ASSUME NEW i \in 0..Len(queue[s]), p = <<s, Nobody, i>>, m \in Held(hand[s], queue[s], i)
        PROVE  \E c \in Spots : p = <<s, c[1], c[2]>> /\ In(s, m, c)
    <3>1. <<Nobody, i>> \in Spots /\ In(s, m, <<Nobody, i>>)
      BY <2>1, <2>4, QueueSpots DEF In
    <3> QED BY <2>4, <3>1
  <2>5. /\ 0 \in 0..Len(queue[s]) /\ Held(hand[s], queue[s], 0) = Elements(hand[s].msgs)
        /\ \A i \in 1..Len(queue[s]) : i \in 0..Len(queue[s]) /\ Held(hand[s], queue[s], i) = Elements(queue[s][i].msgs)
    BY <2>1 DEF Held
  <2>6. ASSUME NEW c \in Spots, p = <<s, c[1], c[2]>>, In(s, m, c) PROVE p \in At(s)
    <3>1. ASSUME NEW x \in Senders, c = <<x, 0>> PROVE p \in At(s)
      <4>1. m \in Elements(buffer[s][x])
        BY <2>6, <3>1, WindowSpots DEF In
      <4> QED BY <2>2, <2>6, <3>1, <4>1
    <3>2. ASSUME NEW k \in 0..Len(queue[s]), c = <<Nobody, k>> PROVE p \in At(s)
      <4>1. m \in Held(hand[s], queue[s], k) /\ p = <<s, Nobody, k>>
        BY <2>1, <2>6, <3>2, QueueSpots DEF In
      <4>2. k = 0 \/ k \in 1..Len(queue[s])
        BY <2>1
      <4> QED BY <2>2, <2>5, <4>1, <4>2
    <3>3. (\E x \in Senders : c = <<x, 0>>) \/ (\E k \in 0..Len(queue[s]) : c = <<Nobody, k>>)
      BY <2>1, <2>6, SpotCases DEF In
    <3> QED BY <3>1, <3>2, <3>3
  <2> QED BY <2>2, <2>3, <2>4, <2>5, <2>6
<1> HIDE DEF At
<1> QED BY <1>1, <1>2

\* The invariant gives each message its one place.
LEMMA OnceByInv == QueueInv => EveryMessageOnce
PROOF
<1> SUFFICES ASSUME QueueInv, NEW m \in 1..Len(fate)
             PROVE  Cardinality(Places(m)) = IF fate[m] = "open" THEN 1 ELSE 0
  BY DEF EveryMessageOnce
<1>1. OnceOK /\ m \in Messages
  BY FateIs DEF QueueInv
<1>2. CASE fate[m] = "open"
  <2>1. PICK s \in Sessions, c \in Spots : In(s, m, c)
    BY <1>1, <1>2 DEF OnceOK
  <2> DEFINE p == <<s, c[1], c[2]>>
  <2>2. p \in Places(m)
    BY <1>1, <2>1, PlacesAre
  <2>3. ASSUME NEW r \in Places(m) PROVE r = p
    <3>1. PICK t \in Sessions, d \in Spots : r = <<t, d[1], d[2]>> /\ In(t, m, d)
      BY <1>1, <2>3, PlacesAre
    <3>2. s = t /\ c = d
      BY <1>1, <2>1, <3>1 DEF OnceOK
    <3> QED BY <3>1, <3>2
  <2> HIDE DEF p
  <2>4. Places(m) = {p}
    BY <2>2, <2>3
  <2> QED BY <1>2, <2>4, FS_Singleton
<1>3. CASE fate[m] # "open"
  <2>1. ASSUME NEW r \in Places(m) PROVE FALSE
    <3>1. PICK t \in Sessions, d \in Spots : r = <<t, d[1], d[2]>> /\ In(t, m, d)
      BY <1>1, <2>1, PlacesAre
    <3> QED BY <1>1, <1>3, <3>1, Arrived
  <2>2. Places(m) = {}
    BY <2>1
  <2> QED BY <1>3, <2>2, FS_EmptySet
<1> QED BY <1>2, <1>3

\* Each sender's messages keep their order through windows, retries and the
\* rotation of senders, and the limits hold up to one retried entry
THEOREM QueueKeepsOrder == QueueSpec => []OrderKept
PROOF
<1>1. QueueInv => OrderKept
  BY BoundedByInv DEF OrderKept, QueueInv, SenderOrderKept, SessionOK
<1> QED BY <1>1, QueueInvariant, PTL

\* No message, slot or wake-up is lost or duplicated
THEOREM QueueLosesNothing == QueueSpec => []MessagesOnce
PROOF
<1>1. QueueInv => SlotsCounted /\ NoWakeupLost
  <2>1. SessionsAt(Holding) = HoldingIn(at) /\ SessionsAt({"woken"}) = WokenIn(at)
    BY DEF SessionsAt, HoldingIn, WokenIn, Where
  <2> QED BY <2>1 DEF QueueInv, SlotsNow, SlotsAt, SlotsCounted, NoWakeupLost
<1>2. QueueInv => MessagesOnce
  BY <1>1, OnceByInv DEF MessagesOnce
<1> QED BY <1>2, QueueInvariant, PTL

-----------------------------------------------------------------------------
(* The rotation of senders.                                                *)

Once(r) == \A i, j \in 1..Len(r) : r[i] = r[j] => i = j
Ahead(r, x, y) == \E i \in 1..Len(r) : r[i] = x /\ \A j \in 1..Len(r) : r[j] = y => i < j

\* Rotation r of a session with queue q, where sender c is being served or,
\* when nobody is, l was served last: everyone with an entry has one turn to
\* come, c perhaps none yet; and whoever has been overtaken still waits, is not
\* the one served, and comes before the one that overtook it.
TurnsOK(q, r, c, l, o) ==
  /\ Once(r)
  /\ \A i \in 1..Len(q) : q[i].sender \in Elements(r) \cup {c}
  /\ \A p \in o : /\ OfSender(q, p[1]) # {} /\ Ahead(r, p[1], p[2])
                  /\ p[1] # p[2] /\ p[1] # IF c = Nobody THEN l ELSE c

\* The session's rotation is in order, until disposal empties the queue.
RotationOK(s) ==
  ~disposed => /\ current[s] = hand[s].sender
               /\ TurnsOK(queue[s], rotation[s], current[s], last[s], overtaken[s])
RotationsOK == Fair => \A s \in Sessions : RotationOK(s)

\* A sender joins at the end.
LEMMA RotationGrows ==
  ASSUME NEW r \in Seq(Senders), Once(r), NEW z \in Senders, z \notin Elements(r)
  PROVE  /\ Append(r, z) \in Seq(Senders) /\ Once(Append(r, z))
         /\ \A x, y : Ahead(r, x, y) => Ahead(Append(r, z), x, y)
PROOF
<1> DEFINE w == Append(r, z)
<1>1. w \in Seq(Senders) /\ Len(w) = Len(r) + 1 /\ w[Len(r) + 1] = z /\ \A j \in 1..Len(r) : w[j] = r[j]
  BY Appended
<1>2. Len(r) \in Nat /\ \A j \in 1..Len(r) : r[j] # z
  BY DEF Elements
<1> HIDE DEF w
<1>3. Once(w)
  <2>1. ASSUME NEW i \in 1..Len(w), NEW j \in 1..Len(w), w[i] = w[j] PROVE i = j
    <3>1. (i \in 1..Len(r) \/ i = Len(r) + 1) /\ (j \in 1..Len(r) \/ j = Len(r) + 1)
      BY <1>1, <1>2
    <3>2. i \in 1..Len(r) <=> j \in 1..Len(r)
      BY <1>1, <1>2, <2>1, <3>1
    <3>3. CASE i \in 1..Len(r)
      BY <1>1, <2>1, <3>2, <3>3 DEF Once
    <3> QED BY <3>1, <3>2, <3>3
  <2> QED BY <2>1 DEF Once
<1>4. ASSUME NEW x, NEW y, Ahead(r, x, y) PROVE Ahead(w, x, y)
  <2>1. PICK i \in 1..Len(r) : r[i] = x /\ \A j \in 1..Len(r) : r[j] = y => i < j
    BY <1>4 DEF Ahead
  <2>2. i \in 1..Len(w) /\ w[i] = x
    BY <1>1, <1>2, <2>1
  <2>3. ASSUME NEW j \in 1..Len(w), w[j] = y PROVE i < j
    <3>1. j \in 1..Len(r) \/ j = Len(r) + 1
      BY <1>1, <1>2
    <3>2. CASE j \in 1..Len(r)
      BY <1>1, <2>1, <2>3, <3>2
    <3>3. CASE j = Len(r) + 1
      BY <1>2, <3>3
    <3> QED BY <3>1, <3>2, <3>3
  <2> QED BY <2>2, <2>3 DEF Ahead
<1> QED BY <1>1, <1>3, <1>4 DEF w

\* The sender served last goes behind the others; whoever it overtook was
\* before it already.
LEMMA RotationTurns ==
  ASSUME NEW r \in Seq(Senders), r # <<>>, Once(r), NEW l, NEW w, w = Turned(r, l)
  PROVE  /\ w \in Seq(Senders) /\ Once(w) /\ Elements(r) \subseteq Elements(w)
         /\ \A x, y : Ahead(r, x, y) /\ x # l => Ahead(w, x, y)
PROOF
<1>0. Len(r) \in Nat \ {0}
  OBVIOUS
<1>1. CASE w = r
  BY <1>1
<1>2. CASE w # r
  <2> DEFINE n == Len(r)
  <2>1. w = Append(Tail(r), l) /\ r[1] = l /\ l \in Senders /\ n > 1
    BY <1>0, <1>2 DEF Turned
  <2>2. Tail(r) \in Seq(Senders) /\ Len(Tail(r)) = n - 1 /\ \A j \in 1..n - 1 : Tail(r)[j] = r[j + 1]
    BY <1>0
  <2>3. w \in Seq(Senders) /\ Len(w) = n /\ w[n] = r[1] /\ \A j \in 1..n - 1 : w[j] = r[j + 1]
    <3>1. w \in Seq(Senders) /\ Len(w) = n - 1 + 1 /\ w[n - 1 + 1] = l /\ \A j \in 1..n - 1 : w[j] = Tail(r)[j]
      BY <2>1, <2>2, Appended
    <3>2. n - 1 + 1 = n
      BY <1>0
    <3> QED BY <2>1, <2>2, <3>1, <3>2
  \* The place of w's sender j in r.
  <2> DEFINE was(j) == IF j = n THEN 1 ELSE j + 1
  <2>4. ASSUME NEW j \in 1..n PROVE was(j) \in 1..n /\ w[j] = r[was(j)]
    <3>1. CASE j = n
      BY <1>0, <2>3, <3>1
    <3>2. CASE j # n
      <4>1. j \in 1..n - 1 /\ was(j) = j + 1 /\ j + 1 \in 1..n
        BY ONLY <1>0, <3>2
      <4> QED BY <2>3, <4>1
    <3> QED BY <3>1, <3>2
  <2>5. Once(w)
    <3>1. ASSUME NEW i \in 1..n, NEW j \in 1..n, w[i] = w[j] PROVE i = j
      <4>1. was(i) = was(j)
        BY <2>4, <3>1 DEF Once
      <4> QED BY <4>1, <1>0
    <3> QED BY <2>3, <3>1 DEF Once
  <2>6. ASSUME NEW i \in 1..n PROVE \E j \in 1..n : was(j) = i /\ (i > 1 => j = i - 1)
    <3>1. CASE i = 1
      BY <1>0, <3>1
    <3>2. CASE i > 1
      <4>1. i - 1 \in 1..n /\ was(i - 1) = i
        BY <1>0, <3>2
      <4> QED BY <4>1
    <3> QED BY <3>1, <3>2
  <2>7. Elements(r) \subseteq Elements(w)
    <3>1. ASSUME NEW i \in 1..n PROVE r[i] \in Elements(w)
      <4>1. PICK j \in 1..n : was(j) = i
        BY <2>6
      <4> QED BY <2>3, <2>4, <4>1 DEF Elements
    <3> QED BY <3>1 DEF Elements
  <2>8. ASSUME NEW x, NEW y, Ahead(r, x, y), x # l PROVE Ahead(w, x, y)
    <3>1. PICK i \in 1..n : r[i] = x /\ \A j \in 1..n : r[j] = y => i < j
      BY <2>8 DEF Ahead
    <3>2. i > 1
      BY <2>1, <2>8, <3>1
    <3>3. i - 1 \in 1..n /\ w[i - 1] = x
      BY <1>0, <2>3, <3>1, <3>2
    <3>4. ASSUME NEW j \in 1..n, w[j] = y PROVE i - 1 < j
      <4>1. i < was(j)
        BY <2>4, <3>1, <3>4
      <4> QED BY <1>0, <4>1
    <3> QED BY <2>3, <3>3, <3>4 DEF Ahead
  <2> QED BY <2>3, <2>5, <2>7, <2>8
<1> QED BY <1>1, <1>2

\* Sequence w holds the senders of r after position k, in their order.
After(r, k, w) ==
  /\ w \in Seq(Senders) /\ Once(w) /\ r[k] \notin Elements(w)
  /\ \A i \in (k + 1)..Len(r) : r[i] \in Elements(w)
  /\ \A x, y : Ahead(r, x, y) /\ x \in Elements(w) => Ahead(w, x, y)

LEMMA RotationRest ==
  ASSUME NEW r \in Seq(Senders), Once(r), NEW k \in 1..Len(r), NEW w, w = SubSeq(r, k + 1, Len(r))
  PROVE  After(r, k, w)
PROOF
<1> DEFINE n == Len(r) - k
<1>1. Len(r) \in Nat /\ k \in Nat /\ k <= Len(r) /\ n \in Nat
  OBVIOUS
<1>2. w \in Seq(Senders) /\ Len(w) = n /\ \A j \in 1..n : w[j] = r[k + j]
  BY <1>1
<1>3. Once(w)
  <2>1. ASSUME NEW i \in 1..n, NEW j \in 1..n, w[i] = w[j] PROVE i = j
    <3>1. k + i \in 1..Len(r) /\ k + j \in 1..Len(r) /\ r[k + i] = r[k + j]
      BY <1>1, <1>2, <2>1
    <3>2. k + i = k + j
      BY <3>1 DEF Once
    <3> QED BY <1>1, <3>2
  <2> QED BY <1>2, <2>1 DEF Once
<1>4. r[k] \notin Elements(w)
  <2>1. ASSUME NEW j \in 1..n PROVE w[j] # r[k]
    <3>1. k + j \in 1..Len(r) /\ k + j # k /\ w[j] = r[k + j]
      BY <1>1, <1>2
    <3> QED BY <3>1 DEF Once
  <2> QED BY <1>2, <2>1 DEF Elements
<1>5. ASSUME NEW i \in (k + 1)..Len(r) PROVE i - k \in 1..n /\ w[i - k] = r[i]
  <2>1. i - k \in 1..n /\ k + (i - k) = i
    BY <1>1
  <2> QED BY <1>2, <2>1
<1>6. ASSUME NEW i \in (k + 1)..Len(r) PROVE r[i] \in Elements(w)
  BY <1>2, <1>5 DEF Elements
<1>7. ASSUME NEW x, NEW y, Ahead(r, x, y), x \in Elements(w) PROVE Ahead(w, x, y)
  <2>1. PICK i \in 1..Len(r) : r[i] = x /\ \A j \in 1..Len(r) : r[j] = y => i < j
    BY <1>7 DEF Ahead
  <2>2. PICK j \in 1..n : w[j] = x
    BY <1>2, <1>7 DEF Elements
  <2>3. k + j \in 1..Len(r) /\ r[k + j] = x
    BY <1>1, <1>2, <2>2
  <2>4. i = k + j
    BY <2>1, <2>3 DEF Once
  <2>5. ASSUME NEW m \in 1..n, w[m] = y PROVE j < m
    <3>1. k + m \in 1..Len(r) /\ r[k + m] = y
      BY <1>1, <1>2, <2>5
    <3>2. i < k + m
      BY <2>1, <3>1
    <3> QED BY <1>1, <2>4, <3>2
  <2> QED BY <1>2, <2>2, <2>5 DEF Ahead
<1> QED BY <1>2, <1>3, <1>4, <1>6, <1>7 DEF After

LEMMA OfSenderIs ==
  ASSUME NEW q, NEW x
  PROVE  OfSender(q, x) # {} <=> \E i \in 1..Len(q) : q[i].sender = x
BY DEF OfSender

\* An entry joins the queue of a session, whose rotation its sender joins
\* unless it is there or is being served.
LEMMA RotationJoined ==
  ASSUME NEW q \in Seq(Entries), NEW r \in Seq(Senders), NEW c, NEW l, NEW o, TurnsOK(q, r, c, l, o),
         NEW e \in Entries,
         NEW w, w = IF c # e.sender /\ e.sender \notin Elements(r) THEN Append(r, e.sender) ELSE r
  PROVE  TurnsOK(Append(q, e), w, c, l, o)
PROOF
<1> DEFINE q2 == Append(q, e)
<1>1. Len(q2) = Len(q) + 1 /\ q2[Len(q) + 1] = e /\ (\A j \in 1..Len(q) : q2[j] = q[j]) /\ Len(q) \in Nat
  BY Appended
<1> HIDE DEF q2
<1>2. e.sender \in Senders
  BY DEF Entries
<1>3. Once(w) /\ \A x, y : Ahead(r, x, y) => Ahead(w, x, y)
  BY <1>2, RotationGrows DEF TurnsOK
<1>4. \A x : x \in Elements(w) \cup {c} <=> x \in Elements(r) \cup {c} \/ x = e.sender
  BY <1>2, AppendedElements
<1>5. ASSUME NEW i \in 1..Len(q2) PROVE q2[i].sender \in Elements(w) \cup {c}
  <2>1. i \in 1..Len(q) \/ i = Len(q) + 1
    BY <1>1
  <2> QED BY <1>1, <1>4, <2>1 DEF TurnsOK
<1>6. ASSUME NEW x, OfSender(q, x) # {} PROVE OfSender(q2, x) # {}
  <2>1. PICK i \in 1..Len(q) : q[i].sender = x
    BY <1>6, OfSenderIs
  <2>2. i \in 1..Len(q2) /\ q2[i].sender = x
    BY <1>1, <2>1
  <2> QED BY <2>2, OfSenderIs
<1>7. TurnsOK(q2, w, c, l, o)
  BY <1>3, <1>5, <1>6 DEF TurnsOK
<1> QED BY <1>7 DEF q2

\* The turn of h's sender is over; h may be back at the front.
LEMMA RotationAgain ==
  ASSUME NEW q \in Seq(Entries), NEW r \in Seq(Senders), NEW h \in Entries, NEW l, NEW o,
         TurnsOK(q, r, h.sender, l, o),
         NEW q2, q2 = q \/ q2 = <<h>> \o q,
         NEW w, w = IF OfSender(q2, h.sender) # {} /\ h.sender \notin Elements(r) THEN Append(r, h.sender) ELSE r
  PROVE  TurnsOK(q2, w, Nobody, h.sender, o) /\ (q2 = <<>> => TurnsOK(q2, <<>>, Nobody, Nobody, o))
PROOF
<1>1. h.sender \in Senders /\ h.sender # Nobody
  BY LimitsAreNumbers DEF Entries
<1>2. Once(w) /\ \A x, y : Ahead(r, x, y) => Ahead(w, x, y)
  BY <1>1, RotationGrows DEF TurnsOK
<1>3. \A x : x \in Elements(r) => x \in Elements(w)
  BY <1>1, AppendedElements
<1>4. OfSender(q2, h.sender) # {} => h.sender \in Elements(w)
  BY <1>1, AppendedElements
<1>5. q2 \in Seq(Entries) /\ \A i \in 1..Len(q2) : q2[i] = h \/ \E j \in 1..Len(q) : q2[i] = q[j]
  <2>1. CASE q2 = q
    BY <2>1
  <2>2. CASE q2 = <<h>> \o q
    <3>1. q2 \in Seq(Entries) /\ Len(q2) = Len(q) + 1 /\ q2[1] = h /\ \A j \in 1..Len(q) : q2[j + 1] = q[j]
      BY <2>2, Fronted
    <3>2. ASSUME NEW i \in 1..Len(q2), i # 1 PROVE \E j \in 1..Len(q) : q2[i] = q[j]
      <4>1. i - 1 \in 1..Len(q) /\ (i - 1) + 1 = i
        BY <3>1, <3>2
      <4> QED BY <3>1, <4>1
    <3> QED BY <3>1, <3>2
  <2> QED BY <2>1, <2>2
<1>6. ASSUME NEW i \in 1..Len(q2) PROVE q2[i].sender \in Elements(w)
  <2>1. CASE q2[i].sender = h.sender
    BY <1>4, <2>1, OfSenderIs
  <2>2. CASE q2[i].sender # h.sender
    <3>1. PICK j \in 1..Len(q) : q2[i] = q[j]
      BY <1>5, <2>2
    <3>2. q[j].sender \in Elements(r)
      BY <2>2, <3>1 DEF TurnsOK
    <3> QED BY <1>3, <3>1, <3>2
  <2> QED BY <2>1, <2>2
<1>7. ASSUME NEW x, OfSender(q, x) # {} PROVE OfSender(q2, x) # {}
  <2>1. CASE q2 = q
    BY <1>7, <2>1
  <2>2. CASE q2 = <<h>> \o q
    <3>1. PICK i \in 1..Len(q) : q[i].sender = x
      BY <1>7, OfSenderIs
    <3>2. Len(q2) = Len(q) + 1 /\ q2[i + 1] = q[i]
      BY <2>2, Fronted
    <3>3. i + 1 \in 1..Len(q2) /\ q2[i + 1].sender = x
      BY <3>1, <3>2
    <3> QED BY <3>3, OfSenderIs
  <2> QED BY <2>1, <2>2
<1>8. TurnsOK(q2, w, Nobody, h.sender, o)
  BY <1>1, <1>2, <1>6, <1>7 DEF TurnsOK
<1>9. ASSUME q2 = <<>> PROVE TurnsOK(q2, <<>>, Nobody, Nobody, o)
  <2>1. 1..Len(q2) = {} /\ Once(<<>>)
    BY <1>9 DEF Once
  <2>2. o = {}
    BY <1>7, <2>1, OfSenderIs DEF TurnsOK
  <2> QED BY <2>1, <2>2 DEF TurnsOK
<1> QED BY <1>8, <1>9

\* Of the senders in order the k-th is the first to have an entry, i is one of
\* its entries, and w the rotation when it is taken.
InTurn(q, order, k, i, w) ==
  /\ i \in 1..Len(q) /\ order[k] = q[i].sender
  /\ \A j \in 1..Len(order) : OfSender(q, order[j]) # {} => k <= j
  /\ LET rest == SubSeq(order, k + 1, Len(order)) IN
     w = IF OfSender(Without(q, i), q[i].sender) = {} THEN rest ELSE Append(rest, q[i].sender)

\* With the fair strategy the next entry is that of the first sender in the
\* rotation who has one.
LEMMA NextInTurn ==
  ASSUME Fair, NEW q \in Seq(Entries), Len(q) > 1, NEW r \in Seq(Senders), r # <<>>,
         NEW l, NEW order \in Seq(Senders), order = Turned(r, l),
         \A i \in 1..Len(q) : q[i].sender \in Elements(order)
  PROVE  \E k \in 1..Len(order) :
           InTurn(q, order, k, NextEntry(q, r, l).index, NextEntry(q, r, l).rotation)
PROOF
<1> DEFINE e == NextEntry(q, r, l)
           present == {k \in 1..Len(order) : OfSender(q, order[k]) # {}}
           k == First(present)
           i == First(OfSender(q, order[k]))
           x == q[i].sender
           rest == SubSeq(order, k + 1, Len(order))
           after == IF OfSender(Without(q, i), x) = {} THEN rest ELSE Append(rest, x)
<1>1. present \subseteq Nat
  OBVIOUS
<1>2. present # {}
  <2>1. Len(q) \in Nat /\ 1 \in 1..Len(q)
    OBVIOUS
  <2>2. q[1].sender \in Elements(order)
    BY <2>1
  <2>3. PICK j \in 1..Len(order) : order[j] = q[1].sender
    BY <2>2 DEF Elements
  <2>4. OfSender(q, order[j]) # {}
    BY <2>1, <2>3, OfSenderIs
  <2>5. j \in present
    BY <2>4
  <2> QED BY <2>5
<1>3. e = [index |-> i, rotation |-> after]
  <2>1. Seeded(q, r) = r
    BY DEF Seeded
  <2>2. ~(~Fair \/ Len(q) <= 1)
    OBVIOUS
  <2> QED BY <1>2, <2>1, <2>2 DEF NextEntry
<1>4. k \in present /\ \A j \in present : k <= j
  <2> HIDE DEF present
  <2> QED BY <1>1, <1>2, FirstExists
<1> HIDE DEF k
<1>5. k \in 1..Len(order) /\ OfSender(q, order[k]) # {}
  BY <1>4
<1>6. i \in OfSender(q, order[k])
  <2>1. OfSender(q, order[k]) \subseteq Nat
    BY DEF OfSender
  <2> QED BY <1>5, <2>1, FirstExists
<1> HIDE DEF i
<1>7. i \in 1..Len(q) /\ order[k] = q[i].sender
  BY <1>6 DEF OfSender
<1>8. \A j \in 1..Len(order) : OfSender(q, order[j]) # {} => k <= j
  BY <1>4
<1>9. InTurn(q, order, k, i, after)
  BY <1>7, <1>8 DEF InTurn
<1>10. e.index = i /\ e.rotation = after
  <2> HIDE DEF after
  <2> QED BY <1>3
<1> QED BY <1>5, <1>9, <1>10

\* An entry is taken: its sender overtakes the others who have one, and nobody
\* for the second time.
LEMMA RotationServed ==
  ASSUME Fair, NEW q \in Seq(Entries), q # <<>>, NEW r \in Seq(Senders), NEW l,
         NEW o \in SUBSET (Senders \X Senders), TurnsOK(q, r, Nobody, l, o),
         NEW i, i = NextEntry(q, r, l).index, NEW x, x = q[i].sender,
         NEW rest, rest = Without(q, i),
         NEW behind, behind = {z \in Senders : z # x /\ OfSender(rest, z) # {}},
         NEW n
  PROVE  /\ TurnsOK(rest, NextEntry(q, r, l).rotation, x, n,
                    {p \in o : p[1] \in behind} \cup (behind \X {x}))
         /\ \A z : <<z, x>> \notin o
PROOF
<1> DEFINE w == NextEntry(q, r, l).rotation
           o2 == {p \in o : p[1] \in behind} \cup (behind \X {x})
<1>1. Len(q) \in Nat /\ Len(q) > 0
  OBVIOUS
<1>2. \A j \in 1..Len(q) : q[j] \in Entries /\ q[j].sender \in Senders
  <2>1. \A j \in 1..Len(q) : q[j] \in Entries
    OBVIOUS
  <2> QED BY <2>1 DEF Entries
<1>3. \A j \in 1..Len(q) : q[j].sender \in Elements(r)
  BY <1>2, LimitsAreNumbers DEF TurnsOK
<1>4. r # <<>>
  <2>1. q[1].sender \in Elements(r)
    BY <1>1, <1>3
  <2> QED BY <2>1 DEF Elements
<1>5. Once(r) /\ \A p \in o : OfSender(q, p[1]) # {} /\ Ahead(r, p[1], p[2]) /\ p[1] # p[2] /\ p[1] # l
  BY DEF TurnsOK
<1>6. CASE Len(q) = 1
  <2>1. i = 1 /\ w = r
    BY <1>6 DEF NextEntry
  <2>2. Len(rest) = 0
    BY <1>6, <2>1, WithoutFacts DEF Less
  <2>3. behind = {} /\ o2 = {}
    BY <2>2, OfSenderIs
  <2>4. ASSUME NEW z, <<z, x>> \in o PROVE FALSE
    <3>1. OfSender(q, z) # {} /\ z # x
      BY <1>5, <2>4
    <3>2. PICK j \in 1..Len(q) : q[j].sender = z
      BY <3>1, OfSenderIs
    <3> QED BY <1>6, <2>1, <3>1, <3>2
  <2>5. TurnsOK(rest, w, x, n, o2)
    BY <1>5, <2>1, <2>2, <2>3 DEF TurnsOK
  <2> QED BY <2>4, <2>5
<1>7. CASE Len(q) > 1
  <2> DEFINE order == Turned(r, l)
  <2>1. /\ order \in Seq(Senders) /\ Once(order) /\ Elements(r) \subseteq Elements(order)
        /\ \A y, z : Ahead(r, y, z) /\ y # l => Ahead(order, y, z)
    BY <1>4, <1>5, RotationTurns
  <2>2. PICK k \in 1..Len(order) : InTurn(q, order, k, i, w)
    <3>1. \A j \in 1..Len(q) : q[j].sender \in Elements(order)
      BY <1>3, <2>1
    <3> HIDE DEF w
    <3> QED BY <1>4, <1>7, <2>1, <3>1, NextInTurn DEF w
  <2> HIDE DEF order, w
  <2>3. PICK tail : tail = SubSeq(order, k + 1, Len(order))
    OBVIOUS
  <2>4. After(order, k, tail)
    BY ONLY <2>1, <2>2, <2>3, RotationRest
  <2>5. /\ tail \in Seq(Senders) /\ Once(tail) /\ order[k] \notin Elements(tail)
        /\ \A j \in (k + 1)..Len(order) : order[j] \in Elements(tail)
        /\ \A y, z : Ahead(order, y, z) /\ y \in Elements(tail) => Ahead(tail, y, z)
    BY <2>4 DEF After
  <2>6. /\ order[k] = x /\ i \in 1..Len(q)
        /\ \A j \in 1..Len(order) : OfSender(q, order[j]) # {} => k <= j
        /\ w = IF OfSender(rest, x) = {} THEN tail ELSE Append(tail, x)
    BY ONLY <2>2, <2>3, x = q[i].sender, rest = Without(q, i) DEF InTurn
  <2>7. x \in Senders /\ (w = tail \/ w = Append(tail, x))
    BY <1>2, <2>6
  <2>8. Once(w) /\ (\A y, z : Ahead(tail, y, z) => Ahead(w, y, z)) /\ \A y : y \in Elements(tail) => y \in Elements(w)
    <3>1. CASE w = tail
      BY <2>5, <3>1
    <3>2. CASE w = Append(tail, x)
      <4>1. x \notin Elements(tail)
        BY <2>5, <2>6
      <4>2. Once(w) /\ \A y, z : Ahead(tail, y, z) => Ahead(w, y, z)
        BY <2>5, <2>7, <3>2, <4>1, RotationGrows
      <4>3. \A y : y \in Elements(tail) => y \in Elements(w)
        BY <2>5, <2>7, <3>2, AppendedElements
      <4> QED BY <4>2, <4>3
    <3> QED BY <2>7, <3>1, <3>2
  <2>9. rest \in Seq(Entries) /\ Less(q, i, rest)
    BY <2>6, WithoutFacts
  <2>10. \A j \in 1..Len(rest) : \E m \in 1..Len(q) : rest[j] = q[m]
    <3>1. ASSUME NEW j \in 1..Len(rest) PROVE (IF j < i THEN j ELSE j + 1) \in 1..Len(q)
      BY <1>1, <2>6, <2>9 DEF Less
    <3> QED BY <2>9, <3>1 DEF Less
  \* Whoever waits is behind the sender served
  <2>11. ASSUME NEW y, OfSender(q, y) # {}, y # x PROVE y \in Elements(tail)
    <3>1. PICK j \in 1..Len(q) : q[j].sender = y
      BY <2>11, OfSenderIs
    <3>2. y \in Elements(order)
      <4>1. y \in Elements(r)
        BY <1>3, <3>1
      <4> QED BY <2>1, <4>1
    <3>3. PICK m \in 1..Len(order) : order[m] = y
      BY <3>2 DEF Elements
    <3>4. k <= m /\ k # m
      BY <2>6, <2>11, <3>3
    <3>5. m \in (k + 1)..Len(order)
      BY <2>1, <3>4
    <3> QED BY <2>5, <3>3, <3>5
  <2>12. ASSUME NEW y, OfSender(rest, y) # {} PROVE OfSender(q, y) # {}
    <3>1. PICK j \in 1..Len(rest) : rest[j].sender = y
      BY <2>12, OfSenderIs
    <3>2. PICK m \in 1..Len(q) : q[m].sender = y
      BY <2>10, <3>1
    <3> QED BY <3>2, OfSenderIs
  <2>13. ASSUME NEW j \in 1..Len(rest) PROVE rest[j].sender \in Elements(w) \cup {x}
    <3>1. OfSender(q, rest[j].sender) # {}
      BY <2>12, OfSenderIs
    <3> QED BY <2>8, <2>11, <3>1
  <2>14. ASSUME NEW z, <<z, x>> \in o PROVE FALSE
    <3>1. OfSender(q, z) # {} /\ Ahead(order, z, x)
      BY <1>5, <2>1, <2>14
    <3>2. PICK j \in 1..Len(order) : order[j] = z /\ \A m \in 1..Len(order) : order[m] = x => j < m
      BY <3>1 DEF Ahead
    <3>3. j < k /\ k <= j
      BY <2>6, <3>1, <3>2
    <3> QED BY <2>1, <3>3
  <2>15. ASSUME NEW z \in behind PROVE Ahead(w, z, x)
    <3>1. z \in Elements(tail) /\ z # x
      BY <2>11, <2>12
    <3>2. PICK j \in 1..Len(tail) : tail[j] = z
      BY <3>1 DEF Elements
    <3>3. Ahead(tail, z, x)
      <4>1. \A m \in 1..Len(tail) : tail[m] # x
        BY <2>5, <2>6 DEF Elements
      <4> QED BY <3>2, <4>1 DEF Ahead
    <3> QED BY <2>8, <3>3
  <2>16. ASSUME NEW p \in o, p[1] \in behind PROVE Ahead(w, p[1], p[2])
    <3>1. p[1] \in Elements(tail)
      BY <2>11, <2>12, <2>16
    <3>2. Ahead(order, p[1], p[2])
      BY <1>5, <2>1
    <3> QED BY <2>5, <2>8, <3>1, <3>2
  <2>17. ASSUME NEW p \in o2
         PROVE  OfSender(rest, p[1]) # {} /\ Ahead(w, p[1], p[2]) /\ p[1] # p[2] /\ p[1] # x
    <3>1. CASE p \in o /\ p[1] \in behind
      BY <1>5, <2>16, <3>1
    <3>2. CASE p \in behind \X {x}
      BY <2>15, <3>2
    <3> QED BY <3>1, <3>2
  <2>18. TurnsOK(rest, w, x, n, o2)
    <3>1. x # Nobody
      BY <2>7, LimitsAreNumbers
    <3> QED BY ONLY <2>8, <2>13, <2>17, <3>1 DEF TurnsOK
  <2> QED BY <2>14, <2>18 DEF w, o2
<1>8. Len(q) = 1 \/ Len(q) > 1
  <2> DEFINE m == Len(q)
  <2>1. m \in Nat /\ m > 0
    BY <1>1
  <2> HIDE DEF m
  <2>2. m = 1 \/ m > 1
    BY <2>1
  <2> QED BY <2>2 DEF m
<1> QED BY <1>6, <1>7, <1>8

\* Nothing changes for the rotations of other sessions than s.
OthersServe(s) ==
  \A t \in Sessions \ {s} :
    /\ queue'[t] = queue[t] /\ hand'[t] = hand[t] /\ rotation'[t] = rotation[t]
    /\ current'[t] = current[t] /\ last'[t] = last[t] /\ overtaken'[t] = overtaken[t]

LEMMA ServeStep ==
  ASSUME RotationsOK, NEW s \in Sessions, OthersServe(s), disposed' = disposed, Fair => RotationOK(s)'
  PROVE  RotationsOK'
PROOF
<1>1. ASSUME Fair, NEW t \in Sessions \ {s} PROVE RotationOK(t)'
  <2>1. RotationOK(t)
    BY <1>1 DEF RotationsOK
  <2>2. /\ queue'[t] = queue[t] /\ hand'[t] = hand[t] /\ rotation'[t] = rotation[t]
        /\ current'[t] = current[t] /\ last'[t] = last[t] /\ overtaken'[t] = overtaken[t]
    BY DEF OthersServe
  <2> QED BY <2>1, <2>2 DEF RotationOK
<1> QED BY <1>1 DEF RotationsOK

\* The queues and the rotations stay, and each hand keeps its sender.
LEMMA ServeNobody ==
  ASSUME RotationsOK, UNCHANGED <<queue, fairVars, disposed>>,
         \A t \in Sessions : hand'[t].sender = hand[t].sender
  PROVE  RotationsOK'
PROOF
<1>1. ASSUME Fair, NEW t \in Sessions PROVE RotationOK(t)'
  <2>1. RotationOK(t)
    BY <1>1 DEF RotationsOK
  <2>2. /\ queue' = queue /\ rotation' = rotation /\ current' = current /\ last' = last
        /\ overtaken' = overtaken /\ disposed' = disposed /\ hand'[t].sender = hand[t].sender
    BY DEF fairVars
  <2> QED BY <2>1, <2>2 DEF RotationOK
<1> QED BY <1>1 DEF RotationsOK

\* A step begins no turn.
LEMMA NoTurnBegins ==
  ASSUME \A t \in Sessions : at[t] = "slot" => at'[t] # "typing"
  PROVE  \A t \in Sessions : Alternates(t)
BY DEF Alternates, Begins

LEMMA OthersBeginNone ==
  ASSUME NEW s \in Sessions, OthersStay(s), at[s] = "slot" => at'[s] # "typing"
  PROVE  \A t \in Sessions : Alternates(t)
PROOF
<1>1. ASSUME NEW t \in Sessions, at[t] = "slot" PROVE at'[t] # "typing"
  <2>1. CASE t = s
    BY <1>1, <2>1
  <2>2. CASE t # s
    BY <1>1, <2>2 DEF OthersStay
  <2> QED BY <2>1, <2>2
<1> QED BY <1>1, NoTurnBegins

LEMMA EnqueueServes ==
  ASSUME QueueInv, RotationsOK, NEW s \in Sessions, NEW x \in Senders, Enqueue(s, x)
  PROVE  RotationsOK' /\ \A t \in Sessions : Alternates(t)
PROOF
<1>1. UNCHANGED <<queue, at, hand, fairVars, disposed>>
  BY DEF Enqueue
<1> QED BY <1>1, ServeNobody, NoTurnBegins

LEMMA FlushServes ==
  ASSUME QueueInv, RotationsOK, NEW s \in Sessions, NEW x \in Senders, Flush(s, x)
  PROVE  RotationsOK' /\ \A t \in Sessions : Alternates(t)
PROOF
<1> DEFINE e == [sender |-> x, msgs |-> buffer[s][x], attempt |-> 0]
<1>1. /\ QueueTypeOK /\ SlotsNow /\ hand' = hand /\ current' = current /\ last' = last
      /\ overtaken' = overtaken /\ disposed' = disposed
  BY DEF Flush, QueueInv
<1>2. \A t \in Sessions : Alternates(t)
  <2>1. CASE at' = at
    BY <2>1, NoTurnBegins
  <2>2. CASE at' # at
    <3>1. at[s] = "none" /\ AcquireSlot(s, at, active, waiting)
      BY <2>2 DEF Flush
    <3> QED BY <1>1, <3>1, AcquireStep, OthersBeginNone
  <2> QED BY <2>1, <2>2
<1>3. CASE OverLimit(s, x)
  <2>1. queue' = queue /\ rotation' = rotation
    BY <1>3 DEF Flush
  <2> QED BY <1>1, <1>2, <2>1, ServeNobody DEF fairVars
<1>4. CASE ~OverLimit(s, x)
  <2>1. /\ queue' = [queue EXCEPT ![s] = Append(@, e)]
        /\ rotation' = IF Fair /\ current[s] # x /\ x \notin Elements(rotation[s])
                       THEN [rotation EXCEPT ![s] = Append(@, x)] ELSE rotation
    BY <1>4 DEF Flush
  <2>2. queue[s] \in Seq(Entries) /\ rotation[s] \in Seq(Senders) /\ e \in Entries /\ e.sender = x
    <3>1. buffer[s] \in [Senders -> Seq(Messages)] /\ MaxAttempts \in Nat
      BY <1>1, SessionTypes, LimitsAreNumbers
    <3>2. e \in Entries
      BY <3>1 DEF Entries
    <3> QED BY <1>1, <3>2, SessionTypes
  <2> HIDE DEF e
  <2> DEFINE w == IF current[s] # x /\ x \notin Elements(rotation[s]) THEN Append(rotation[s], x) ELSE rotation[s]
  <2>3. queue \in [Sessions -> Seq(Entries)] /\ rotation \in [Sessions -> Seq(Senders)]
    BY <1>1 DEF QueueTypeOK
  <2>4. /\ queue'[s] = Append(queue[s], e) /\ \A t \in Sessions \ {s} : queue'[t] = queue[t]
    BY <2>1, <2>3
  <2>5. (Fair => rotation'[s] = w) /\ \A t \in Sessions \ {s} : rotation'[t] = rotation[t]
    <3>1. CASE Fair /\ current[s] # x /\ x \notin Elements(rotation[s])
      BY <2>1, <2>3, <3>1
    <3>2. CASE ~(Fair /\ current[s] # x /\ x \notin Elements(rotation[s]))
      BY <2>1, <3>2
    <3> QED BY <3>1, <3>2
  <2>6. OthersServe(s)
    BY <1>1, <2>4, <2>5 DEF OthersServe
  <2>7. ASSUME Fair PROVE RotationOK(s)'
    <3>1. RotationOK(s)
      BY <2>7 DEF RotationsOK
    <3>2. ASSUME ~disposed
          PROVE  TurnsOK(queue'[s], rotation'[s], current[s], last[s], overtaken[s])
      <4>1. TurnsOK(queue[s], rotation[s], current[s], last[s], overtaken[s])
        BY <3>1, <3>2 DEF RotationOK
      <4>2. TurnsOK(Append(queue[s], e), w, current[s], last[s], overtaken[s])
        BY <2>2, <4>1, RotationJoined
      <4> HIDE DEF w
      <4> QED BY <2>4, <2>5, <2>7, <4>2
    <3> QED BY <1>1, <3>1, <3>2 DEF RotationOK
  <2> QED BY <1>1, <1>2, <2>6, <2>7, ServeStep
<1> QED BY <1>3, <1>4

LEMMA FailServes ==
  ASSUME QueueInv, RotationsOK, NEW s \in Sessions, at[s] # "slot", Fail(s)
  PROVE  RotationsOK' /\ \A t \in Sessions : Alternates(t)
PROOF
<1>1. QueueTypeOK /\ UNCHANGED <<queue, fairVars, disposed>>
  BY DEF Fail, QueueInv
<1>2. \A t \in Sessions : hand'[t].sender = hand[t].sender
  <2>1. hand \in [Sessions -> Entries \cup {NoEntry}]
    BY <1>1 DEF QueueTypeOK
  <2>2. hand' = [hand EXCEPT ![s].attempt = hand[s].attempt + 1]
    BY DEF Fail
  <2>3. ASSUME NEW t \in Sessions PROVE hand'[t].sender = hand[t].sender
    <3>1. CASE t # s
      BY <2>1, <2>2, <3>1
    <3>2. CASE t = s
      <4>1. hand'[s] = [hand[s] EXCEPT !.attempt = hand[s].attempt + 1]
        BY <2>1, <2>2
      <4>2. hand[s] \in Entries \cup {NoEntry}
        BY <2>1
      <4> QED BY <3>2, <4>1, <4>2 DEF Entries, NoEntry
    <3> QED BY <3>1, <3>2
  <2> QED BY <2>3
<1>3. \A t \in Sessions \ {s} : at'[t] = at[t]
  <2>1. at \in [Sessions -> Stages]
    BY DEF QueueInv, SlotsNow, SlotsAt
  <2> QED BY <2>1 DEF Fail
<1>4. \A t \in Sessions : at[t] = "slot" => at'[t] # "typing"
  BY <1>3
<1> QED BY <1>1, <1>2, <1>4, ServeNobody, NoTurnBegins

LEMMA CompleteServes ==
  ASSUME QueueInv, RotationsOK, NEW s \in Sessions, at[s] \in Working, Complete(s, queue[s]) \/
           (Complete(s, <<hand[s]>> \o queue[s]) /\ ~disposed)
  PROVE  RotationsOK' /\ \A t \in Sessions : Alternates(t)
PROOF
<1>1. PICK q : (q = queue[s] \/ q = <<hand[s]>> \o queue[s]) /\ Complete(s, q)
  OBVIOUS
<1> DEFINE x == hand[s].sender
           cleared == ~disposed /\ q = <<>>
           again == Fair /\ OfSender(q, x) # {} /\ x \notin Elements(rotation[s])
           r == IF cleared THEN <<>> ELSE IF again THEN Append(rotation[s], x) ELSE rotation[s]
           l == IF cleared THEN Nobody ELSE IF Fair THEN x ELSE last[s]
<1>2. /\ QueueTypeOK /\ SlotsNow /\ SessionOK(s) /\ at[s] \in Holding
      /\ queue' = [queue EXCEPT ![s] = q] /\ hand' = [hand EXCEPT ![s] = NoEntry]
      /\ rotation' = [rotation EXCEPT ![s] = r] /\ last' = [last EXCEPT ![s] = l]
      /\ current' = [current EXCEPT ![s] = Nobody] /\ ReleaseAndLoop(s, q)
      /\ overtaken' = overtaken /\ disposed' = disposed
  BY <1>1 DEF QueueInv, Complete, Holding, Working
<1>3. hand[s] \in Entries /\ queue[s] \in Seq(Entries) /\ rotation[s] \in Seq(Senders)
  BY <1>2, SessionTypes DEF SessionOK, HandOK
<1>4. \A t \in Sessions : Alternates(t)
  <2>1. OthersStay(s) /\ at[s] # "slot"
    BY <1>2, ReleaseStep DEF Working
  <2> QED BY <2>1, OthersBeginNone
<1> HIDE DEF r, l
<1>5. /\ queue'[s] = q /\ hand'[s] = NoEntry /\ rotation'[s] = r /\ last'[s] = l /\ current'[s] = Nobody
      /\ OthersServe(s)
  <2>1. /\ queue \in [Sessions -> Seq(Entries)] /\ hand \in [Sessions -> Entries \cup {NoEntry}]
        /\ rotation \in [Sessions -> Seq(Senders)] /\ current \in [Sessions -> Senders \cup {Nobody}]
        /\ last \in [Sessions -> Senders \cup {Nobody}]
    BY <1>2 DEF QueueTypeOK
  <2> QED BY <1>2, <2>1 DEF OthersServe
<1>6. ASSUME Fair, ~disposed PROVE TurnsOK(q, r, Nobody, l, overtaken[s])
  <2>1. current[s] = x /\ TurnsOK(queue[s], rotation[s], current[s], last[s], overtaken[s])
    BY <1>6 DEF RotationsOK, RotationOK
  <2> DEFINE w == IF OfSender(q, x) # {} /\ x \notin Elements(rotation[s]) THEN Append(rotation[s], x) ELSE rotation[s]
  <2>2. TurnsOK(q, w, Nobody, x, overtaken[s]) /\ (q = <<>> => TurnsOK(q, <<>>, Nobody, Nobody, overtaken[s]))
    BY <1>1, <1>3, <2>1, RotationAgain
  <2>3. CASE q = <<>>
    <3>1. r = <<>> /\ l = Nobody
      BY <1>6, <2>3 DEF r, l
    <3> QED BY <2>2, <2>3, <3>1
  <2>4. CASE q # <<>>
    <3>1. r = w /\ l = x
      BY <1>6, <2>4 DEF r, l
    <3> HIDE DEF w
    <3> QED BY <2>2, <3>1
  <2> QED BY <2>3, <2>4
<1>7. ASSUME Fair PROVE RotationOK(s)'
  <2>1. NoEntry.sender = Nobody
    BY DEF NoEntry
  <2> QED BY <1>2, <1>5, <1>6, <1>7, <2>1 DEF RotationOK
<1> QED BY <1>2, <1>4, <1>5, <1>7, ServeStep

LEMMA BeginServes ==
  ASSUME QueueInv, RotationsOK, NEW s \in Sessions, Begin(s)
  PROVE  RotationsOK' /\ (Fair => \A t \in Sessions : Alternates(t))
PROOF
<1>1. /\ QueueTypeOK /\ SlotsNow /\ SessionOK(s) /\ at[s] = "slot" /\ at \in [Sessions -> Stages]
      /\ last' = last /\ disposed' = disposed
  BY DEF QueueInv, Begin, SlotsNow, SlotsAt
<1>2. CASE disposed
  <2>1. RotationsOK'
    BY <1>1, <1>2 DEF RotationsOK, RotationOK
  <2>2. \A t \in Sessions : at[t] = "slot" => at'[t] # "typing"
    BY <1>1, <1>2 DEF Begin
  <2> QED BY <2>1, <2>2, NoTurnBegins
<1>3. CASE ~disposed
  <2> DEFINE next == NextEntry(queue[s], rotation[s], last[s])
             entry == queue[s][next.index]
             rest == Without(queue[s], next.index)
             behind == {x \in Senders : x # entry.sender /\ OfSender(rest, x) # {}}
             o == {p \in overtaken[s] : p[1] \in behind} \cup (behind \X {entry.sender})
  <2>1. /\ at' = [at EXCEPT ![s] = "typing"] /\ queue' = [queue EXCEPT ![s] = rest]
        /\ hand' = [hand EXCEPT ![s] = entry] /\ rotation' = [rotation EXCEPT ![s] = next.rotation]
        /\ current' = IF Fair THEN [current EXCEPT ![s] = entry.sender] ELSE current
        /\ overtaken' = IF ~Fair THEN overtaken ELSE [overtaken EXCEPT ![s] = o]
    BY <1>3 DEF Begin
  <2>2. /\ queue[s] # <<>> /\ hand[s] = NoEntry /\ queue[s] \in Seq(Entries) /\ rotation[s] \in Seq(Senders)
        /\ overtaken[s] \in SUBSET (Senders \X Senders)
    BY <1>1, <1>3, SessionTypes DEF SessionOK, HandOK, Working
  <2>3. ASSUME Fair
        PROVE  /\ TurnsOK(rest, next.rotation, entry.sender, last[s], o)
               /\ \A z : <<z, entry.sender>> \notin overtaken[s]
    <3>1. TurnsOK(queue[s], rotation[s], Nobody, last[s], overtaken[s])
      <4>1. RotationOK(s) /\ NoEntry.sender = Nobody
        BY <2>3 DEF RotationsOK, NoEntry
      <4> QED BY <1>3, <2>2, <4>1 DEF RotationOK
    <3> QED BY <2>2, <2>3, <3>1, RotationServed
  <2> HIDE DEF next, entry, rest, o
  <2>4. /\ queue'[s] = rest /\ hand'[s] = entry /\ rotation'[s] = next.rotation
        /\ (Fair => current'[s] = entry.sender /\ overtaken'[s] = o)
        /\ \A t \in Sessions \ {s} : at'[t] = at[t]
        /\ OthersServe(s)
    <3>1. /\ queue \in [Sessions -> Seq(Entries)] /\ hand \in [Sessions -> Entries \cup {NoEntry}]
          /\ rotation \in [Sessions -> Seq(Senders)] /\ current \in [Sessions -> Senders \cup {Nobody}]
          /\ overtaken \in [Sessions -> SUBSET (Senders \X Senders)]
      BY <1>1 DEF QueueTypeOK
    <3>2. CASE Fair
      BY <1>1, <2>1, <3>1, <3>2 DEF OthersServe
    <3>3. CASE ~Fair
      BY <1>1, <2>1, <3>1, <3>3 DEF OthersServe
    <3> QED BY <3>2, <3>3
  <2>5. ASSUME Fair PROVE RotationOK(s)'
    BY <1>1, <2>3, <2>4, <2>5 DEF RotationOK
  <2>6. ASSUME Fair, NEW t \in Sessions PROVE Alternates(t)
    <3>1. CASE t = s
      <4>1. ASSUME NEW x \in Senders, NEW y \in Senders, Begins(s, y) PROVE <<x, y>> \notin overtaken[s]
        BY <2>3, <2>4, <2>6, <4>1 DEF Begins
      <4> QED BY <3>1, <4>1 DEF Alternates
    <3>2. CASE t # s
      BY <2>4, <3>2 DEF Alternates, Begins
    <3> QED BY <3>1, <3>2
  <2> QED BY <1>1, <2>4, <2>5, <2>6, ServeStep
<1> QED BY <1>2, <1>3

LEMMA ProcessServes ==
  ASSUME QueueInv, RotationsOK, NEW s \in Sessions, Process(s)
  PROVE  RotationsOK' /\ (Fair => \A t \in Sessions : Alternates(t))
PROOF
<1>1. at \in [Sessions -> Stages]
  BY DEF QueueInv, SlotsNow, SlotsAt
<1>2. ASSUME NEW v, at[s] # "slot", at' = [at EXCEPT ![s] = v], UNCHANGED <<queue, hand, fairVars, disposed>>
      PROVE  RotationsOK' /\ \A t \in Sessions : Alternates(t)
  <2>1. \A t \in Sessions : at[t] = "slot" => at'[t] # "typing"
    BY <1>1, <1>2
  <2> QED BY <1>2, <2>1, ServeNobody, NoTurnBegins
<1>3. CASE Resume(s) \/ Dispatch(s) \/ TurnOverBudget(s)
  BY <1>2, <1>3 DEF Resume, Dispatch, TurnOverBudget
<1>4. CASE Begin(s)
  BY <1>4, BeginServes
<1>5. CASE TurnAnswers(s)
  <2>1. CASE at[s] = "dispatching" /\ Complete(s, queue[s])
    BY <2>1, CompleteServes DEF Working
  <2>2. CASE at[s] = "dispatching" /\ at' = [at EXCEPT ![s] = "sending"] /\
             UNCHANGED <<queue, hand, fairVars, disposed>>
    BY <1>2, <2>2
  <2> QED BY <1>5, <2>1, <2>2 DEF TurnAnswers
<1>6. CASE TurnFails(s) \/ SendFails(s)
  BY <1>6, FailServes DEF TurnFails, SendFails
<1>7. CASE SendDone(s) \/ NotifyDone(s)
  BY <1>7, CompleteServes DEF SendDone, NotifyDone, Working
<1>8. CASE DelayOver(s)
  BY <1>8, CompleteServes DEF DelayOver, Working
<1> QED BY <1>3, <1>4, <1>5, <1>6, <1>7, <1>8 DEF Process

LEMMA QueueServes ==
  ASSUME QueueInv, RotationsOK, [QueueNext]_queueVars
  PROVE  RotationsOK' /\ (Fair => \A t \in Sessions : Alternates(t))
PROOF
<1>1. ASSUME NEW s \in Sessions, NEW x \in Senders, Enqueue(s, x) \/ Flush(s, x)
      PROVE  RotationsOK' /\ \A t \in Sessions : Alternates(t)
  BY <1>1, EnqueueServes, FlushServes
<1>2. ASSUME NEW s \in Sessions, Process(s)
      PROVE  RotationsOK' /\ (Fair => \A t \in Sessions : Alternates(t))
  BY <1>2, ProcessServes
<1>3. CASE Dispose
  <2>1. at \in [Sessions -> Stages] /\ disposed' /\
        at' = [s \in Sessions |-> IF at[s] = "parked" THEN "none" ELSE at[s]]
    BY <1>3 DEF Dispose, QueueInv, SlotsNow, SlotsAt
  <2>2. \A t \in Sessions : at[t] = "slot" => at'[t] # "typing"
    BY <2>1
  <2>3. RotationsOK'
    BY <2>1 DEF RotationsOK, RotationOK
  <2> QED BY <2>2, <2>3, NoTurnBegins
<1>4. CASE UNCHANGED queueVars
  <2>1. UNCHANGED <<queue, hand, at, fairVars, disposed>>
    BY <1>4 DEF queueVars
  <2> QED BY <2>1, ServeNobody, NoTurnBegins
<1> QED BY <1>1, <1>2, <1>3, <1>4 DEF QueueNext

\* With the fair strategy no sender has a second turn while another one's entry
\* has waited since before the first
THEOREM QueueIsFair == QueueSpec => FairTurns
PROOF
<1>1. QueueInit => RotationsOK
  <2>1. ASSUME QueueInit, NEW s \in Sessions PROVE RotationOK(s)
    <3>1. /\ queue[s] = <<>> /\ rotation[s] = <<>> /\ overtaken[s] = {}
          /\ current[s] = Nobody /\ hand[s].sender = Nobody
      BY <2>1 DEF QueueInit, NoEntry
    <3>2. Once(<<>>)
      BY DEF Once
    <3> QED BY <3>1, <3>2 DEF RotationOK, TurnsOK
  <2> QED BY <2>1 DEF RotationsOK
<1>2. QueueInv /\ RotationsOK /\ [QueueNext]_queueVars => RotationsOK'
  BY QueueServes
<1>3. QueueInv /\ RotationsOK /\ [QueueNext]_queueVars => [Fair => \A s \in Sessions : Alternates(s)]_queueVars
  BY QueueServes
<1> QED BY <1>1, <1>2, <1>3, QueueInvariant, PTL DEF QueueSpec, FairTurns

=============================================================================
