---------------------------- MODULE MessageQueue ----------------------------
(***************************************************************************)
(* The channel message queue (dartclaw_core, channel/message_queue.dart):  *)
(* debounce, one FIFO per session with an optional rotation of senders, a  *)
(* concurrency limit over all sessions, retry and dead letters, disposal.  *)
(*                                                                         *)
(* At most one _processNext runs per session, and "at" names the await it  *)
(* is at.  Messages are numbered in the order they arrive; an entry holds  *)
(* the messages one debounce window coalesced.                             *)
(***************************************************************************)
EXTENDS Integers, Sequences, FiniteSets

CONSTANTS
  Sessions, Senders,
  Admins,              \* senders exempt from maxQueued
  MaxConcurrentTurns, MaxQueueDepth, MaxAttempts,
  MaxQueued,           \* per sender, 0 for no limit
  Fair,                \* queueStrategy == QueueStrategy.fair
  MaxMessages,         \* bound: how many messages arrive
  Nobody

ASSUME QueueAssumption ==
  /\ IsFiniteSet(Sessions) /\ IsFiniteSet(Senders) /\ Admins \subseteq Senders
  /\ MaxConcurrentTurns \in Nat \ {0} /\ MaxQueueDepth \in Nat \ {0}
  /\ MaxAttempts \in Nat \ {0} /\ MaxQueued \in Nat /\ MaxMessages \in Nat
  /\ Fair \in BOOLEAN /\ Nobody \notin Senders

VARIABLES
  fate,      \* per message that has arrived, in order: what became of it
  buffer,    \* _debounce: per session and sender
  queue,     \* _sessionQueues
  at,        \* _processing and the await of _processNext, per session
  hand,      \* the entry _processNext works on
  active,    \* _activeCount
  waiting,   \* _waitQueue, by session
  rotation,  \* _fairSenderRotation
  current,   \* _activeFairSender
  last,      \* _lastFairSender
  overtaken, \* <<x, y>>: a turn of y has begun while x waits (history)
  disposed   \* _disposed

fairVars == <<rotation, current, last, overtaken>>
queueVars == <<fate, buffer, queue, at, hand, active, waiting, fairVars, disposed>>

Messages == 1..MaxMessages
Entries == [sender : Senders, msgs : Seq(Messages), attempt : 0..MaxAttempts]
NoEntry == [sender |-> Nobody, msgs |-> <<>>, attempt |-> 0]
Fates == {"open", "answered", "rejected", "refused", "dead", "dropped"}

\* Types of the variables; every retry keeps within the attempts allowed.
QueueTypeOK ==
  /\ fate \in Seq(Fates) /\ Len(fate) <= MaxMessages
  /\ buffer \in [Sessions -> [Senders -> Seq(Messages)]]
  /\ queue \in [Sessions -> Seq(Entries)]
  /\ at \in [Sessions -> {"none", "parked", "woken", "slot", "typing", "dispatching",
                          "sending", "delaying", "notifying"}]
  /\ hand \in [Sessions -> Entries \cup {NoEntry}]
  /\ active \in Nat
  /\ waiting \in Seq(Sessions)
  /\ rotation \in [Sessions -> Seq(Senders)]
  /\ current \in [Sessions -> Senders \cup {Nobody}]
  /\ last \in [Sessions -> Senders \cup {Nobody}]
  /\ overtaken \in [Sessions -> SUBSET (Senders \X Senders)]
  /\ disposed \in BOOLEAN

QueueInit ==
  /\ fate = <<>>
  /\ buffer = [s \in Sessions |-> [x \in Senders |-> <<>>]]
  /\ queue = [s \in Sessions |-> <<>>]
  /\ at = [s \in Sessions |-> "none"]
  /\ hand = [s \in Sessions |-> NoEntry]
  /\ active = 0
  /\ waiting = <<>>
  /\ rotation = [s \in Sessions |-> <<>>]
  /\ current = [s \in Sessions |-> Nobody]
  /\ last = [s \in Sessions |-> Nobody]
  /\ overtaken = [s \in Sessions |-> {}]
  /\ disposed = FALSE

-----------------------------------------------------------------------------
Elements(q) == {q[i] : i \in 1..Len(q)}
Without(q, i) == SubSeq(q, 1, i - 1) \o SubSeq(q, i + 1, Len(q))
First(S) == CHOOSE i \in S : \A j \in S : i <= j
OfSender(q, x) == {i \in 1..Len(q) : q[i].sender = x}
Settle(msgs, f) ==
  fate' = [m \in 1..Len(fate) |-> IF m \in Elements(msgs) THEN f ELSE fate[m]]

-----------------------------------------------------------------------------
(* Arrival: enqueue() and the end of a debounce window.                    *)

\* A full session queue answers with a busy message; otherwise the text joins
\* the window of its sender, which starts over.
Enqueue(s, x) ==
  LET m == Len(fate) + 1  full == Len(queue[s]) >= MaxQueueDepth IN
  /\ ~disposed /\ m <= MaxMessages
  /\ fate' = Append(fate, IF full THEN "rejected" ELSE "open")
  /\ buffer' = IF full THEN buffer ELSE [buffer EXCEPT ![s][x] = Append(@, m)]
  /\ UNCHANGED <<queue, at, hand, active, waiting, fairVars, disposed>>

\* _acquireSlot() of session s, called with "count" slots in use and the
\* sessions "parked" waiting: a slot at once, or a place in the wait queue.
AcquireSlot(s, stages, count, parked) ==
  IF count < MaxConcurrentTurns
  THEN /\ active' = count + 1
       /\ waiting' = parked
       /\ at' = [stages EXCEPT ![s] = "slot"]
  ELSE /\ active' = count
       /\ waiting' = Append(parked, s)
       /\ at' = [stages EXCEPT ![s] = "parked"]

OverLimit(s, x) ==
  \/ Len(queue[s]) >= MaxQueueDepth
  \/ MaxQueued > 0 /\ x \notin Admins /\ Cardinality(OfSender(queue[s], x)) >= MaxQueued

\* Timers fire only when the microtasks have run: no waiter that was woken and
\* no session with a slot is still to resume.
TimersMayFire == \A s \in Sessions : at[s] \notin {"woken", "slot"}


\* The window closes: an entry, or a second busy answer; and the session
\* starts processing unless it already does.
Flush(s, x) ==
  LET entry == [sender |-> x, msgs |-> buffer[s][x], attempt |-> 0] IN
  /\ TimersMayFire /\ ~disposed /\ buffer[s][x] # <<>>
  /\ buffer' = [buffer EXCEPT ![s][x] = <<>>]
  /\ IF OverLimit(s, x)
     THEN /\ Settle(entry.msgs, "rejected")
          /\ UNCHANGED <<queue, rotation, at, active, waiting>>
     ELSE /\ queue' = [queue EXCEPT ![s] = Append(@, entry)]
          /\ rotation' = IF Fair /\ current[s] # x /\ x \notin Elements(rotation[s])
                         THEN [rotation EXCEPT ![s] = Append(@, x)] ELSE rotation
          /\ IF at[s] = "none" THEN AcquireSlot(s, at, active, waiting)
             ELSE UNCHANGED <<at, active, waiting>>
          /\ UNCHANGED fate
  /\ UNCHANGED <<hand, current, last, overtaken, disposed>>

\* A waiter's completer has completed: only now is the slot counted.
Resume(s) ==
  /\ at[s] = "woken"
  /\ active' = active + 1
  /\ at' = [at EXCEPT ![s] = "slot"]
  /\ UNCHANGED <<fate, buffer, queue, hand, waiting, fairVars, disposed>>

-----------------------------------------------------------------------------
(* _removeNextEntry: which entry of q is next and the rotation it leaves.  *)

Seeded(q, r) ==
  IF r # <<>> THEN r
  ELSE LET firsts == {i \in 1..Len(q) : \A j \in 1..(i - 1) : q[j].sender # q[i].sender}
           nth(n) == CHOOSE i \in firsts : Cardinality({j \in firsts : j <= i}) = n
       IN [n \in 1..Cardinality(firsts) |-> q[nth(n)].sender]

\* The sender served last goes behind the others.
Turned(r, served) ==
  IF Len(r) > 1 /\ Head(r) = served THEN Append(Tail(r), served) ELSE r

\* Mutant: the oldest entry is next, whoever sent it.
NextOldest(q, r, served) == [index |-> 1, rotation |-> r]

NextEntry(q, r, served) ==
  LET order == Turned(Seeded(q, r), served)
      present == {k \in 1..Len(order) : OfSender(q, order[k]) # {}}
      k == IF present = {} THEN Len(order) ELSE First(present)
      i == IF present = {} THEN 1 ELSE First(OfSender(q, order[k]))
      x == q[i].sender
      rest == SubSeq(order, k + 1, Len(order))
  IN IF ~Fair \/ Len(q) <= 1 THEN [index |-> 1, rotation |-> r]
     ELSE [index |-> i,
           rotation |-> IF OfSender(Without(q, i), x) = {} THEN rest ELSE Append(rest, x)]

-----------------------------------------------------------------------------
(* _processNext                                                            *)

\* The loop goes on with a slot: it leaves when the queue was disposed, with
\* the slot, or takes the next entry.
Begin(s) ==
  LET next == NextEntry(queue[s], rotation[s], last[s])
      entry == queue[s][next.index]
      rest == Without(queue[s], next.index)
      behind == {x \in Senders : x # entry.sender /\ OfSender(rest, x) # {}}
  IN
  /\ at[s] = "slot"
  /\ IF disposed
     THEN /\ at' = [at EXCEPT ![s] = "none"]
          /\ current' = [current EXCEPT ![s] = Nobody]
          /\ UNCHANGED <<queue, hand, rotation, overtaken>>
     ELSE /\ at' = [at EXCEPT ![s] = "typing"]
          /\ queue' = [queue EXCEPT ![s] = rest]
          /\ hand' = [hand EXCEPT ![s] = entry]
          /\ rotation' = [rotation EXCEPT ![s] = next.rotation]
          /\ current' = IF Fair THEN [current EXCEPT ![s] = entry.sender] ELSE current
          /\ overtaken' = IF ~Fair THEN overtaken ELSE
               [overtaken EXCEPT ![s] = {p \in @ : p[1] \in behind}
                                          \cup (behind \X {entry.sender})]
  /\ UNCHANGED <<fate, buffer, active, waiting, last, disposed>>

\* The typing indicator is on, or was given up: the turn starts, whether or
\* not the queue has been disposed of meanwhile.
Dispatch(s) ==
  /\ at[s] = "typing"
  /\ at' = [at EXCEPT ![s] = "dispatching"]
  /\ UNCHANGED <<fate, buffer, queue, hand, active, waiting, fairVars, disposed>>

\* _releaseSlot() and the test at the head of the loop, without an await
\* between them: the waiter that was woken has not counted itself yet.
ReleaseAndLoop(s, q) ==
  LET parked == IF waiting = <<>> THEN <<>> ELSE Tail(waiting)
      stages == IF waiting = <<>> THEN at ELSE [at EXCEPT ![Head(waiting)] = "woken"]
  IN IF disposed \/ q = <<>>
     THEN /\ active' = active - 1
          /\ waiting' = parked
          /\ at' = [stages EXCEPT ![s] = "none"]
     ELSE AcquireSlot(s, stages, active - 1, parked)

\* The end of an iteration that leaves queue q: _onTurnComplete, the slot, and
\* the maps of a session whose queue is empty.
Complete(s, q) ==
  LET x == hand[s].sender
      cleared == ~disposed /\ q = <<>>
      again == Fair /\ OfSender(q, x) # {} /\ x \notin Elements(rotation[s])
  IN
  /\ queue' = [queue EXCEPT ![s] = q]
  /\ hand' = [hand EXCEPT ![s] = NoEntry]
  /\ rotation' = [rotation EXCEPT ![s] = IF cleared THEN <<>>
                                        ELSE IF again THEN Append(@, x) ELSE @]
  /\ current' = [current EXCEPT ![s] = Nobody]
  /\ last' = [last EXCEPT ![s] = IF cleared THEN Nobody ELSE IF Fair THEN x ELSE @]
  /\ ReleaseAndLoop(s, q)
  /\ UNCHANGED <<buffer, overtaken, disposed>>

\* catch: one attempt more, then the delay or the apology.
Fail(s) ==
  LET attempt == hand[s].attempt + 1 IN
  /\ hand' = [hand EXCEPT ![s].attempt = attempt]
  /\ at' = [at EXCEPT ![s] = IF attempt < MaxAttempts THEN "delaying" ELSE "notifying"]
  /\ UNCHANGED <<fate, buffer, queue, active, waiting, fairVars, disposed>>

\* The turn has a response, to send or, when the observer took it over, not.
TurnAnswers(s) ==
  /\ at[s] = "dispatching"
  /\ \/ /\ at' = [at EXCEPT ![s] = "sending"]
        /\ UNCHANGED <<fate, buffer, queue, hand, active, waiting, fairVars, disposed>>
     \/ Settle(hand[s].msgs, "answered") /\ Complete(s, queue[s])

TurnFails(s) ==
  /\ at[s] = "dispatching"
  /\ Fail(s)

\* BudgetExhaustedError: no retry, a refusal is sent.
TurnOverBudget(s) ==
  /\ at[s] = "dispatching"
  /\ at' = [at EXCEPT ![s] = "notifying"]
  /\ UNCHANGED <<fate, buffer, queue, hand, active, waiting, fairVars, disposed>>

SendDone(s) ==
  /\ at[s] = "sending"
  /\ Settle(hand[s].msgs, "answered")
  /\ Complete(s, queue[s])

\* A chunk that cannot be sent is caught where a failed turn is.
SendFails(s) ==
  /\ at[s] = "sending"
  /\ Fail(s)

\* Mutant: a retry goes to the back of the queue.
RetryLast(s) ==
  /\ TimersMayFire /\ at[s] = "delaying"
  /\ IF disposed
     THEN Settle(hand[s].msgs, "dropped") /\ Complete(s, queue[s])
     ELSE Complete(s, Append(queue[s], hand[s])) /\ UNCHANGED fate

\* Mutant: a retry does not look whether the queue was disposed of.
RetryDisposed(s) ==
  /\ TimersMayFire /\ at[s] = "delaying"
  /\ Complete(s, <<hand[s]>> \o queue[s])
  /\ UNCHANGED fate

\* The retry delay is over: back to the front of the queue.
DelayOver(s) ==
  /\ TimersMayFire /\ at[s] = "delaying"
  /\ IF disposed
     THEN Settle(hand[s].msgs, "dropped") /\ Complete(s, queue[s])
     ELSE Complete(s, <<hand[s]>> \o queue[s]) /\ UNCHANGED fate

\* The refusal or the apology went out, or failed to.
NotifyDone(s) ==
  /\ at[s] = "notifying"
  /\ Settle(hand[s].msgs, IF hand[s].attempt = MaxAttempts THEN "dead" ELSE "refused")
  /\ Complete(s, queue[s])

\* Mutant: the pending windows survive.
DisposeKeepsWindows ==
  LET held == UNION {Elements(hand[s].msgs) : s \in Sessions} IN
  /\ ~disposed /\ disposed' = TRUE
  /\ fate' = [m \in 1..Len(fate) |->
                IF fate[m] = "open" /\ m \notin held THEN "dropped" ELSE fate[m]]
  /\ queue' = [s \in Sessions |-> <<>>]
  /\ at' = [s \in Sessions |-> IF at[s] = "parked" THEN "none" ELSE at[s]]
  /\ waiting' = <<>>
  /\ rotation' = [s \in Sessions |-> <<>>]
  /\ current' = [s \in Sessions |-> Nobody]
  /\ last' = [s \in Sessions |-> Nobody]
  /\ UNCHANGED <<buffer, hand, active, overtaken>>

\* dispose(): the windows, the queues and the rotations are dropped, and the
\* waiters' completers complete with an error.
Dispose ==
  LET held == UNION {Elements(hand[s].msgs) : s \in Sessions} IN
  /\ ~disposed /\ disposed' = TRUE
  /\ fate' = [m \in 1..Len(fate) |->
                IF fate[m] = "open" /\ m \notin held THEN "dropped" ELSE fate[m]]
  /\ buffer' = [s \in Sessions |-> [x \in Senders |-> <<>>]]
  /\ queue' = [s \in Sessions |-> <<>>]
  /\ at' = [s \in Sessions |-> IF at[s] = "parked" THEN "none" ELSE at[s]]
  /\ waiting' = <<>>
  /\ rotation' = [s \in Sessions |-> <<>>]
  /\ current' = [s \in Sessions |-> Nobody]
  /\ last' = [s \in Sessions |-> Nobody]
  /\ UNCHANGED <<hand, active, overtaken>>

Process(s) ==
  \/ Resume(s) \/ Begin(s) \/ Dispatch(s) \/ TurnAnswers(s) \/ TurnFails(s)
  \/ TurnOverBudget(s) \/ SendDone(s) \/ SendFails(s) \/ DelayOver(s) \/ NotifyDone(s)

QueueNext ==
  \/ \E s \in Sessions : \E x \in Senders : Enqueue(s, x) \/ Flush(s, x)
  \/ \E s \in Sessions : Process(s)
  \/ Dispose

QueueSpec == QueueInit /\ [][QueueNext]_queueVars

-----------------------------------------------------------------------------
(* Properties                                                              *)

Holding == {"slot", "typing", "dispatching", "sending", "delaying", "notifying"}
SessionsAt(stages) == {s \in Sessions : at[s] \in stages}

\* _activeCount is the number of sessions with a slot, whatever way their turns
\* and waits ended: a slot is neither leaked nor released twice.
SlotsCounted == ~disposed => active = Cardinality(SessionsAt(Holding))

\* No wake-up is lost: while a session waits, every slot is in use or on its
\* way to a session that was woken.
NoWakeupLost ==
  waiting # <<>> => active + Cardinality(SessionsAt({"woken"})) >= MaxConcurrentTurns

\* A message that is not settled is in one place only, and a settled one in
\* none: coalescing, rejections, retries and disposal neither lose nor
\* duplicate a message.
Places(m) ==
  UNION {{<<s, x, 0>> : x \in {y \in Senders : m \in Elements(buffer[s][y])}}
         \cup {<<s, Nobody, i>> : i \in {j \in 1..Len(queue[s]) : m \in Elements(queue[s][j].msgs)}}
         \cup {<<s, Nobody, 0>> : i \in {j \in {0} : m \in Elements(hand[s].msgs)}}
         : s \in Sessions}
EveryMessageOnce ==
  \A m \in 1..Len(fate) :
    Cardinality(Places(m)) = IF fate[m] = "open" THEN 1 ELSE 0

\* The messages of one sender to one session are answered in the order in which
\* they came, also those that one window coalesced: a retry and the rotation of
\* senders change the order of senders only.  Entry 0 of a session is the one
\* that _processNext works on.
Entry(h, q, i) == IF i = 0 THEN h ELSE q[i]
Precede(before, after) == \A m \in Elements(before) : \A n \in Elements(after) : m < n
Ascending(msgs) == \A i, j \in 1..Len(msgs) : i < j => msgs[i] < msgs[j]
InOrder(b, h, q) ==
  /\ \A x \in Senders : Ascending(b[x])
  /\ \A i \in 0..Len(q) :
       LET e == Entry(h, q, i) IN
       /\ Ascending(e.msgs)
       /\ e.msgs # <<>> =>
            /\ Precede(e.msgs, b[e.sender])
            /\ \A j \in (i + 1)..Len(q) : q[j].sender = e.sender => Precede(e.msgs, q[j].msgs)
SenderOrderKept == \A s \in Sessions : InOrder(buffer[s], hand[s], queue[s])

\* The limits hold up to one entry: an entry that is retried comes back
\* unchecked, and the queue may have filled up in the meantime.
QueueBounded ==
  \A s \in Sessions :
    /\ Len(queue[s]) <= MaxQueueDepth + 1
    /\ \A x \in Senders \ Admins :
         MaxQueued > 0 => Cardinality(OfSender(queue[s], x)) <= MaxQueued + 1

\* The queue keeps each sender's messages in order, and its limits up to one
\* retried entry.
OrderKept == QueueTypeOK /\ SenderOrderKept /\ QueueBounded

\* The queue neither loses nor duplicates a message, a slot or a wake-up.
MessagesOnce == EveryMessageOnce /\ SlotsCounted /\ NoWakeupLost

Begins(s, x) == at[s] = "slot" /\ at'[s] = "typing" /\ hand'[s].sender = x
Alternates(s) == \A x, y \in Senders : Begins(s, y) => <<x, y>> \notin overtaken[s]

\* With the fair strategy no sender has a second turn while an entry of another
\* sender of the session has waited since before the first.
FairTurns == [][Fair => \A s \in Sessions : Alternates(s)]_queueVars

Open(m) == m <= Len(fate) /\ fate[m] = "open"

=============================================================================
