---------------------------- MODULE MCMessageQueue ----------------------------
(***************************************************************************)
(* Two ways to load a small queue: two senders, one of them exempt, who    *)
(* share a session under the fair strategy, and three sessions that        *)
(* compete for one turn slot without it.  Which of them a behaviour is, is *)
(* chosen at the start.                                                    *)
(***************************************************************************)
EXTENDS MessageQueue

CONSTANTS s1, s2, s3, x1, x2

VARIABLE which
loadVars == <<which, queueVars>>

Slots == INSTANCE MessageQueue WITH Fair <- FALSE

\* Who writes to which session.
Writes(s, x) ==
  \/ which = "senders" /\ s = s1
  \/ which = "slots" /\ x = x1 /\ Len(fate) < 3

LoadInit == QueueInit /\ which \in {"senders", "slots"}

LoadNext ==
  /\ \/ \E s \in Sessions : \E x \in Senders : Writes(s, x) /\ Enqueue(s, x)
     \/ which = "senders" /\ \E s \in Sessions : \/ \E x \in Senders : Flush(s, x)
                                                 \/ Process(s)
     \/ which = "slots" /\ \E s \in Sessions : \/ \E x \in Senders : Slots!Flush(s, x)
                                               \/ Slots!Process(s)
     \/ Dispose
  /\ UNCHANGED which

\* Fairness: a debounce timer fires (a sender cannot restart its window for
\* ever: MaxMessages), microtasks run, and the turn, the send and the delay
\* end, in one way or another.  Nothing makes the queue be disposed of.
LoadSpec ==
  /\ LoadInit /\ [][LoadNext]_loadVars
  /\ \A s \in {s1, s2, s3} : WF_queueVars(which = "slots" /\ Slots!Process(s))
  /\ \A s \in {s1, s2, s3} : WF_queueVars(which = "slots" /\ Slots!Flush(s, x1))

\* Every message is settled: it is answered, rejected, refused or given up, or
\* the queue is disposed of; none stays behind in a queue nobody processes.
MessagesSettle == \A m \in 1..3 : which = "slots" /\ Open(m) ~> ~Open(m)
=============================================================================
