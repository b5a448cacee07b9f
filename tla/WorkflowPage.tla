------------------------------ MODULE WorkflowPage ------------------------------
(***************************************************************************)
(* The page of a workflow run (dc_workflows_controller.js): an event       *)
(* stream that is closed while the page is rendered anew and opened again  *)
(* by the controller of the new page, and step cards refreshed one by one. *)
(* Toggles, the sidebar and the count of notifications are left out.       *)
(***************************************************************************)
EXTENDS Naturals, FiniteSets

CONSTANTS MaxRunActs  \* bound: changes of the run and faults

VARIABLES
  run,      \* the server's run: its status, and how often one of its steps has changed
  seen,    \* the page: the same, as rendered
  stream,   \* workflowEventSource: off, opening, or open
  events,   \* events not heard yet: status, step
  render,   \* the request for the page: none, asked, or the run it was answered with
  cards,    \* requests for the step's card: the steps answered, or 0
  frozen,   \* ghost: a request for the page failed with the stream closed
  racts

vars == <<run, seen, stream, events, render, cards, frozen, racts>>

Act == racts < MaxRunActs /\ racts' = racts + 1

Ended == {"completed", "failed", "cancelled"}

None == [kind |-> "none"]
Asked == [kind |-> "asked"]

\* An event reaches the stream that is open
Tell(e) == events' = IF stream = "open" THEN events \cup {e} ELSE events

\* The executor ends or pauses a run; pause, resume, cancel and retry of WorkflowService: only a
\* failure is taken back
Moves ==
  {<<"running", st>> : st \in Ended \cup {"paused"}} \cup
  {<<"paused", "running">>, <<"paused", "cancelled">>, <<"failed", "running">>}

Move ==
  /\ Act
  /\ \E st \in Ended \cup {"running", "paused"} :
       /\ <<run.st, st>> \in Moves
       /\ run' = [run EXCEPT !.st = st]
  /\ Tell("status")
  /\ UNCHANGED <<seen, stream, render, cards, frozen>>

\* A step's task changes.  A completed run has none left; cancel tells the end before it cancels
\* the tasks, and tasks may outlive a pause or a failure
StepChanges ==
  /\ Act
  /\ run.st # "completed"
  /\ run' = [run EXCEPT !.step = @ + 1]
  /\ Tell("step")
  /\ UNCHANGED <<seen, stream, render, cards, frozen>>

StreamBreaks ==
  /\ Act
  /\ stream = "open" /\ stream' = "opening" /\ events' = {}
  /\ UNCHANGED <<run, seen, render, cards, frozen>>

\* cleanupWorkflowSSE, refreshWorkflowDetail
RenderAgain ==
  /\ stream' = "off" /\ events' = {}
  /\ render' = Asked

\* Mutant: the frame that opens a stream is not compared with the page
NothingDiffers == FALSE

\* handleWorkflowEvent connected, _connectedStepsDiffer
Differs == run # seen

StreamOpens ==
  /\ stream = "opening"
  /\ IF Differs THEN RenderAgain ELSE stream' = "open" /\ UNCHANGED <<events, render>>
  /\ UNCHANGED <<run, seen, cards, frozen, racts>>

HearStatus ==
  /\ "status" \in events
  /\ RenderAgain
  /\ UNCHANGED <<run, seen, cards, frozen, racts>>

\* refreshAffectedStepCards
HearStep ==
  /\ "step" \in events /\ events' = events \ {"step"}
  /\ cards' = cards \cup {0}
  /\ UNCHANGED <<run, seen, stream, render, frozen, racts>>

ServeRender ==
  /\ render = Asked /\ render' = [kind |-> "answered", page |-> run]
  /\ UNCHANGED <<run, seen, stream, events, cards, frozen, racts>>

ServeCard ==
  /\ 0 \in cards /\ cards' = (cards \ {0}) \cup {run.step}
  /\ UNCHANGED <<run, seen, stream, events, render, frozen, racts>>

\* A new page: the old controller closes its stream, the new one opens one unless the run has
\* ended, and cards asked for are those of a page that is gone
Rendered ==
  /\ render.kind = "answered" /\ render' = None
  /\ seen' = render.page
  /\ stream' = IF render.page.st \in Ended THEN "off" ELSE "opening"
  /\ events' = {} /\ cards' = {}
  /\ UNCHANGED <<run, frozen, racts>>

\* Nothing opens the stream again
RenderFails ==
  /\ Act
  /\ render # None /\ render' = None
  /\ frozen' = TRUE
  /\ UNCHANGED <<run, seen, stream, events, cards>>

\* refreshStepCard: a card shows the step as it was when its request was served
CardAnswered ==
  /\ \E k \in cards \ {0} :
       /\ cards' = cards \ {k}
       /\ seen' = [seen EXCEPT !.step = k]
  /\ UNCHANGED <<run, stream, events, render, frozen, racts>>

CardFails ==
  /\ Act
  /\ \E k \in cards : cards' = cards \ {k}
  /\ UNCHANGED <<run, seen, stream, events, render, frozen>>

Init ==
  /\ run = [st |-> "running", step |-> 1] /\ seen = run
  /\ stream = "opening" /\ events = {} /\ render = None /\ cards = {}
  /\ frozen = FALSE /\ racts = 0

Progress == StreamOpens \/ HearStatus \/ HearStep \/ ServeRender \/ ServeCard \/ Rendered \/ CardAnswered

Next == Progress \/ Move \/ StepChanges \/ StreamBreaks \/ RenderFails \/ CardFails

Spec == Init /\ [][Next]_vars /\ WF_vars(Progress)

(***************************************************************************)
(* Properties                                                              *)
(***************************************************************************)
\* The end of a run is rendered, although the stream that tells it is closed and opened around
\* every rendering and may break: what was missed is found by comparing the frame that opens a
\* stream.  The page of a completed run shows the steps as they ended.  Not after a rendering has
\* failed, nor once the page has shown a failure: its stream is closed for good, and what a retry
\* does to the run is not rendered.  Steps may be shown as they were when a cancel was told
EndIsRendered ==
  /\ run.st \in Ended ~> seen.st = run.st \/ seen.st = "failed" \/ frozen
  /\ run.st = "completed" ~> seen = run \/ seen.st = "failed" \/ frozen
=============================================================================
