-------------------------------- MODULE TaskPage --------------------------------
(***************************************************************************)
(* The task list and the page of one task (dc_tasks_controller.js): the    *)
(* task event stream, the refresh of the page's content, the polling of a  *)
(* page whose task is under way, and the controller that goes with the     *)
(* content each refresh replaces.  One task stands for all; the sidebar,   *)
(* progress meters, project badges and the turn panel are left out.        *)
(***************************************************************************)
EXTENDS Naturals, Sequences

CONSTANTS MaxTaskActs,  \* bound: changes of the task, navigations and faults
          MaxReads      \* bound: refreshes of the content under way

VARIABLES
  task,     \* the server's task: running or over
  url,      \* the page: list, detail, or other, which has no tasks
  content,  \* what is shown: the kind of page it was rendered for, and the status of the task
  feed,     \* taskEventSource: off, opening, or open
  changed,  \* a task_status_changed event has not been heard
  polling,  \* taskDetailRefreshTimer
  reads,    \* refreshes: the page asked for, whether by the poll, and the content answered
  swapped,  \* what Stimulus has still to do about controllers put in or taken out
  tacts

vars == <<task, url, content, feed, changed, polling, reads, swapped, tacts>>

Act == tacts < MaxTaskActs /\ tacts' = tacts + 1

TaskPages == {"list", "detail"}
Page(kind, st) == [kind |-> kind, st |-> IF kind = "other" THEN "none" ELSE st]

\* No script of the page runs between the callbacks of Stimulus
Idle == swapped = <<>>

\* initTaskDetailRefresh: a task's page is polled while it shows the task queued or running
Polls(c) == c.kind = "detail" /\ c.st = "running"

(***************************************************************************)
(* The server                                                              *)
(***************************************************************************)
Change ==
  /\ Act
  /\ task' = IF task = "running" THEN "over" ELSE "running"
  /\ changed' = (changed \/ feed = "open")
  /\ UNCHANGED <<url, content, feed, polling, reads, swapped>>

\* The connected frame brings the sidebar's state and no content
FeedOpens ==
  /\ feed = "opening" /\ feed' = "open"
  /\ UNCHANGED <<task, url, content, changed, polling, reads, swapped, tacts>>

\* EventSource reconnects by itself, and what was sent meanwhile is lost
FeedBreaks ==
  /\ Act
  /\ feed = "open" /\ feed' = "opening" /\ changed' = FALSE
  /\ UNCHANGED <<task, url, content, polling, reads, swapped>>

ServeRead ==
  /\ \E i \in DOMAIN reads :
       /\ reads[i].answer = <<>>
       /\ reads' = [reads EXCEPT ![i].answer = <<Page(reads[i].of, task)>>]
  /\ UNCHANGED <<task, url, content, feed, changed, polling, swapped, tacts>>

(***************************************************************************)
(* The content                                                             *)
(***************************************************************************)
Without(i) == SubSeq(reads, 1, i - 1) \o SubSeq(reads, i + 1, Len(reads))

\* refreshTasksPageContent
Refresh(byPoll) ==
  /\ Len(reads) < MaxReads
  /\ reads' = Append(reads, [of |-> url, poll |-> byPoll, answer |-> <<>>])

HearChange ==
  /\ Idle /\ changed
  /\ changed' = FALSE
  /\ IF content.kind \in TaskPages THEN Refresh(FALSE) ELSE UNCHANGED reads
  /\ UNCHANGED <<task, url, content, feed, polling, swapped, tacts>>

\* Mutant: the timer is one that fires once
PollOnce ==
  /\ Idle /\ polling
  /\ polling' = FALSE
  /\ IF content.kind = "detail" THEN Refresh(TRUE) ELSE UNCHANGED reads
  /\ UNCHANGED <<task, url, content, feed, changed, swapped, tacts>>

Poll ==
  /\ Idle /\ polling
  /\ IF content.kind = "detail"
     THEN Refresh(TRUE) /\ UNCHANGED polling
     ELSE polling' = FALSE /\ UNCHANGED reads
  /\ UNCHANGED <<task, url, content, feed, changed, swapped, tacts>>

\* The poll looks at what is shown once its refresh is over
StillPolls(r, c) == IF r.poll THEN polling /\ Polls(c) ELSE polling

\* The content is replaced, of whatever page it is now, and with it its controller
ReadAnswered ==
  /\ Idle
  /\ \E i \in DOMAIN reads :
       LET r == reads[i] IN
         /\ r.answer # <<>>
         /\ reads' = Without(i)
         /\ IF content.kind \in TaskPages /\ r.of \in TaskPages
            THEN /\ content' = r.answer[1]
                 /\ swapped' = <<"leave", "connect">>
                 /\ polling' = Polls(content')
            ELSE /\ polling' = StillPolls(r, content)
                 /\ UNCHANGED <<content, swapped>>
  /\ UNCHANGED <<task, url, feed, changed, tacts>>

ReadFails ==
  /\ Act /\ Idle
  /\ \E i \in DOMAIN reads :
       /\ reads' = Without(i)
       /\ polling' = StillPolls(reads[i], content)
  /\ UNCHANGED <<task, url, content, feed, changed, swapped>>

\* A page is swapped in by htmx: its controller connects before or after the old one leaves
Navigate ==
  /\ Act /\ Idle
  /\ \E to \in TaskPages \cup {"other"} :
       /\ to # url
       /\ url' = to
       /\ content' = Page(to, task)
       /\ swapped' \in CASE url = "other" -> {<<"connect">>}
                         [] to = "other" -> {<<"leave">>}
                         [] OTHER -> {<<"leave", "connect">>, <<"connect", "leave">>}
  /\ UNCHANGED <<task, feed, changed, polling, reads>>

(***************************************************************************)
(* The controllers                                                         *)
(***************************************************************************)
\* onLoad: initTaskSse, initTaskDetailRefresh; a new generation overtakes a controller that
\* has still to leave
Connect ==
  /\ swapped # <<>> /\ Head(swapped) = "connect"
  /\ swapped' = IF Tail(swapped) = <<>> THEN <<>> ELSE <<"overtaken">>
  /\ feed' = IF feed = "off" THEN "opening" ELSE feed
  /\ polling' = Polls(content)
  /\ UNCHANGED <<task, url, content, changed, reads, tacts>>

\* Mutant: a controller cleans up whichever generation it is of
CleansAlways(how) == TRUE

\* disconnect: only the latest generation cleans up
Cleans(how) == how = "leave"

\* cleanupTaskController
Leave ==
  /\ swapped # <<>> /\ Head(swapped) \in {"leave", "overtaken"}
  /\ swapped' = Tail(swapped)
  /\ IF Cleans(Head(swapped))
     THEN feed' = "off" /\ changed' = FALSE /\ polling' = FALSE
     ELSE UNCHANGED <<feed, changed, polling>>
  /\ UNCHANGED <<task, url, content, reads, tacts>>

Init ==
  /\ task \in {"running", "over"}
  /\ url \in TaskPages /\ content = Page(url, task)
  /\ feed = "opening" /\ changed = FALSE
  /\ polling = Polls(content)
  /\ reads = <<>> /\ swapped = <<>> /\ tacts = 0

Progress == FeedOpens \/ ServeRead \/ HearChange \/ Poll \/ ReadAnswered \/ Connect \/ Leave

Next == Progress \/ Change \/ FeedBreaks \/ ReadFails \/ Navigate

Spec == Init /\ [][Next]_vars /\ WF_vars(Progress)

(***************************************************************************)
(* Properties                                                              *)
(***************************************************************************)
\* The event stream is open on the pages that have tasks and closed on the others, a task
\* shown under way is polled, and nothing is polled elsewhere, whatever replaced the content and in whichever
\* order its controllers came and went
FeedFollowsPage ==
  Idle => /\ (feed # "off") = (url \in TaskPages)
          /\ Polls(content) => polling
          /\ url = "other" => ~polling

\* A task's page does not go on showing the task under way once it is over, even when the
\* event that says so is lost or a refresh fails or comes late
EndIsShown ==
  Polls(content) /\ task = "over" ~> ~Polls(content) \/ task = "running"
=============================================================================
