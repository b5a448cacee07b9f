# DartClaw in TLA+

Specifications of two halves of DartClaw: the parts of the server that decide which
agent turn runs when, on which provider process, and what becomes of it; and the
controllers of the web client, which show a server that other viewers and the turns
change behind their back. TLC runs check them on small instances; TLAPS proofs carry the
most important properties to every instance. Paths below are relative to the repository;
`rt/` stands for `packages/dartclaw_runtime/lib/src/`, `core/` for
`packages/dartclaw_core/lib/src/` and `js/` for `rt/static/controllers/`.

## The system and its parts

### The server

DartClaw is a server in Dart that runs agent turns on provider CLIs (Claude,
Codex, ACP agents) it spawns as processes. The server is one isolate: one event
loop runs every component, and two pieces of code interleave only at an `await`.
What is hard is what happens between a fact read before an `await` and its use
after it, and what a process, a timer, an operator or a configuration reload does
in between. So an action of every module here is the code between two awaits.

A turn passes through the parts in this order:

1. a message comes in from the web (conversation service), from a chat channel
   (channel manager, then `MessageQueue`), from the scheduler, or a task or
   workflow step starts one;
2. `TurnManager` asks the `ExecutionCoordinator` for a lease: it takes the session's
   lock (`SessionLockManager`), a slot of the lane's `WorkerCapacityGate`, and finds
   or creates a worker, a `TurnRunner` with a harness;
3. the runner reserves the turn, prepares it, drives the provider through the
   harness, stores the answer and tells the outcome to whoever waits;
4. when the turn has settled, the lease returns the worker to the cache or tears it
   down, and the slot and the session lock are given back.

Cancels, limits, continuity resets, crashes and shutdown cut in at every step.

| Part | State it keeps | Operations | What makes it correct |
|---|---|---|---|
| Session lock (`rt/concurrency/session_lock_manager.dart`) | completers per session, wait entries with two timers, active count, cap | acquire, release, reconfigure | one holder per session; the count is the number of locks held; no lost wake-up |
| Capacity gate (`rt/worker_capacity_gate.dart`) | slots in use, slots withheld, waiters, closed | tryAcquire, acquire, close, quarantine, release | slots in use and withheld fit the capacity; FIFO; nobody waits beside a free slot or for ever |
| Execution coordinator (`rt/execution_coordinator*.dart`) | active executions, idle workers, permits kept by temporary sessions, drain | acquire, release, reset, end of a temporary session, dispose | every slot accounted for; one owner per worker; containers are not shared; disposal leaves nothing |
| Turn manager and runner (`rt/turn_manager.dart`, `rt/turn_runner*.dart`) | active turns, cancelled and post-provider sets, recoveries, outcomes, settlements | reserve, execute, cancel, release | one turn per worker; an outcome is told once and agrees with the transcript; the restart after a cancel is over before anybody else meets the worker; every turn settles |
| Claude harness (`core/harness/claude_code_harness.dart`, `base_harness.dart`, `process_lifecycle.dart`) | state, stop flag, process, bound conversation, pending turn, lifecycle lock | start, stop, cancel, turn, respawn, recover, reset | a pending turn always ends; a crash is told from a stop; no process without an owner |
| Message queue (`core/channel/message_queue.dart`) | debounce windows, queue per session, sender rotation, slots and their waiters | enqueue, process, retry, dead letter, dispose | no message lost or duplicated; each sender's order; limits; fair rotation; every message settles |
| Conversations and inbox (`rt/conversation/`) | submissions, queue, next-turn context, read boundary, revision per conversation | submit, steer, stop, move, settle, read, change the context or the queue | a mutation takes effect only on the revision its viewer saw; modelled as the pages meet it |
| Tasks, workflows, memory, channels, storage, ... | | | not modelled; `PROJECT.json` lists each with its files and the reason |

Interactions: the coordinator calls the gates and the session lock, and tears
harnesses down; the turn manager holds leases; the runner and the harness share the
process and its lifecycle lock; a turn may call a logical agent, whose turn needs a
slot of its own; the queue, the conversation service and the task executor
call the turn manager and wait for outcomes.

### The web client

Pages are rendered by the server, and Stimulus controllers keep them up to date: a
controller fetches state, hears server-sent events, sends mutations that name a revision
or an identity, and replaces markup that other controllers live in. Requests and
answers overtake each other, event streams break and what they would have told is
lost, other viewers of the same conversation act in between, a swap of the page ends one
controller and begins another. So an action is a callback: an input, an event, a timer, or the
continuation of a `fetch`; the server's handler of a request is an action of its own, and
whatever happens between the two meets a stale page.

| Part | State it keeps | Operations | What makes it correct |
|---|---|---|---|
| Chat drafts (`js/dc_chat_controller.js`, `js/shared.js`) | the draft, its ids, timer, uploads, the conflict; the IndexedDB record; what was announced to other tabs | edit, save, announce, recover, attach, submit | nothing typed is lost without a sign of it; a draft sent again is accepted once |
| Conversation view (`js/dc_chat_controller.js`) | next-turn context shown and applied, pending rows, revision, flights | pick, commit, move, read, mutate the queue, refresh | at rest the page shows the server; a refused value is taken back; no viewer's field is overwritten unseen |
| Turns of a chat page (`js/dc_chat_controller.js`) | live responses, the turn displayed, recovery polls, controls | send, queue, steer, stop | a steer hits the turn displayed; a broken response is finished; a Stop comes back |
| Rail, inbox, attention feed, drawer (`js/dc_shell_controller.js`) | pages painted, one flight per feed, the markup refresh, notices, drawer | refresh, page on, settle, resolve, open, navigate, resize | feeds catch up with every event; actions name what was shown; the page is never left inert |
| Command dialog and slash palette (`js/dc_conversation_command_controller.js`) | box, debounce, generation, catalogs, saved search | open, type, narrow, run, open a result, return | the list answers the box; a command meets the conversation it was listed for |
| Task pages (`js/dc_tasks_controller.js`) | event stream, polling, content, refreshes | refresh, poll, navigate | stream and polling follow the page; a task's end is shown |
| Workflow page (`js/dc_workflows_controller.js`) | event stream, step cards | render anew, refresh a card | a run's end is rendered |
| Actions on chats (`js/dc_shell_controller.js`, `js/shared.js`) | count of mutations under way, the dialog, creation under way | rename, open, delete, reset, resume | a new chat is asked for only after the mutations of the chat shown |
| Settings, memory, scheduling, health, channel pages | a form or a list each | save, filter, poll | not modelled: no state beyond the page |

Interactions: the chat page and the shell share the count of mutations under way and the
navigation; the dialog hands a result over to the chat page; everything else
meets only at the server.

## Modules

| Module | Models |
|---|---|
| `SessionLockManager` | the session lock |
| `CapacityGate` | the gate's methods as operators on a record, shared by the next two |
| `WorkerCapacityGate` | the gate and its clients, which may pass a permit on or renew it: the abstract specification of a lane |
| `ExecutionCoordinator` | the coordinator, whose lanes are two capacity gates |
| `MessageQueue` | the channel message queue |
| `ClaudeHarness` | a Claude process and its lifecycle lock, operators on a record |
| `TurnRunner` | turns on one runner and its harness, from the reservation to the return of the lease |
| `ChatDrafts` | the drafts of a session in several tabs, and of a composer without a session |
| `ConversationView` | one chat page's view of a conversation that others change |
| `ChatTurn` | what a chat page does while turns run |
| `ShellFeeds` | the rail, the attention feed and the drawer |
| `CommandPalette` | the command dialog and the slash palette |
| `TaskPage`, `WorkflowPage` | the pages of tasks and of a workflow run |
| `ShellActions` | renaming, opening, deleting, resetting and resuming chats |
| `SessionLockProofs`, `CapacityGateProofs`, `ExecutionSlotsProofs`, `ExecutionWorkersProofs`, `MessageQueueProofs`, `TurnRunnerProofs`, `ChatPageProofs`, `PagesProofs` | their theorems |
| `MC*` | constants, symmetries and compositions of the runs |

Composition: `ExecutionCoordinator` is built from two instances of the gate's
operators and is checked, and proved, to implement two instances of `WorkerCapacityGate`, the
specification of what a lane promises (`ImplementsGates`). The clients of a lane's gate are the calls
and the places where a temporary session keeps a permit between its calls (`Keepers`: in the cache with its
worker, and while it is ended); `LaneAt` maps a state of the coordinator to where each client is. `TurnRunner` is built from `ClaudeHarness`, and the
queue, the drafts and the feeds are instantiated with other constants where one run asks
about two instances.

`MCChatPage`, `MCPages` and `MCMessageQueue` put independent parts into one run: a variable
`which` says whose behaviour it is, and the other parts stay as they begin. The parts share no
variable, so a property of a part is violated in the run exactly if it is in the part
alone; the product of their states would only repeat that. In `MCMessageQueue` the two parts are the
same variables under two strategies (`Slots` is the queue with `Fair` false), so that its
invariants are `MessageQueue`'s own. `MCChatTurn` only gives the variables of `ChatTurn` names that `MCChatPage` does not use, so that
one module can hold the theorems of both. Where parts do share state
they are one module (the chat's context, queue and revision; the feeds and the drawer).

### How they correspond to the code

*SessionLockManager.* `locks` is `_locks`: the caller that put the completer.
Completing a completer resumes nobody at once, it makes microtasks: `parked` holds who
awaits a session's completer and `ready` the microtask queue, in order. `AcquirePass`
is one pass of the loop in `acquire`; a resumed caller (`Resume`) passes through it
again, because another caller may have taken the session between. The cap
is read at each pass and may be reloaded at any time.

*CapacityGate.* `Release` includes the `_drainWaiters` loop; `QuarantineSlot` and
`Close` fail the waiters they make hopeless, in the same step, as the code does. In
`WorkerCapacityGate` a permit is an object its holder may hand over (`PassOn`: a lease returns and its
permit goes to the cached entry, or is taken from there), and a client may give one back and ask again before
anybody else runs (`Renew`: a retained worker that is no longer usable).

*ExecutionCoordinator.* `at[c]` is the await that call `c` of `acquire`, or the lease
it returned, is at. `Submit` is the entry up to the session lock; `Proceed` is
the code from there to a slot, through reuse of a cached worker (`UseCached`), the
eviction of others (`Recycle`, `Scavenge`), creation and start; each failure path is an
action. `proc[w]` is the state of a worker's process, "orphan" when its teardown could
not be confirmed. `Reset`, `EndTemp` and `Dispose` empty the cache from outside. The
surface and policy of a request are the six `Kinds` the code tells apart. `Starved` names the calls that may
wait for ever by design: what a temporary session keeps is given back only when somebody ends that session.

*MessageQueue.* `at[s]` is the await of the one `_processNext` of a session. A
released slot completes a waiter that counts itself only when it resumes ("woken").
`fate` is the history of what became of each message. `overtaken` is a history
variable for the fairness of the rotation.

*ClaudeHarness and TurnRunner.* `stage[t]` is the await of `_runTurnInner` (and of
`turn()` inside it). `marks[t]` are the sets of the runner a turn is in;
`_cancelledTurns` and `_externallyCompletedTurns` are filled together and are one mark.
`recovery` is `_acceptedCancelRecovery`, `restart[t]` the progress of the restart that an
accepted cancel begins: cancel, stop, start, each of which may meet whatever else uses
the harness. `harness.jobs` is the chain of `withLock`: its head runs, in two steps,
"begun" when it has had its first effect. `stop()` raises the flag before it queues.
`lane` is how the runner is leased: the primary lane, a worker that the
coordinator caches between leases, or one built for a workflow step, whose lease returns
with the outcome (`StepReturns`) and not with the settlement (`Settle`).

*ChatDrafts.* A tab's `page` goes through opening the database and the first read. A draft's
`rev` is its revision and submission id, drawn together; `text` names the edit it stands for.
`found` holds what became of a tab's reads and saves and `mail` the announcements, as far as the tab has yet to
hear of them, so a save of one tab and the editing of another interleave. A save takes effect when its transaction is
created, which is what orders it among those of other tabs; it is reported and announced by a callback of its own
(`SaveHeard`). It was "saved", "failed", or "aborted": the request succeeded, so the page says it is saved, and the
transaction was not committed. `lapsed` is the history of records that were not stored although reported, or stored and
not announced. `store` and `home` are the records under the session's key and under the provisional key a composer
without a session saves to.

*ConversationView.* `srv` is the conversation as the server keeps it, every mutation naming a
revision; `calls` are requests on their way to it and `answers` those on their way back, both
sets, so they overtake. `events` is the stream, in order, empty while it is broken.
`applied`, `shown`, `queue` and the revision are the controller's fields of that name or role. `Unlisted` are the
providers the server may be given for which the page has rendered no option; a state with one leaves the controls and
the applied context as they were (`Listed`, `Reconcile`: `js/dc_chat_controller.js:669-670`), though its revision has been taken
(`:1807`). An unlisted project does the same, and is represented by these. `missed` then holds "context", until a state comes that
the controls can show.

*ChatTurn.* `streams[t]` is the live response of a turn, `recovery` is `streamRecoveryTurnId`,
`poll` the chain of status polls; `told` is what the page has yet to hear of changes, which a stream that breaks
loses (`EventsLost`; `told.lost` remembers it until the current state is fetched). `srv.out[t]` is
the outcome of a turn, `srv.work` the work that may begin another.

*ShellFeeds.* `srv.v` counts changes, so that what a page of a feed contains is a number; `heard`
is the latest event heard. `flight` and `attn` are `inboxFlight` and the flight of the attention
feed, `queued` and `requeued` the refresh asked for meanwhile, `markup` the rail's replacement.
`acted` keeps what the server did, at the revision shown and at the one it had.

*CommandPalette.* A request in `asked` carries whether its generation is still current, which is
all the code reads of `searchGeneration`. `cache` is the catalog of each surface; `shown` is
what the list was rendered for.
`Ran` is the server's comparison of the identity a command names with that of its conversation
(`rt/api/conversation_search_command_routes.dart:134-148`) and the answer; only a conflict clears the caches.

*TaskPage, WorkflowPage.* `swapped` is what Stimulus has still to do after markup was replaced:
the controller of the old content is disconnected and that of the new one connected in
callbacks of their own. `render` and `cards` are the requests whose answers replace the page or a
card. A run is paused, resumed, cancelled, completed, failed, and retried after a failure (`Moves`); a step's task may change
also after a cancel or a failure was told (`StepChanges`).

*ShellActions.* `page` is the chat's markup: which chat, how many mutations are under way
(`data-session-mutation-count`) and the draft mark. `nav` is a swap under way, `create` is
`sessionCreatePromise`, `dialog` the one `activeDialog`.

### Abstractions

- Text, prompts, usage figures, events, logging and persistence of metadata are left
  out; a write that may fail is a choice between two successors.
- A parameter change that respawns a process is represented by a change of session.
- A process that was signalled exits within its grace period; teardowns that are not
  confirmed are modelled where capacity depends on them, in the coordinator.
- The harness's own timeout comes 60 s after the runner's limit, so only a
  cancelled turn meets it (`HarnessTimeout`).
- The pre-compaction flush turn is not modelled: the Claude harness has a
  compaction hook, and the code then skips it.
- One lease carries one turn; a workflow step that runs several turns on its lease runs
  them one after another.
- In the client, the server's side of a request is one atomic step: the server serialises
  mutations of a conversation (`SessionMutationCoordinator`), which is not modelled itself.
- A revision, an event id or a catalog identity is a number; what two pages of a feed have in common
  is left out, what they are newer than is not.
- The client's event streams reopen by themselves (`EventSource`); what was broadcast meanwhile is lost.
- Two controllers that share nothing but the page are in different modules.

## Runs

| Run | Instance | Checks |
|---|---|---|
| `session_lock` | 3 calls, 2 sessions, cap reloaded between 1 and 2 | exclusion, the cap when a lock is taken, every waiter resumed |
| `capacity_gate` | 4 clients, 2 slots | permits within capacity, FIFO, every waiter answered |
| `exec_mixed` | 3 calls, 4 sessions of different kinds, 3 workers, pool of 2, one orphan | `WorkersOwned` (types, one owner per worker, one execution per session, the pool bound), slots, container isolation, quarantine, disposal; `ImplementsGates`: both lanes are gates, step by step |
| `exec_live` | 2 calls; a primary, a temporary and a container session with resets, an agent; one slot | every acquisition answered, unless a temporary session that nobody ends or an eviction without end is in its way (`Starved`); `TurnsAndDisposeEnd` |
| `queue` | depth 2, one entry per sender, one slot: one session, a limited and an exempt sender, 4 messages, fair rotation; or 3 sessions, one sender, 3 messages, no rotation | `OrderKept` (each sender's order, the limits up to one retried entry), `MessagesOnce` (each message in one place, slots counted, no lost wake-up), `FairTurns`, `MessagesSettle` |
| `turn_runner` | 2 turns of one or two sessions, the three lanes | outcomes agree with the transcript; `LeaseKept` (one turn per worker, recovery under the lease); `CancelStands` (outcomes final, recovery before the next turn); every turn settles |
| `chat_page` | the view: 3 acts, 3 directories of which one is refused, 2 providers with an option and one without; drafts: 2 tabs, 3 acts, saves that fail or abort among them; feeds: 2 conversations of which one is new, 3 acts | the properties of the three modules |
| `chat_turn` | one page, 2 turns and one that a steer starts, 2 acts (losses of the event stream among them), one fetch under way when a change is heard | steers hit the turn shown; broken responses are finished; a Stop comes back, unless the event that alone could bring it was lost |
| `pages` | the dialog: 2 words, 2 filters, 4 acts; task pages: 5 acts, 2 refreshes under way; a run's page: 6 acts; actions: 3 chats of which one is new, 4 acts | the properties of the four modules |
| `exec_reset_quarantine`, `crash_unnoticed`, `shell_inbox` | the smallest instance that shows it | disagreements, below |

*Bounds.* On the server, `MaxOrphans`, `MaxMessages` and the finite sets of calls, sessions, workers and
turns are the only bounds. Three callers of the lock are the fewest with a holder, a
waiter and a caller that barges in; four clients of two slots give two holders and a
queue of two. In `exec_mixed` three calls compete for two slots, so one evicts what
another returned; in `exec_live` a reset runs beside a call for the one slot, which a temporary session may keep. Four messages are one to serve, one queued for each
sender and one refused. Two turns are enough for `turn_runner`: a runner serves one at a
time, so a turn meets what its predecessor left behind (a restart, a failed recovery,
a raised flag), and every pair of sessions and every lane is an initial choice.
Crashes, cancels, resets and failures are not bounded, except that two resets of a
runner's session do not queue at once.

In the client, acts are bounded (`MaxActs` and its kin): what the user, other viewers and faults do.
What follows from them is not: answers, events, timers and saves happen in every order. Three acts are a
change of the page's own, one of somebody else's and a fault; what goes wrong in such
code is a third thing between two others. Four for the dialog are opening, typing, narrowing and
a change; five and six for the task and run pages let an end be lost with one stream and found by the next;
four for the actions are a mutation, a navigation, a new chat and one thing more. For `chat_turn` two turns are enough, the
one on the page and another viewer's or the queue's that follows it; a steer may start a third, so that one which is overtaken by
the second turn could still go wrong. Two listed providers are the fewest between which the page can pick, and one without an option stands for
all of them. The safety properties of all of them are also proved, for any
number of acts.

*Symmetry* is used for the calls of `exec_mixed` and the tabs of `chat_page`, runs
without liveness. Workers are never symmetric, since `FreeWorker` chooses one.

*Deadlock checking* is off where the instance may come to rest: the system is disposed
of, all turns and messages are done, or the user's acts are used up.

*Fairness.* Continuations of the event loop run (weak fairness of each call's steps).
Provider turns end: by their answer, or because a stall or turn limit cancels them, whose
defaults (5 and 30 minutes) are on; in `TurnRunner` this is fairness of the
disjunction "answer or cancel", not of either. Stops, starts and factories end because each
has a grace period or a timeout. The session lock resumes its waiters in order, so a
call that asks again and again is admitted (strong fairness of `Admit`; what
`session_lock` shows of the lock justifies it). A turn does not call logical agents for ever
(strong fairness of `EndTurn`). A permit of the gate comes back, whoever holds it by then. Nothing forces a cancel, a crash, a reset or a
disposal to happen. In the queue, fairness is assumed of the part that asks `MessagesSettle`.

In the client one disjunction, `Progress`, is fair: the server answers, events are delivered, timers
fire, Stimulus connects and disconnects. That is less than fairness of each, and enough, since
these steps use up what acts have begun; status polls repeat for ever, so `ChatTurn` has a
second fair action for them (`PollRound`). Nothing forces a user, another viewer or a fault to
act, and no fairness says that a request succeeds.

Every property has a mutant: a variant of one mapped definition that is a plausible
bug (an unguarded resume, an undrained queue, an outcome reported twice) under which TLC
refutes the property.

## What is proved

For any sets of callers and sessions, any caps and any capacity:

- `LockExclusion`: the caller between `acquire` and `release` of a session is the one
  whose completer is in `_locks`, and there is one at most. The inductive
  invariant `LockInv` adds to the types where callers are queued: whoever is in the
  microtask queue or awaits a completer is queued once and holds nothing. Without it
  a release could resume a caller that is queued elsewhere as well.
- `LockCount`: `_activeCount` is the number of locks held. It needs exclusion: a
  release lowers the count by one because exactly one lock disappears.
- `LockCap`: no step that takes a lock leaves more than the cap in force. It follows from
  `LockCount`, since admission compares the count and not the locks.
- `GateCapacity`: the slots in use are the permits out, and with those withheld they
  never exceed the capacity.
- `GateServesWaiters`: nobody waits beside an idle slot or for one that cannot come.
  The inductive invariant says that the queue is exactly the waiting clients, each
  once, and that no slot is idle while somebody waits; then a release
  has at most one slot to pass on, and the loop that drains the queue serves
  the oldest waiter or nobody (lemma `ReleaseCases`), which is what lets the loop be
  reasoned about without induction.
- `GateServesInOrder`: a release serves the oldest waiter first, and a later call takes no slot while
  somebody waits. It follows from the same invariant: a step that makes a waiting client a holder served the head
  of the queue, and `tryAcquire` and `acquire` take a slot only when nobody waits (`SlotFree`).

- `ExecOnePerSession`: for any calls, sessions, kinds, workers and pool, only the call that
  the coordinator admitted for a session is past its lock. The inductive invariant
  `AdmissionInv` adds that a gate's queue holds only calls that wait in it, and that the cache and
  what is ending name workers: a release of one call moves others (it serves a waiter or fails one), and
  the invariant says that whoever it moves was queued, hence admitted, before.
- `ExecSlotsAccounted`: a lane's active count is the permits its calls hold, plus, on the worker
  lane, those that temporary sessions kept or are giving up. The inductive invariant `SlotsInv`
  adds to `AdmissionInv`: the await a call is at tells whether it owns a permit; a call that
  tears a worker down or starts one is on the worker lane; a temporary session keeps
  one worker, and none while a call of it is past the search of the cache (`TempOK`, which needs
  one execution per session: otherwise a second turn would cache a second worker with a permit
  of its own); and no gate gives out more than it has, so that a negative limit never lets
  `_scavenge` evict from an empty cache. A step is then compared by what it leaves a lane beyond
  its calls' permits (`Slack`) and beyond that of temporary sessions (`Extra`).
- `ExecOneOwner`, `ExecContainersServeOne`, `ExecDisposeLeavesNothing`, `ExecTypes`: a worker is in one
  call's hand, in the cache once, or on its way out for one session; one in a container of its own has served
  one session at most; and once dispose is over nothing is left that could start or keep a worker. The
  inductive invariant `OwnersInv` adds to `SlotsInv` that owners exclude each other whatever table they are
  in (`Sole`), which await leaves a worker in a call's hand (`GraspOK`), that a reset or an ending session has a
  worker for as long as it tears it down (`LeavingOK`), that a process runs only for an owner (`RunsOK`), that a phase
  after disposal is one without calls (`PhaseOK`), and that a worker which served a session is where only
  that session can get it (`ServedOK`): eviction, reuse and reset each take a worker from one table to another.
- `ExecWorkersOwned`, `ExecOrphansQuarantined`: the workers alive, confirmed dead or not, are within the
  pool, and each orphan has a slot of its own withheld. They assume `NoContainerResets`: no session with a container
  of its own is reset. That is the case the code gets wrong, and `exec_reset_quarantine` shows it: the
  reset tears the container's worker down without owning a permit, so an unconfirmed teardown may find no slot
  to withhold. Without it, `PoolInv` counts: cached workers, calls that use one, ending sessions and withheld slots
  together are within the pool, and the withheld are exactly the orphans.
- `ExecImplementsGates`: every step of the coordinator moves each of its two lanes as a
  `WorkerCapacityGate` would, or leaves it alone; so that whatever is proved of the gate's own steps
  (`GateCapacity`, `GateServesWaiters`, `GateServesInOrder`) is true of the lanes. Only the end of disposal, which drops the cache
  with the permits in it, is no step of the gate. The inductive invariant `RefineInv`
  adds to `SlotsInv` that whoever waits for a permit is in its lane's queue, that the gates are open until
  disposal, and that only temporary sessions are ended. From `SlotsInv` comes that a temporary session keeps at most
  one permit (`TempOK`), so that a keeper is a client: it has one or none, and a lease that
  returns finds it without. The proof has a lemma per kind of move (a call takes, queues for, gives back, passes on or
  renews a permit; a keeper gives its own back; nobody moves), and each action of the coordinator is one of them.
- `LeaseIsKept`, `TranscriptAgrees`, `CancelHasTheLastWord`: for any turns and sessions, the lease outlives
  whatever still uses the worker (the active turn, the turn the harness drives, the restart after a cancel); the answer of
  a completed turn is in the transcript as its answer, that of a cancelled turn never is, and a turn told failed left a note of
  it, or nothing, or, when the answer was stored and touching the session failed afterwards
  (`rt/turn_runner_execution_loop.dart:398-399`, `:439`), the answer with the note behind it; also when a cancel races the provider; an outcome
  is never replaced, and the session's next turn waits for the restart its cancel asked for. The inductive invariant `RunnerInv`
  relates tables that the code keeps apart: `HoldOK` (who has the lease), `ActiveOK` (the turn in `_activeTurn` is
  the one under way), `MarksOK` and `AnswerOK` (what a turn has recorded tells which of its steps are behind it),
  `RestartOK` (whoever awaits a restart is the one that asked for it), `DrivenOK` (the turn the harness works on) and
  `JobsOK` (each request in the lifecycle chain is awaited by the one turn that made it, so its end resumes that turn
  and no other).
- `QueueKeepsOrder`, `QueueLosesNothing`: for any sessions, senders, limits and strategy, the messages of a sender in a
  session keep their order through coalescing, rotation and retries; a queue exceeds its limits by
  one retried entry at most; a message is in one place until it is settled and in none after; `_activeCount` is the
  number of sessions with a slot; and nobody waits for a slot unless it is in use or on its way to another. A
  retried entry goes back to the front, past messages that came meanwhile, so the inductive invariant `QueueInv` counts the
  entry in hand among its session's: it precedes what its sender has queued and buffered (`InOrder`), and the limits
  leave room for it (`Within`); it has an attempt left, and whoever waits for a slot has an entry to go on with
  (`HandOK`). Who waits for a slot is
  parked and waits once; a slot stands idle beside a waiter only if a woken session is about to take it; after disposal
  the count covers the sessions that still leave with their slots (`SlotsNow`). Where a message is, is a
  spot (`Spots`: a window, an entry or the hand); a step carries what is at each spot to at most one other (`Carries`), and
  from this follows that nothing is lost or duplicated (`OnceOK`).
- `QueueIsFair`: with the fair strategy no sender has a second turn while an entry of another has waited since before
  the first. The invariant `RotationsOK` adds to `QueueInv` what the rotation owes: each sender is in it once, and everyone with an
  entry is in it, the sender being served excepted, who joins again when its turn ends; whoever has been overtaken waits
  before the one that overtook it (`Ahead`), and is not the sender served last, which `_removeNextEntry` may send to
  the end. So the rotation is never empty beside a queue that is not: `Seeded`, like the code it models, is a precaution.
- `FeedsKeepUp`: a feed of the shell at rest, without a notice and not overtaken by a paged read,
  contains the latest change the page has heard of. `FeedsInv` says that what was told and heard
  is never ahead of the server, and that a read under way will contain what was heard or is
  followed by another.
- `ActsAsShown`: what the server did to a conversation, it did at the revision that was shown.
- `DrawerCloses`: the page is inert only behind an open drawer, or one that new markup took away.
- `PageRestsCurrent`, `PageShowsApplied`, `PageOverwritesNothing`: for any directories and any number of acts, a chat
  page at rest that missed nothing shows the server's context and queue; no control shows what was not applied; an accepted
  commit changes no field but those its viewer picked, three kinds of commit excepted that name a revision newer than their fields (below).
  A state the controls cannot show is something missed until they take a later one; `OptionsOK` says that what the controls show, and what they
  commit, always has an option, and that the applied state has one or such a state was missed. The page compares revisions only, and every mutation it sends moves
  its revision without the state that belongs to it; so the inductive invariant `ViewInv` says which states
  a revision may stand for (`Follows`): between the applied state and the revision the page knows, or any it has named, no
  state that is still on its way differs from the applied one (`Steady`). With it, while nothing was missed, the latest
  change is told, asked for or made no difference (`Awaited`), and a commit naming the
  server's revision differs from its context in what was picked only (`OwnOK`).
- `DraftsAcceptedOnce`, `TouchedDraftsKept`, `TypedTextStays`: for any number of tabs and acts, a draft that is sent again is
  accepted once; a touched draft is the record once nothing is outstanding, or its tab shows that it is not, excepting a
  save that aborted after it was reported, a record whose page was left before it announced it (`lapsed`) and a provisional draft moved over the
  record; typed text stays
  until the user changes it or exactly it was accepted. The inductive invariant `DraftInv` says that whatever draft is in sight, in a composer,
  the record, a conflict, a read or a submission, was drawn under its revision once and copied whole (`Archive`), so that equal
  revisions are equal drafts; that a tab awaits the answer to what it submitted last (`PostsOK`); that the result of the first read comes first
  (`FirstOK`); and that a touched draft which is not the record waits for its timer, or has yet to hear of the
  record by an announcement or a read (`TouchOK`). An announcement that a tab discards names the revision it holds, and so its own draft.
- `SteersHitTheDisplayedTurn`: for any number of turns, acts and reads, a steer stops no turn but the one
  its user saw, and the turn shown beside a revision is the one under way at that revision. The server checks both, and the
  theorem says that either check is enough. The inductive invariant `SteerInv` says of all that names a
  turn (the page, a steer on its way, a fetched state) that its revision is no later than
  the server's and, if it is the server's, that its turn is the one under way; it is kept because every server step that changes
  the submission under way is a new revision (`RevisionMoves`).
- `DialogListsItsBox`: a command dialog that awaits nothing lists what its box asks for. The
  inductive invariant `DialogInv` says that what the dialog still waits for is for what it asks now: whatever
  changes the box overtakes the requests made before, so an answer that is taken is the right one.
- `CommandsMeetTheirList`: a command takes effect at the revision its list was made for. The
  request names the revision its list was made at from the choice to the server (`RunsSent`).
- `StreamFollowsThePage`: the event stream and the polling of the task pages follow the page, through every order in which
  Stimulus disconnects the old controller and connects the new. The inductive invariant `FeedInv` adds
  which of these callbacks may be outstanding on which page (`SwapOnTheWay`), and that the controller which an
  overlapping pair leaves behind has the stream, and polls if its page does; a refresh answers with the page it asked for.
- `NewChatAwaitsMutations`: on a page that began with no mutation of an earlier page under way, a new chat is asked for only
  when none of the mutations of the chat shown is under way. The page keeps a number and the property is
  about requests; the inductive invariant `ShellInv` says that on such a page the number is that of the mutations whose answers it will
  hear (`Counted`), all of them of the chat shown, each told apart by the act that made it (`Stamped`), so that an answer lowers the count
  by one exactly when one of them is gone.

The assumptions are the named ones of the modules (`LockAssumption`, `GateAssumption`,
`ExecutionAssumption`, ...), which TLC evaluates in the runs. The client's theorems need none on
the bounds: they hold for any number of acts.

Two theorems of the coordinator, `ExecWorkersOwned` and `ExecOrphansQuarantined`, have a hypothesis on the kinds of its
sessions, said above with the reason; `exec_mixed` is an instance that satisfies it.

Only model-checked is liveness: `ParkedIsResumed`, `WaiterIsAnswered`, `AcquireAnswered`, `TurnsAndDisposeEnd`,
`MessagesSettle`, `TurnsSettle`, `BrokenResponseSettles`, `StopSettles`, `EndIsShown`, `EndIsRendered`. Every
invariant and every action property that a passing run checks is proved, the two above under their hypothesis.

Out of the prover's reach: liveness under fairness, anything with
ENABLED, what recursive definitions compute for every input. No module declares a
RECURSIVE operator.

## Disagreements found

- `exec_reset_quarantine`: a continuity reset tears a container down without holding a
  permit. When an acquisition takes the slot meanwhile and the teardown is then not
  confirmed, nothing is left to withhold and the orphan is not accounted for, which
  ADR-058 rules out.
- `crash_unnoticed`: `stop()` raises `isStopping` and only `start()` lowers it. A process
  that a turn respawned after a stop (a continuity reset, a harness timeout, a cancel whose
  `start()` found the harness already idle) runs with the flag raised; its crash is ignored,
  the harness stays idle, and the next turn is written to no process and waits
  for its stall limit.
- `shell_inbox`: the flight of the inbox that finds a conversation without a row awaits new markup,
  and the refresh of the markup awaits the inbox, which is that flight. Neither ends; the rail is not
  updated again until the page is left.

Observations met while modelling, without a run of their own:

*Server.*

- A session that releases its turn slot and goes on takes it again before the waiter it woke has counted
  itself, so more sessions than the "global concurrency cap" may run turns
  (`core/channel/message_queue.dart:58`, `:454`).
- The lease of a workflow step returns with the outcome, which an accepted cancel tells at once;
  the teardown then races the turn and the restart of the worker, and a process spawned
  after the teardown belongs to nobody (`rt/task/task_executor_helpers.dart:20`,
  `rt/execution_coordinator_lifecycle.dart:32`).
- While a reset tears a container down another session may start one, so `pool_size`
  bounds the workers that are owned, not the processes; `exec_mixed` therefore resets a shared worker only.
- `docs/guide/configuration.md:329` calls `max_attempts` delivery attempts; when a chunk of
  an answer cannot be sent the whole turn is run again (`core/channel/message_queue.dart:327`).
- `docs/guide/configuration.md:326` says that beyond the queue's depth the oldest messages
  are dropped; the code rejects the newest.
- `dev/adrs/012-per-type-container-isolation.md:28` says a logical agent's container persists
  across its turns; its requests carry a tool list, which makes them
  execution-scoped, and its worker is torn down after each turn (`rt/execution_coordinator.dart:395`).
- `_scavenge` computes how many idle workers may stay before it awaits the first eviction
  (`rt/execution_coordinator.dart:359-362`); while other calls go on returning workers it goes on evicting them, and its own
  call gets no answer. `AcquireAnswered` excepts it (`Starved`).
- A temporary session keeps its slot between its calls and nothing but its user ends it, so with as many of them as slots every other
  acquisition of the worker lane waits for ever; `AcquireAnswered` excepts that too.
- The answer of a turn is stored, then `touchUpdatedAt` is awaited, which may throw; the turn is then told failed, with
  its answer in the transcript and a note of the failure behind it (`rt/turn_runner_execution_loop.dart:398-399`, `:439`).
- A failed recovery stays in `_acceptedCancelRecovery`: on the primary lane every later turn of
  that session fails until the server restarts.
- A reserved turn that is cancelled and then released frees its lane while its restart
  is still running, and that restart may stop another session's turn, which then fails.

*Drafts and conversation view.*

- `transferProvisionalDraft` overwrites a record that was saved meanwhile; the properties except it.
- An upload that settles after its chip was removed draws new ids for an unchanged draft,
  which may be on its way: `AcceptedOnce` excepts drafts with files.
- The first read replaces text typed before it; a reconnection during it saves the empty
  draft over the stored one. Recovering a conflicting draft does not save it.
- `draftRequest` resolves when its request succeeds (`js/dc_chat_controller.js:2252-2261`), before the transaction is committed: when
  that aborts, the page says "Saved" of a draft that is not stored and announces it to the other tabs.
- The announcement comes in a later `then` (`:2296-2300`), and leaving the page closes the channel (`:155`): a draft stored by a page that is left
  meanwhile is announced to nobody. A timer dropped on disconnection loses the last 150 ms of typing.
- A late answer of the read boundary lowers `conversationRevision` (`js/dc_chat_controller.js:838` takes it
  unchecked). A state older than the one shown is then taken, and the answer to a later boundary puts the
  newest revision beside that older context: the next commit from this page is accepted and reverts another viewer's
  change. This takes six acts, beyond the bound
  of `chat_page`; it showed when the invariant of `PageOverwritesNothing` could not be proved inductive, and a run along that schedule
  confirmed it. `NoSilentOverwrite` excepts a commit made after the revision went back.
- `reconcileContext` returns before it touches the controls when a state names a project or provider without an option
  (`js/dc_chat_controller.js:669-670`), and the revision and the snapshot of that state are taken all the same (`:1807`, `:1811`). The page goes
  on showing the context before it, and its next commit is accepted and reverts another viewer's change; `AtRestCurrent` and
  `NoSilentOverwrite` except it.
- A commit that waited behind another takes the revision of a state fetched meanwhile, not its fields, and so reverts another viewer's
  change; `NoSilentOverwrite` excepts it.
- None of these three contradicts what the repository documents. That "two viewers cannot silently overwrite one another"
  (`docs/guide/web-ui-and-api.md:996`) is said of the inbox API, and of moving a conversation it is said that a stale
  revision leaves the context intact (`:102-103`), which the server does: these pages name the revision that is current, beside fields that are not.
- `editQueueItem` reads the row's text before its dialog and names the revision after it.
- Events broadcast while the stream is down are not asked for when it reopens as "live".

*Turns of a chat page.*

- The recovery of a broken response polls the session and not the turn: it does not end
  when another turn follows at once. `BrokenResponseSettles` is about the session's last turn.
- A state fetched between a turn's end and its settling may leave the composer on a disabled
  Stop; a send answered during a refresh of the transcript loses its live response; a late end of
  one turn turns the controls idle while the next runs.
- `stopTurn` cancels whatever turn is active when the request arrives; a steer names the turn.
- A Stop pressed for a turn that was finalized before is enabled again only by the refresh after the conversation's event, since
  `finalizeTurn` returns early (`js/dc_chat_controller.js:1538`). When the stream broke and lost that event, the button may stay disabled
  beside a session that is idle; `StopSettles` excepts it (`finalized /\ told.lost`).
- Turns that a steer or the queue starts have no live response.

*Shell.*

- A markup refresh under an open drawer leaves `.shell-main` inert (`DrawerNeverTraps` excepts it).
- After a navigation by swap with a mutation under way, a new chat waits for ever: the answer finds no
  page to lower the count of, and `sessionCreatePromise` blocks every later creation.
- The count of mutations is per rendering of a chat, so that a page rendered anew begins at zero
  (`clean` in `NewChatWaits`); the success of a rename removes the draft mark from whatever chat is
  displayed.
- Paged reads overtake newer paints (`late`); an archive answered after the window was widened
  opens the drawer; `showToast` does not come to an end on a sixth toast (`js/shared.js:121`).
- A bulk settlement includes checked rows that a filter hides, and clears selections made
  meanwhile; the polling of a restart reloads on the first healthy answer, also one of the server that is
  still draining.
- Edits typed while a settings form is being saved are replaced by the form of the answer.

*Dialog and pages.*

- `renderSlash` has no generation; Enter within the 160 ms of the debounce opens a result of the query
  before; a catalog that cannot be fetched leaves the old list. `openSearchTarget` navigates also when
  the dialog was closed meanwhile.
- A refresh asked for on the task list and answered on a task's page puts the list there; each refresh
  replaces the controller's own element and reconnects the stream. On the list, what the stream would have
  told in between is not shown, and an older refresh may overwrite a newer one.
- A rendering of a workflow run that fails leaves its stream closed for good (`frozen`).
- Cancelling a workflow run tells its end (`WorkflowService.cancel`, `packages/dartclaw_workflow/lib/src/workflow/workflow_service.dart:492-509`) before the tasks of its steps are cancelled (`:514-518`). The page that is
  rendered between closes its stream (`js/dc_workflows_controller.js:49-51`) and shows the step running until it is loaded again.
- A failed run that is retried (`:414-471`) is not rendered on a page that has shown the failure, nor is its second
  end; not even when the retry was this page's own, whose button swaps nothing (`rt/templates/workflow_detail.html:41-45`).

## Not modelled

`PROJECT.json` lists every component with its files. Left out for good: protocol parsing,
formatting, guards as text checks, docker and git commands, HTTP handlers, network clients of the
chat services, and pages of the web client that are one form or list (settings, memory, scheduling,
health, channels), whose state is what the server rendered. Of the modelled client parts: the
rail's filters and groups, popovers, the turn panel and badges of a task, toasts, the overlay of a restart.
Not modelled yet: the mutation coordinator and what conversations persist, tasks and
the task executor, workflows, the inbound side of channels, thread bindings,
sidecars, scheduling, memory, the storage interlock, turn state after a server restart, the
differences of the Codex and ACP harnesses.

## Plan

Done: the session lock, the capacity gate as an abstract specification, the execution coordinator that
refines it, the message queue, the turn runner over the Claude harness, the web client's chat page,
shell, dialog, task and workflow pages; proofs of the lock, the gate, the coordinator (admission, slots, owners,
quarantine, its refinement of the gate), the message queue, the turn runner, the chat page (feeds, view, drafts, turns), the
dialog, the task pages' stream and the actions on chats.

Next, extending the model:

1. `SessionMutations`: the promise chain of `SessionMutationCoordinator` with its drain, and
   the repository lock, reentrant by zone; small, and used by what follows.
2. `Conversation`: submissions, dispatch under the mutation chain, recovery after a restart
   of the server, on an abstract turn manager (reserve, outcome, settle); the client's modules then
   have a server to be composed with.
3. `TaskLifecycle` and `TaskExecutor`: the status machine with its versions, checkout, retries,
   cancellation and emergency stop; refinement of the status machine.
4. `Workflow`: runs with approval, loops, parallel iterations and promotion, resumed after a
   restart; the widest part, split by step kind.
5. `TurnState`: the persisted reservation of a turn, with a crash of the server between
   its steps, as an extension of `TurnRunner`.
6. The sliding-window rate limiter and the loop detector as pure functions against a
   reference definition.
