# Verification of pi-tmux-orchestrator

The orchestrator runs a team of coding agents in tmux panes: an implementer, a
reviewer and optional specialists. One broker process per run (a Python asyncio
program over a SQLite file) tells the workers what to do and moves the run from
round to round. This directory holds TLA+ models of that program, the TLC
configurations that check them on small instances, and TLAPS proofs of the
properties that matter most for every instance. All paths below are relative to
`src/`.

## The system

| Part | Code | State | Operations | Hard parts |
|---|---|---|---|---|
| Broker workflow | `broker.py`, `broker_workflow.py`, `broker_control.py`, `broker_store.py`, `continuation.py` | SQLite: `meta` (workflow state, round, pending repair, limits, pause), `roles`, `assignments`, `reports`, `specialist_activations`, `control_commands`; memory: client table, baselines, pending run states | hello, start, recover, acknowledgement, report, lifecycle, operator send/continue/restart/abort, restart of the process | a coroutine is suspended at every broadcast and drain, and others run; connections die; the process may be killed at any step |
| Attention | `broker_attention.py` | attention columns of `assignments` | settlement, reminder, recovery turn, attention, provider turn | a reminder given once, epochs of operator resumption, duplicates |
| Worker boundary | `extensions/orchestrator-worker*.js`, `protocol.py` | delivered ids, active assignment, settlement id, all journaled in the Pi session | accept a delivery, report, settle, reconnect | lost responses, replayed deliveries |
| Call admission | `call_admission.py` | `provider_admissions`, ceilings, pause flag | reserve a turn, extend | concurrent turns at a ceiling, repeated requests |
| Specialist activation, evidence reuse | `specialist_activation.py`, `evidence_reuse.py` | one decision per role and round | decide, retain | immutable, forced ones may not be skipped |
| Observers and parent | `broker_observers.py`, `extensions/orchestrator-parent*.js` | observer set, replay buffer; parent's view | attach, broadcast, reconnect | snapshot against live frames, bounded replay |
| Restart and handover | `broker.py`, `broker_control.py`, `commands.py` | role generation, restarting/recovering | restart, restart_failed, replacement's hello | stale messages of the old generation, crash in the middle |
| RPC supervisor | `rpc_supervisor.py`, `rpc_store.py`, `rpc_protocol.py` | journal (two segments), registry, mailbox | receive, transition, recover, stop | crash between journal and registry |
| Operator commands | `commands.py`, `recovery.py`, `broker_client.py` | stop receipts | stop, send, continue, restart | a stop must not hit a same-name successor |
| Relay | `relay.py` | markers, seen tokens | deliver marker | partial delivery |
| Startup and rollback | `start_commands.py`, `tmux.py`, `broker_store.py` | tmux session and panes, manifest, startup state | check, create, lay out, mark, launch, watch, roll back | two starts of one name, a death at any tmux call, workers that come and go under the watch |
| Storage | `broker_store.py`, `storage.py` | run database and its schema number | create, upgrade, read | an upgrade cut short between statements, readers that look at the same time |
| Supervisor API | `supervisor_api.py` | none of its own | event pages, listings, usage, snapshot | several reads of files that change in between |
| Broker pane | `dashboard.py`, `broker.py` | cached snapshot, last frame | refresh, tick, resize, notice | handlers, ticker and signals share one cache |
| Run state and evidence reuse | `broker_workflow.py`, `context_capsules.py`, `evidence_reuse.py` | pending and last capsule of a role, worktree stamps | deliver, defer, flush, remember, hint | sends that overtake, files edited under the observation |
| Planner, role resources | `planning.py`, `planner_evidence.py`, `worker_resources.py`, ... | | choose roles, hash and render resources | sequential, before a run |

What makes each part correct:

- broker workflow: a review is only given when the evidence is complete; once
  per round; ready means approved; nothing is forgotten; the repair limit holds;
- attention: whoever waits for the operator is shown, one reminder per assignment;
- worker boundary: an assignment is accepted once, a report counted once, and a
  worker never works on an assignment the broker has closed;
- call admission: no more turns than the ceilings, across repetitions, reminders and crashes;
- restart: an interrupted handover is never taken for recovered;
- RPC journal: the files a dead supervisor leaves are accepted by the next one, no
  command is delivered twice, and an acknowledgement is what Pi answered;
- stop receipts: a receipt says completed only if that run was stopped;
- commands: a receipt is final and the command had the one effect it says;
- parents: no accepted report and no end of a run is missed;
- usage: a provider call is counted once, for the assignment it was made in;
- startup: a start that fails leaves nothing, and admits no half-dead roster;
- storage: an upgrade never spends what belongs to an old assignment and hides nothing from a reader;
- relay: a notice that is marked as sent was sent, nobody is forgotten whose
  supervisor did not refuse it for good;
- supervisor API: nothing is left out that the answer does not call left out;
- pane: with nothing under way it shows the database as it is;
- run state: no report that a worker was to be told of is dropped, no hint is false.

`PROJECT.json` lists the hazards at their lines with the properties that cover them.

## Modules

`ReviewGate` is the abstract specification: what a run promises to the person who
started it. It has rounds, the evidence of a round, the stage of its review, and
the announcement "ready"; no workers, messages or connections.

`BrokerRouting` is the broker's workflow in detail.

| Model | Code |
|---|---|
| `workflow`, `round`, `pending`, `limit`, `paused` | `meta.workflow_state`, `.round`, `.pending_repair_round`, `max_repair_rounds` in `.continuation_policy`, `.call_admission_paused` |
| `asg[r]` | rows of `assignments` of a role in order of creation, with the report (`verdict`) and the attention columns (`owes`) |
| `active`, `rstate` | `roles.active_assignment_id`, `roles.state` |
| `decision` | `specialist_activations` |
| `conn`, `baselined`, `owed` | `Broker.clients`, `.worker_baselines`, `.pending_run_state` |
| `todo[t]`, `waits[t]` | what a suspended coroutine of connection `t` still does, and the socket it drains |

How interleaving is modelled. The broker is one event loop: between two awaits
nothing else runs, and a database section contains no await. So one section is
one action, and a coroutine is cut where it suspends: at `broadcast`
(`Pause`), and at a `drain` on the socket of a worker that does not read
(`Drain`, for the workers in `SlowRoles`). `Run` keeps the coroutine on the
processor: its next step comes before anything else (`Calm`, `Turn`). The
remaining work of a coroutine is a set of steps ordered by rank (`Ranked`), in
the order of the statements of `route_report`, `maybe_start_workflow` and
`handle_control`; steps of one rank (the loops over roles) go in any order.

Connections, messages, continuations and operators are the four groups of
actions. Each message action is one handler of `handle_message`; `Report` stops
at its broadcast, and `RouteEvidence`, `RoutePlan`, `RouteImplementation`,
`RouteApproval`, `RouteRejection` are the branches of `route_report`.
`Assign`/`Insert` is `assign()`, `Gate` is `maybe_assign_reviewer`, `Recover` is
`recover_role`, `Restart` is the death of the process and `_run` of the next one.

What is abstracted, and why it does not hide the properties:

- an exception from a dead socket is raised at the write or at the resumption of
  the drain (`Abandon`, `DrainFails`); `Outcome` says who writes `uncertain`;
- frames a lost connection had already buffered are not read; a reader would see
  them as messages sent before the loss, which the model also has;
- a crash may fall between any two steps, which includes between any two
  transactions of a coroutine;
- the paths a report names only matter for the decision they lead to: `Choices`;
- workers behave as the bundled extension does: lifecycle frames are bound to the
  assignment they hold;
- restart handover, abort, resume and settlement ids, run states and repeated
  control commands are in modules of their own.

`CommandLog` is the abstract specification of a role's journal: per command a
status that moves along `RPC_COMMAND_TRANSITIONS`, a count of deliveries that comes
after the record and never passes one, and the answer of the worker that a record of
acceptance or rejection must agree with. It has no processes, files or generations.

`RpcJournal` is the supervisor of one role in a run without a broker
(`rpc_supervisor.py` reads the mailbox only then), with its files, its clients, its
Pi, and the operator's process that stops the run.

| Model | Code |
|---|---|
| `archive`, `current`, `torn`, `saved` | the two journal segments, a cut last line, the registry file |
| `inbox`, `acks`, `asks` | request and acknowledgement files; what each client in `rpc_control_request` is doing |
| `proc`, `mem`, `work`, `writing` | the process that works on the journal: `run_rpc_agent`, or `mark_rpc_registry_stopped` in `stop_command`; its registry in memory; the rest of its handler; an event appended and not yet applied |
| `pending`, `aborting` | `pending`, `abort_requested` |
| `piUp`, `sent`, `verdict` | the child, what was written to it by which generation, what it answered |
| `stops` | how often the session was killed; the run does not come back |

How it is cut into steps. The supervisor is one thread, so what must be split is what
a death of the process can separate: a handler is a list of items (record a status
of some commands, note a lifecycle event, write to Pi, acknowledge, unlink) in the
order of the statements, and every item is an action. A record is two or more:
`Rotate` (unlink the archive, then move the full segment there), `AppendEvent`,
`SaveRegistry` (`apply_rpc_event` and the atomic save). `Crash` and `Stop` may fall
between any two, `TearAppend` inside an append, `Interrupt` (Ctrl-C, after which
`finally` goes on with the registry in memory) where `Interrupts` allows it.
`Start` is `initialize_rpc_registry`: `Loadable` are its checks, `Replayed` the
recovery. The same `Replayed` is what a reader of the files knows, and so the
refinement mapping to `CommandLog`.

What is abstracted: a token names its command for good, so the conflict of one id
with two contents is out; the initial prompt of generation g is the command g (its
token is a hash of worker id and generation); time stamps, display state and session
id are out; agent events when no prompt is open are recorded by the code and change
nothing else, and are out; a segment holds `SegmentSize` events instead of a number
of bytes. A supervisor is started by nobody in particular, as often as `MaxStarts`.

### The worker's side: `WorkerBoundary`, `WorkerUsage`, `CallAdmission`

These three have the bridge (`extensions/orchestrator-worker*.js`) and the broker at
both ends of a socket, with frames in order in each direction, connections that break
and take what is under way with them, requests the bridge gives up on and whose answer
comes late, and a broker that is killed and started again: the database stays, the
baselines and the client table do not.

| Module | State | Code |
|---|---|---|
| `WorkerBoundary` | `asg`, `closed`, `role`, `generation` in the database; `client`, `baseline`, `todo` in the broker's memory; `wk`, `got` in the bridge's journal; `process`, `cli` | `broker.py` hello, recover_role, handle_delivery_ack; `broker_attention.py`; `broker_workflow.py` report; `broker_control.py` send and restart; `orchestrator-worker.js`; `commands.py` restart |
| `WorkerUsage` | `calls`, `activity`, `reports`, `facts` in the database; `total`, `wk`, `found` in the bridge; `reading`, `answer` of another process | `broker.py` progress, lifecycle, guardrail, report; `orchestrator-worker-usage.js`, `-context.js`; `supervisor_api.py` usage, snapshot; `commands.py` status |
| `CallAdmission` | `ledger`, `limits`, `paused`, `task`; `bridge` | `call_admission.py`, `broker_attention.py` provider turn, `orchestrator-worker.js` before_provider_request, with the provider turn and the recovery turn (`step`) |

`WorkerBoundary` has one role. With `Suspends` every write and every broadcast of a
coroutine may suspend it, and `todo` is what it does when resumed, with the row it
read before. A delivery id is the assignment's number and the generation it is meant
for. `WorkerUsage`: all quantities of a usage record move together, so a usage is one
number; `Valid` is what `parse_usage` accepts; hellos are handled in order of their
connections; a status answer's loop over roles is one read transaction, and its
metadata and events are reads of their own; a guardrail frame that was lost is never
sent again, as in the code. `MaxFrames` bounds the frames under way. `CallAdmission`
has several workers, since the run's ceiling is shared. A turn there has up to two answers to
wait for: the grant, which is compared with what the bridge works on (`StillBound`), and for a reminded
worker the answer to its claim (`ClaimReminder`), after which nothing is compared (`Dispatch`). A bridge
handles all frames of a chunk before a hook that awaits one of them goes on, hence `Receive` between
the answer and what follows it. A settlement with its reminder is one step (`Settle`), and a settlement is
reported by an idle bridge; sends of the reminder that fail and settlements that cross other frames are in
`WorkerBoundary`, with the attention tool. Without enforced ceilings there is no first answer and no
reservation.

### Commands from outside: `ControlCommand`, `StopReceipt`, `Startup`

Every operator process is a sequence of steps of its own, each of which may be its last.

- `ControlCommand`: a CLI process (`broker_client.py`, `commands.py`) with its one
  connection, and its handler in the broker (`handle_control`), which goes on when the
  caller gives up. `receipt` is `control_commands`; `respawned` and `delivered` count the
  effects. A restart is answered first; its handler hangs up on the old worker afterwards (`HangUp`),
  who may have been replaced by then. It goes on in the CLI with the respawn of the pane and, if that
  fails, with `restart_failed` under an id of its own.
- `StopReceipt`: the directory lock, the receipt file (created, then written; truncated,
  then written), the observation of the tmux server, and the kill by tmux's session id.
  Runs follow each other under one session name.
- `Startup`: the tmux server (`session`, `splits`, `marker`, `pane`), the files (`saved`,
  `socket`), what the broker's database says (`flow`, `linked`), and the start process. Calls
  address the session by name, whoever bears it now, or a pane by its id: `Title` writes the panes'
  titles by id and fails if they are gone, `Mark` sets the session's options by name and marks whoever
  bears it. A session is known by the start that made it, which need not be the one that marked it.

### What others see: `Observers`, `EventFeed`, `RetainedRuns`, `Relay`, `Dashboard`

- `Observers`: the handlers of the broker with what each has still to do (`plan`), the
  connection of each parent (`server`), frames between them (`tube`: written, buffered,
  waiting for the send lock in order), and the parent (`parent`). A broadcast gathers the
  sends to all observers, each under its lock and with one second to end (`tube`'s `soon`,
  `line` and `holder` are asyncio's order). `Limit` is MAX_OBSERVER_REPORTS and the
  parent's 100. `paused` stands for what makes a published state `needs_attention`.
- `EventFeed`: rows and bounds of `supervisor events` are two reads of a table that is pruned
  in between, or of a journal of two segments and the registry beside it.
- `RetainedRuns`: directories enumerated in any order up to a limit, then loaded one by
  one, while starts publish and operators remove runs.
- `Relay`: scan, recipients, typing or mailbox, tokens on disk. A send to an RPC worker is
  acknowledged, not answered in time (the next scan may succeed), or refused: `refused` are the notices whose
  command id the supervisor knows as rejected or uncertain, or has no room for, and which it refuses
  in every scan, since the id is computed from marker and recipient. A worker that ends makes its open
  commands uncertain (`LoseWorker`). Tampering with the directory ends the relay (`Die`).
- `Dashboard`: handlers commit, answer and refresh; ticker, resize signals and failed reads
  and writes share `pane`, the members of BrokerDashboard. A frame is a look at the
  metadata, laid out for a size, with the turn of the spinner; the code's 12 turns are `Turns`.

### What is kept: `BrokerSchema`, `RunState`

- `BrokerSchema` runs the creation and the upgrade of the database statement by
  statement. `view` is what the upgrading connection sees, `db` what others see; Python's
  sqlite3 commits an ALTER or CREATE at once unless a row was changed before it in the
  same transaction. Loops over columns are told by their first and last. A lock that is
  busy for too long is an interruption. Another process reads the policies meanwhile.
- `RunState` has the capsules that tell a worker of the reports of others. `steps` is
  what a handler has left, `turn` who has the event loop, `queue` the sends under a role's
  lock of which the first is written and not drained. `files`, `look` and `receipts` are the
  worktree and its stamps; `fresh` and `owed` are history variables, what is true and who
  was to be told of what.

### Compositions

`Connections`, `Operators`, `Accounting`, `Readers` and `Progress` put the components
together that face the same part of the system. Within one of them the components
share no variable and no step of one enables or disables one of the other, so the product of their
states would show nothing that each alone does not: a variable `subject`, chosen at the
start, says which of them moves, and the others stay as they begin. A component
appears several times under different bounds (say, `Outages`, `Handover` and `Suspended` are
all `WorkerBoundary`), so that each hazard gets an instance in which it happens without the cost of all
others. The assumption of every instance is evaluated in `ASSUME BoundsAreAllowed`.
Where components do share state, they are in one module: the broker's workflow with its
connections and operators (`BrokerRouting`), the bridge with the broker's half of it
(`WorkerBoundary`), the supervisor with its clients and the stop (`RpcJournal`).

## Runs

| Run | Question | Bounds |
|---|---|---|
| `core` | no faults: is work ever forgotten, doubled, misplaced; does the broker implement `ReviewGate`? | specialists probe (forced) and django, phased start, repair limit 0, metered, one operator, 2 rounds |
| `faults` | with lost connections, slow readers, hang-ups, two operators and crashes: evidence, approval, limit, order of rounds | probe (forced), reviewer retained, implementer flaky, implementer and reviewer slow, 2 rounds |
| `liveness` | do runs start and settle, are rejections answered? | django, one operator, 2 rounds |
| `journal_crashes` | after any two supervisors that die anywhere: are the files accepted, is anything delivered twice, are the acknowledgements true; do the files implement `CommandLog`? | one prompt, one client that repeats it, segments of 2 events, 2 starts |
| `journal_commands` | with aborts, agent runs, Ctrl-C between records, torn appends, clients that die and a stop that is repeated: is a closed journal final, is every record permitted? | one abort, one client, 1 start, 2 stops |
| `connections` | outages, handovers and suspended coroutines of a worker's connection; a parent's replay, snapshot and live frames | worker: 2 assignments, 3 agent runs, 2 faults; 2 restarts; suspensions anywhere, with a recovery turn or a restart. Parent: 2 workers, a replay of 1, no buffer; one report with a crash and a break, two with a break |
| `operators` | stops, commands and starts that overlap and die | 2 stops of 2 runs under one name; 3 calls with 2 ids and 2 receipts; 2 starts of one name with 1 or 2 workers, 3 with 1; up to exchanging 2 stops, 2 calls and 2 starts (SYMMETRY `Exchanged`: no definition tells them apart) |
| `accounting` | are ceilings kept and calls counted once? | 2 workers, ceilings 1 and 2 of at most 3, 3 requests, 2 assignments; 3 requests on one assignment with one cut; workers that are reminded: 2 requests each time, two workers on one assignment, or one on two with a cut; usage: 2 calls, 3 connections, one lost answer, one restart; readers beside it |
| `readers` | what do others see while it changes? | an upgrade from each of the 15 schemas with 2 interruptions; a feed of 5 events of which 2 are kept, a journal of 6 in segments of 2; 4 runs, pages of 2; two reports for three roles, 2 faults; two handlers at the pane, 3 writes; two specialists with a slow send, one edit and one guidance |
| `progress` | does what was begun end? | one restart, one observer that never reads, 3 events, two reports with 2 faults |
| `lost_repair`, `uninformed_review` | where the documents promise more than the code does | the smallest instance that shows it |

A property of the compositions is a conjunction of those of the components, each stated
and explained in its own module, e.g. `BoundaryIsSound` of `ReminderOnce`, `SettlementsAreRuns`,
`LostReportIsLearned`, `EpochIsLearned` and `AcceptedIsReceived`. Each part has a mutant of
its own where a small change of the code breaks that part.

Why the bounds are enough. Two rounds give every transition between rounds:
first round to repair, reopened to repair, held-back repair to approved repair.
The third round repeats the second. A limit of 0 reaches the limit at once, and
`MaxLimit` = 1 allows one approval. Two specialists with different deciders (the
probe at startup, django at the implementation report) give every order of
evidence; a custom specialist is decided on like django. One operator gives every
single continuation, two give the races between them. The faults are split
between the runs because every fault multiplies the states by the steps it can
fall between; `KeepsPromise`, `NoOrphanAssignment` and `NeverForgotten` are not in
`faults` since the counterexamples below make them false there.

For the journal: the first supervisor delivers, the second recovers, and what a third
would find is what the second found, since recovery leaves nothing open and a
generation is only compared with its successor. Segments of 2 events rotate several
times in a run. `AlwaysRecoverable` needs `SegmentSize` to be at least `MaxStarts`: if more
supervisors die in a row between their first append and their first save than a
segment holds events, two rotations push unsaved events out and the next start finds
a gap. With segments of 1 MiB and events of some hundred bytes that takes thousands
of such deaths, and the bound keeps it out. `Capacity` (4096 commands in the code) is
never reached in the runs; `Full` only keeps the handlers complete. Aborts and crashes
with two starts are in different runs because each multiplies the states of the
other; prompts and aborts differ only in what an answer to them records.

For the worker's connection: the second assignment is what a late frame of the first can
damage; two faults give a loss during the recovery from a loss; a second restart finds
the first in any of its steps. For parents: a replay of one report is overtaken by one live
frame, and two reports overflow it. Nothing in the broker depends on how many
parents there are beyond the gather, which waits for each. For commands: two ids reach
the limit of two receipts, and the third call repeats one of them while it is
suspended. For stops: two of a name are the one that has it and the one that takes it. For starts it takes three
(`Crowded`): the first finds the panes of the third after the second, failing, killed the session of the
first. Then the first marks a session that it did not make and launches into it, which is why `NameIsUsable`
speaks of the session's start and of the last to mark it, and `AdmittedTogether` of a start whose panes
nobody else has found (`Unshared`). A fourth start can only do what the second or third does. For ceilings: with three requests a scope passes from free to full, one
worker's request uses what the other was to get, and an extension of 2 fails for the ceiling that
would pass `MaxAllowance`, where one of 1 does not. For the upgrade: one assignment, because no
statement relates two rows, but every first schema and two interruptions, because a
start after an interruption runs the statements again. For feeds and lists: more events
than are kept, more runs than a page, and, in instances of their own, than a scan.

Deadlock is not checked: a run that is ready with nobody attached really stops, and
so do a stopped run's journal, a completed command and an ended relay.

Every passing run ends within five minutes with two workers; the longest take about four.

## Counterexamples

What the documents, comments or docstrings of the repository say and the code does not
do. The first two are runs of the project, the others are configurations that show
them when called as `tlc -config X.cfg M.tla`.

| Configuration, module | Property | What happens |
|---|---|---|
| `BrokerRoutingLostRepair`, run `lost_repair` | `NeverForgotten` | the response to the operator is written between the reopening and the assignment of the repair (`broker_control.py:304`): if it cannot be, the round is open and nobody works |
| `RunStateReviewer`, run `uninformed_review` | `ReviewKnows` | the capsule is made before, the review gate looked at after a send (`broker_workflow.py:376`): the reviewer starts without a report its assignment waited for |
| `AccountingCrossed`, Accounting | `StaleGrantAborts` | the bridge compares its grant before it awaits the answer to its claim (`orchestrator-worker.js:665`, `:675`): guidance in the same chunk as that answer gives a turn in an epoch that its reservation is not charged to, where `references/provider-call-admission.md:53-55` says that a gate must abort on stale authorization |
| `ProgressRefused`, Progress | `EverybodyTold` | a notice that was refused once is repeated under the command id that is refused (`relay.py:155`), so that recipient is never told and the marker never closed, where CHANGELOG.md:405 calls delivery loss-resistant and `tests/test_hardening.py:730-761` expects the next scan to deliver |
| `BrokerRoutingTwoReviews`, BrokerRouting | `OneReviewPerRound` | the gate is checked before, and the review inserted after, the drain of the reviewer's capsule (`broker.py:797`) |
| `BrokerRoutingMasked`, BrokerRouting | `AttentionIsShown` | any active lifecycle reopens a workflow that waits for another worker's operator (`broker.py:1240`) |
| `RpcJournalInterrupted`, RpcJournal | `AlwaysRecoverable` | Ctrl-C between an append and its application (`rpc_store.py:625`); `finally` appends a second event with the same number, and the journal is refused from then on |
| `WorkerGuidanceLost`, WorkerBoundary | `GuidanceArrives` | guidance is committed as accepted and lost with the socket; the replay under the old delivery id is a duplicate to the bridge, and nothing is uncertain (`broker_control.py:417`) |
| `WorkerDoubtCleared`, WorkerBoundary | `DoubtSurvivesReconnect` | a hello makes an uncertain role idle (`broker.py:348`) |
| `WorkerEpochBack`, WorkerBoundary | `EpochsGoForward` | `recover_role` sends the epoch it read before two broadcasts (`broker.py:703`) |
| `StopReceiptDamaged`, StopReceipt | `ClaimsStayReadable` | a stop that dies between creating or truncating its receipt and writing it leaves an empty file, which no retry accepts (`recovery.py:163`) |
| `ControlOverlap`, ControlCommand | `DeliveredOnce` | a retry that arrives while the first handler is suspended finds no receipt and delivers again (`broker_control.py:120`) |
| `StartupRollback`, Startup | `RollbackIsExact` | a start that fails after another took the name kills the other's session (`start_commands.py:267`) |
| `RetainedRunsMany`, RetainedRuns | `NewestIsListed` | enumeration stops in directory order, so older runs are listed in place of newer ones (`supervisor_api.py:172`) |
| `ObserversPause`, Observers | `EveryPauseIsTold` | guidance makes the workflow active without a broadcast; the parent then swallows the next pause as one it knows (`broker_control.py:436`) |
| `ObserversReady`, Observers | `ReadyHasReports` | a live `ready` overtakes the replay, and the parent reports a result without the rest (`broker_observers.py:153`) |
| `BrokerSchemaInterrupted`, BrokerSchema | `NeverRefused` | the upgrade of schema 1 or 2 cut short after its first ALTER is refused by every later start (`broker_store.py:351`) |
| `BrokerSchemaReader`, BrokerSchema | `PoliciesAreReadable` | a reader finds no policy row, the upgrade commits, and the reader, now seeing the new number, fails (`call_admission.py:79`) |

More have no configuration of their own. `WorkerEpochBack.cfg` with the property
`AuthorizationStands` shows that a settlement whose reminder fails takes back an authorization given meanwhile, and with
one restart and `RestartIsKept` that the same handler overwrites "restarting" (`broker_attention.py:190`).
`BrokerRoutingTwoReviews.cfg` with the reviewer in `FlakyRoles` and `ReviewerIsTriggered`: the reviewer is offline when
the last evidence comes in, `assign` returns silently (`broker.py:795`) and nothing asks again. `NoticeStays` in `Dashboard` does not hold: a tick paints the cached snapshot over the
notice that it could not be read (`dashboard.py:1245`). `TransitionsAreSeen` there does
not hold where the operator has hung up: the refresh after the answer is passed over
(`broker_control.py:304`). `Accounting` with `MaxDeaths` of 1 in
`Usage` violates `ActivityIsLive`: a broker that was killed leaves a streaming role
active until its worker connects (`broker.py:197`). `CumulativeCovers` in `Reads` does not hold:
the page of assignments is read after the cumulative usage (`supervisor_api.py:585`). `LatestIsListed`
in `Observers` does not hold: a live report overtakes an older one of its role and round in the replay
(`broker_observers.py:153`). Nor does `NewerStateStays` there: a reopened run broadcasts a captured
`active` after a newer pause (`broker_control.py:309`). The properties of the passing runs are what holds beside them.

## Fairness

Only `liveness` and `progress` assume any. The other runs check safety, and a process
that died is not started again unless something in the code does so. For `BrokerRouting`:

`FairSpec` assumes: every coroutine that can go on does (`Turn`, the event loop);
a worker bridge keeps connecting (`orchestrator-worker.js:359-385` retries
until its session ends); and a worker whose agent runs ends its assignment, by
the report tool, the attention tool, or the settlement after its last turn
(`orchestrator-worker.js:682-699`). A worker that was reminded gets its turn. A
worker that waits for the operator owes nothing, and neither do operators: hence
`RunSettles` ends in ready or needs_attention. Fairness is weak throughout.
`liveness` has one specialist so that nobody works in parallel with a waiting
worker, where the masked attention of the counterexample above would make `RunSettles`
false; and it has no faults, because a connection lost at the wrong moment
strands the run.

In `Progress` each component has the fairness of its own `FairSpec`, under the condition that it is the
subject:

- a CLI process whose restart was accepted goes on (weak), and the process it respawned
  connects (weak): then the role leaves "restarting", or the broker is down;
- the event loop runs what can run and `wait_for` ends after its second (weak); no parent is ever made to
  read: then every handler's broadcasts end;
- a client keeps polling each role, and its reads are served (strong for what the other roles' polls
  interrupt and a busy database delays: a reader waits two seconds, and the broker's transactions are
  short): then it catches up or is told of a gap;
- the relay's loop runs while the session does (weak), and faults are bounded: then every enabled recipient
  of a report that stays good is told, unless its supervisor refused the notice for good (`NobodyForgotten`).
  The exception is the code's, as `ProgressRefused` shows: nothing ever clears a refusal, so no fairness helps.
  What is left is that no refusal or silence of one recipient keeps the notice from another.

`StopReceipt`, `Startup` and `Observers` state liveness properties of their own (`Reconciled`,
`StartsSettle`, `EndIsReached`) that no run checks; they were left out of `progress`, whose temporal
checks take most of its time.

## Proofs

`BrokerRoutingProofs` proves, for any specialists, operators, fault sets and bounds, with connections
lost, sockets that drain slowly and the broker killed. From `ConstantAssumption` alone:

- `TypeCorrect`: `TypeOK` always holds. It is not inductive: `Advance` opens
  round `x.round + 1`, which is in the bound only because a rejection is taken
  there. `Typing` adds `NextRoundExists`, which says so of every pending step.
- `ReviewsHaveEvidence`: `ReviewHasEvidence` always holds. The gate is checked in
  one step and the review inserted in another, so the invariant has to speak of
  coroutines in flight. `EvidenceInv` adds: the active assignment is unfinished
  (a report completes the one row the role points at), forced specialists are
  never decided "skipped", and every pending insertion or gate of a review is for
  a round whose evidence is complete (`ReviewQueue`). Evidence is stable because
  completed rows stay (`RowsStay`) and decisions are immutable (`EvidencedStays`).
- `RepairsStayWithinLimit`: `RepairsWithinLimit` always holds. Inserting a repair
  adds at most one round to a finite set that is below the limit (`NewRepair`),
  and an approval only raises the limit (`LimitGrows`).
- `ReadyRunsAreReviewed`, `RoundsNeedVerdicts`, `PromiseKept`: `ReadyIsReviewed`, `RoundNeedsVerdict` and
  that the broker implements `ReviewGate` (`KeepsPromise`, its safety part). All three follow from
  `VerdictInv`: a round may be given two reviews, but only one of them is ever judged. A report needs a
  reviewer that reads, so no review is on its way to it then, and afterwards the gate is shut. So the
  step that carries a verdict out, the reopening of a ready run and its announcement exclude one another
  (`OneAtATime`), and what is in flight is for the current round (`Sound`). The actions are sorted once into
  five kinds (`NextKind`: a step that decides nothing, an assignment, a report, the opening of a round, the
  announcement); each kind keeps the invariant, and each is one step of `ReviewGate` or a stutter
  (`StepKeepsPromise`).

From `OneReopens` - there is one operator, or the implementer reads its socket:

- `WorkIsGivenOnce`: `OnceInv` always holds. A step in flight that will become an assignment is the only one
  for its role, and the role is free for it (`Proper`, `Separate`); a start, a reopening and a message to a
  waiting worker are alone; specialists have one row per round (`OneRow`), the implementer works on a round that
  is not implemented (`Building`). The proof has one lemma per action; most are `InertStep`s, which trade a
  step for the next of the same work.
- `ReadyRunsAreQuiet`, `RepairsStayParked`: `ReadyIsQuiet` and `PendingIsParked`, which follow from it.
  `OneReopens` is needed: when two operators send to the implementer of a ready run while its socket drains
  slowly, both get past the look at the workflow's state and open the same round one after the other, and
  the second declares the run active again after the limit has held back the repair of the first. TLC shows it with
  `Operators = {o1, o2}` and `SlowRoles = {"implementer"}`.

From `ReviewerReads` - the reviewer's socket does not drain slowly:

- `ReviewsAreBegunOnce`, `RoundsAreReviewedOnce`: `OneReviewPerRound`. Between the gate and the reviewer's row
  nothing else runs, so no second gate passes (`FirstReview`), no round has two reviews (`Singles`) and
  the reviewer has one open row (`OnlyReview`). The run `BrokerRoutingTwoReviews` shows that the
  assumption is needed.
- `RowsAreReachable`: from both assumptions, `NoOrphanAssignment`.

From `Dependable` - no connection is lost, no operator hangs up, the broker is not killed - and `OneReopens`:

- `NobodyIsForgotten`: `NeverForgotten`, for sockets that drain slowly, coroutines suspended anywhere and any
  specialists. `AccountInv` is a balance of the round: for every part of it that is not finished (`Built`,
  `Routed`, `Probed`, `Gated`, `Reviewed`, `Turned`, `Ended`) either somebody has the assignment, or a coroutine has in
  hand the step that goes on with it (`Due`, `Routing`, `Asked`, `Turning`, `Ending`). Most steps of a coroutine only pass
  on what was in hand (`HandsPass`, `PassingKeeps`), since its steps come in order of rank (`Orderly`). `Dependable`
  is needed: the run `lost_repair` shows what a hang-up does, and a lost connection strands its role.

TLC has checked `VerdictInv`, `OnceInv` and `ReviewInv` part by part, on instances with every fault that the
assumptions allow, before they were proved. Each proof has one lemma per group of actions and one step per
action under it.

`RpcJournalProofs` proves, from `ConstantAssumption` alone, so for any commands,
clients, segment size, number of starts and stops, and with Ctrl-C anywhere:

- `TypeCorrect`: `TypeOK` always holds. Applying an event takes the item at the head
  of the handler off, so the invariant must know that there is one (`WritingFits`).
- `DeliveredAtMostOnce`: `DeliveredOnce` always holds. The invariant
  `DeliveryInvariant` says where a write to Pi can be due: directly behind the
  record of its command, or at the head of the handler when registry.json has the command and nobody
  wrote it (`SendsFollow`). The step between the two is `SaveRegistry`: the record
  was permitted, so the command was unknown in memory; what registry.json has, memory
  has (`NothingForgotten`); what was delivered, registry.json has
  (`DeliveredIsSaved`); so it was not delivered. A restart keeps this because a reader of
  registry and journal never knows less than the registry (`ReplayForgetsNothing`). No fact
  about sequence numbers or rotation is needed, which is why the counterexample with Ctrl-C does
  not touch this property.

From the same assumption, Ctrl-C anywhere included:

- `AcknowledgementsAreTrue`: `AckIsTrue`. `AnswersInvariant`: every place that holds a command's status - the
  handler, the registry in memory and on disk, the journal, the pipe, the client - agrees with the verdict,
  and a verdict never changes.
- `GenerationsAreDistinct`: `GenerationsDistinct`. `GenerationInvariant`: generations rise along the journal, and
  strictly at a start, which takes one above all it finds (`Rising`, `Opening`); nobody knows the prompt of a
  generation before the generation itself (`OwnRegistry`, `OwnEvents`, `OwnItems`).
- `RecordsAreNeverRefused`, `OpenCommandsAreOurs`: `RecordsArePermitted` and `OpenIsOurs`. `HandlerInvariant`: what a
  handler has still to record is permitted from what will have been recorded by then (`Doable`, `PhaseItems`),
  and a running supervisor's open commands are being sent or have been sent to its own Pi (`Ours`, `Waiting`).

What holds of the files follows from `DeathsAreFew`: Ctrl-C does not arrive
between an append and the save of the registry, and there are at most as many process deaths
(`MaxStarts + MaxStops`) as events in a segment, plus one. Neither is idle: a segment is 1 MiB and holds thousands of
events, and a death leaves at most one event unsaved; the bound is tight, TLC finds `AlwaysRecoverable`
violated with one event per segment and three deaths; and Ctrl-C at that place is the defect
that the run `RpcJournalInterrupted` shows. Every passing run satisfies it.

- `FilesAreRecoverable`: `AlwaysRecoverable`. `FilesInvariant` says that the events of the two segments are numbered
  without gaps and each generation begins with its start (`Numbered`, `Succeeding`), the registry is not ahead of
  them and they hold all that it lacks (`Joined`), which is at most one event per start and stop (`Backlog`), and the
  process that works knows where they end (`InStep`).
- `JournalImplementsLog`: `Implements`, that the journal implements `CommandLog` step by step. `Mirror` says that memory
  is what a reader would make of the files, so a restart, which reads them, is a stutter.
- `ClosedRegistriesAreFinal`: `ClosedIsFinal`. `ClosingInvariant`: files that note the end have no open command
  (`FilesShut`), and a handler notes it only behind a final status for every command that is open, with nothing but
  the exit behind it (`Closes`).

`ReaderPartsProofs` proves of the upgrade, from `VersionsAreNumbers` and `StopsAreCounted` alone, for any
assignments, first schemas and number of interruptions, all that `readers` checks of the upgrade:

- `SchemaTypes`: `TypeOK`.
- `NumberHonest`, `OwnSchema`, `TurnsKept`: the number in the file promises nothing the file does not
  hold, a broker serves only its own schema, and no later start spends a new assignment's turn. The invariant
  relates three things: what the file held when the upgrade began, what the upgrade has done up to its
  program counter, and which of it is kept already. What a statement adds is never taken away
  and the number is written last, in the transaction that completes the rest.
- `UpgradeRestarts`: from schema 3 on no start refuses the database because an earlier one was cut
  short. Every ALTER of those steps looks at the columns first; the statement excludes exactly
  the schemas of the counterexample `BrokerSchemaInterrupted`.
- `ReadersFindTheirs`: a reader looks before it reads, and tables and columns only grow.
- `OldAreSettled`: whichever start finally completes the upgrade, an unfinished old assignment gets no
  automatic turn and a finished one counts as accepted. The invariant `Marking` says that, while
  the number is old, the statements that mark the assignments are still due or their marks are in `view`.
- `UpgradeSafe`: the conjunction, `UpgradeIsSafe`.

`CallAdmissionProofs` proves, from `ConstantAssumption` alone, for any workers, ceilings, extensions
and bounds, with ids asked for again, workers reminded, connections lost and the broker killed:

- `TurnsWithinCeilings`: `WithinCeilings`. A grant adds at most one row to what a scope counts
  (`CountedFinite` and the lemma on one more row), it is given only where there is room in every scope
  it counts in, and ceilings only rise. So every count stays within its ceiling (`EveryCount`), and the
  property follows for the turns that were granted. The ledger has to be finite for this, which the invariant `Bounded` says.
- `CeilingsTogether`: `CeilingsMoveTogether`, because `Raised` is taken for every scope or none.
- `RefusalsShown`: `RefusalIsShown`. The invariant `Shown` says that whoever is held back *and connected* is
  waiting; a connection that ends clears the role's "waiting" and its reconnection sets it again.

`OperatorPartsProofs` proves of the local stop, from `StopReceiptAssumption` alone, for any runs under one name, clients and
ids, and with a death at any step:

- `StopsAreAimed`, `CompletedAreGone`, `OneAtATime`, `CompletedStay`: the four parts of `StopsAreExact` other than
  the type. None is inductive alone: the invariant says that a stop between claim and completion holds its
  run's lock and that the receipt is what this stop left of it (`Held`), that the session it observed is its
  run's as long as that session exists (`Aimed`, since tmux never uses an id twice), and that whoever is about to
  complete has seen the run gone (`Seen`, which lasts because a run is started once).

- `StopTypes`: `TypeOK`, for any finite set of runs. A lock is held by a stop of its run (`Locks`); tmux's
  ids do not exceed the runs that were started, since each is started once (`Counted`); a stop that has given
  its lock back holds no other (`Parting`).

It proves of the start, from `StartupAssumption` alone, for any number of starts of one name, any roles and
bounds, and with a death at any call:

- `TypeCorrect`: `TypeOK`.
- `FailedStartsAreGone`, `NamesAreUsable`: `FailedIsGone` and `NameIsUsable`. First there is a lemma per variable on how
  any step may change it (`StepEnters`, `StepOfServer`, `StepFills`, `StepLaunches`, `StepWatches`), so that the
  invariants need no case per action. `NameInv` says that a session exists only after its start created it (`FirstBorn`), that
  a start which is through with its rollback bears no session, although it kills by name (`NothingLeft`: after the kill the name is
  free or another's), that a start past its marking has a marked session (`OwnsAreMarked`) and that whoever has marked
  and gone on has saved (`MarkedAreSaved`).
- `CustomRunsAreWhole`: `AdmittedTogether`. `WatchInv` follows the watch over its rounds: what a start has listed it launched
  in (`Rooted`), its panes hold its own processes or dead ones (`OwnPanes`), a state that was read is
  still true (`Rounds`), and if the previous round was good while the run was not whole, some pane is lost for good and
  is still to be looked at in this round (`Doubted`).

`OperatorsProofs` proves two properties of the run `operators` for the composition itself: `StartsStayExact` and
`StopsStayExact`. Each instance of a component has an instance of the component's proofs beside it; a lemma says that
the two are the same (`StopIsProved`, `PlainIsProved`, `CrowdedIsProved`, `WatchedIsProved`), and a step of the composition is a
step of the subject that leaves the others alone (`StepOfOne`).

`ReaderPartsProofs` proves of the relay, for any reports, roles and recipients:

- `TokensAreEarned`, `RpcOnce`, `RepeatsArePaid`: the safety properties of `NoticesAreSent`. The invariant counts:
  what was submitted or stands in an editor, for any notice, is at most the faults so far, and one more if
  its token is on disk or it is between typing and marking (`Spent`); a refusal and a lost worker only
  add to `refused`, which submits nothing. `Order` says that text stands in the editor before
  Enter and that a notice is out before it is marked.
- `RelayTypes`: `TypeOK`, where the bounds of the counters follow from that count.

It proves of the pane, from `DashboardAssumption` (the animation has two turns or more, which a spinner of 12 does):

- `PaneCurrent`, `PaneLast`, `FramesRare`: `PaneIsCurrent`, `LastIsShown` and, where the pane is no terminal, `FramesAreRare`.
  `PaneInv` says what each member is worth between the steps. Once a notice is up nothing counts as shown; if no handler
  is under way, none ended without its refresh and the last one got through, what was read is true (`Fresh`). On a terminal
  the last frame is the cached look with the spinner as it stands, and it is on the screen, unless a tick failed while
  it was written: then the spinner has moved on, so the next frame differs and is written (`Latest`, `Stale`;
  this is where one turn would not do). Elsewhere the ticker is off, the last line is of the summary
  that the next one is compared with (`OfLines`), and before a whole frame there is a notice or a failed line (`Apart`).
  Every refresh is one of two things, `GetsThrough` or `LeavesNotice` (`RefreshIs`), so that each is looked at once.
  The attempt showed that `FramesAreRare` was false of a model in which a failed line left no trace: with
  two faults the notice may fail too, and a frame follows a frame. `Tear` leaves the trace now, and `readers` has two faults.

It proves of the event feeds, from `FeedAssumption`, for any streams, roles, retention and page size:

- `NothingIsLost`, `AnswersAreTrue`: `NoSilentLoss`, `OnceInOrder`, `CompleteUnlessTruncated`, `GapIsReal` and
  `SynchronizedRecord`. `FeedInv` bounds what a call has read by where its stream stood when the call began: rows found
  are those after the cursor that were recorded by then (`CallInv`), and the bounds read later only move up, so
  that whatever was pruned in between shows as a gap. What an answer claims is settled when it is
  made and stays so while the stream grows.

It proves of the lists of runs, from `RetainedRunsAssumption`:

- `ScansAreHonest`: `HonestPage` and `ResolvedIsNewest`. A run that was there since the request began is in what is still
  to be enumerated or loaded, on the page, behind one on the page, or accounted for in the answer
  (`LeftInv`, `SessionInv`).
- `NewestFirst`: `NewestIsListed`, where a scan looks at all the runs of a session (`Fits`). Without it the code
  does list an older run in place of a newer one: `RetainedRunsMany`.

`RunStateProofs` proves of the capsules, from `RunStateAssumption`, for any specialists, retained contexts, files and bounds:

- `ReportsAreTold`: `NothingIsDropped`. `QueueInv` says that, unless a role's capsule is deferred, the last run state that was
  written to it or waits in its line is as new as what it was to be told, and so is the one the broker keeps of it,
  which a handover sends again (`Replay`); one made for the deferred has every report there is. `StepInv` bounds what
  is still in a handler's hands: what it has left to do is a plan of the code (`Plan`), its capsules are of reports
  that were accepted, only the reviewer's opens a round, and whoever goes on without giving way is the one
  that has the loop. The property had an exception once, for runs in which some handler had failed; the
  proof showed that it is not needed, and it is gone.
- `HintsHold`: `HintsAreTrue`. `LooksInv` says that what the observation under way has read of a file is no newer than
  the file (`LookType`), that a receipt which agrees with all the files is of a fresh report or of the one being
  remembered (`ReceiptInv`), that the first inventory, if it still agrees when it ends, is of files nobody has touched
  since the report was accepted (`RememberInv`), and that a receipt the first inventory agreed with is fresh as
  of its end, or the second will notice the difference (`HintInv`). Neither inventory
  is enough alone, as the mutant `StampOfOne` shows.
- `CapsuleTypes`: `TypeOK`.

`ReadersProofs` proves four properties of the run `readers` for the composition itself, `NoticesStaySent`,
`PaneStaysTrue`, `PagesStayHonest` and `EvidenceStaysTrue`, in the way of `OperatorsProofs`.

Two definitions had to change before anything could be proved of them: arms of a CASE that overlap
(`RetainedRuns`, `ControlCommand`), where TLC takes the first and the semantics leave the choice open, and an
order by `SortSeq` (`EventFeed`), now by rank.

TLC checked the strengthened invariants on the instances of the runs before they were proved.

Only model-checked, and why:

- the liveness properties and the fairness they rest on, which are out of the prover's reach;
- of the compositions `BoundaryIsSound` and `CommandsAreExact`, and the action properties of
  their components, whose inductive invariants are still to be written.

## Plan

Done: the broker's workflow with its abstract specification, the RPC journal with its own, the worker's
connection, handovers, commands, stops, starts, ceilings, usage, observers, feeds, lists, the
relay, the pane, the schema and the run state; the proofs above.

Left, in this order:

1. Proofs: the safety properties of `WorkerBoundary` (`ReminderOnce` first).
2. The path rules of `specialist_activation.py` as functions of a report, against a reference definition.
3. Context-window candidates and compaction (`worker_context.py`).
4. A rejected report, and guidance to a worker without an assignment, in `WorkerBoundary`.

## Not modelled

Whole parts: the planner and configuration choose a run's constants before it starts, once and in one
process; hashing, validation and rendering of role resources and worker capsules is a function of files.
Parsing, frame layout, file permissions and output are validation of data or presentation. `PROJECT.json`
gives the reason for each part.

In the modules, beside what is said above:

- `BrokerRouting`: restart handover, abort, epochs and repeated command ids are in the modules for them.
- `WorkerBoundary`: rejected reports, lifecycles and guardrail frames (they are in `WorkerUsage`), guidance without an
  assignment, two restart commands at once (they are in `ControlCommand`), receipts.
- `WorkerUsage`: context candidates, compaction, the text of budgets.
- `ControlCommand`: `continue` is in `BrokerRouting`. Whether a command conflicts with the role's state is left to
  chance. Handlers that are suspended together can overrun the registry's limit, as in the code. The hang-up of a
  client of an older version is one with a restart of the broker.
- `StopReceipt`: a stop that dies between completing and finalizing is never finalized, as in the code; a plain stop
  kills by name.
- `Startup`: the race of two starts for the session's directory, attaching, the contents of startup.json,
  the metadata of a collision. "Initializing" is one with what follows it.
- `Observers`: authentication, validation and contents of frames, attaching with triggerInitialActionable=false.
- `EventFeed`: the client begins at 0; the gap flag is for the whole run in brokered runs, as in the code; torn appends are in
  `RpcJournal`.
- `RetainedRuns`: runs_truncated and run_issue_count. A valid run outside a scan of 100 entries is reported as
  an issue, as in the code.
- `Relay`: that names sort is left out. A session that is stopped and started anew is another run. Who repairs a
  refused notice by hand is outside.
- `Dashboard`: layout, widths other than two, sanitizing, a terminal that fails at the start, torn pane details, the
  overlay in Pi.
- `BrokerSchema`: version 0 is a database in the making; which policy row is unreadable is chosen at first.
- `RunState`: the planning phase, the rule for custom roles of schema 6, reopening by the operator, the repair limit,
  a death of the broker (its capsules are lost by design, and the worker is told again), uncertain deliveries at a
  reconnection, a second review of a round (it is in `BrokerRouting`; here a round's review is the one of the round it is
  reported in). The gate and the review act for the round their handler's report was of. A send fails when its connection ends, and the end of a socket is noticed after the handler's
  current message. Files that git ignores and edits within one tick of the file system's clock cannot be observed by the
  code and are not in the model.
