# AhaStation: formal verification of the Meeting core

AhaStation is an Electron application in which a Coordinator model plans the
work of a *Meeting* and Worker models carry it out. A Worker's result becomes a
frozen commit, is reviewed, integrated on a Meeting branch, and at the end the
user publishes that branch onto their own base. This directory holds TLA+ models
of that path and of what surrounds it (dispatch, mailbox, permissions, hosts, the
inspector window), the TLC runs that check them and the TLAPS proofs about them.

The reference is the code under `src/electron/` and, for the inspector,
`src/src/`. Documents of the repository are
used for what the system *promises* (ADR-0001 in `src/docs/adr/`, the design
document `src/docs/plans/2026-07-24-meeting-task-collaboration-design.md`), never
for how it works.

* [1. The system](#1-the-system)
* [2. The modules](#2-the-modules)
* [3. Runs, bounds and fairness](#3-runs-bounds-and-fairness)
* [4. Proofs](#4-proofs)
* [5. Where code and documents disagree](#5-where-code-and-documents-disagree)
* [6. What is not modelled](#6-what-is-not-modelled)
* [7. Plan](#7-plan)

## 1. The system

One Node.js process, one event loop: between two `await`s code runs alone, at
every `await` anything else may come in between. Persistent state is the Meeting
journal (an append-only JSONL file), a snapshot file, and Git repositories.

| Component (in `src/electron/`) | State it keeps | Operations | Talks to |
|---|---|---|---|
| Meeting journal, `meeting-repository.ts` | file of lines, snapshot and its `.tmp`, reserved numbers, promise chain `tail`, two fault flags | append, snapshot, flush, replay, listRecoverable | everyone awaits its appends |
| Worker scheduler, `worker-scheduler.ts` | one handle per task (status, attempt, delivery, claimed report, session), plan version | start plan, revise, spawn, signals of a Worker, follow-up, rework, sweep, interrupt, restore | harness, mailbox, journal, workspaces |
| Delivery harness, `delivery-harness.ts` | one view per delivery (status, attempt, candidate, reports) | propose, decide, submit report, complete or send back a review, restore | verifier, candidate, review driver, queue; observers in the scheduler |
| Delivery candidate, `delivery-candidate.ts` | HEAD of the task's worktree | freeze, reopen | Git |
| Coordinator review, `coordinator-review-driver.ts`, `coordinator-review.ts` | one session per attempt (coverage, turns, status) | request, submit verdict, confirm, complete, send back, charge a turn, pause, resume, restore | harness and scheduler through callbacks, Coordinator through notifications |
| Integration queue, `integration-queue.ts`, `delivery-integrator.ts` | durable head, accepted keys, publication, Meeting branch and worktree | enqueue, process, publish, resolve, restore, initialise | Git, journal, verifier |
| Final delivery, `orchestrator.ts`, `meeting-delivery.ts` | the delivery on offer, the decision, one shared build | build, accept, rework, recover, reconcile | scheduler (plan), queue (head, publication), journal |
| Orchestrator, rest of `orchestrator.ts` | Coordinator host, watchdog, snapshot | wiring of all the above, recovery of tasks | all |
| Task mailbox, `task-mailbox.ts` | messages per task with numbers and status | enqueue, deliver, acknowledge, fail, restore | journal; scheduler |
| Permission broker, `permission-broker.ts` | requests it tracks with timers, native confirmations | submit, answer, time out, withdraw | OpenCode adapter, scheduler, UI |
| Task authority, budget, workspaces | grants and what approvals added, attempts, path locks | evaluate, extend, lock, release | scheduler |
| Hosts, `host-group.ts`, `cross-host-bus.ts`, and the rest of `orchestrator.ts` | registered hosts, their talker sessions, the coordinator, waiting messages, questions with timers | start, add, remove, restart, switch coordinator, post, ask, end | adapters, scheduler |
| Task inspector, `src/lib/meeting-store.ts`, `ipc/tasks.ts`, `preload.cjs` | projections per task, reference counts, hydrations, subscriptions | open, hydrate, close, subscribe, forward | components, journal |
| Backend adapters, `backends/` | a child process or connection each | start, send, end, signals | hosts, scheduler |
| Observation, companion, IDE, terminals, browser, speech, IPC, renderer | windows, child processes, view state | input and output | the above |

What makes each of the core parts correct, and what is hard about it:

* **Journal.** What `append` resolved is there after any restart; no
  acknowledged event overtakes a lost one; replay is ordered. Hard: torn writes,
  failing I/O in the middle of overlapping calls, replacement of a snapshot that
  is not atomic on Windows.
* **Task delivery.** Nothing with files is integrated unreviewed; a review is
  of the commit that gets integrated; a task that was closed is not reopened by a
  late answer; a review with a silent Coordinator ends. Hard: four components
  hold a part of one state and follow each other through awaits and once-only
  callbacks; a restart restores them from a snapshot that is older than the
  journal and than the worktree.
* **Integration queue.** Only accepted candidates reach the base; what a restart
  reads back is what the process had; a candidate that fails leaves no trace on
  the head. Hard: a crash or a rejected journal write at each of a dozen awaits,
  while the user commits to their base.
* **Scheduler.** A task that ended owns nothing; the slot limit and the path
  locks hold; what comes free is used. Hard: a launch crosses five awaits, and a
  second launch of the same task, an interruption, a stall restart or a plan
  revision may come at each of them.
* **Mailbox.** What memory says a restart would read; nothing is acknowledged
  undelivered, or sent twice. Hard: four paths send messages, each awaits the
  journal, and the status is written before the append.
* **Permissions.** Nothing runs that nobody allowed; nothing waits forever. Hard:
  a decision takes effect after a journal write, answers are routed by a name, two
  kinds of timers, and confirmations outlive their session.
* **Hosts.** A message is heard by whom it was sent to; a ready host is served;
  sessions stay reachable. Hard: start() crosses two awaits while hosts are removed,
  added again, restarted and made coordinator, and the backends end differently.
* **Inspector.** What is shown is exactly the journal from a point on; what nobody
  shows is let go. Hard: snapshot, pages, replay and live stream have to join
  without a gap or a repetition, for components that come and go.
* **Final delivery.** One decision per delivery; what is offered covers the
  plan and is in the head; a half-made decision is completed or dropped on
  restart. Hard: a build shared by callers, reads at different times, three
  journal lines and a Git merge per decision.

## 2. The modules

| Module | Models | Extends |
|---|---|---|
| `IntegrationQueue`, `MCIntegrationQueue` | queue and Git integrator | |
| `MeetingLedger` | abstract specification: what a Meeting promises about its head and the base | |
| `IntegrationQueueLedger` | the refinement mapping | `IntegrationQueue`, instance of `MeetingLedger` |
| `IntegrationQueueProofs` | theorems | `IntegrationQueueLedger` |
| `MeetingJournal` | journal, snapshot and recovery | |
| `TaskDelivery`, `MCTaskDelivery` | the deliveries of one task | |
| `TaskDeliveryProofs` | theorems | `TaskDelivery` |
| `FinalDelivery`, `MCFinalDelivery` | the final delivery and its decision | |
| `FinalDeliveryProofs` | theorems | `FinalDelivery` |
| `WorkerScheduler`, `MCWorkerScheduler` | dispatch, launch, end and restart of the tasks of a plan | |
| `WorkerSchedulerProofs` | theorems | `WorkerScheduler` |
| `TaskMailbox` | the mailbox of one task and the sessions it feeds | |
| `TaskMailboxProofs` | theorems | `TaskMailbox` |
| `TaskPermissions`, `MCTaskPermissions` | permission requests, cards, timers, memories | |
| `TaskPermissionsProofs` | theorems | `TaskPermissions` |
| `HostGroups`, `MCHostGroups` | hosts, coordination, messages between hosts | |
| `MeetingProofs` | theorems | `MeetingJournal`, `HostGroups` |
| `TaskInspector`, `MCTaskInspector` | the inspector's projection and its event stream | |
| `TaskInspectorProofs` | theorems | `TaskInspector` |

An action stands for what the code does between two awaits. Definitions carry
the names of the functions they translate; `PROJECT.json` maps each of them to
its lines. A definition whose name ends in a fault, or whose comment begins with
"Mutant", is a faulty variant of the one below it: substituting it must break a
property, which shows that the property depends on the code doing it right.

### IntegrationQueue

`tail` is `waiting`, the operation it runs is `job` with the next step `pc`. A
commit is the sequence of commits above the Meeting's start, so "ancestor" is
"prefix". The journal is kept as what `restore()` computes from it (`log`); each
`Log...` operator is one appended event. `persist()` either writes, or rejects
having written or not, and every later write rejects too (the repository stops
at its first fault). Git may refuse any call; the user may commit on the base
between the check and the merge. A candidate that waits or runs may be enqueued again.
The user's settlement of an interrupted cherry-pick (`ResolveInterrupted`) runs outside
`tail`, in three steps: compare the evidence, abort, read HEAD back. `Restart` reads the journal, `InitializeState`
what Git holds. `checked` and `adopted` are history variables: heads that passed
verification, and heads initialise took from the worktree without a fact in the
journal.

### MeetingLedger

Four variables: the head, the accepted candidates, the base, the last head
recorded as published. The head is taken over once and then grows by one accepted
candidate at a time; the base grows by commits of its user and by moving forward to
the head; crashes, worktrees and journals do not exist. `IntegrationQueueLedger`
reads these four from what is on disk: the journal's head, acceptances and
publication, and the base. A crash is a stutter.

### MeetingJournal

A line is the event it holds and whether it is terminated. A crash cuts a write
anywhere: nothing, a piece that does not parse, or the whole event without its
newline; the next write continues that line. `append`, `snapshot` and `flush`
join the chain at once and do their I/O later, each I/O call being a step that
may fail; several snapshots may wait. `listRecoverable` and the opening of the next process make `Restart`.
Several processes follow each other; `acked` and `replayed` are history.

### TaskDelivery

One task with several deliveries, each with several attempts. `handle` is the
scheduler's handle, `view` the harness's view of each delivery, `session` the
driver's review of each attempt, `worktree` the HEAD of the task's worktree.
What the code awaits is kept explicitly: `claimed` (a report whose mailbox
acknowledgement is awaited), `evaluating` (verification, then freezing),
`reworks` and `followUp` (a mailbox write), `finalizing` (a flush), and `todo` of
a session (a callback that has not run to its end). The settling of a report, the
observer of a delivery and the callbacks of the driver all apply views to the
handle, each with its own guard. Two places are choices because two promises race
there: a failure may reach the handle through the observer or through the settle;
and the budget may pause a rework before the bound on attempts does.

`Save` picks the last snapshot before a crash (consistent, but older than the
journal), `CrashRestart` restores each component from it the way the code does:
the last journaled status of the task, the delivery of the snapshot as
interrupted, the reviews as they were saved, HEAD where it is. Only the delivery
the snapshot names survives; the others are "lost". Verifier and deterministic
reviewer are one step. The integration queue is reduced to its three answers.

### FinalDelivery

Tasks are planned, cancelled, integrated, accepted; a build reads the tasks,
inspects the head, verifies, journals and offers a delivery; calls of the user's
API share a build and decide. Journal writes go through one queue and are durable
in its order; a crash loses what is still queued. A head is the number of
candidates it carries. After a crash `Restart` rebuilds plan, offer and decision
from journal and snapshot and reconciles a half-made acceptance. Only microtasks lie
between the end of a build and the check of the decision in the calls that joined it:
until they have run (`Settled`) nothing else of the event loop does. `reoffered` and
`contested` are history: deliveries journaled as a new offer more than once, and
deliveries of calls that overlapped between their check and their record.

### WorkerScheduler

`handle` holds the status and session of each task, `launch` counts the launches of a
task at each await of `spawnWorker()`, so two may be under way, and `launching` is the
set the code reserves slots in. Everything that calls `spawnReadyWorkers()` does so as
part of its action: it starts every task it can, those with most tasks behind them
first. The order prefers an attempt with a number above 1
(`retried`), which a fresh delivery takes back to 1 when its launch proposes it. A stretch
without an await is a function of one record, `Now`, of what the
scheduler keeps; an action composes these functions in the order of the code
(`Disposed`, `Cascaded`, `Finished`, `ThenDispatch`), and `Becomes` installs the result.
A task waits for the gate of its dependencies (reviewed or accepted), for a slot and for
its workspace; a shared-locked task needs its paths. `restarting` and `revision` are the
awaits of the stall watch and of `revisePlan()`. Deliveries are `verifying`, then
`reviewed`: their life is `TaskDelivery`. A launch that awaits the start of a session
the handle has lost since is `stale`. `doubled` and `overtaken` are history: tasks with
two launches before their session, and tasks launched while a stale start had not
returned.

### TaskMailbox

One task's messages with their status in memory (`box`) and as the journal would
replay it (`durable`). `writes` is the queue of appends under way, each with the
continuation of the caller that awaits it (start a fresh attempt, steer, send,
correct, acknowledge); `interrupts` are steering messages whose interruption is
awaited. `worker` is the handle with the scheduler's per-worker maps. A receipt is
acknowledged by a drain, which belongs to the session in which it began: `draining` is
that session, `boundary` and `parking` the drains an ended turn and a report wait for.
Turns that end during one drain count as one. A crash keeps `durable` and `restore()`
rebuilds the rest.

### TaskPermissions

A request arrives, is decided against grant and memory, and its decision waits in
`deciding` for the journal. Then it is answered or becomes a card with an owner and a
timer. Brokers add `held` and `dialogs`. The workers in `Numbered` are on Codex or Kimi,
whose sessions number their requests alike; the others' names are unique. `NoReject` is
what a worker on Kimi asks for without an option to reject, so that a denial selects the
first option it has. `made`, `allowed`, `done` and `dropped` are history.

### HostGroups

A `HostGroup` object and a call of its `start()` are numbered, because the id of a host
names different groups over time; `pc` says where a start is, `phase` what its session
is. Claude is ready when its handshake returns, Codex when its thread exists; one says
"ended" when told to end, the other does not. `pending` are messages that wait for a
host, `asks` and `timers` questions and their watchdogs.

What the orchestrator does in one go is a composition of operators on the record of all
variables (`Now`, `Becomes`). A second `end()` ends nothing, but hosts can still be
restarted, removed and made coordinator: a closed Meeting keeps its slot while its end is
awaited (`ipc/sessions.ts:286`). Where its code loops over the hosts, the module says what
the loop does to each: `Ending` ends every current group, which once the Meeting is
`closed` changes only the group and its starts, so that the order does not matter;
`PublishedTo` delivers a message to each host of a list, whose order numbers the messages,
and `DecisionResolved` picks any order.

### TaskInspector

The journal is a sequence of events, some of them of the task. `projection` is what
the window shows, made by a hydration (`inFlight`: a snapshot, then pages, each a round
trip) and extended by its subscription. A subscription listens, replays what it missed
and forwards, in the main process (`main`), while the window may dispose of it; `wire`
is what is on its way. The code's lists of events are in the order of their numbers, so
each is the set of its events; the reducer and the listener are stated for a whole list
and take its first event, or its last, by number. Reference counts and generations are
those of the store.

### How the modules fit together

The queue of `IntegrationQueue` is what `Integrated(d)` of `TaskDelivery` and
`SyncPublication`/`MergeBase` of `FinalDelivery` rely on: an integration ends in
`accepted`, `integration-conflict` or `failed`, and it does end
(`EveryOperationSettles`). All rely on the journal: an append that resolved
survives a crash (`AcknowledgedSurvive`), appends are durable in order
(`NoAckOvertakesGap`), and after a fault nothing more is written; `TaskMailbox` and
`TaskPermissions` use the order of appends directly, `TaskInspector` that readers
see a prefix. The modules state these assumptions in their own journal actions
instead of sharing one variable. `WorkerScheduler` and `TaskDelivery` meet in the
handle: what is a status `reviewed` there is a delivery under integration here, and
what `TaskDelivery` does to a closed task (`ClosedStaysClosed`) is what
`EndedOwnsNothing` relies on. `HostGroups` is above them: the default host owns the
scheduler.

## 3. Runs, bounds and fairness

| Run | Instance | Shows |
|---|---|---|
| `queue_safety` | 2 candidates of 2 tasks, 1 waiting, 1 crash, 1 fault, 1 user commit | what is on disk is a behaviour of `MeetingLedger`; only accepted or adopted candidates on the base; the journaled head is verified; memory agrees with the journal; the base moves to exactly what the user accepted |
| `queue_liveness` | the same without crash, fair | what runs ends and what waits is taken up, also behind a fail-stopped journal |
| `journal` | 4 numbers, 2 snapshots at once, 3 processes, 1 failing call, fair | order, no overtaken gap, durability of what was acknowledged or flushed, snapshots neither ahead nor lost, every call settles |
| `task_safety` | 2 deliveries of 2 attempts, 1 chunk, 1 turn, no crash | what is under review or integration is HEAD, with one open review; what opens a closed task, or changes it for a delivery it no longer has, is on a list |
| `task_restart` | 1 delivery of 2 attempts, 2 chunks (1 withheld), 2 turns, 1 crash, fair | only reviewed work is integrated or accepted, across a restart; a watched review never stalls |
| `final_safety` | 2 tasks (1 may be report-only), 1 caller, 2 plan versions, 2 heads, fair | delivered work is in the head, one decision per delivery, every call settles |
| `final_restart` | 1 head, 1 crash | what is offered and decided is what a restart restores; a completed publication is a recorded acceptance |
| `scheduler` | 3 tasks: b and c write one path, b waits for a's review; 2 plans, limit 1, 2 launches at once, 2 retries, stalls, cards, revisions or edits | ended tasks own nothing; locks and limit hold but for launches of one task that overlap; what comes free is dispatched |
| `mailbox` | 2 messages of 3 kinds, 2 attempts, 2 sessions, 1 failed append, 1 crash | memory and journal agree; no acknowledgement before delivery; nothing is sent twice |
| `permissions` | 3 workers (1 behind a broker, 2 numbering alike), 3 sessions, 3 requests for 3 targets, 1 fault | nothing unapproved is let through, up to requests of one number; every open request has a deadline |
| `hosts` | a default host on Claude, an expert on Codex, 3 groups, 2 starts, 3 messages | messages reach their addressee only, ready hosts are served, sessions stay reachable, no false alarm |
| `inspector` | 2 components, 3 opens, 2 events, pages and replays of 1, fair | the projection is exact, nothing is kept unwatched, everything comes to rest up to date |

**Why the bounds are enough.** Two candidates are the least at which one candidate's
failure can damage another's head; a crash, a fault and a user commit may fall at any
step, also two of them in one operation, and a candidate may wait behind itself (3.1
million states up to symmetry). Three processes let a torn line be written,
continued and read. Two deliveries let a superseded delivery answer late, two attempts
let a rework follow a review, and the restart run needs both attempts of one delivery
for the review that a restart leaves behind. Two chunks, one withheld, tell the
Coordinator's verdict from the user's confirmation; the crash-free run can do with one,
because coverage is checked in the other. In the scheduler, three tasks are the least
for a lock, a gate and a full limit at the same time, and two launches for a late one;
two events let a retry meet a launch that is under way (1.2 million states). The runs of
the final delivery have one caller (0.25 and 1.2 million states): overlapping calls are
the business of its theorems, which hold for any number of them. Two messages let one be
steered or corrected while another waits; with two sessions an interruption returns when
its session is gone and the next one has heard the message. The mailbox bound
`MaxPending` (0) says that a turn is slower than the appends before it; a crash and a
failed append may come at any step (5.3 million states). Its properties also held with
three messages, one attempt, one session and one pending append, without crash and
failure (2.9 million), and in random behaviours with four messages, three attempts, four sessions,
two pending appends, two crashes and three failures. All of these are instances of its
theorems. Three requests give one session two names and another a third, and with three
sessions a number comes back in the next session of a worker and in that of another
(3.1 million states); a property that allows no confusion of the two is violated in this
run within eight steps, both ways. Three groups
let a host be removed and its name used again; the run also held with three starts and
one message (5.9 million states), the inspector's safety with three events (7.2
million). Pages and replays of one make every limit reachable.

Bounds appear only as guards of the actions that create something
(`MaxDeliveries`, `MaxAttempts`, `MaxTurns`, `MaxCrashes`, `MaxFaults`,
`MaxFailures`, `MaxSnapshots`, `MaxWaiting`, `MaxUserMoves`, `MaxSeq`, `MaxStarts`, `MaxVersion`,
`MaxHead`, `MaxLaunches`, `MaxMessages`, `MaxSessions`, `MaxPending`, `MaxRequests`,
`MaxTotal`, `MaxGroups`, `MaxOpens`), so a bounded behaviour is a prefix of a real one;
`MaxEvents` bounds the user's moves in the scheduler and the journal in the inspector.
`MaxTurns`, `Limit`, `DenyLimit`, `QueueLimit`, `MaxHosts`, `PageLimit` and
`ReplayLimit` are parameters of the code. Symmetry is used in `queue_safety` only, which
has no liveness property: a candidate and its task may change places with the other two.
Elsewhere the values of a kind differ in their parameters, or a property is temporal.

**Deadlock.** The runs with bounds on what the user does switch the deadlock
check off: a Meeting in which the user does nothing more really stops. Progress
is stated by the liveness properties instead.

**Fairness.** Only what the runtime provides. Node runs a ready continuation, and Git,
verifier and file system calls return or time out: weak fairness of the queue's steps,
of journal jobs and of `flush`. In `FinalDelivery` the continuations of a settled build
come first and may interrupt any other step for a while, and the integration queue
serves publications in the order they came: hence strong fairness of its writes, its
build and each call. In `TaskDelivery` the watchdog's interval fires (`StallSweep`) and
mailbox and journal settle (`ReworkEnqueued`, `FollowUpEnqueued`, `Finalize`). In
`TaskInspector` the messages between the processes and the reads of the journal arrive
(`ServiceStep`). Users, Workers, the Coordinator, components, crashes and restarts have
no fairness anywhere.

**Properties worth explaining.**

* `AcceptedWasReviewed` relates three records kept by three components: the
  status in the harness, the session in the driver, and the report. Late
  completions, restored sessions of earlier attempts and acceptance of a delivery
  that is in rework all try to separate them.
* `ReviewedIsIntegrated` is why a stale candidate is never integrated: freezing
  refuses to commit while HEAD is at another attempt, across deliveries that share
  the worktree and across restarts. That no other review is open holds until a
  crash; `AcceptedWasReviewed` shows that a leftover cannot integrate anything.
* `ClosedStaysClosed` lists every way back from `failed` and `interrupted`, each as an
  operator that says which step it is. Someone asks for it in `FollowedUp`,
  `Recovered`, `Returned` and `Restarted`. In `LateRework`, `LateVerdict` and
  `LateAcceptance` nobody does: an answer comes back from an await and the code does
  not look at the task again. These three are disagreements (section 5); what the
  property shows is that no other answer does it: a late report, settle, verification,
  observation or answer of the integration queue opens nothing. Its second part says
  the same of a task that a follow-up gave another delivery: what becomes of the old one
  leaves the task alone, but for `LateVerdict`. No exception can be dropped: each is
  taken in a small instance (`Recovered`, `Returned` and `Restarted` need a crash and are
  the theorem's part, as the run has none).
* `MemoryMatchesJournal` (queue) says that a restart at any moment would resume from the
  state in memory, unless the journal has failed; in the mailbox it says so of every
  message, through overlapping appends that each write a status of their own, and names
  the races (`overtaken`) in which that fails.
* `PublishesWhatWasAccepted` covers the user committing between the check of the
  base and the merge.
* `LocksExclude` and `WithinLimit` hold because overlapping launches of a task are
  made visible by history variables: two before the session (`doubled`), or one next to
  the start of a session that is lost already (`overtaken`). What follows is excepted,
  and the exception is what the code lacks (section 5).
* `OneDecisionPerDelivery` names the two ways in which a delivery can be decided twice
  (`reoffered`, `contested`), and the theorem shows that there is no third.
* `FreedSlotsDispatched` is an action property about a place nobody wrote: it fails
  as soon as one of a dozen endings forgets to dispatch. The exceptions it names are
  the endings that do forget.
* `NothingUnapproved` compares what an answer reached with what the user was asked;
  ids are reused and answers broadcast, so it depends on names (section 4).
* `HeardByAddressee` is about numbered groups, not ids: a queue that survives the
  removal of a host would be read by its namesake.
* `ReadyHostIsServed` and `SessionsReachable` name the cases in which the code loses a
  message or a session: the wrong queue flushed after a handover, a session made for a
  group that was ended meanwhile (`late`), and starts of one group that overlap (`alone`).
  The theorems show that there is no other.
* `ProjectionIsExact` relates the window's list with the journal across four ways an
  event can arrive.

## 4. Proofs

### The integration queue

For every number of candidates and tasks and every bound, from the assumptions
named in the module (`TaskOfAssumption`, `BoundsAssumption`, `NoneAssumption`,
`InterruptedAssumption`, which only say that `None` is not a value):

| Theorem | States |
|---|---|
| `TypeCorrect` | `[]TypeOK` |
| `Durable` | the inductive invariant below |
| `BaseSafe` | `[]OnlyAcceptedOrAdoptedOnBase` |
| `HeadVerified` | `[]JournaledHeadVerified` |
| `NoOrphanedAcceptance` | `[]AcceptedOnJournaledHead` |
| `RestartAgrees` | `[]MemoryMatchesJournal` |
| `HeadMoves` | `HeadMovesByAcceptance` |
| `Implements` | `ImplementsLedger`, the refinement of `MeetingLedger` |
| `PublishedExactly` | `PublishesWhatWasAccepted` |

*Types.* `TypeOK` is not inductive: a running operation must also agree with the
step it is at (an integration step has a candidate job, a publication step a
publication job, a step after the pick has a staged result). `TypeInv` adds that;
the proof has one case per action, with `Frame` for the parts an action leaves
alone.

*Safety.* That only accepted candidates reach the base says nothing about the head
that will be published next. `DurableInv` therefore follows the head through the
process:

* `SafeHead`: every candidate of the base, of the durable head, of the restored
  head and of the journaled head is accepted or adopted (`HeadsSafe`).
* `VerifiedHead`: those heads passed verification as a whole or were adopted
  (`HeadsVerified`). For the durable head only once the state is ready: before
  that it is the value of the constructor.
* `PhaseOK`: where the branch is at each step that reads it. Before the pick it is
  the durable head, after it one unstamped commit above; a merge is of the durable
  head; a process that has not initialised restored exactly the journaled head.
* `StagedOK`: the staged result is the durable head plus the stamped candidate,
  and from the step after verification on it is among the verified heads.
* `MemoryOK`: without a fault memory and journal agree.

Steps that move no head and accept nothing are disposed of by one lemma
(`QuietHeads`); what is left are the staged fact, the accepted fact, publication,
initialisation and restart. `HeadMoves` is an action property: with `MemoryOK`
the accepted fact is the only entry that changes the journaled head, and `PhaseOK`
and `StagedOK` say to what.

*Refinement.* A step of the queue maps to one step of the ledger or to none. That an
accepted candidate is new to the ledger's head, and lands there once, needs more than
`DurableInv`: `LedgerInv` adds that every head there is (branch, durable, expected,
restored, journaled, base) is a former state of the base with commits of candidates on
top (`OriginOK`: none of them twice), that the staged candidate is not in the durable
head (`FreshOK`), that a head being verified is named (`NamedOK`), and what a
publication has journaled and merged at each of its steps (`PublishingOK`). The proof
has one case per action; what reads the journal alone stutters.

*Publication.* The base is compared with the accepted revision in one Git call and
merged in a later one. `MergeOK` says that in between the base is still that revision
or the merge is no fast-forward. It survives a commit of the user because of
`OriginOK`: above the base the head has commits of candidates only, so a base with one
more commit of the user is no prefix of it.

### The final delivery

For every set of tasks and callers and every bound, from `BoundsAssumption` (the bounds
are numbers) and `NoneAssumption` (`None` is no caller, delivery, decision, build or
publication):

| Theorem | States |
|---|---|
| `TypeCorrect` | `[]TypeOK` |
| `DeliveredWork` | `DeliveredWorkInHead` |
| `DecisionKept` | `[]DecisionSurvives` |
| `OneDecision` | `[]OneDecisionPerDelivery` |

*Types.* When a write becomes durable, the call behind it goes on, and what it stores
depends on the step it is at. `TypeOK` does not say that the call is still there.
`Shapes` adds the fields of every kind of write and `Owned`: a queued fact with a call
behind it is the one that call awaits, and the only one. Appends need it because a call
that is not waiting has nothing on the queue, durable writes because the call that goes on
then has nothing left there (`OwnedAppend`, `OwnedTail`, `OwnedCalls`).

*Delivered work.* `WorkInv` follows a claim from the plan to the offer. The build read
the accepted tasks before the head, no step takes an acceptance back, and the work of an
accepted task stays where it is; so the tasks of a build stay accepted, and from the
inspection of the head on that head carries them (`BuiltOK`). The same is said of each
new delivery on the queue of writes (`ReadyOK`), because reworks and revisions go on
while it is being journaled. `DownOK` says that a crash left neither a build nor a queue
behind, so that a restart, which may forget an acceptance, finds no claim to break.

*The decision.* Memory and journal agree on offer and decision at once (`MemoryOK`); what
is hard is what calls know about them. `DecisionInv` follows a call from the build it
joined to the record of its decision. What is on offer, what a build returns and what a
call is about to decide is undecided as long as nothing is decided (`OfferOpen`,
`ResultOpen`, `CallsOpen`): the first because `reoffered` remembers an offer that was made
before, the last two because nothing runs between a result and its check. From the check
on a call that no other overlaps is the only one and finds nothing decided (`PendingOK`),
its intent is on disk before it publishes (`IntentOK`), and a completed publication is
recorded, about to be, or what a restart reconciles (`RecordedOK`, `StartingOK`). That a
fact on the queue has its call behind it is `Owners`, which `Shapes` gives. Most steps
decide nothing (`Calm`) or move calls and build along (`Moves`) and share one lemma each.

### The journal

For every number of sequence numbers, processes and failing calls, from `JournalBounds`
and `NoneAssumption`:

| Theorem | States |
|---|---|
| `TypeCorrect` | `[]TypeOK` |
| `JournalInvariant` | the inductive invariant below |
| `ReplaysInOrder` | `[]ReplayOrdered` |
| `GapsAreFinal` | `[]NoAckOvertakesGap` |
| `Durable` | `[]AcknowledgedSurvive` |
| `SnapshotsTrusted` | `[]SnapshotTrusted` |

`NumbersOK` is the centre: every number a process reserved is acknowledged, is still to be
written by a job of the chain, or is cut off by a fault, and the same with "by one of the
first k jobs" for what a flush awaits, a snapshot summarises and an append follows
(`Settled(n, k)`). It survives the end of the first job, because that acknowledges its
number or faults, and the joining of a job, which reserves the next one. `AckedOK` and
`FileOK` order acknowledged numbers, lines and chain; only the first job may be in the
file already (`LineWritten`). `LinesOK` is about the torn line: only the last may lack its
newline, nobody was told that it holds, and only the opening event of a process ever
continues one. `SavedOK` follows the snapshot and its temporary file through the
replacement. A crash then needs only that what `Torn` leaves is a prefix of the lines
(`Grown`).

The theorems of the journal are in `MeetingProofs`, with those of the hosts.

### The hosts

For every set of hosts, backends and coordinators and every bound on groups, starts,
messages, queues and hosts, from `HostsAssumption` (the default host is a host that may
coordinate) and `BoundsAssumption` (the bounds are positive):

| Theorem | States |
|---|---|
| `HostsInvariant` | `[]HostsInv`, the inductive invariant below |
| `HostsTyped` | `[]HostsTypeOK` |
| `MessagesReachAddressee` | `[]HeardByAddressee` |
| `ReadyHostServed` | `[]ReadyHostIsServed` |
| `OpenSessionsReachable` | `[]SessionsReachable` |
| `AlarmsTrue` | `AlarmsAreTrue` |

`HostsInv` is `IInv(Now)`, a predicate on the record of the state, with four parts.

* `Shape`: the types, the bounds, and what an index names. A registered id names a group
  of that id; a start names a group.
* `Core`, about groups, starts and sessions. A group holds a session that one of its own
  starts made (`HoldOK`). A start under way in a group whose starts never overlapped is
  the only one, the group is not ready, and it holds that start's session or none
  (`FlightOK`); hence a ready group of this kind has a live session (`LiveOK`): the one
  moment at which `ready` is set is the return of a start, whose session is live unless
  the group has let go of it. A session that goes on is held by the current group of an
  open Meeting, or is one of the two exceptions (`ReachOK`).
* `Mail`, about messages. What waits under an id is addressed to its current group and
  unheard, and nothing waits under an id that names none (`PendingOK`), so that adding a
  host under an old id starts with an empty queue; a message is heard once, by a start of
  its group (`HeardOK`); the question an id owes an answer to is the latest one asked of
  its current group and has no answer, and the armed timers are those of such questions
  (`AsksOK`).
* `Served`: nothing waits for a ready host. A queue grows only while its group holds no
  session, and the return of the start that makes the group ready empties it.

The proof follows the composition of the operators. Three relations between a state and a
later one say what an operator may do: `Talk` (messages and questions only, no alarm
raised), `Loosens` (one group at most lets go of its session or of being ready, and
messages may be sent: the end of a session told in the group's name is such a step) and
`Falls` (some groups lose their sessions, which go on no more or belong to a group with
other starts). Lemmas per operator establish one of them (`SpokenTalk`, `EndedLoosens`,
`DropHostStops`, ...), `FallsCore` and `LoosensServed` turn them into `Core` and `Served`,
and the steps compose them (`ReturnedKeeps`, `AuthRequiredKeeps`, `RemovedKeeps`, ...).
`Keeps(s, r)` adds that no alarm is raised; only `AskTimesOut` raises one, and `AsksOK`
says that it is true.

The proof is why `Ending` and `PublishedTo` are stated for each host and not as folds
over the hosts (section 2), which no prover here could unfold for any number of them; TLC
found the same states with both. It is also why `SessionsReachable` asks of a session that
its group is the current one of an open Meeting: that its group holds it does not imply
that an end reaches it.

### The scheduler

For every plan, limit and bound, from `PlanAssumption` (what a valid plan is) and
`BoundsAssumption`:

| Theorem | States |
|---|---|
| `SchedulerInvariant` | the inductive invariant below |
| `EndedHoldsNothing` | `[]EndedOwnsNothing` |
| `LocksHold` | `[]LocksExclude` |
| `WorkersWithinLimit` | `WithinLimit` |
| `FreedSlotsUsed` | `FreedSlotsDispatched` |

An action is a composition of functions of a state record, so `Good` is a predicate on
such records, and one lemma per function says that it keeps `Good`; the proof of an action
chains these lemmas. `Good` says that an ended task has nothing (`Ended`), that sessions
are those of running tasks (`Sessions`), that the workspaces held are compatible
(`Disjoint`), that a task outside `doubled` has one launch, and from the grant on its
workspace (`Alone`), and that outside `doubled` and `overtaken` a launch holds its slot
(`Slots`).

`WithinLimit` and `FreedSlotsDispatched` are action properties and rest on how each
function changes the set of active tasks. What ends something makes it no larger
(`Calmer`). For a dispatch, the last task launched in the order of `Before` was
launchable behind all others, so the limit held with it; that there is a last one is an
induction over the (finite) set that is launched. And a dispatch leaves nothing idle
that was not launched, because launching more never makes a task launchable. `Doomed`
and `Behind`, which the code computes by recursion, are least closed sets, and the
proofs use only closure.

The attempt changed the model's exceptions. `LocksExclude` needed a second way into
`doubled`, a launch that outlives its attempt, and `WithinLimit` needed `overtaken`, the
start of a lost session whose end gives back the slot of the next launch. Both are what
the code does, out of reach of the bounds the run had (section 5).

### The mailbox

For every number of messages, attempts, sessions, pending appends, crashes and failures,
from `BoundsAssumption`:

| Theorem | States |
|---|---|
| `MailboxInvariant` | the inductive invariant below |
| `JournalMatches` | `[]MemoryMatchesJournal` |
| `ReceiptsInOrder` | `AckFollowsDelivery` |
| `SentOnce` | `[]RepeatedOnFailure` |

`Mail` relates memory, journal and the appends under way. Each append fits the message it
is about: what may be under way for a queued message is its delivery or its return, for a
delivered one its receipt (`WritesOK`, by `Fits`). A message is created alone, and its
delivery is the last thing under way for it (`OrderOK`); so the append that comes back
finds the status it was made for, in memory and in the journal (`MessagesOK`). All of it
is said of messages outside `overtaken`. The parts are operators of mailbox, journal,
queue and history, because one step may do several things to them: an append comes back
and the next is made. One lemma per effect (`MailTaken`, `MailPush`, `MailLose`,
`MailCreates`, `MailOvertaken`) is chained along the step.

`SentOnce` adds what the session knows: what it was sent is not queued any more, and
steering only begins when the session has spoken (`HeardOK`, `InterruptsOK`).

The attempt found three errors of the model: a drain that follows another never began, a
drain of a lost session cleared the flag of the next one's, and `RepeatedOnFailure` was
false with three messages, because a drain's follow-up may send a correction whose append
is under way. `draining` now names a session, and `overtaken` has that case.

### The deliveries of a task

For every diff and every bound on deliveries, attempts, turns and crashes, from
`ChunksAssumption` (what is withheld is of the diff), `BoundsAssumption` and
`NoneAssumption` (`None` is no value):

| Theorem | States |
|---|---|
| `TypeCorrect` | `[]TypeOK` |
| `AcceptedReviewed` | `[]AcceptedWasReviewed` |
| `ReviewIntegrated` | `[]ReviewedIsIntegrated` |
| `StayClosed` | `ClosedStaysClosed` |

The invariant `Inv` relates what the components keep twice. `Backed`: a delivery in
review has a report, and one in integration or accepted has the completed review of its
attempt, or a report without files. `SessionOK`: a completed session is covered, and
the callback a session owes agrees with its status. `EvaluatingOK`: what an
evaluation awaits is what the status of its delivery says, so no second decision comes
in between. `SavedOK`: the snapshot satisfies all of that too, which is what a restart
needs, since it restores records the invariant no longer speaks of. `HandleOK` ties the
handle to a delivery the harness knows, and `ClosedOK` says that a closed handle which
keeps its delivery keeps one that has ended: no late view can then be taken.
`AcceptanceOK` says that an acceptance which awaits its flush is the one of a delivery.

`StayClosed` is proved with the invariant, as two formulas of every step: `StaysClosed`
for a closed task, `StaysOut` for the deliveries a task no longer has (`Minds` is a step
that leaves the task alone or is of its own delivery). The proof found `Returned`, which
needs a crash and two deliveries: the cherry-pick left behind marks the task as in
conflict, a follow-up gives it a second delivery that conflicts too, recovery then
resolves the first conflict and marks the task interrupted, and the user returns the
second delivery.

`AtHead` needs nothing but `Backed`: freezing wants HEAD at the base or at the very
candidate, so no other candidate is in review; reopening wants it at the candidate that
is sent back, whose review is not completed, so it is not the one in integration.
`OpenOK` holds until the first restart: every step that takes a delivery out of review
goes through its review.

Most steps are of the reviews alone (`Calm`, `CalmStep`) or of one delivery outside of
its review (`Moves`, `MoveStep`), and each needs only its `HandleStep`; freezing,
completion, reopening, a save and a restart have a proof of their own.

### Permissions

For every set of workers and targets and every bound, from `WorkersAssumption`,
`TargetsAssumption` and `BoundsAssumption`:

| Theorem | States |
|---|---|
| `TypeCorrect` | `[]TypeOK` |
| `DeadlinesHold` | `[]EveryRequestHasADeadline` |
| `NothingUnapprovedHolds` | `[]NothingUnapproved` |

*Deadlines.* `Deadlines` says who owes the answer: an open request belongs to a live
session (`Manned`); if that has a broker the broker holds it or dropped it (`Tracked`);
otherwise it is being journaled or has a timer (`Awaited`). Every action that stops a
timer or takes a decision off the queue also answers exactly the requests concerned
(`AnswerKeepsDeadlines`) or ends their session (`EndedKeepsDeadlines`), and
`TimesOut` finds no session only when `Manned` leaves nothing open.

*Approvals.* An answer is routed by worker and name, so the proof is about names: a
name holds its session and its number and was given before now, except that of a worker
who numbers, which only says that the request was made (`NamesGiven`); and no two
requests anywhere in the system, on cards, in queues, in memories or in what the user
answered, share one unless both are of such workers (`NamesUnique`). Then what an answer
reaches is the request it was given for, or one of the same number
(`NamesakesAnswered`), and `Approvals` is inductive: pending allows are granted or
remembered, memories go back to an answer given under the name of what is remembered,
and what is let through is approved. For the workers of Claude and OpenCode `Meant(r)` is
`{r}`, and this says what one expects. For those of Codex and Kimi it leaves what the code
leaves: some request of that number was granted or allowed (section 5).

### The inspector

For every set of components and every bound on pages, replays, events and opens, from
`InspectorAssumption` (a finite set of components, positive bounds):

| Theorem | States |
|---|---|
| `InspectorInvariant` | `[]InspectorInv` |
| `ExactlyShown` | `[]ProjectionIsExact` (with the types) |
| `NothingKept` | `[]NothingKeptUnwatched` |

*Exactness.* An event reaches the window by a snapshot, a page, the replay, the buffer or
the live listener. The proof gives each stage one fact about the same prefix of the
journal. `Exact`: what is shown is the task's events of the journal from the snapshot up
to `lastSeq`, which is one of them. `WireOK`: what is on its way is exactly the task's
events after `lastSeq`, up to the last one the service delivered, each naming the one
before it. `SentOK`: a live subscription has delivered all that is published; one that
has replayed but does not yet forward began to listen at an event that its replay
includes (`heard <= read`), so that what is neither replayed nor buffered does not exist
(`GoLiveKeeps`). `DeliverSends` and `ForwardedSends` are the two ways to send,
`ReduceExact` says that reducing the next events of the task neither skips one nor finds a
gap. That a subscription the window disposed of receives nothing more (`LetGo`) lets the
next hydration start from any event.

*Nothing kept.* `CurrentOK` ties the three maps of the store: a subscription is of the
present generation, it has a projection and no hydration is in flight; there are
references exactly while there is one. `CountsOK` counts: references are no more than
components that show the task, the calls a valid hydration answers no more than components
that wait for it, and a projection without a subscription, which a refused page leaves
behind, is that of a component that did not close. With every component closed all three
are none. The same invariant bounds the
generations (`MaxGenerations`): the store makes one more only when a component opens or
the last one closes, and each component that is open has yet to close.

### What is only model-checked

Liveness, in `queue_liveness`, `journal`, `task_restart`, `final_safety` and
`inspector`: temporal proofs under fairness are out of the prover's reach. Every safety
property of the runs, invariant or action property, is proved.

No theorem is about what a recursive definition computes. Where the code loops or recurs,
the models say what the result is (a least closed set, a set of launches each launchable
behind the others, the last line of a file), and the proofs use well-founded induction
over sets of numbers where they need a first or a last element.

## 5. Where code and documents disagree

The properties of the runs are what the code does keep. Where that is weaker than what a
document, a comment or a test says, the difference is named in the property (an
exception, a bound) and listed here. What is marked *(reading)* is plain in the code;
the others are behaviours of these models, most of them found by TLC with an exception
removed or a bound raised.

**Integration queue and final delivery**

* A crash after the first cherry-pick and before `integration-staged` leaves an
  unverified commit at HEAD; `state()` takes it as the durable head and the next
  publication carries it to the base (`integration-queue.ts:309`; design document line
  88: "a partially staged integration never becomes a published base-branch update").
  Hence `adopted` in the queue's properties.
* A crash between the merge and `meeting-publication-completed` leaves a delivery that
  is on the base and can still be sent to rework (`orchestrator.ts:2603`; ADR-0001 line
  142: "Final Meeting rejection leaves the user's base unchanged.").
* A delivery built while a task is added carries the new plan version without the task
  (`orchestrator.ts:2513`, design document line 577).
* A crash that loses the snapshot written after a rework restores the older plan
  version; the identical delivery is offered again, undecided, and can be accepted
  though its rework was journaled (`orchestrator.ts:2528`). Hence `reoffered` in
  `OneDecisionPerDelivery`, which held without it only because the instance had too few
  versions.
* A rejected journal write whose line is on disk all the same resets the branch
  below the journaled head (`integration-queue.ts:248`); until the restart, and
  only with a fail-stopped journal, memory and journal differ.
* Two overlapping decisions on one final delivery can both be journaled
  (`orchestrator.ts:2342`, `:2417`): hence `contested`, which holds the deliveries of
  calls that overlapped between their check and their record, and no others.
* An interrupted cherry-pick kept for the user is aborted by the next candidate
  (`delivery-integrator.ts:190`). *(reading)*
* `expectedUserBaseRevision` is fixed when the Meeting is created, so a delivery after
  the first publication pauses (`orchestrator.ts:2516`); a report-only acceptance leaves
  evidence empty that the final delivery asks for (`meeting-delivery.ts:254`); a second
  rework replaces tasks an earlier one superseded (`worker-scheduler.ts:736`). *(reading)*

**Journal**

* A crash leaves a whole last line without its newline; recovery reads it; the first
  append of the next process is glued to it and both are lost for the recovery after
  that (`meeting-repository.ts:262`; design document line 88: "crashes lose neither
  instructions nor accepted evidence"). Hence `AcknowledgedSurvive` excepts the opening
  event of a process.
* A task planned just before a crash is lost when the snapshot is older
  (`meeting-repository.ts:500`, `orchestrator.ts:1164`).

**Task delivery**

* A follow-up is checked before its mailbox write and applied after it; an acceptance in
  between is overwritten and the accepted task runs again (`worker-scheduler.ts:1591`,
  `:1595`; `forwardTaskMessage`, `:1792`, has no check; the comment at `:1646`:
  "follow-up/instruction channels must not silently fork a fresh attempt on top of an
  accepted or in-flight-integration delivery").
* Three answers are applied to a task without looking at it again: `runAutomaticRework`
  makes the handle pending after the mailbox and the flush (`worker-scheduler.ts:3303`),
  `requestCoordinatorRework` applies the view and schedules the rework after HEAD is
  reopened (`:3163`), `finalizeAcceptedHandle` disposes of it as accepted after its
  flush (`:3047`). A task that was failed or interrupted meanwhile runs again, is
  reworked, or is accepted; the verdict does it even to a task that has another
  delivery by then, and a rework also runs over a claimed report or an acceptance. A
  settle in the same place is checked, because it "would stomp the terminal state"
  (comment at `:349`), and "a terminalized attempt's delivery id must not be reusable by
  late reports/settles" (comment at `:4587`). Hence `LateRework`, `LateVerdict` and
  `LateAcceptance` in `ClosedStaysClosed`.
* After a restart a resumed delivery has no observer (`worker-scheduler.ts:4365`):
  its review integrates, but its task stays `coordinator-reviewing` and its
  dependents wait.
* The rework after an integration conflict does not start from the new integration
  head (`worker-scheduler.ts:3078`, design document line 569): `returnDelivery` never
  reopens HEAD, and the next candidate is handed to the host instead of frozen.
* Callbacks of the review driver run once; when they throw, the delivery stays
  under review for good (`coordinator-review-driver.ts:192`). A covered review
  that the Coordinator does not complete is not driven either, and the watchdog is
  not armed for reviews restored as active (`orchestrator.ts:412`). *(reading)*
* A report claimed just before the user's interrupt turns the interrupted task
  into a failed one (`worker-scheduler.ts:2777`).

**Scheduler**

* `spawnReadyWorkers()` launches a task it is launching already
  (`worker-scheduler.ts:4123`); when the second launch aborts it releases the path locks
  under the worker the first one started, and while both run the limit is exceeded
  (`task-workspace.ts:144`: "Explicit shared mode writes in place under advisory path
  locks"). Its late rejection fails the healthy worker (`:4518`).
* A launch that awaits its grant (`:4341`) while its task fails and is retried finds the
  same handle, pending again (`spawnAborted()` sees no difference), and goes on as the
  retry: its locks went with the failure, and it starts to write without them. Found by
  the proof of `LocksExclude`; hence the second way into `doubled`.
* The `finally` clause of a start whose session was replaced takes the slot of the launch
  that replaced it (`:4525`), and one more worker than the limit is launched. Found by the
  proof of `WithinLimit`; hence `overtaken`.
* A revision cancels the tasks it checked before its awaits: one launched meanwhile
  leaves its session and workspace behind (`:1551`, checked at `:1506`).
* A task whose paths are locked is failed when its own launch finds out, instead of
  waiting; freed slots are not dispatched after a failed compilation, an interruption, a
  profile failure or an abort; `preparationBlock` does not see that the worktree exists;
  `reassignWorker` spawns without looking at the limit; a pending task behind a failed
  dependency waits forever after a restart. *(the last two: reading)*

**Mailbox**

* The MCP tools of a session are bound to `handle.attempt` when it is spawned (`:4320`);
  a handle without a delivery then proposes one, whose attempt 1 overwrites it
  (`:4369`). After a follow-up of a failed task the tools say 2 and the handle 1, and
  `submit_work_report` is dropped as stale (`isStaleWorkerToolCall()`, `:1846`).
  *(reading)*
* A message is marked failed although it was delivered, or is being: by an interruption
  that returns when its session is gone (`deliverExistingSteer()`, `:3484`), while the
  next session has the message and its receipt is being appended. The journal then
  acknowledges what it says is queued, and memory queues what the journal acknowledged.
* A message is sent again while the append of its delivery is under way: it stays queued
  until that returns (`task-mailbox.ts:157`), and the prompt of the next session, or the
  follow-up of a drain, looks at the status alone (`isDeliverableFollowUp()`,
  `worker-scheduler.ts:3633`). With a turn faster than an append, a receipt pending for
  one message is also overwritten by the next (`:3455`). The messages these races touch
  are collected in the history variable `overtaken`, the only exception of the mailbox's
  properties: without it TLC finds each of them.
* Two follow-ups that both think they start a fresh attempt end the session the first
  one launched (`:1600`).
* Concurrent `enqueue()` calls of one task take the same number (`task-mailbox.ts:115`).
  *(reading)*

**Permissions**

* The adapters of Codex and Kimi number their requests alike in every session
  (`codex-adapter.ts:425`, `codex:<n>:<request>`; `kimi-adapter.ts:332`, the bare JSON-RPC
  id), and a card is answered by that name in every worker that owns it
  (`worker-scheduler.ts:1095`). So an answer meant for one worker's card allows the
  request of another, an "allow for all" remembers what the other asked for, and a
  decision journaled after its session ended becomes a card and an owner all the same
  (`:2455`), or an answer, for the first request of the next session. The comments intend
  otherwise: at `:548`, "a resolution must only land on (and promote the addendum of) the
  owning handle"; at `:2453`, "a resolution for a reused request id cannot promote another
  worker's addendum"; at `:2558`, "every outstanding card is void with the session".
  `Meant` in `NothingUnapproved` is exactly this confusion.
* `pendingAskCount` is not settled when a broker's timer or another window answers
  (`:2459`): the worker yields its slot while it works. A rejected native confirmation
  leaves its request without an answer (`permission-broker.ts:232`).
* Kimi answers with its first option when none matches (`kimi-adapter.ts:354`), so that a
  denial of a request without an option to reject lets it through (`NoReject`).
* Sessions of Kimi and OpenCode end without withdrawing their cards, which Codex does.
  *(reading)*

**Hosts**

* Messages published during a Codex handshake are dropped: `getHost()` answers before
  `start()` returned (`host-group.ts:313`, `:330`), and a turn without a thread is
  discarded (`codex-adapter.ts:454`); the comment at `orchestrator.ts:648` and the test
  of the capability gates say that they wait.
* A message that waited while the memory was read is delivered after one sent during a
  Claude handshake; flushing deletes the queue before it looks at the host;
  `Orchestrator.start()` starts the coordinator of the moment and flushes the queue of
  the coordinator of that other moment (`:1209`).
* A start under way when its host is removed, or the Meeting ends, makes a session
  nobody can end; `restartHost()` calls overlap; a failed Codex handshake leaves a host
  that "is already running"; the late "ended" of a predecessor takes the next session.
* A question's watchdog is not cleared when the expert answers as coordinator
  (`:866`); the zombie of a removed host answers for its namesake.
* The removal of a Codex host announces an unexpected exit; a suppression left by a
  refused login silences a later crash. *(reading)*

**Task inspector**

* A component whose open failed still closes, and takes the projection of one that is
  shown (`meeting-store.ts:671`; the comments at `:495` and `:568`: "The projection is
  only torn down when the last consumer calls closeTaskInspector").
* A close during a hydration makes a component that joined it fail, and nothing retries
  (`WorkerWorkbench.tsx:87`: "until the next retry").
* The refresh after a command opens once more without a close (`TaskInspector.tsx:200`):
  projection and subscription stay for good, and nothing is refreshed, because an open
  of a shown task attaches.
* A refused subscription is only logged, and the projection stops; recovery from a gap
  is unreachable, because the service derives what came before from what it delivered.
  A reloaded page leaves its subscriptions in the main process, and a faulted journal
  leaves the inspector loading. *(the last two: reading)*

## 6. What is not modelled

`PROJECT.json` lists every component with the reason. In short: windows, terminals,
speech, attachments, most of IPC and of the renderer, which are input and output around
the modelled operations; prompts, context packages, diff manifests and hashes, which the
models treat as equal or different; timers other than as steps that may happen. Within
the modelled components:

* the user rewriting the Meeting branch by hand, or rebasing it, so that it no
  longer descends from the durable head;
* conflict rebuilds and publication attempts of the design document's section 14,
  which the code does not implement;
* I/O errors of recovery itself, and the loss of power: a crash is one of the program,
  so a snapshot that was written and renamed is there, although neither is synced
  (`meeting-repository.ts:318`);
* the journal's answer to a settled conflict (`orchestrator.ts:1295`), which is part of
  `SettleInterrupted`;
* in the scheduler, the awaits between a worker's signal and what it does
  (`worker-scheduler.ts:2649`) and between the decision for a rework and its attempt
  (`:3290`): `Reports` and `Reworked` ask for the status of that moment, the code does
  not. What a late report or rework does to one task is the subject of `TaskMailbox`
  (`Submitted`) and `TaskDelivery` (`LateRework`); what it does to the slots of others is
  not modelled;
* in the mailbox, a report that is the first signal of its session while a message waits
  for its receipt or for being steered;
* a Claude session whose handshake was refused and which speaks all the same;
* the contents of grants, paths, commands and fingerprints: a target is granted,
  forbidden or asked about;
* the tool calls of a worker without a grant: its session lets them pass or confirms
  them itself (`worker-scheduler.ts:4382`, `claude-session.ts:134`), and awaits that
  confirmation without a deadline;
* the turns of a worker session inside the adapters. Read there: Codex gives an
  interruption up after ten seconds if its turn ended first, and its turn may start
  after `turn/start` timed out; a late `session.idle` of OpenCode ends the next
  generation, and `sendUserText` clears parts that are being collected;
* `DecisionWatcher` (`decisions.ts:313`), which reads a file after an await without
  asking whether it is still watched, and whose reads may overtake each other;
* in the inspector: what an event says, the caps on what is kept, the end of the window;
* the numbering of concurrent `enqueue()` calls, and the two handlers of a request that
  is delivered twice.

## 7. Plan

Done: the modules of section 2, with the proofs of every safety property of the runs.

1. An abstract log that `MeetingJournal` implements, and the journal actions of the other
   modules stated as its operations.
2. `WorkerScheduler` composed with `TaskDelivery`: the parked statuses refined by a
   delivery, for two tasks.
3. The session contract of the adapters (turn, interruption, end, restart) under the
   mailbox, with the generations the adapters keep.
4. Task authority and budget as operators, checked against a reference definition.
