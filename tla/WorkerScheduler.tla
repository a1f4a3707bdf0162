--------------------------- MODULE WorkerScheduler ---------------------------
(***************************************************************************)
(* Dispatching the tasks of a plan to workers: electron/worker-scheduler.ts *)
(* over the workspaces of electron/task-workspace.ts.                      *)
(*                                                                         *)
(* A task whose dependencies passed their gate is launched when a slot and *)
(* its workspace are free.  spawnWorker() crosses several awaits (context, *)
(* profile, authority, delivery, session start); between two of them the   *)
(* user may interrupt, cancel, retry or close, other tasks may end, the    *)
(* stall watch may restart the worker, and spawnReadyWorkers() may run     *)
(* again.  A launch is therefore a process of its own with a step per      *)
(* await; two launches of one task can be under way at once.               *)
(*                                                                         *)
(* What happens to a delivery between the report and its acceptance is     *)
(* module TaskDelivery; here it is "verifying" and then "reviewed".        *)
(***************************************************************************)
EXTENDS Integers, Sequences, FiniteSets

CONSTANTS
    Tasks,         \* task ids
    Batches,       \* the plans installed, in order: a sequence of sets of tasks
    Deps,          \* deps of each task
    ReviewedGate,  \* tasks whose dependencyGate is "reviewed", not "accepted"
    Mode,          \* workspaceMode of each task: "read-only", "git-worktree", "shared-locked"
    WritePaths,    \* what a shared-locked task locks
    Priority,      \* the priority the plan declares
    Place,         \* insertion order of the handles
    Limit,         \* maxConcurrentWorkers
    MaxLaunches,   \* bound: launches of one task under way at once
    MaxEvents      \* bound: retries, stalls, cards, revisions and edits of the repository

ASSUME PlanAssumption ==
    /\ IsFiniteSet(Tasks)
    /\ Priority \in [Tasks -> -10 .. 10]
    /\ Place \in [Tasks -> Nat] /\ \A t, u \in Tasks : Place[t] = Place[u] => t = u
    /\ Batches \in Seq(SUBSET Tasks)
    /\ Deps \in [Tasks -> SUBSET Tasks]
    /\ ReviewedGate \subseteq Tasks
    /\ Mode \in [Tasks -> {"read-only", "git-worktree", "shared-locked"}]
ASSUME BoundsAssumption ==
    /\ {Limit, MaxLaunches} \subseteq Nat \ {0}
    /\ MaxEvents \in Nat

-----------------------------------------------------------------------------
(* Data.                                                                   *)

\* "verifying" stands for the parked statuses before the review passed,
\* "reviewed" for those after it (awaiting-acceptance, integrating).
Status == {"absent", "pending", "running", "verifying", "reviewed", "accepted",
           "interrupted", "failed"}
Terminal == {"accepted", "interrupted", "failed"}

\* What the number of an attempt tells: "none" is the first of its delivery, "rework"
\* is not, and "fresh" is the first of a delivery that its launch has yet to propose.
Retries == {"none", "rework", "fresh"}
\* A WorkerHandle.  Its session is being started or has been.
Handle == [status : Status, session : {"none", "starting", "live"}, compiled : BOOLEAN,
           retried : Retries, stalled : BOOLEAN, restarted : BOOLEAN, asking : BOOLEAN]
Absent == [status |-> "absent", session |-> "none", compiled |-> FALSE, retried |-> "none",
           stalled |-> FALSE, restarted |-> FALSE, asking |-> FALSE]
Registered == [Absent EXCEPT !.status = "pending"]

\* The await a launch is at; "stale" is the start of a session the handle no
\* longer has.
LaunchPc == {"compile", "authority", "start", "stale"}

VARIABLES
    handle,      \* workers
    launching,   \* slots reserved by launches
    launch,      \* how many launches of each task are at each await
    workspaces,  \* tasks holding a workspace, and with it their path locks
    closed,      \* the Meeting has ended
    restarting,  \* stall restarts that await the mailbox
    revision,    \* tasks a revision under way will cancel
    installed,   \* batches installed
    dirty,       \* the repository has uncommitted changes
    \* history, not in the code
    doubled,     \* tasks with two launches before the session at once, or with one
                 \* that a later attempt found under way
    overtaken,   \* tasks launched while the start of a lost session had not returned
    events       \* retries, stalls, cards, revisions and edits so far

plan == <<restarting, revision, installed, dirty, closed>>
history == <<doubled, overtaken>>
vars == <<handle, launching, launch, workspaces, plan, history, events>>

\* What one synchronous stretch of the scheduler changes.
Now == [handle |-> handle, launching |-> launching, launch |-> launch,
        workspaces |-> workspaces, doubled |-> doubled, overtaken |-> overtaken]
Launches(s, t) == s.launch[t]["compile"] + s.launch[t]["authority"]
                  + s.launch[t]["start"] + s.launch[t]["stale"]
Becomes(s) ==
    /\ \A t \in Tasks : Launches(s, t) <= MaxLaunches
    /\ handle' = s.handle /\ launching' = s.launching /\ launch' = s.launch
    /\ workspaces' = s.workspaces /\ doubled' = s.doubled /\ overtaken' = s.overtaken

-----------------------------------------------------------------------------
(* Workspaces: canPrepare(), prepare() and release().                      *)

\* Two tasks that lock overlapping paths.
Overlap(t, u) ==
    /\ Mode[t] = "shared-locked" /\ Mode[u] = "shared-locked"
    /\ WritePaths[t] \cap WritePaths[u] # {}
\* Another task holds a lock t needs.
Locked(s, t) == \E u \in s.workspaces \ {t} : Overlap(t, u)
\* preparationBlock(): also for a task that has its worktree.
Blocked(t) == Mode[t] = "git-worktree" /\ dirty
\* Mutant: the locks of the other tasks are not looked at.
CanPrepareLocked(s, t) == t \in s.workspaces \/ Mode[t] # "git-worktree" \/ ~dirty
CanPrepare(s, t) ==
    \/ t \in s.workspaces
    \/ Mode[t] = "read-only"
    \/ Mode[t] = "git-worktree" /\ ~dirty
    \/ Mode[t] = "shared-locked" /\ ~Locked(s, t)

Prepared(s, t) == [s EXCEPT !.workspaces = @ \cup {t}]
Released(s, T) == [s EXCEPT !.workspaces = @ \ T]

-----------------------------------------------------------------------------
(* Dispatching: spawnReadyWorkers().                                       *)

\* dependencyGateSatisfied().
GateOpen(s, d) ==
    \/ s.handle[d].status = "accepted"
    \/ d \in ReviewedGate /\ s.handle[d].status = "reviewed"
Ready(s) == {t \in Tasks : s.handle[t].status = "pending" /\ \A d \in Deps[t] : GateOpen(s, d)}

\* countRunning(): launches, and sessions that are neither parked nor waiting
\* for an answer.
Active(s) ==
    s.launching \cup {t \in Tasks : /\ s.handle[t].session # "none"
                                    /\ s.handle[t].status = "running"
                                    /\ ~s.handle[t].asking}

\* computeBlockedDescendants(): the pending tasks transitively behind t.
Behind(s, t) ==
    {v \in Tasks : /\ s.handle[v].status = "pending"
                   /\ \A D \in SUBSET Tasks :
                         {w \in Tasks : Deps[w] \cap (D \cup {t}) # {}} \subseteq D => v \in D}
Weight(s, t) == Cardinality(Behind(s, t)) + 100 * Priority[t]
                + IF s.handle[t].retried # "none" THEN 1000 ELSE 0

Before(s, t, u) == \/ Weight(s, t) > Weight(s, u)
                   \/ Weight(s, t) = Weight(s, u) /\ Place[t] < Place[u]

Underway(s, t) == {pc \in LaunchPc : s.launch[t][pc] > 0}
\* A launch of t that has not created its session, or whose session is t's.
Launching(s, t) == Underway(s, t) \ {"stale"} # {}

\* spawnWorker() of every task of S, up to its first await.  A task whose context
\* and profile are already compiled gets to its workspace at once.
FirstAwait(s, t) == IF s.handle[t].compiled THEN "authority" ELSE "compile"
Launched(s, S) ==
    [handle |-> s.handle,
     launching |-> s.launching \cup S,
     launch |-> [t \in Tasks |-> IF t \in S
                                 THEN [s.launch[t] EXCEPT ![FirstAwait(s, t)] = @ + 1]
                                 ELSE s.launch[t]],
     workspaces |-> s.workspaces \cup {t \in S : s.handle[t].compiled},
     doubled |-> s.doubled \cup {t \in S : Launching(s, t)},
     overtaken |-> s.overtaken \cup {t \in S : "stale" \in Underway(s, t)}]

\* Mutant: one worker more than the limit.
LaunchableOneMore(s, t) == Cardinality(Active(s)) <= Limit /\ ~Blocked(t) /\ CanPrepare(s, t)
Launchable(s, t) == Cardinality(Active(s)) < Limit /\ ~Blocked(t) /\ CanPrepare(s, t)

\* The loop over the ready tasks: S is launched when each of S, and no other, is
\* launchable behind those of S that come before it.  A task already launching is
\* ready too.
Dispatches(s, S) ==
    S = {t \in Ready(s) : Launchable(Launched(s, {u \in S : Before(s, u, t)}), t)}

\* A stretch that ends in spawnReadyWorkers().
ThenDispatch(s) == \E S \in SUBSET Ready(s) : Dispatches(s, S) /\ Becomes(Launched(s, S))

-----------------------------------------------------------------------------
(* Ending workers.                                                         *)

\* releaseWorkerSession(), for each of T: a start under way is now that of a lost
\* session.
Parked(s, T, status) ==
    [s EXCEPT
        !.handle = [t \in Tasks |-> IF t \in T
            THEN [s.handle[t] EXCEPT !.session = "none", !.asking = FALSE, !.status = status]
            ELSE s.handle[t]],
        !.launch = [t \in Tasks |-> IF t \in T
            THEN [s.launch[t] EXCEPT !["start"] = 0, !["stale"] = @ + s.launch[t]["start"]]
            ELSE s.launch[t]]]

\* Mutant: the session ends and the workspace stays.
DisposedInPlace(s, T, status) == Parked(s, T, status)
\* disposeWorker().
Disposed(s, T, status) == Released(Parked(s, T, status), T)

\* cascadeFailure(): the pending tasks behind a failed one fail with it.
Doomed(s) ==
    {v \in Tasks : \A D \in SUBSET Tasks :
        {w \in Tasks : /\ s.handle[w].status = "pending"
                       /\ \E d \in Deps[w] : d \in D \/ s.handle[d].status = "failed"}
        \subseteq D => v \in D}
Cascaded(s) == Disposed(s, Doomed(s), "failed")
Failed(s, t) == Cascaded(Disposed(s, {t}, "failed"))

\* The finally clause of spawnWorker(), for a launch at pc.
Finished(s, t, pc) == [s EXCEPT !.launch[t][pc] = @ - 1, !.launching = @ \ {t}]

\* The catch clause: a worker that already ended is left alone, any other fails
\* (a removed handle has no dependents).
Caught(s, t) ==
    CASE s.handle[t].status = "absent" -> Released(s, {t})
      [] s.handle[t].status \in Terminal /\ s.handle[t].session = "none" -> s
      [] OTHER -> Failed(s, t)

\* A task waits for its dispatch again.  Nothing ends a launch that is under way.
Again(s, t, new) ==
    [s EXCEPT !.handle[t] = new, !.doubled = IF Launching(s, t) THEN @ \cup {t} ELSE @]
\* A fresh attempt: everything compiled for the last one is dropped.
FreshAttempt(s, t, why) ==
    Again(Parked(s, {t}, "pending"), t, [Registered EXCEPT !.retried = why])

\* A launch of t is at its next await.
Passes(s, t, from, to) == [s EXCEPT !.launch[t][from] = @ - 1, !.launch[t][to] = @ + 1]

-----------------------------------------------------------------------------
Init ==
    /\ handle = [t \in Tasks |-> Absent]
    /\ launching = {}
    /\ launch = [t \in Tasks |-> [pc \in LaunchPc |-> 0]]
    /\ workspaces = {}
    /\ closed = FALSE
    /\ restarting = {}
    /\ revision = {}
    /\ installed = 0
    /\ dirty = FALSE
    /\ doubled = {} /\ overtaken = {}
    /\ events = 0

-----------------------------------------------------------------------------
(* The plan.                                                               *)

\* installPlan(): the ids are new, also to the launches under way, and
\* validatePlan() knows the tasks of the plan and those whose gate is open.
Install ==
    LET batch == Batches[installed + 1]
    IN  /\ installed < Len(Batches)
        /\ ~closed
        /\ \A t \in batch : handle[t] = Absent /\ Underway(Now, t) = {}
        /\ \A t \in batch : \A d \in Deps[t] : d \in batch \/ GateOpen(Now, d)
        /\ installed' = installed + 1
        /\ ThenDispatch([Now EXCEPT !.handle =
               [t \in Tasks |-> IF t \in batch THEN Registered ELSE handle[t]]])
        /\ UNCHANGED <<restarting, revision, dirty, closed, events>>

\* revisePlan(): pending tasks without dependents are cancelled and a running
\* one is steered.  The checks come before the await on the steering ...
Revise ==
    /\ revision = {} /\ ~closed /\ events < MaxEvents
    /\ \E t \in Tasks, steered \in Tasks :
          /\ handle[t].status = "pending" /\ handle[t].session = "none"
          /\ \A u \in Tasks : handle[u].status # "absent" => t \notin Deps[u]
          /\ handle[steered].status = "running"
          /\ revision' = {t}
    /\ events' = events + 1
    /\ UNCHANGED <<handle, launching, launch, workspaces, restarting, installed, dirty,
                   closed, history>>

\* ... the removal after it, unless the steering fails.
ApplyRevision ==
    /\ revision # {}
    /\ revision' = {}
    /\ \/ /\ ~closed
          /\ ThenDispatch([Now EXCEPT !.handle =
                 [t \in Tasks |-> IF t \in revision THEN Absent ELSE handle[t]]])
       \/ Becomes(Now)
    /\ UNCHANGED <<restarting, installed, dirty, closed, events>>

-----------------------------------------------------------------------------
(* spawnWorker(), one step per await.                                      *)

\* spawnAborted().
Aborted(t) == closed \/ handle[t].status # "pending"

\* An aborted launch releases the workspace of the task, whoever uses it.
Abort(s, t, pc) == Becomes(Released(Finished(s, t, pc), {t}))
Quiet == UNCHANGED <<plan, events>>

\* The context package and the profile are compiled and persisted, and the
\* workspace is prepared: it may be dirty, or locked since canPrepare().
Compiled(t) ==
    LET s == [Now EXCEPT !.handle[t].compiled = handle[t].status # "absent"]
    IN  /\ launch[t]["compile"] > 0
        /\ \/ Aborted(t) /\ Abort(s, t, "compile")
           \/ /\ ~Aborted(t) /\ CanPrepare(s, t)
              /\ Becomes(Passes(Prepared(s, t), t, "compile", "authority"))
           \/ /\ ~Aborted(t) /\ ~CanPrepare(s, t) /\ Mode[t] = "git-worktree"
              /\ Becomes(Finished(s, t, "compile"))
           \/ /\ ~Aborted(t) /\ ~CanPrepare(s, t) /\ Mode[t] = "shared-locked"
              /\ Becomes(Failed(Finished(s, t, "compile"), t))
        /\ Quiet

\* The profile cannot be compiled: the task is interrupted, whatever it is by now.
CompileFails(t) ==
    /\ launch[t]["compile"] > 0
    /\ LET s == Finished(Now, t, "compile")
       IN  Becomes(IF handle[t].status = "absent" THEN Released(s, {t})
                   ELSE Disposed(s, {t}, "interrupted"))
    /\ Quiet

\* The first attempt of a new delivery has number 1.
Numbered(retried) == IF retried = "fresh" THEN "none" ELSE retried

\* ensureTaskAuthority() is done; the delivery of a fresh attempt is proposed
\* and approved at once, the session created and its start awaited.
Authorized(t) ==
    /\ launch[t]["authority"] > 0
    /\ IF Aborted(t) THEN Abort(Now, t, "authority")
       ELSE Becomes(Passes(
                [Now EXCEPT
                    !.handle[t] = [handle[t] EXCEPT !.session = "starting",
                                                    !.status = "running", !.stalled = FALSE,
                                                    !.retried = Numbered(@)],
                    !.launching = @ \ {t}],
                t, "authority", "start"))
    /\ Quiet

\* Compiling the context, the grant, the delivery or the start rejects.
LaunchFails(t) ==
    /\ \E pc \in Underway(Now, t) : Becomes(Caught(Finished(Now, t, pc), t))
    /\ Quiet

\* session.start() returned and the prompt was sent; a session the handle no
\* longer has sends nothing.
StartReturns(t) ==
    \/ /\ launch[t]["start"] > 0
       /\ Becomes(Finished([Now EXCEPT !.handle[t].session =
              IF @ = "starting" THEN "live" ELSE @], t, "start"))
       /\ Quiet
    \/ /\ launch[t]["stale"] > 0
       /\ Becomes(Finished(Now, t, "stale"))
       /\ Quiet

-----------------------------------------------------------------------------
(* The worker.                                                             *)

Running(t) == handle[t].status = "running" /\ handle[t].session # "none"

\* Mutant: the slot is freed and nobody takes it.
ReportsOnly(t) == Running(t) /\ Becomes(Parked(Now, {t}, "verifying")) /\ Quiet
\* handleWorkerSignal() of a WorkReport: the session is released.
Reports(t) ==
    /\ Running(t)
    /\ ThenDispatch(Parked(Now, {t}, "verifying"))
    /\ Quiet

\* The same for a failure; a worker may fail, or end without a report.
WorkerFails(t) ==
    /\ Running(t)
    /\ ThenDispatch(Failed(Now, t))
    /\ Quiet

\* interruptTask(), or the interrupted turn of the worker.
Interrupted(t) ==
    /\ Running(t)
    /\ Becomes(Disposed(Now, {t}, "interrupted"))
    /\ Quiet

\* applyDeliveryView() and finalizeAcceptedHandle().
ReviewPasses(t) ==
    /\ handle[t].status = "verifying"
    /\ LET s == Parked(Now, {t}, "reviewed")
       IN  IF GateOpen(s, t) THEN ThenDispatch(s) ELSE Becomes(s)
    /\ Quiet
Accepted(t) ==
    /\ handle[t].status = "reviewed"
    /\ ThenDispatch(Disposed(Now, {t}, "accepted"))
    /\ Quiet
\* failDeliverySubmission() and sweepParked().
DeliveryFails(t) ==
    /\ handle[t].status \in {"verifying", "reviewed"}
    /\ ThenDispatch(Failed(Now, t))
    /\ Quiet

\* runAutomaticRework(): the same delivery, a fresh attempt.
Reworked(t) ==
    /\ handle[t].status \in {"verifying", "reviewed"} /\ events < MaxEvents
    /\ ThenDispatch(FreshAttempt(Now, t, "rework"))
    /\ events' = events + 1
    /\ UNCHANGED plan

\* The attempt keeps its number until a delivery is proposed for it.
Reproposed(retried) == IF retried = "none" THEN "none" ELSE "fresh"

\* queueFollowUp(), or resolveRecoveredTask() in the same attempt: a fresh
\* delivery either way.
Retried(t) ==
    /\ events < MaxEvents
    /\ \/ /\ handle[t].status \in {"failed", "interrupted"}
          /\ ThenDispatch(FreshAttempt(Now, t, "fresh"))
       \/ /\ handle[t].status = "interrupted"
          /\ ThenDispatch(Again(Now, t, [handle[t] EXCEPT !.status = "pending",
                                                          !.compiled = FALSE,
                                                          !.retried = Reproposed(@)]))
    /\ events' = events + 1
    /\ UNCHANGED plan

\* handlePermissionRequest() shows a card and yields the slot until the answer.
Asks(t) ==
    /\ Running(t) /\ ~handle[t].asking /\ events < MaxEvents
    /\ ThenDispatch([Now EXCEPT !.handle[t].asking = TRUE])
    /\ events' = events + 1
    /\ UNCHANGED plan
Answered(t) ==
    /\ handle[t].asking
    /\ Becomes([Now EXCEPT !.handle[t].asking = FALSE])
    /\ Quiet

-----------------------------------------------------------------------------
(* The stall watch.                                                        *)

\* sweepStalls() escalates after its nudge; any activity takes it back.
Stalls(t) ==
    /\ Running(t) /\ ~handle[t].stalled /\ events < MaxEvents
    /\ handle' = [handle EXCEPT ![t].stalled = TRUE]
    /\ events' = events + 1
    /\ UNCHANGED <<launching, launch, workspaces, plan, history>>
Progress(t) ==
    /\ Running(t) /\ handle[t].stalled
    /\ handle' = [handle EXCEPT ![t].stalled = FALSE]
    /\ UNCHANGED <<launching, launch, workspaces, plan, history, events>>

\* maybeAutoRestartStalledWorker(): once per attempt; the mailbox is awaited ...
RestartStalled(t) ==
    /\ Running(t) /\ handle[t].stalled /\ ~handle[t].restarted
    /\ handle' = [handle EXCEPT ![t].restarted = TRUE]
    /\ restarting' = restarting \cup {t}
    /\ UNCHANGED <<launching, launch, workspaces, revision, installed, dirty, closed,
                   history, events>>

\* ... and the worker is looked at again.
Restarted(t) ==
    /\ t \in restarting
    /\ restarting' = restarting \ {t}
    /\ \/ /\ ~closed /\ Running(t) /\ handle[t].stalled
          /\ LET s == Parked(Now, {t}, "pending")
             IN  ThenDispatch(Again(s, t, [s.handle[t] EXCEPT !.stalled = FALSE]))
       \/ Becomes(Now)  \* the mailbox rejected, or the worker moved on
    /\ UNCHANGED <<revision, installed, dirty, closed, events>>

-----------------------------------------------------------------------------
(* The user.                                                               *)

\* The user edits, commits or cleans the repository.
Edits ==
    /\ events < MaxEvents /\ ~closed
    /\ dirty' = ~dirty
    /\ events' = events + 1
    /\ UNCHANGED <<handle, launching, launch, workspaces, restarting, revision,
                   installed, closed, history>>

\* endAll(): every handle is disposed of and forgotten.
EndAll ==
    /\ ~closed
    /\ closed' = TRUE
    /\ handle' = [t \in Tasks |-> Absent]
    /\ workspaces' = {t \in workspaces : handle[t].status = "absent"}
    /\ UNCHANGED <<launching, launch, restarting, revision, installed, dirty, history,
                   events>>

Step(t) ==
    \/ Reports(t) \/ WorkerFails(t) \/ Interrupted(t) \/ ReviewPasses(t) \/ Accepted(t)
    \/ DeliveryFails(t) \/ Reworked(t) \/ Retried(t) \/ Asks(t) \/ Answered(t)
    \/ Stalls(t) \/ Progress(t) \/ RestartStalled(t) \/ Restarted(t)
LaunchStep(t) ==
    Compiled(t) \/ CompileFails(t) \/ Authorized(t) \/ LaunchFails(t) \/ StartReturns(t)

Next ==
    \/ Install \/ Revise \/ ApplyRevision \/ Edits \/ EndAll
    \/ \E t \in Tasks : Step(t) \/ LaunchStep(t)

Spec == Init /\ [][Next]_vars

-----------------------------------------------------------------------------
(* Properties.                                                             *)

TypeOK ==
    /\ handle \in [Tasks -> Handle]
    /\ launching \subseteq Tasks
    /\ launch \in [Tasks -> [LaunchPc -> 0 .. MaxLaunches]]
    /\ workspaces \subseteq Tasks
    /\ restarting \subseteq Tasks
    /\ doubled \subseteq Tasks /\ overtaken \subseteq Tasks /\ revision \subseteq Tasks
    /\ closed \in BOOLEAN /\ dirty \in BOOLEAN
    /\ installed \in 0 .. Len(Batches)

\* A task that ended owns no session, no workspace and no path lock, and nothing
\* comes back after endAll(), however many launches were under way.
EndedOwnsNothing ==
    /\ TypeOK
    /\ \A t \in Tasks : handle[t].status \in Terminal =>
          handle[t].session = "none" /\ t \notin workspaces
    /\ closed => \A t \in Tasks : handle[t].status = "absent"

\* At most Limit workers work.  Beyond an answered card, which lets a suspended
\* worker go on, only a task with two launches at once makes one more: the one
\* that ends first gives back the slot of both.
WithinLimit ==
    [][(Cardinality(Active(Now)) <= Limit /\ Cardinality(Active(Now)') > Limit)
          => doubled \cup overtaken # {} \/ \E t \in Tasks : Answered(t)]_vars

\* Two tasks that may write one path never work at the same time: "Explicit
\* shared mode writes in place under advisory path locks" (task-workspace.ts).
\* The code breaks it twice.  spawnReadyWorkers() launches a task it is launching
\* already, and when the second launch aborts it releases the locks under the
\* worker the first one started.  And a launch that awaits its grant while its
\* task fails, loses its locks and is retried goes on as the retry, without them.
SharedPathsExclusive ==
    \A t, u \in Tasks : t # u /\ Running(t) /\ Running(u) => ~Overlap(t, u)

\* With one launch of a task at a time the locks hold, through retries, stall
\* restarts, revisions and failed launches.
LocksExclude == doubled = {} => SharedPathsExclusive

\* A task that could be launched and is not.
Idle == \E t \in Ready(Now) \ launching : Launchable(Now, t)

\* A slot, a gate or a lock that comes free is used at once: only the end of a
\* launch, an interruption and a cleaned repository leave a task idle.
FreedSlotsDispatched ==
    [][Idle' /\ ~Idle => \/ Edits
                         \/ \E t \in Tasks : Interrupted(t) \/ LaunchStep(t)]_vars

=============================================================================
