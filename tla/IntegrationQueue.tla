-------------------------- MODULE IntegrationQueue --------------------------
(***************************************************************************)
(* The Meeting's integration queue and the Git worktree it owns:           *)
(* electron/integration-queue.ts (IntegrationQueue) over                   *)
(* electron/delivery-integrator.ts (GitDeliveryIntegrator).                *)
(*                                                                         *)
(* A reviewed candidate is cherry-picked onto the Meeting branch, stamped  *)
(* with trailers, verified there and then recorded as accepted; a final    *)
(* delivery the user accepts is fast-forwarded onto the user's base.  One  *)
(* operation runs at a time (the promise `tail`).  Every `await` on Git,   *)
(* on the verifier and on the journal is an interleaving point: the user   *)
(* may move the base there, a call may fail there, and the application may *)
(* crash there and restart from the journal and from what Git holds.       *)
(*                                                                         *)
(* A commit is its history: the sequence of the commits above the revision *)
(* the repository had when the Meeting was created.  "A is an ancestor of  *)
(* B" is IsPrefix(A, B), and two equal histories are one commit.           *)
(***************************************************************************)
EXTENDS Integers, Sequences, SequencesExt

CONSTANTS
    Candidates,   \* frozen, reviewed candidate commits (the queue's keys)
    Tasks,        \* the tasks they belong to
    TaskOf,       \* the task of each candidate
    None,         \* an absent value
    MaxWaiting,   \* bound: operations waiting on `tail`
    MaxCrashes,   \* bound: crashes of the application
    MaxFaults,    \* bound: journal writes that reject
    MaxUserMoves  \* bound: commits the user makes on the base

ASSUME TaskOfAssumption == TaskOf \in [Candidates -> Tasks]
ASSUME BoundsAssumption ==
    {MaxWaiting, MaxCrashes, MaxFaults, MaxUserMoves} \subseteq Nat

-----------------------------------------------------------------------------
(* Commits and histories.                                                  *)

Commit == [cand : Candidates \cup {None}, trailers : BOOLEAN]
History == Seq(Commit)

UserCommit == [cand |-> None, trailers |-> FALSE]
Picked(c) == [cand |-> c, trailers |-> FALSE]
Stamped(c) == [cand |-> c, trailers |-> TRUE]

\* The candidates a history contains.
Carried(h) == {h[i].cand : i \in DOMAIN h} \ {None}

-----------------------------------------------------------------------------
(* Operations on the queue.  An integration carries its candidate, a       *)
(* publication the head and the base revision of the delivery the user     *)
(* accepted.                                                               *)

Integrate(c) == [kind |-> "integrate", cand |-> c, head |-> <<>>, expected |-> <<>>]
Publish(d) == [kind |-> "publish", cand |-> None, head |-> d.head, expected |-> d.expected]

Delivery == [head : History, expected : History]
Job == [kind : {"integrate", "publish"}, cand : Candidates \cup {None},
        head : History, expected : History]
Staged == [prior : History, result : History]
\* None is none of the values it stands beside.
ASSUME NoneAssumption ==
    /\ None \notin Candidates \cup Tasks
    /\ None \notin History \cup Delivery \cup Job \cup Staged

PublicationState == {"unpublished", "publishing", "published", "paused"}
Interrupted == [pick : Candidates, durableHead : History, currentHead : History]
ASSUME InterruptedAssumption == None \notin Interrupted

\* What restore() computes from the journal.  It reads the events from left to
\* right, so the journal is kept as that result and each appended event
\* updates it (the Log operators below).
LogState == [head : History \cup {None}, active : Tasks \cup {None},
             accepted : SUBSET Candidates, publication : PublicationState,
             request : Delivery \cup {None}]

IntegratePcs == {"queued", "staging", "check", "pick", "pickAbort", "trailers", "staged",
                 "verify", "verified", "accept", "accepted", "abort", "failed"}
PublishPcs == {"started", "inspect", "merge", "completed", "paused"}

VARIABLES
    \* Git, on disk
    branch,        \* head of the Meeting branch
    worktree,      \* the integration worktree: "never", "present" or "removed"
    picking,       \* CHERRY_PICK_HEAD of that worktree, or None
    base,          \* HEAD of the user's base worktree
    \* the Meeting journal, on disk
    log,           \* see LogState
    delivery,      \* the latest journaled final delivery, or None
    \* the process
    up,            \* the application runs
    faulted,       \* MeetingRepository has fail-stopped
    expected,      \* expectedUserBaseRevision, the base HEAD at construction
    restored,      \* restoredDurableHead
    statePromise,  \* "none", "ready" or "rejected"
    durableHead,   \* durableHead and, once ready, state.durableHead
    active,        \* activeTaskId
    accepted,      \* accepted keys
    publication,   \* publicationState
    request,       \* publicationRequest
    interrupted,   \* interruptedOperation
    resolving,     \* the user settles it: "no", "abort" or "settle"
    conflictTask,  \* the recovered task marked integration-conflict by start()
    waiting,       \* operations chained on `tail`
    pc, job,       \* the running operation and its next step
    staged,        \* its StagedIntegration, or None
    \* history, not in the code
    checked,       \* heads on which post-integration verification passed
    adopted,       \* heads initialize() took as durable without a journal fact
    crashes, faults, userMoves

gitVars == <<branch, worktree, picking>>
baseVars == <<base, userMoves>>
journalVars == <<log, faulted, faults>>
memVars == <<durableHead, active, accepted>>
publicationVars == <<publication, request>>
startVars == <<up, expected, restored, statePromise, interrupted, resolving, conflictTask,
               crashes>>
histVars == <<checked, adopted>>
vars == <<gitVars, baseVars, journalVars, delivery, memVars, publicationVars, startVars,
          waiting, pc, job, staged, histVars>>

-----------------------------------------------------------------------------
Init ==
    /\ branch = <<>> /\ worktree = "never" /\ picking = None
    /\ base = <<>>
    /\ log = [head |-> None, active |-> None, accepted |-> {},
              publication |-> "unpublished", request |-> None]
    /\ delivery = None
    /\ up = TRUE /\ faulted = FALSE
    /\ expected = <<>> /\ restored = None /\ statePromise = "none"
    /\ durableHead = <<>> /\ active = None /\ accepted = {}
    /\ publication = "unpublished" /\ request = None
    /\ interrupted = None /\ conflictTask = None /\ resolving = "no"
    /\ waiting = <<>> /\ pc = "idle" /\ job = None /\ staged = None
    /\ checked = {} /\ adopted = {}
    /\ crashes = 0 /\ faults = 0 /\ userMoves = 0

-----------------------------------------------------------------------------
(* The journal.  persist() appends, fsyncs and then flushes; it rejects    *)
(* when the repository has faulted, when this write faults it, or when     *)
(* another write faults it before flush(), and in the last two cases the   *)
(* line may be on disk all the same.                                       *)

PersistOk(entry) ==
    /\ ~faulted
    /\ log' = entry
    /\ UNCHANGED <<faulted, faults>>

PersistRejectsOnce(entry) ==
    /\ ~faulted
    /\ faults < MaxFaults
    /\ faults' = faults + 1
    /\ faulted' = TRUE
    /\ log' \in {log, entry}

PersistRejects(entry) ==
    \/ /\ faulted
       /\ UNCHANGED journalVars
    \/ /\ ~faulted
       /\ faults < MaxFaults
       /\ faults' = faults + 1
       /\ faulted' = TRUE
       /\ log' \in {log, entry}

\* Names that end in a fault (LogStagedResult and the like) are the definitions
\* below them with that fault; only the sensitivity runs use them.
LogActive == [log EXCEPT !.active = TaskOf[job.cand]]
LogStagedResult == [log EXCEPT !.head = staged.result]
LogStaged == [log EXCEPT !.head = staged.prior]
LogAccepted == [log EXCEPT !.head = staged.result, !.active = None,
                           !.accepted = @ \cup {job.cand}]
LogFailed == [log EXCEPT !.active = None]
LogStartedPublished == [log EXCEPT !.publication = "published",
                                   !.request = [head |-> job.head,
                                                expected |-> job.expected]]
LogStarted == [log EXCEPT !.publication = "publishing",
                          !.request = [head |-> job.head, expected |-> job.expected]]
LogCompleted == [log EXCEPT !.publication = "published"]
LogPaused == [log EXCEPT !.publication = "paused"]

-----------------------------------------------------------------------------
(* The callers and the user.                                               *)

Started == up /\ pc # "detect"

\* enqueue(): a candidate already accepted resolves at once and changes nothing;
\* one that waits or runs may be enqueued again.
Enqueue(c) ==
    /\ Started
    /\ c \notin accepted
    /\ Len(waiting) < MaxWaiting
    /\ waiting' = Append(waiting, Integrate(c))
    /\ UNCHANGED <<gitVars, baseVars, journalVars, delivery, memVars, publicationVars,
                   startVars, pc, job, staged, histVars>>

\* The orchestrator journals a final delivery for the head it inspects.
BuildDelivery ==
    /\ Started
    /\ statePromise = "ready"
    /\ ~faulted
    /\ delivery' = [head |-> durableHead, expected |-> expected]
    /\ UNCHANGED <<gitVars, baseVars, journalVars, memVars, publicationVars,
                   startVars, waiting, pc, job, staged, histVars>>

\* publishFinalDelivery(): the user accepts the delivery on offer.
RequestPublication ==
    /\ Started
    /\ delivery # None
    /\ Len(waiting) < MaxWaiting
    /\ waiting' = Append(waiting, Publish(delivery))
    /\ UNCHANGED <<gitVars, baseVars, journalVars, delivery, memVars, publicationVars,
                   startVars, pc, job, staged, histVars>>

UserCommits ==
    /\ userMoves < MaxUserMoves
    /\ userMoves' = userMoves + 1
    /\ base' = Append(base, UserCommit)
    /\ UNCHANGED <<gitVars, journalVars, delivery, memVars, publicationVars, startVars,
                   waiting, pc, job, staged, histVars>>

-----------------------------------------------------------------------------
(* state(): initialize() the worktree once and keep the promise, a         *)
(* rejected one too.  Without a head restored from the journal, whatever   *)
(* HEAD the worktree has becomes the durable head.                         *)

WorktreeHead == IF worktree = "never" THEN expected ELSE branch

InitializeState ==
    /\ up
    /\ statePromise = "none"
    /\ IsPrefix(expected, WorktreeHead)
    /\ branch' = WorktreeHead
    /\ worktree' = "present"
    /\ statePromise' = "ready"
    /\ durableHead' = IF restored = None THEN WorktreeHead ELSE restored
    /\ adopted' = IF restored = None THEN adopted \cup {WorktreeHead} ELSE adopted
    /\ UNCHANGED <<picking, baseVars, journalVars, delivery, active, accepted,
                   publicationVars, up, expected, restored, interrupted, resolving,
                   conflictTask, crashes, waiting, pc, job, staged, checked>>

\* The branch no longer descends from the base, or a Git call failed.
InitializeFails ==
    /\ up
    /\ statePromise = "none"
    /\ statePromise' = "rejected"
    /\ \/ UNCHANGED gitVars
       \/ /\ branch' = WorktreeHead
          /\ worktree' = "present"
          /\ UNCHANGED picking
    /\ UNCHANGED <<baseVars, journalVars, delivery, memVars, publicationVars, up, expected,
                   restored, interrupted, resolving, conflictTask, crashes, waiting, pc, job,
                   staged, histVars>>

-----------------------------------------------------------------------------
(* process(): one candidate.                                               *)

\* Take the next operation.  A duplicate, an unusable worktree or a
\* publication of another head settles it at once.
Begin ==
    /\ Started
    /\ pc = "idle"
    /\ waiting # <<>>
    /\ statePromise # "none"
    /\ waiting' = Tail(waiting)
    /\ LET next == Head(waiting) IN
       \/ /\ statePromise = "ready"
          /\ next.kind = "integrate"
          /\ next.cand \notin accepted
          /\ job' = next /\ pc' = "queued"
          /\ active' = TaskOf[next.cand]
       \/ /\ statePromise = "ready"
          /\ next.kind = "publish"
          /\ next.head = durableHead
          /\ job' = next /\ pc' = "started"
          /\ UNCHANGED active
       \/ /\ \/ statePromise = "rejected"
             \/ next.kind = "integrate" /\ next.cand \in accepted
             \/ next.kind = "publish" /\ next.head # durableHead
          /\ UNCHANGED <<job, pc, active>>
    /\ UNCHANGED <<gitVars, baseVars, journalVars, delivery, durableHead, accepted,
                   publicationVars, startVars, staged, histVars>>

Finish ==
    /\ pc' = "idle"
    /\ job' = None
    /\ staged' = None

\* A rejection here is outside the try: activeTaskId is left set.
PersistQueued ==
    /\ pc = "queued"
    /\ \/ PersistOk(LogActive) /\ pc' = "staging" /\ UNCHANGED <<job, staged>>
       \/ PersistRejects(LogActive) /\ Finish
    /\ UNCHANGED <<gitVars, baseVars, delivery, memVars, publicationVars, startVars,
                   waiting, histVars>>

PersistStaging ==
    /\ pc = "staging"
    /\ \/ PersistOk(LogActive) /\ pc' = "check"
       \/ PersistRejects(LogActive) /\ pc' = "failed"
    /\ UNCHANGED <<gitVars, baseVars, delivery, memVars, publicationVars, startVars,
                   waiting, job, staged, histVars>>

\* HEAD already is this candidate, stamped, on top of the durable head.
Recoverable(c) ==
    /\ branch # <<>>
    /\ Last(branch) = Stamped(c)
    /\ Front(branch) = durableHead

\* stageCandidate() up to the cherry-pick.
CheckCandidate ==
    /\ pc = "check"
    /\ \/ /\ worktree = "present"
          /\ branch = durableHead
          /\ pc' = "pick"
          /\ UNCHANGED staged
       \/ /\ worktree = "present"
          /\ branch # durableHead
          /\ Recoverable(job.cand)
          /\ staged' = [prior |-> durableHead, result |-> branch]
          /\ pc' = "staged"
       \/ \* evidence no longer matches, HEAD moved, or a Git call failed
          /\ pc' = "failed"
          /\ UNCHANGED staged
    /\ UNCHANGED <<gitVars, baseVars, journalVars, delivery, memVars, publicationVars,
                   startVars, waiting, job, histVars>>

\* A candidate already in the history, or a cherry-pick already in progress,
\* makes git fail like a conflict does.
CherryPick ==
    /\ pc = "pick"
    /\ \/ /\ worktree = "present"
          /\ picking = None
          /\ job.cand \notin Carried(branch)
          /\ branch' = Append(branch, Picked(job.cand))
          /\ pc' = "trailers"
          /\ UNCHANGED picking
       \/ /\ worktree = "present"
          /\ picking' = IF picking = None THEN job.cand ELSE picking
          /\ pc' = "pickAbort"
          /\ UNCHANGED branch
       \/ /\ pc' = "failed"
          /\ UNCHANGED <<branch, picking>>
    /\ UNCHANGED <<worktree, baseVars, journalVars, delivery, memVars, publicationVars,
                   startVars, waiting, job, staged, histVars>>

AbortPick ==
    /\ pc = "pickAbort"
    /\ picking' \in {None, picking}
    /\ pc' = "failed"
    /\ UNCHANGED <<branch, worktree, baseVars, journalVars, delivery, memVars,
                   publicationVars, startVars, waiting, job, staged, histVars>>

\* appendCommitTrailers() amends the commit.  When a Git call between the
\* cherry-pick and the return fails, `staged` stays undefined.
AddTrailers ==
    /\ pc = "trailers"
    /\ LET amended == Append(Front(branch), Stamped(job.cand)) IN
       \/ /\ worktree = "present"
          /\ branch' = amended
          /\ staged' = [prior |-> durableHead, result |-> amended]
          /\ pc' = "staged"
       \/ /\ \/ UNCHANGED branch
             \/ worktree = "present" /\ branch' = amended
          /\ pc' = "failed"
          /\ UNCHANGED staged
    /\ UNCHANGED <<worktree, picking, baseVars, journalVars, delivery, memVars,
                   publicationVars, startVars, waiting, job, histVars>>

PersistStaged ==
    /\ pc = "staged"
    /\ \/ PersistOk(LogStaged) /\ pc' = "verify"
       \/ PersistRejects(LogStaged) /\ pc' = "abort"
    /\ UNCHANGED <<gitVars, baseVars, delivery, memVars, publicationVars, startVars,
                   waiting, job, staged, histVars>>

VerificationIgnored == UNCHANGED checked
VerificationPasses == checked' = checked \cup {branch}

VerifyStaged ==
    /\ pc = "verify"
    /\ \/ /\ worktree = "present"
          /\ branch = staged.result
          /\ VerificationPasses
          /\ pc' = "verified"
       \/ /\ pc' = "abort"
          /\ UNCHANGED checked
    /\ UNCHANGED <<gitVars, baseVars, journalVars, delivery, memVars, publicationVars,
                   startVars, waiting, job, staged, adopted>>

PersistVerified ==
    /\ pc = "verified"
    /\ \/ PersistOk(LogStaged) /\ pc' = "accept"
       \/ PersistRejects(LogStaged) /\ pc' = "abort"
    /\ UNCHANGED <<gitVars, baseVars, delivery, memVars, publicationVars, startVars,
                   waiting, job, staged, histVars>>

\* acceptVerifiedIntegration(): the head and its parent are checked again.
AcceptVerified ==
    /\ pc = "accept"
    /\ \/ /\ worktree = "present"
          /\ staged.prior = durableHead
          /\ branch = staged.result
          /\ pc' = "accepted"
       \/ pc' = "abort"
    /\ UNCHANGED <<gitVars, baseVars, journalVars, delivery, memVars, publicationVars,
                   startVars, waiting, job, staged, histVars>>

RememberAcceptanceOnly ==
    /\ accepted' = accepted \cup {job.cand}
    /\ UNCHANGED durableHead

RememberAccepted ==
    /\ durableHead' = staged.result
    /\ accepted' = accepted \cup {job.cand}

PersistAccepted ==
    /\ pc = "accepted"
    /\ \/ /\ PersistOk(LogAccepted)
          /\ RememberAccepted
          /\ active' = None
          /\ Finish
       \/ /\ PersistRejects(LogAccepted)
          /\ pc' = "abort"
          /\ UNCHANGED <<memVars, job, staged>>
    /\ UNCHANGED <<gitVars, baseVars, delivery, publicationVars, startVars, waiting,
                   histVars>>

\* abortStagedIntegration(): best effort, its own failure is swallowed.
AbortStaged ==
    /\ pc = "abort"
    /\ pc' = "failed"
    /\ \/ /\ worktree = "present"
          /\ branch = staged.result
          /\ branch' = staged.prior
       \/ UNCHANGED branch
    /\ UNCHANGED <<worktree, picking, baseVars, journalVars, delivery, memVars,
                   publicationVars, startVars, waiting, job, staged, histVars>>

\* A rejection replaces the error and leaves activeTaskId set.
PersistFailed ==
    /\ pc = "failed"
    /\ \/ PersistOk(LogFailed) /\ active' = None
       \/ PersistRejects(LogFailed) /\ UNCHANGED active
    /\ Finish
    /\ UNCHANGED <<gitVars, baseVars, delivery, durableHead, accepted, publicationVars,
                   startVars, waiting, histVars>>

-----------------------------------------------------------------------------
(* publish(): the final delivery.                                          *)

PersistStarted ==
    /\ pc = "started"
    /\ \/ /\ PersistOk(LogStarted)
          /\ publication' = "publishing"
          /\ request' = [head |-> job.head, expected |-> job.expected]
          /\ pc' = "inspect"
          /\ UNCHANGED <<job, staged>>
       \/ /\ PersistRejects(LogStarted)
          /\ UNCHANGED publicationVars
          /\ Finish
    /\ UNCHANGED <<gitVars, baseVars, delivery, memVars, startVars, waiting, histVars>>

\* publishUserBase() up to the merge.  The second disjunct stands for a dirty
\* base as well: the user may edit files at any time, so what `git status`
\* reports is an input.
InspectBase ==
    /\ pc = "inspect"
    /\ \/ /\ worktree = "present"
          /\ job.head = durableHead
          /\ branch = job.head
          /\ \/ base = job.head /\ pc' = "completed"
             \/ /\ base # job.head
                /\ base = job.expected
                /\ IsPrefix(base, job.head)
                /\ pc' = "merge"
       \/ pc' = "paused"
    /\ UNCHANGED <<gitVars, baseVars, journalVars, delivery, memVars, publicationVars,
                   startVars, waiting, job, staged, histVars>>

CanAlwaysMerge == TRUE
CanFastForward == IsPrefix(base, job.head)

\* git merge --ff-only; the head is read back afterwards and that may fail.
MergeBase ==
    /\ pc = "merge"
    /\ \/ /\ CanFastForward
          /\ base' = job.head
          /\ pc' \in {"completed", "paused"}
       \/ /\ pc' = "paused"
          /\ UNCHANGED base
    /\ UNCHANGED <<gitVars, userMoves, journalVars, delivery, memVars,
                   publicationVars, startVars, waiting, job, staged, histVars>>

PersistCompleted ==
    /\ pc = "completed"
    /\ \/ /\ PersistOk(LogCompleted)
          /\ publication' = "published"
          /\ Finish
       \/ /\ PersistRejects(LogCompleted)
          /\ pc' = "paused"
          /\ UNCHANGED <<publication, job, staged>>
    /\ UNCHANGED <<gitVars, baseVars, delivery, memVars, request, startVars, waiting,
                   histVars>>

PersistPaused ==
    /\ pc = "paused"
    /\ \/ PersistOk(LogPaused) /\ publication' = "paused"
       \/ PersistRejects(LogPaused) /\ UNCHANGED publication
    /\ Finish
    /\ UNCHANGED <<gitVars, baseVars, delivery, memVars, request, startVars, waiting,
                   histVars>>

\* cleanupPublishedIntegration() is called by the orchestrator after the
\* publication settled, outside `tail`: another operation may be running.
\* `git worktree remove` refuses an unclean worktree, and that is swallowed.
CleanupPublished ==
    /\ Started
    /\ statePromise = "ready"
    /\ publication = "published"
    /\ base = request.head
    /\ durableHead = request.head
    /\ worktree = "present"
    /\ picking = None
    /\ worktree' = "removed"
    /\ UNCHANGED <<branch, picking, baseVars, journalVars, delivery, memVars,
                   publicationVars, startVars, waiting, pc, job, staged, histVars>>

-----------------------------------------------------------------------------
(* Crash, restart and recovery.                                            *)

\* Everything in memory is gone; a job that was running or waiting is lost.
Crash ==
    /\ up
    /\ crashes < MaxCrashes
    /\ crashes' = crashes + 1
    /\ up' = FALSE
    /\ pc' = "idle" /\ job' = None /\ staged' = None /\ waiting' = <<>>
    /\ resolving' = "no"
    /\ UNCHANGED <<gitVars, baseVars, journalVars, delivery, memVars, publicationVars,
                   expected, restored, statePromise, interrupted, conflictTask, histVars>>

\* restore(): the journaled head, or the constructor's expected revision.
ResumeHeadUnchecked == log.head
ResumeHead == IF log.head = None THEN base ELSE log.head

\* The constructor reads the base HEAD; start() restores from the journal.
Restart ==
    /\ ~up
    /\ up' = TRUE
    /\ faulted' = FALSE
    /\ expected' = base
    /\ restored' = log.head
    /\ durableHead' = ResumeHead
    /\ active' = log.active
    /\ accepted' = log.accepted
    /\ publication' = log.publication
    /\ request' = log.request
    /\ interrupted' = None
    /\ conflictTask' = None
    /\ statePromise' = "none"
    /\ pc' = IF log.active = None THEN "idle" ELSE "detect"
    /\ UNCHANGED <<gitVars, baseVars, log, faults, delivery, resolving, crashes, waiting, job,
                   staged, histVars>>

\* detectInterruptedOperation(): start() rejects with the state's promise.
DetectInterrupted ==
    /\ up
    /\ pc = "detect"
    /\ \/ /\ statePromise = "ready"
          /\ IF picking = None
             THEN UNCHANGED <<interrupted, conflictTask>>
             ELSE /\ interrupted' = [pick |-> picking, durableHead |-> durableHead,
                                     currentHead |-> branch]
                  /\ conflictTask' = active
          /\ UNCHANGED up
       \/ /\ statePromise = "rejected"
          /\ up' = FALSE
          /\ UNCHANGED <<interrupted, conflictTask>>
    /\ pc' = "idle"
    /\ UNCHANGED <<gitVars, baseVars, journalVars, delivery, memVars, publicationVars,
                   expected, restored, statePromise, resolving, crashes, waiting, job, staged,
                   histVars>>

\* resolveInterruptedOperation(): the user settles the recovered conflict, outside
\* `tail`.  abortInterruptedOperation() compares the evidence, aborts the
\* cherry-pick of the moment and reads HEAD back; operations run in between.
CheckInterrupted ==
    /\ Started
    /\ resolving = "no"
    /\ conflictTask # None
    /\ active = conflictTask
    /\ interrupted.durableHead = durableHead
    /\ interrupted.currentHead = branch
    /\ interrupted.pick = picking
    /\ resolving' = "abort"
    /\ UNCHANGED <<picking, interrupted, active, conflictTask>>

\* Without a cherry-pick to abort git fails, as it may at any time.
AbortInterrupted ==
    /\ resolving = "abort"
    /\ \/ /\ picking # None
          /\ picking' = None
          /\ resolving' = "settle"
       \/ /\ resolving' = "no"
          /\ UNCHANGED picking
    /\ UNCHANGED <<interrupted, active, conflictTask>>

SettleInterrupted ==
    /\ resolving = "settle"
    /\ resolving' = "no"
    /\ \/ /\ branch = durableHead
          /\ interrupted' = None
          /\ active' = None
          /\ conflictTask' = None
       \/ UNCHANGED <<interrupted, active, conflictTask>>
    /\ UNCHANGED picking

ResolveInterrupted ==
    /\ CheckInterrupted \/ AbortInterrupted \/ SettleInterrupted
    /\ UNCHANGED <<branch, worktree, baseVars, journalVars, delivery, durableHead, accepted,
                   publicationVars, up, expected, restored, statePromise, crashes, waiting,
                   pc, job, staged, histVars>>

-----------------------------------------------------------------------------
ProcessStep ==
    \/ PersistQueued \/ PersistStaging \/ CheckCandidate \/ CherryPick \/ AbortPick
    \/ AddTrailers \/ PersistStaged \/ VerifyStaged \/ PersistVerified \/ AcceptVerified
    \/ PersistAccepted \/ AbortStaged \/ PersistFailed

PublishStep ==
    \/ PersistStarted \/ InspectBase \/ MergeBase \/ PersistCompleted \/ PersistPaused

StateStep == InitializeState \/ InitializeFails

QueueStep == Begin \/ ProcessStep \/ PublishStep \/ StateStep

Environment ==
    \/ \E c \in Candidates : Enqueue(c)
    \/ BuildDelivery \/ RequestPublication
    \/ UserCommits
    \/ CleanupPublished \/ ResolveInterrupted
    \/ Crash

Next == QueueStep \/ Restart \/ DetectInterrupted \/ Environment

Spec == Init /\ [][Next]_vars

\* The event loop runs a ready continuation and every Git, verifier and
\* journal call returns or times out, so a running queue takes its next step.
\* Nothing obliges the user to restart, to enqueue or to publish.
FairSpec == Spec /\ WF_vars(QueueStep) /\ WF_vars(DetectInterrupted)

-----------------------------------------------------------------------------
GitOK ==
    /\ branch \in History
    /\ worktree \in {"never", "present", "removed"}
    /\ picking \in Candidates \cup {None}

BaseOK == base \in History /\ userMoves \in Nat

JournalOK == log \in LogState /\ faulted \in BOOLEAN /\ faults \in Nat

DeliveryOK == delivery \in Delivery \cup {None}

MemOK ==
    /\ durableHead \in History
    /\ active \in Tasks \cup {None}
    /\ accepted \in SUBSET Candidates

PublicationOK ==
    /\ publication \in PublicationState
    /\ request \in Delivery \cup {None}

StartOK ==
    /\ up \in BOOLEAN
    /\ expected \in History
    /\ restored \in History \cup {None}
    /\ statePromise \in {"none", "ready", "rejected"}
    /\ interrupted \in Interrupted \cup {None}
    /\ resolving \in {"no", "abort", "settle"}
    /\ conflictTask \in Tasks \cup {None}
    /\ crashes \in Nat

OperationOK ==
    /\ waiting \in Seq(Job)
    /\ pc \in IntegratePcs \cup PublishPcs \cup {"idle", "detect"}
    /\ job \in Job \cup {None}
    /\ staged \in Staged \cup {None}

HistoryOK == checked \in SUBSET History /\ adopted \in SUBSET History

TypeOK ==
    /\ GitOK /\ BaseOK /\ JournalOK /\ DeliveryOK /\ MemOK /\ PublicationOK
    /\ StartOK /\ OperationOK /\ HistoryOK

-----------------------------------------------------------------------------
(* Safety.                                                                 *)

AdoptedCandidates == UNION {Carried(h) : h \in adopted}

\* A candidate reaches the user's base only after its acceptance was journaled
\* (process(), publish()), or because initialize() took a head it found in the
\* worktree for the durable one.  ADR-0001, invariants 8 to 10, knows no such
\* exception.
OnlyAcceptedOrAdoptedOnBase == Carried(base) \subseteq log.accepted \cup AdoptedCandidates

\* A head the journal names passed post-integration verification as a whole,
\* or is the head the Meeting branch was found at: a later candidate, a failed
\* acceptance and a restart never leave another one behind (process(), restore()).
JournaledHeadVerified == log.head # None => log.head \in checked \cup adopted

\* A journaled acceptance is never orphaned: its candidate is in the history
\* of the head a restart resumes from (restore()'s handling of staged facts).
AcceptedOnJournaledHead ==
    log.accepted # {} => /\ log.head # None
                         /\ log.accepted \subseteq Carried(log.head)

\* A restart now would resume from the head and the acceptances in memory: what
\* process() did to its state after each await is what restore() reads back.
MemoryMatchesJournal ==
    up /\ ~faulted /\ log.head # None =>
        /\ durableHead = log.head
        /\ accepted = log.accepted

\* Once the journal names a head, only an acceptance moves it, by exactly the
\* accepted candidate (process(), restore()).
HeadMovesByAcceptance ==
    [][ /\ log.head # None
        /\ log'.head # log.head
        => \E c \in Candidates : /\ log'.head = Append(log.head, Stamped(c))
                                 /\ log'.accepted = log.accepted \cup {c} ]_vars

\* The base moves by a commit of its user or by a publication: from exactly
\* the revision the user's decision names to exactly the head it names, which
\* still is the durable head.  The base is read and merged in separate Git
\* calls, so a commit in between must make the merge fail (publishUserBase()).
PublishesWhatWasAccepted ==
    [][ base' # base =>
            \/ base' = Append(base, UserCommit)
            \/ /\ job # None /\ job.kind = "publish"
               /\ base = job.expected
               /\ base' = job.head
               /\ base' = durableHead ]_vars

(* Liveness.                                                               *)

\* What runs ends, accepted, failed, published or paused, and what waits on `tail`
\* is taken from it, first in first out: a rejecting step never blocks `tail`
\* (enqueue(), process(), publishFinalDelivery()).
EveryOperationSettles ==
    /\ (pc # "idle") ~> (pc = "idle")
    /\ []<>(waiting = <<>>) \/ []<><<Begin>>_vars
=============================================================================
