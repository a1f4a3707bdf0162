---------------------------- MODULE TaskDelivery ----------------------------
(***************************************************************************)
(* The life of one task's deliveries: the WorkerScheduler handle of the    *)
(* task, the DeliveryHarness that owns each delivery's status, the         *)
(* CoordinatorReviewDriver that owns the review of each frozen candidate,  *)
(* and the task's Git worktree.                                            *)
(*                                                                         *)
(*   electron/worker-scheduler.ts           handle, reports, rework        *)
(*   electron/delivery-harness.ts           view, verification, acceptance *)
(*   electron/coordinator-review-driver.ts  review sessions                *)
(*   electron/coordinator-review.ts         chunk coverage                 *)
(*   electron/delivery-candidate.ts         freezing and reopening HEAD    *)
(*   electron/orchestrator.ts               wiring, watchdog, recovery     *)
(*                                                                         *)
(* What one component does between two awaits is one step.  The awaits on  *)
(* the verifier, on Git, on the integration queue and on the journal are   *)
(* interleaving points: the user, the Coordinator, the parked-task sweep   *)
(* or a crash may come in between.  Workspaces are Git worktrees; the      *)
(* integration queue is reduced to its three outcomes (see module          *)
(* IntegrationQueue).                                                      *)
(***************************************************************************)
EXTENDS Integers

CONSTANTS
    Chunks,         \* the chunks of a candidate's diff manifest
    Withheld,       \* those the model may not see: the user confirms them
    None,           \* an absent value
    MaxDeliveries,  \* bound: deliveries proposed for the task
    MaxAttempts,    \* bound: reports of one delivery, and its approved budget
    MaxTurns,       \* maxTurns of a review session
    MaxCrashes      \* bound: crashes of the application

ASSUME ChunksAssumption == Withheld \subseteq Chunks
ASSUME BoundsAssumption ==
    /\ {MaxDeliveries, MaxAttempts, MaxTurns} \subseteq Nat \ {0}
    /\ MaxCrashes \in Nat

Deliveries == 1 .. MaxDeliveries
Attempts == 1 .. MaxAttempts
Slots == Deliveries \X Attempts  \* a delivery and one of its attempts

ASSUME NoneAssumption == None \notin Int /\ None \notin BOOLEAN /\ None \notin Slots

-----------------------------------------------------------------------------
(* Data.                                                                   *)

\* A WorkReport: was the work completed, and does it list changed files.
Report == [complete : BOOLEAN, files : BOOLEAN]

ViewStatus == {"unproposed", "executing", "verifying", "reviewing", "coordinator-reviewing",
               "awaiting-acceptance", "integrating", "integration-conflict", "reworking",
               "interrupted", "accepted", "failed", "lost"}
HandleStatus == {"pending", "running", "verifying", "reviewing", "coordinator-reviewing",
                 "awaiting-acceptance", "integrating", "integration-conflict", "reworking",
                 "budget-paused", "interrupted", "accepted", "failed"}
CandidateKind == {"none", "reportOnly", "deferred", "frozen"}

\* A candidate is always one of the view's current attempt.
View == [status : ViewStatus, attempt : 0 .. MaxAttempts, candidate : CandidateKind]
Unproposed == [status |-> "unproposed", attempt |-> 0, candidate |-> "none"]

\* A review session.  `todo` is the callback its outcome still owes:
\* onCompleted, or onReworkRequested before and after HEAD is reopened.
Session == [status : {"none", "active", "paused", "rework-requested", "completed"},
            covered : SUBSET Chunks, turns : 0 .. MaxTurns, disconnected : BOOLEAN,
            todo : {"none", "complete", "rework", "reopen"}]
NoSession == [status |-> "none", covered |-> {}, turns |-> 0, disconnected |-> FALSE,
              todo |-> "none"]

Handle == [status : HandleStatus, delivery : Deliveries \cup {None}, report : BOOLEAN]

VARIABLES
    handle,     \* the scheduler's handle: status, delivery, has it a claimed report
    view,       \* the harness's view of each delivery
    reports,    \* of each submitted attempt: does its report list files
    evaluating, \* evaluateReport of each delivery: what it awaits
    session,    \* the review session of each attempt
    worktree,   \* the frozen attempt HEAD of the worktree is at; None: the base
    observers,  \* deliveries observeDelivery still follows for the handle
    claimed,    \* a report claimed and not yet submitted
    reworks,    \* automatic reworks awaiting the mailbox and the journal
    followUp,   \* a follow-up awaits the mailbox
    finalizing, \* finalizeAcceptedHandle awaits the journal
    host,       \* the Coordinator's host is connected
    watched,    \* the review stall watchdog is armed
    recovered,  \* what recovery offers for the task
    journaled,  \* an accepted status of the task was journaled
    saved,      \* the last snapshot before the next crash
    crashes

control == <<claimed, reworks, followUp, finalizing>>
review == <<session, host, watched>>
durable == <<recovered, journaled, saved, crashes>>
vars == <<handle, view, reports, evaluating, worktree, observers, control, review, durable>>

-----------------------------------------------------------------------------
(* Helpers of the scheduler.                                               *)

\* disposeWorker().
Disposed(h, status) ==
    [h EXCEPT !.status = status,
              !.delivery = IF status \in {"failed", "interrupted"} THEN None ELSE @]

\* observeDelivery() applies a view while the handle still has the delivery.
Observes(d) == d \in observers /\ handle.delivery = d
Observed(d, status) ==
    IF Observes(d) THEN [handle EXCEPT !.status = status] ELSE handle

\* The statuses in which a settle is late.
SettleStale == {"failed", "interrupted", "accepted"}
\* Every status of the handle is journaled with the plan; acceptance sticks.
Journals ==
    /\ journaled' = (journaled \/ handle'.status = "accepted")
    /\ UNCHANGED <<recovered, saved, crashes>>

\* Mutant: every settle is taken.
LateSettleNever(h, d) == FALSE

\* The delivery settling is no longer the open delivery of the handle.
LateSettle(h, d) == h.delivery # d \/ h.status \in SettleStale

\* runAutomaticRework() up to its await: pause on the budget, or wait for the
\* mailbox.  Token and convergence limits may pause it before MaxAttempts.
ScheduleRework(h, d, a) ==
    \/ /\ <<d, a>> \notin reworks
       /\ handle' = [h EXCEPT !.status = "budget-paused"]
       /\ UNCHANGED reworks
    \/ /\ a < MaxAttempts
       /\ handle' = [h EXCEPT !.status = "reworking"]
       /\ reworks' = reworks \cup {<<d, a>>}

\* What handleWorkerSignal() does with the view submitExternalReport() returns.
\* When the observer applies a failure first, the settle is late and does not
\* dispose of the worker.
Settle(h, d, v) ==
    IF LateSettle(h, d)
    THEN handle' = h /\ UNCHANGED reworks
    ELSE CASE v.status = "failed" ->
                /\ \/ handle' = Disposed(h, "failed")
                   \/ d \in observers /\ handle' = [h EXCEPT !.status = "failed"]
                /\ UNCHANGED reworks
           [] v.status = "reworking" -> ScheduleRework(h, d, v.attempt)
           [] OTHER -> handle' = [h EXCEPT !.status = v.status] /\ UNCHANGED reworks

-----------------------------------------------------------------------------
(* Helpers of the review driver.                                           *)

\* Mandatory coverage of a session is complete.
Covered(s) == s.covered = Chunks
\* activeSessions().
Active(s) == s.status = "active" /\ ~Covered(s)

\* notify(): without a host the review is paused, else the watchdog is armed.
Notify(slot, s) ==
    /\ session' = [session EXCEPT ![slot] =
           IF host THEN s ELSE [s EXCEPT !.status = "paused", !.disconnected = TRUE]]
    /\ watched' = (watched \/ host)

-----------------------------------------------------------------------------
Init ==
    /\ handle = [status |-> "pending", delivery |-> None, report |-> FALSE]
    /\ view = [d \in Deliveries |-> Unproposed]
    /\ reports = [slot \in Slots |-> None]
    /\ evaluating = [d \in Deliveries |-> "nothing"]
    /\ session = [slot \in Slots |-> NoSession]
    /\ worktree = None
    /\ observers = {}
    /\ claimed = None
    /\ reworks = {}
    /\ followUp = FALSE
    /\ finalizing = FALSE
    /\ host = TRUE
    /\ watched = FALSE
    /\ recovered = "nothing"
    /\ journaled = FALSE
    /\ saved = None
    /\ crashes = 0

-----------------------------------------------------------------------------
(* The worker.                                                             *)

\* spawnWorker(): a handle without a delivery proposes one, approves its spec
\* and observes it; a rework keeps its delivery and is not observed anew.  The
\* context package it persists goes behind a pending rework in the journal.
Spawn ==
    /\ handle.status = "pending"
    /\ reworks = {}
    /\ \/ /\ handle.delivery # None
          /\ handle' = [handle EXCEPT !.status = "running"]
          /\ UNCHANGED <<view, observers>>
       \/ /\ handle.delivery = None
          /\ \E d \in Deliveries :
                /\ view[d].status = "unproposed"
                /\ \A e \in 1 .. (d - 1) : view[e].status # "unproposed"
                /\ view' = [view EXCEPT ![d].status = "executing", ![d].attempt = 1]
                /\ observers' = observers \cup {d}
                /\ handle' = [handle EXCEPT !.status = "running", !.delivery = d]
    /\ UNCHANGED <<reports, evaluating, worktree, control, review, durable>>

\* The attempt a report of delivery d would be submitted for.
NextAttempt(d) == IF view[d].status = "reworking" THEN view[d].attempt + 1 ELSE view[d].attempt

\* submitWorkerReport() and the synchronous part of handleWorkerSignal().
ClaimReport ==
    /\ handle.status = "running"
    /\ ~handle.report
    /\ claimed = None
    /\ claimed' \in Report
    /\ handle' = [handle EXCEPT !.report = TRUE]
    /\ UNCHANGED <<view, reports, evaluating, worktree, observers, reworks, followUp,
                   finalizing, review, durable>>

\* evaluateReport() up to its first await: an incomplete report goes to rework
\* or, without files, to the host.
Evaluated(d, a, report) ==
    [status |-> IF report.complete THEN "verifying"
                ELSE IF report.files THEN "reworking" ELSE "awaiting-acceptance",
     attempt |-> a,
     candidate |-> IF ~report.complete /\ ~report.files THEN "reportOnly"
                   ELSE view[d].candidate]

\* submitExternalReport() takes a report.
TakesReport(d) ==
    /\ view[d].status \in {"executing", "reworking"}
    /\ reports[<<d, NextAttempt(d)>>] = None

\* The rest of handleWorkerSignal(), after the mailbox acknowledgement.
SubmitReport ==
    LET d == handle.delivery
        verifying == [handle EXCEPT !.status = "verifying"]
        begun == [view EXCEPT ![d].status = "executing", ![d].attempt = NextAttempt(d)]
        v == Evaluated(d, NextAttempt(d), claimed)
    IN  /\ claimed # None
        /\ d # None => NextAttempt(d) <= MaxAttempts  \* the bound on attempts
        /\ claimed' = None
        /\ \/ /\ d = None
              /\ handle' = [handle EXCEPT !.status = "failed"]
              /\ UNCHANGED <<view, reports, evaluating, reworks>>
           \/ /\ d # None
              /\ ~TakesReport(d)
              /\ view' = IF view[d].status = "reworking" THEN begun ELSE view
              /\ handle' = Disposed(handle, "failed")
              /\ UNCHANGED <<reports, evaluating, reworks>>
           \/ /\ d # None
              /\ TakesReport(d)
              /\ view' = [view EXCEPT ![d] = v]
              /\ reports' = [reports EXCEPT ![<<d, v.attempt>>] = claimed.files]
              /\ \/ /\ claimed.complete
                    /\ evaluating' = [evaluating EXCEPT ![d] = "verify"]
                    /\ handle' = verifying
                    /\ UNCHANGED reworks
                 \/ /\ ~claimed.complete
                    /\ UNCHANGED evaluating
                    /\ Settle(verifying, d, v)
        /\ UNCHANGED <<worktree, observers, followUp, finalizing, review, durable>>

\* interruptTask() of the user, or the worker's failure.
WorkerStops(status) ==
    /\ handle.status = "running"
    /\ handle' = Disposed(handle, status)
    /\ UNCHANGED <<view, reports, evaluating, worktree, observers, control, review, durable>>
Interrupt == WorkerStops("interrupted")
WorkerFails == WorkerStops("failed")

\* sweepParked() fails a task closed that is parked for ten minutes.
SweepParked ==
    /\ handle.status \in {"verifying", "integrating"}
    /\ handle' = Disposed(handle, "failed")
    /\ UNCHANGED <<view, reports, evaluating, worktree, observers, control, review, durable>>

-----------------------------------------------------------------------------
(* The evaluation of a report.                                             *)

\* The verifier and the deterministic reviewer: throw, reject, or pass.
Verify(d) ==
    LET verbal == ~reports[<<d, view[d].attempt>>]
    IN  /\ evaluating[d] = "verify"
        /\ \/ \E status \in {"failed", "reworking"} :
                 /\ view' = [view EXCEPT ![d].status = status]
                 /\ evaluating' = [evaluating EXCEPT ![d] = "nothing"]
                 /\ Settle(handle, d, view'[d])
           \/ /\ verbal
              /\ view' = [view EXCEPT ![d].status = "awaiting-acceptance",
                                      ![d].candidate = "reportOnly"]
              /\ evaluating' = [evaluating EXCEPT ![d] = "nothing"]
              /\ Settle(handle, d, view'[d])
           \/ /\ ~verbal
              /\ view' = [view EXCEPT ![d].status = "reviewing"]
              /\ evaluating' = [evaluating EXCEPT ![d] = "freeze"]
              /\ handle' = Observed(d, "reviewing")
              /\ UNCHANGED reworks
        /\ UNCHANGED <<reports, worktree, observers, claimed, followUp, finalizing, review,
                       durable>>

\* Mutant: the candidate is committed wherever HEAD is.
CanFreezeAnywhere(slot) == TRUE

\* prepareFrozenDeliveryCandidate() wants HEAD at the delivery's source
\* revision, or at the very candidate it would make.
CanFreeze(slot) == worktree \in {None, slot}

\* The candidate is frozen and its review requested.
Freeze(d) ==
    LET slot == <<d, view[d].attempt>>
    IN  /\ evaluating[d] = "freeze"
        /\ CanFreeze(slot)
        /\ worktree' = slot
        /\ view' = [view EXCEPT ![d].status = "coordinator-reviewing"]
        /\ evaluating' = [evaluating EXCEPT ![d] = "nothing"]
        /\ Notify(slot, [NoSession EXCEPT !.status = "active"])
        /\ Settle(handle, d, view'[d])
        /\ UNCHANGED <<reports, observers, claimed, followUp, finalizing, host, durable>>

\* The candidate cannot be frozen (HEAD elsewhere, unreported or unchanged
\* paths): the report is parked for the host.
DeferFreeze(d) ==
    /\ evaluating[d] = "freeze"
    /\ view' = [view EXCEPT ![d].status = "awaiting-acceptance", ![d].candidate = "deferred"]
    /\ evaluating' = [evaluating EXCEPT ![d] = "nothing"]
    /\ Settle(handle, d, view'[d])
    /\ UNCHANGED <<reports, worktree, observers, claimed, followUp, finalizing, review, durable>>

-----------------------------------------------------------------------------
(* The Coordinator's review.                                               *)

\* submitChunkReview() with a passing verdict, or confirmEvidence() by the user.
CoverChunk(slot, chunk) ==
    /\ session[slot].status = "active"
    /\ chunk \notin session[slot].covered
    /\ session' = [session EXCEPT ![slot].covered = @ \cup {chunk}, ![slot].turns = 0]
    /\ UNCHANGED <<handle, view, reports, evaluating, worktree, observers, control, host,
                   watched, durable>>
PassChunk(slot) == \E chunk \in Chunks \ Withheld : CoverChunk(slot, chunk)
ConfirmChunk(slot) == \E chunk \in Withheld : CoverChunk(slot, chunk)

\* requestCoordinatorRework() of coordinator-review.ts.
SentBack(s) == [s EXCEPT !.status = "rework-requested", !.turns = 0, !.todo = "rework"]

\* submitChunkReview() or requestRework() with a blocking finding.
BlockChunk(slot) ==
    /\ session[slot].status = "active"
    /\ ~((Chunks \ Withheld) \subseteq session[slot].covered)
    /\ session' = [session EXCEPT ![slot] = SentBack(@)]
    /\ UNCHANGED <<handle, view, reports, evaluating, worktree, observers, control, host,
                   watched, durable>>

\* complete(): also of a paused review.
Complete(slot) ==
    /\ session[slot].status \in {"active", "paused"}
    /\ Covered(session[slot])
    /\ session' = [session EXCEPT ![slot].status = "completed", ![slot].todo = "complete"]
    /\ UNCHANGED <<handle, view, reports, evaluating, worktree, observers, control, host,
                   watched, durable>>

\* Mutant: the completion of any attempt's review is taken.
TakesAnyReview(d, a) == view[d].status = "coordinator-reviewing"

\* completeCoordinatorReview() takes the session of attempt a.
TakesReview(d, a) == view[d].status = "coordinator-reviewing" /\ view[d].attempt = a

\* onCompleted, called once: the candidate goes to the integration queue, or
\* the harness throws and the completion is lost.
Completed(d, a) ==
    /\ session[<<d, a>>].todo = "complete"
    /\ session' = [session EXCEPT ![<<d, a>>].todo = "none"]
    /\ \/ /\ TakesReview(d, a)
          /\ view' = [view EXCEPT ![d].status = "integrating", ![d].candidate = "frozen"]
          /\ handle' = Observed(d, "integrating")
       \/ /\ ~TakesReview(d, a)
          /\ UNCHANGED <<view, handle>>
    /\ UNCHANGED <<reports, evaluating, worktree, observers, control, host, watched, durable>>

\* The integration queue answers.  The observer alone applies the answer; on
\* acceptance it goes on to finalize the handle.
Integrated(d) ==
    /\ view[d].status = "integrating"
    /\ \E status \in {"accepted", "integration-conflict", "failed"} :
          /\ view' = [view EXCEPT ![d].status = status]
          /\ handle' = Observed(d, status)
          /\ finalizing' = (finalizing \/ (status = "accepted" /\ Observes(d)))
    /\ UNCHANGED <<reports, evaluating, worktree, observers, claimed, reworks, followUp, review>>
    /\ Journals

\* requestCoordinatorRework() of the scheduler finds the handle, or throws.
StartReopen(d, a) ==
    /\ session[<<d, a>>].todo = "rework"
    /\ session' = [session EXCEPT ![<<d, a>>].todo =
                      IF handle.delivery = d THEN "reopen" ELSE "none"]
    /\ UNCHANGED <<handle, view, reports, evaluating, worktree, observers, control, host,
                   watched, durable>>

\* reopenFrozenDeliveryCandidateForRework() wants HEAD at the candidate.
CanReopen(slot) == worktree = slot

\* Git has moved HEAD back to the base; the harness takes the rework, or
\* throws, and the handle follows the view whatever it has become meanwhile.
Reopened(d, a) ==
    /\ session[<<d, a>>].todo = "reopen"
    /\ CanReopen(<<d, a>>)
    /\ session' = [session EXCEPT ![<<d, a>>].todo = "none"]
    /\ worktree' = None
    /\ \/ /\ view[d].status = "coordinator-reviewing"
          /\ view' = [view EXCEPT ![d].status = "reworking", ![d].candidate = "none"]
          /\ ScheduleRework(handle, d, view[d].attempt)
       \/ /\ view[d].status # "coordinator-reviewing"
          /\ UNCHANGED <<view, handle, reworks>>
    /\ UNCHANGED <<reports, evaluating, observers, claimed, followUp, finalizing, host, watched,
                   durable>>

\* The reopening throws: HEAD is elsewhere or the worktree is not clean.
ReopenFails(slot) ==
    /\ session[slot].todo = "reopen"
    /\ session' = [session EXCEPT ![slot].todo = "none"]
    /\ UNCHANGED <<handle, view, reports, evaluating, worktree, observers, control, host,
                   watched, durable>>

\* Mutant: the last turn does not pause the review.
ChargedPastLast(s) == [s EXCEPT !.turns = @ + 1]

\* Mutant: a turn without progress is not charged.
ChargedNothing(s) == s

\* onCoordinatorTurnEnded(): the turn is charged; the last one pauses the review.
ChargedTurn(s) ==
    IF s.turns + 1 >= MaxTurns
    THEN [s EXCEPT !.status = "paused", !.turns = MaxTurns, !.disconnected = FALSE]
    ELSE [s EXCEPT !.turns = @ + 1]
TurnEnded(slot) ==
    LET s == ChargedTurn(session[slot])
    IN  /\ Active(session[slot])
        /\ IF s.status = "paused"
           THEN session' = [session EXCEPT ![slot] = s] /\ UNCHANGED watched
           ELSE Notify(slot, s)
        /\ UNCHANGED <<handle, view, reports, evaluating, worktree, observers, control, host,
                       durable>>

\* A turn of the Coordinator ends (driveCoordinatorReviews), or the watchdog
\* finds an idle review (sweepStalledReviews) or none left to watch.
HostTurn(slot) == host /\ TurnEnded(slot)
StallSweep(slot) == watched /\ TurnEnded(slot)
StopWatchdog ==
    /\ watched
    /\ \A slot \in Slots : ~Active(session[slot])
    /\ watched' = FALSE
    /\ UNCHANGED <<handle, view, reports, evaluating, worktree, observers, control, session,
                   host, durable>>

Resumed(s) == [s EXCEPT !.status = "active", !.disconnected = FALSE]
\* resume() of a paused review by the user.
ResumeReview(slot) ==
    /\ session[slot].status = "paused"
    /\ Notify(slot, Resumed(session[slot]))
    /\ UNCHANGED <<handle, view, reports, evaluating, worktree, observers, control, host,
                   durable>>

HostDies ==
    /\ host
    /\ host' = FALSE
    /\ UNCHANGED <<handle, view, reports, evaluating, worktree, observers, control, session,
                   watched, durable>>

\* The Coordinator comes back: resumeDisconnectedReviews().
HostReturns ==
    LET parked == {slot \in Slots : session[slot].status = "paused" /\ session[slot].disconnected}
    IN  /\ ~host
        /\ host' = TRUE
        /\ session' = [slot \in Slots |->
                          IF slot \in parked THEN Resumed(session[slot]) ELSE session[slot]]
        /\ watched' = (watched \/ parked # {})
        /\ UNCHANGED <<handle, view, reports, evaluating, worktree, observers, control, durable>>

-----------------------------------------------------------------------------
(* Decisions of the user and of the Coordinator on the task.               *)

Submitted(d) == {a \in Attempts : reports[<<d, a>>] # None}

\* accept-delivery: of a parked report without files, or of the last report of
\* a delivery in rework when it lists none.
AcceptedAttempt(d, a) ==
    \/ /\ view[d].status = "awaiting-acceptance"
       /\ view[d].candidate = "reportOnly"
       /\ a = view[d].attempt
    \/ /\ view[d].status = "reworking"
       /\ view[d].candidate = "none"
       /\ a \in Submitted(d)
       /\ \A b \in Submitted(d) : b <= a
       /\ ~reports[<<d, a>>]

\* acceptDelivery(): decide, apply the view and finalize.
UserAccept(d) ==
    /\ handle.delivery = d
    /\ \E a \in Attempts :
          /\ AcceptedAttempt(d, a)
          /\ view' = [view EXCEPT ![d] =
                         [status |-> "accepted", attempt |-> a, candidate |-> "reportOnly"]]
    /\ handle' = [handle EXCEPT !.status = "accepted"]
    /\ finalizing' = TRUE
    /\ UNCHANGED <<reports, evaluating, worktree, observers, claimed, reworks, followUp, review>>
    /\ Journals

\* finalizeAcceptedHandle() after its flush.
Finalize ==
    /\ finalizing
    /\ finalizing' = FALSE
    /\ handle' = Disposed(handle, "accepted")
    /\ UNCHANGED <<view, reports, evaluating, worktree, observers, claimed, reworks, followUp,
                   review>>
    /\ Journals

\* returnDelivery(): the delivery is reworked; runAutomaticRework() throws when
\* the current attempt has no report.
UserReturn(d) ==
    LET h == [handle EXCEPT !.report = FALSE]
    IN  /\ handle.delivery = d
        /\ view[d].status \in {"awaiting-acceptance", "reworking", "integration-conflict"}
        /\ view' = [view EXCEPT ![d].status = "reworking", ![d].candidate = "none"]
        /\ \/ /\ view[d].attempt \in Submitted(d)
              /\ ScheduleRework(h, d, view[d].attempt)
           \/ /\ view[d].attempt \notin Submitted(d)
              /\ handle' = [h EXCEPT !.status = "reworking"]
              /\ UNCHANGED reworks
        /\ UNCHANGED <<reports, evaluating, worktree, observers, claimed, followUp, finalizing,
                       review, durable>>

\* extendTaskBudget().
ExtendBudget ==
    LET d == handle.delivery
    IN  /\ handle.status = "budget-paused"
        /\ d # None
        /\ view[d].status = "reworking"
        /\ view[d].attempt \in Submitted(d)
        /\ ScheduleRework(handle, d, view[d].attempt)
        /\ UNCHANGED <<view, reports, evaluating, worktree, observers, claimed, followUp,
                       finalizing, review, durable>>

\* runAutomaticRework() after the mailbox and the journal: whatever has become
\* of the handle, it is pending again.
ReworkEnqueued(slot) ==
    /\ slot \in reworks
    /\ reworks' = reworks \ {slot}
    /\ handle' = [handle EXCEPT !.status = "pending", !.report = FALSE]
    /\ UNCHANGED <<view, reports, evaluating, worktree, observers, claimed, followUp, finalizing,
                   review, durable>>

\* queueFollowUp() and sendTaskMessage() refuse what is accepted or integrating;
\* forwardTaskMessage() does not.
FollowUpRefused == {"accepted", "integrating"}
RequestFollowUp(refused) ==
    /\ ~followUp
    /\ handle.status \notin refused \cup {"pending", "running", "budget-paused"}
    /\ \E d \in Deliveries : view[d].status = "unproposed"
    /\ followUp' = TRUE
    /\ UNCHANGED <<handle, view, reports, evaluating, worktree, observers, claimed, reworks,
                   finalizing, review, durable>>
Instruct == RequestFollowUp(FollowUpRefused)
Forward == RequestFollowUp({})

\* beginFollowUpAttempt() after the mailbox, on whatever the handle has become.
FollowUpEnqueued ==
    /\ followUp
    /\ followUp' = FALSE
    /\ handle' = [status |-> "pending", delivery |-> None, report |-> FALSE]
    /\ UNCHANGED <<view, reports, evaluating, worktree, observers, claimed, reworks, finalizing,
                   review, durable>>

-----------------------------------------------------------------------------
(* Crash, restart and recovery.                                            *)

Snapshot == [delivery |-> handle.delivery, view |-> view, reports |-> reports,
             session |-> session]

\* The last snapshot the crash leaves.  Earlier ones are overwritten.
Save ==
    /\ crashes < MaxCrashes
    /\ saved = None
    /\ saved' = Snapshot
    /\ UNCHANGED <<handle, view, reports, evaluating, worktree, observers, control, review,
                   recovered, journaled, crashes>>

\* DeliveryHarness.restore() of the delivery the snapshot has for the task; the
\* harness does not know the others any more.
RestoredView(d) ==
    LET v == saved.view[d]
    IN  CASE d = saved.delivery /\ v.status \in {"accepted", "failed"} -> v
          [] d = saved.delivery /\ v.status \notin {"accepted", "failed"} ->
                [v EXCEPT !.status = "interrupted", !.candidate = "none"]
          [] OTHER -> IF view[d].status = "unproposed" THEN Unproposed
                      ELSE [Unproposed EXCEPT !.status = "lost"]

\* normalizeRecoveredTaskStatus() of the last journaled status; acceptance is
\* never taken back.
RecoveredStatus ==
    CASE journaled -> "accepted"
      [] ~journaled /\ handle.status \in {"failed", "budget-paused", "integration-conflict"} ->
            handle.status
      [] OTHER -> "interrupted"

\* The application crashes and restarts.  A cherry-pick it left behind marks
\* an interrupted task as conflicting.
CrashRestart ==
    /\ saved # None
    /\ crashes' = crashes + 1
    /\ saved' = None
    /\ view' = [d \in Deliveries |-> RestoredView(d)]
    /\ reports' = [slot \in Slots |->
                      IF slot[1] = saved.delivery THEN saved.reports[slot] ELSE None]
    /\ session' = [slot \in Slots |-> [saved.session[slot] EXCEPT !.todo = "none"]]
    /\ evaluating' = [d \in Deliveries |-> "nothing"]
    /\ \E picked \in BOOLEAN :
          /\ picked => RecoveredStatus = "interrupted"
                       /\ \E d \in Deliveries : view[d].status = "integrating"
          /\ recovered' = IF picked THEN "conflict" ELSE "task"
          /\ handle' = [status |-> IF picked THEN "integration-conflict" ELSE RecoveredStatus,
                        delivery |-> saved.delivery, report |-> FALSE]
    /\ observers' = {}
    /\ claimed' = None
    /\ reworks' = {}
    /\ followUp' = FALSE
    /\ finalizing' = FALSE
    /\ host' = TRUE
    /\ watched' = FALSE
    /\ UNCHANGED <<worktree, journaled>>

\* resolve-integration-conflict: the queue aborts the cherry-pick.
ResolveConflict ==
    /\ recovered = "conflict"
    /\ recovered' = "task"
    /\ handle' = IF handle.status = "integration-conflict"
                 THEN [handle EXCEPT !.status = "interrupted"] ELSE handle
    /\ UNCHANGED <<view, reports, evaluating, worktree, observers, control, review, journaled,
                   saved, crashes>>

\* resolveRecoveredTask(): the user (or, for a read-only task, the system)
\* resumes the interrupted task.
ResumeTask ==
    LET d == handle.delivery
    IN  /\ recovered = "task"
        /\ handle.status = "interrupted"
        /\ recovered' = "nothing"
        /\ view' = IF d # None /\ view[d].status = "interrupted"
                   THEN [view EXCEPT ![d].status = "reworking", ![d].candidate = "none"]
                   ELSE view
        /\ handle' = [handle EXCEPT !.status = "pending", !.report = FALSE]
        /\ UNCHANGED <<reports, evaluating, worktree, observers, control, review, journaled,
                       saved, crashes>>

AbandonTask ==
    /\ recovered = "task"
    /\ handle.status \in {"interrupted", "budget-paused"}
    /\ recovered' = "nothing"
    /\ handle' = Disposed(handle, "failed")
    /\ UNCHANGED <<view, reports, evaluating, worktree, observers, control, review, journaled,
                   saved, crashes>>

-----------------------------------------------------------------------------
ReviewStep(slot) ==
    \/ PassChunk(slot) \/ ConfirmChunk(slot) \/ BlockChunk(slot) \/ Complete(slot)
    \/ Completed(slot[1], slot[2])
    \/ StartReopen(slot[1], slot[2]) \/ Reopened(slot[1], slot[2]) \/ ReopenFails(slot)
    \/ HostTurn(slot) \/ StallSweep(slot) \/ ResumeReview(slot)
DeliveryStep(d) ==
    \/ Verify(d) \/ Freeze(d) \/ DeferFreeze(d) \/ Integrated(d)
    \/ UserAccept(d) \/ UserReturn(d)
TaskStep ==
    \/ Spawn \/ ClaimReport \/ SubmitReport \/ Interrupt \/ WorkerFails \/ SweepParked
    \/ StopWatchdog \/ HostDies \/ HostReturns
    \/ Finalize \/ ExtendBudget \/ Instruct \/ Forward \/ FollowUpEnqueued
    \/ \E slot \in Slots : ReworkEnqueued(slot)
    \/ Save \/ CrashRestart \/ ResolveConflict \/ ResumeTask \/ AbandonTask

Next ==
    \/ TaskStep
    \/ \E slot \in Slots : ReviewStep(slot)
    \/ \E d \in Deliveries : DeliveryStep(d)

Spec == Init /\ [][Next]_vars

\* The watchdog's timer fires, and the journal settles what waits for it.
FairSpec ==
    /\ Spec
    /\ \A slot \in Slots :
          /\ WF_vars(StallSweep(slot))
          /\ WF_vars(ReworkEnqueued(slot))
    /\ WF_vars(Finalize)
    /\ WF_vars(FollowUpEnqueued)

-----------------------------------------------------------------------------
(* Properties.                                                             *)

TypeOK ==
    /\ handle \in Handle
    /\ view \in [Deliveries -> View]
    /\ reports \in [Slots -> BOOLEAN \cup {None}]
    /\ evaluating \in [Deliveries -> {"nothing", "verify", "freeze"}]
    /\ session \in [Slots -> Session]
    /\ worktree \in Slots \cup {None}
    /\ observers \subseteq Deliveries
    /\ claimed \in Report \cup {None}
    /\ reworks \subseteq Slots
    /\ {followUp, finalizing, host, watched, journaled} \subseteq BOOLEAN
    /\ recovered \in {"nothing", "task", "conflict"}
    /\ crashes \in 0 .. MaxCrashes

\* ADR-0001: a delivery with files is integrated or accepted only after the
\* review of exactly that attempt covered every chunk, withheld ones by the
\* user's confirmation; only a report without files is accepted unreviewed.
AcceptedWasReviewed ==
    \A d \in Deliveries : view[d].status \in {"integrating", "accepted"} =>
        LET slot == <<d, view[d].attempt>>
        IN  \/ /\ view[d].candidate = "frozen"
               /\ session[slot].status = "completed"
               /\ session[slot].covered = Chunks
               /\ reports[slot] # None
            \/ /\ view[d].candidate = "reportOnly"
               /\ reports[slot] # None
               /\ ~reports[slot]

\* What is reviewed is what would be integrated.  A candidate under review or
\* integration is the commit its worktree's HEAD is at: neither a later delivery
\* of the task nor a reopened review moves it.  And a review is open only for the
\* attempt its delivery is under review with: no second review of the delivery,
\* none left open when the delivery was sent back, integrated or closed.  (A
\* restart may leave one behind.)
ReviewedIsIntegrated ==
    /\ \A d \in Deliveries : view[d].status \in {"coordinator-reviewing", "integrating"} =>
           worktree = <<d, view[d].attempt>>
    /\ crashes = 0 =>
           \A d \in Deliveries, a \in Attempts :
               session[<<d, a>>].status \in {"active", "paused"} =>
                   view[d].status = "coordinator-reviewing" /\ view[d].attempt = a

\* What opens a closed task because someone asks for it: a follow-up whose message is
\* in the mailbox, the recovery of the task, the return of a delivery whose conflict
\* recovery resolved, and a restart that finds the task accepted or in conflict.
FollowedUp == followUp /\ ~followUp' /\ handle'.status = "pending" /\ handle'.delivery = None
Recovered == recovered = "task" /\ recovered' = "nothing" /\ handle'.status = "pending"
Returned == /\ handle.delivery # None
            /\ view[handle.delivery].status = "integration-conflict"
            /\ view'[handle.delivery].status = "reworking"
Restarted == /\ crashes' # crashes
             /\ \/ journaled /\ handle'.status = "accepted"
                \/ recovered' = "conflict" /\ handle'.status = "integration-conflict"

\* What opens it because it does not look: an automatic rework back from the mailbox and
\* the journal, a verdict back from reopening HEAD, an acceptance back from its flush.
LateRework == /\ \E slot \in reworks : reworks' = reworks \ {slot}
              /\ handle'.status = "pending" /\ handle'.delivery = handle.delivery
LateVerdict(d) == /\ view[d].status = "coordinator-reviewing" /\ view'[d].status = "reworking"
                  /\ session[<<d, view[d].attempt>>].todo = "reopen"
                  /\ handle'.status \in {"reworking", "budget-paused"}
LateAcceptance == /\ finalizing /\ ~finalizing' /\ handle'.status = "accepted"
                  /\ \E d \in Deliveries : view[d].status = "accepted"

\* A task closed by a failure or an interruption is opened again only by a follow-up, by
\* recovery, or by one of the three answers the scheduler does not check (section 5 of
\* the README); no report, verification, observation or integration answer opens it.
\* And what happens to a delivery that is not the open one of the task leaves the task
\* alone, however late it answers, but for such a verdict.
ClosedStaysClosed ==
    [][/\ handle.status \in {"failed", "interrupted"}
          /\ handle'.status \notin {"failed", "interrupted"}
          => \/ FollowedUp \/ Recovered \/ Returned \/ Restarted
             \/ LateRework \/ LateAcceptance \/ \E d \in Deliveries : LateVerdict(d)
       /\ \A d \in Deliveries : view'[d] # view[d] /\ handle' # handle =>
             \/ d = handle.delivery
             \/ handle.delivery = None /\ handle'.delivery = d /\ view[d].status = "unproposed"
             \/ crashes' # crashes
             \/ LateVerdict(d)]_vars

\* The watchdog drives every review it watches: it is covered, sent back or
\* paused, never silently stuck with a silent Coordinator.
ReviewNeverStalls ==
    \A slot \in Slots :
        (watched /\ Active(session[slot])) ~> ~(watched /\ Active(session[slot]))
=============================================================================
