--------------------------- MODULE FinalDelivery ---------------------------
(***************************************************************************)
(* The final Meeting delivery: electron/orchestrator.ts (build, accept,    *)
(* rework, recovery) with electron/meeting-delivery.ts, over the plan of   *)
(* electron/worker-scheduler.ts and the journal and snapshot of            *)
(* electron/meeting-repository.ts.                                         *)
(*                                                                         *)
(* When every task of the plan is accepted the orchestrator verifies them  *)
(* on the durable head and journals a delivery; the user accepts it, which *)
(* publishes the head to the base, or asks for rework, which adds          *)
(* replacement tasks as a new plan version.  Calls overlap at every await. *)
(*                                                                         *)
(* Writes are appended to one queue (the repository's `tail`) and become   *)
(* durable in that order; a crash loses what is still in the queue.  The   *)
(* continuation of an awaited append runs when its write is durable.  The  *)
(* integration of candidates is IntegrationQueue's business: here a head   *)
(* is the number of candidates it carries, and every acceptance in the     *)
(* integration queue is durable at once.                                   *)
(***************************************************************************)
EXTENDS Integers, Sequences, FiniteSets, FiniteSetsExt

CONSTANTS
    Tasks,        \* task identities, planned or not
    ReportOnly,   \* the tasks that may report no changed file
    Callers,      \* concurrent calls of the user's decision API
    None,         \* an absent value
    MaxVersion,   \* bound: plan versions
    MaxHead,      \* bound: integrated candidates
    MaxCrashes    \* bound: crashes of the application

ASSUME ReportOnlyAssumption == ReportOnly \subseteq Tasks
ASSUME BoundsAssumption == {MaxVersion, MaxHead, MaxCrashes} \subseteq Nat

Status == {"absent", "open", "integrated", "accepted"}
Plan == [status : [Tasks -> Status], version : 0..MaxVersion]
Delivery == [tasks : SUBSET Tasks, version : 0..MaxVersion, head : 0..MaxHead,
             expected : 0..MaxHead]
Decision == [kind : {"accept", "rework"}, delivery : Delivery]
Publication == [state : {"publishing", "published", "paused"}, delivery : Delivery]
Build == [pc : {"inspect", "verify", "persist", "return"}, plan : Plan,
          evidence : SUBSET Tasks, head : 0..MaxHead, result : Delivery \cup {None}]

ASSUME NoneAssumption ==
    /\ None \notin Callers /\ None \notin Delivery /\ None \notin Decision
    /\ None \notin Build /\ None \notin Publication

VARIABLES
    \* the process
    phase,      \* "up", "starting" (start() reconciles) or "down"
    plan,       \* the scheduler's tasks and planVersion
    evidence,   \* tasks whose DeliveryView has all that acceptedTaskEvidence() reads
    offer,      \* finalMeetingDelivery
    decision,   \* finalMeetingDecision
    build,      \* the build behind finalDeliveryBuild, or None
    calls,      \* the decision calls in progress
    expected,   \* expectedUserBaseRevision
    tail,       \* writes not yet durable, in order
    \* on disk
    disk,       \* what a restart reads: journal facts and the snapshot
    head,       \* the durable integration head
    base,       \* the user's base
    \* history, not in the code
    workAt,     \* the head that first carried each task's work
    seen,       \* deliveries offered so far
    decided,    \* journaled decisions
    reoffered,  \* deliveries journaled as a new offer more than once
    contested,  \* deliveries of calls whose decisions overlapped
    crashes

vars == <<phase, plan, evidence, offer, decision, build, calls, expected, tail, disk, head,
          base, workAt, seen, decided, reoffered, contested, crashes>>

planVars == <<plan, evidence>>
offerVars == <<offer, decision, seen>>
gitVars == <<head, base, expected>>
overlapVars == <<reoffered, contested>>
histVars == <<workAt, decided, reoffered, contested>>

Known(p) == {t \in Tasks : p.status[t] # "absent"}
Accepted(p) == {t \in Tasks : p.status[t] = "accepted"}

Idle == [pc |-> "idle", kind |-> "accept", delivery |-> None, result |-> None]

Init ==
    LET none == [status |-> [t \in Tasks |-> "absent"], version |-> 0] IN
    /\ phase = "up"
    /\ plan = none /\ evidence = {}
    /\ offer = None /\ decision = None /\ build = None
    /\ calls = [c \in Callers |-> Idle]
    /\ expected = 0 /\ tail = <<>>
    /\ disk = [nodes |-> none.status, snapshot |-> [plan |-> none, evidence |-> {}],
               offer |-> None, decision |-> None, intent |-> None, publication |-> None]
    /\ head = 0 /\ base = 0
    /\ workAt = [t \in Tasks |-> 0]
    /\ seen = {} /\ decided = {} /\ reoffered = {} /\ contested = {} /\ crashes = 0

-----------------------------------------------------------------------------
(* Writes.  `by` names the call whose continuation awaits the write.       *)

PlanUpdated(p) == [kind |-> "plan", by |-> None, status |-> p.status]
Snapshot(p, e) == [kind |-> "snapshot", by |-> None, plan |-> p, evidence |-> e]
Fact(kind, c, d) == [kind |-> kind, by |-> c, delivery |-> d]

Due(kind) == tail # <<>> /\ Head(tail).kind = kind

MergedNodesRaw(status) ==
    [t \in Tasks |-> IF status[t] = "absent" THEN disk.nodes[t] ELSE status[t]]

\* listRecoverable(): an accepted node stays accepted, and a node of a task
\* that left the plan stays what it was.
MergedNodes(status) ==
    [t \in Tasks |-> IF disk.nodes[t] = "accepted" \/ status[t] = "absent"
                     THEN disk.nodes[t]
                     ELSE IF status[t] = "accepted" THEN "accepted" ELSE "open"]

-----------------------------------------------------------------------------
(* The plan.                                                               *)

NextVersion == plan.version + 1

\* A plan of version v with status s, its plan-updated event on the queue.
Replan(s, v) ==
    /\ plan' = [status |-> s, version |-> v]
    /\ tail' = Append(tail, PlanUpdated(plan'))

CanReplan == phase = "up" /\ plan.version < MaxVersion

\* delegateSingleTask(), installPlan(), revisePlan() with add-task.
AddTask(t) ==
    /\ CanReplan
    /\ plan.status[t] = "absent"
    /\ Replan([plan.status EXCEPT ![t] = "open"], NextVersion)
    /\ UNCHANGED <<phase, evidence, offerVars, build, calls, disk, gitVars, histVars, crashes>>

\* revisePlan() with cancel-pending-task.
CancelTask(t) ==
    /\ CanReplan
    /\ plan.status[t] = "open"
    /\ Replan([plan.status EXCEPT ![t] = "absent"], NextVersion)
    /\ UNCHANGED <<phase, evidence, offerVars, build, calls, disk, gitVars, histVars, crashes>>

\* Any other revision, and an extended budget.
RevisePlan ==
    /\ CanReplan
    /\ Known(plan) # {}
    /\ Replan(plan.status, NextVersion)
    /\ UNCHANGED <<phase, evidence, offerVars, build, calls, disk, gitVars, histVars, crashes>>

\* The integration queue runs one publication or integration at a time.
Publishing == \E c \in Callers : calls[c].pc \in {"start", "merge", "complete", "pause"}

\* The queue accepts the candidate of a task.
IntegrateTask(t) ==
    /\ phase = "up"
    /\ head < MaxHead
    /\ ~Publishing
    /\ plan.status[t] = "open"
    /\ head' = head + 1
    /\ plan' = [plan EXCEPT !.status[t] = "integrated"]
    /\ workAt' = [workAt EXCEPT ![t] = head']
    /\ UNCHANGED <<phase, evidence, offerVars, build, calls, expected, tail, disk, base,
                   decided, overlapVars, crashes>>

\* The harness and the scheduler call it accepted.  A report without files is
\* accepted by itself, with no frozen candidate and no result revision.
AcceptTask(t) ==
    /\ phase = "up"
    /\ \/ /\ plan.status[t] = "integrated"
          /\ evidence' = evidence \cup {t}
       \/ /\ plan.status[t] = "open" /\ t \in ReportOnly
          /\ UNCHANGED evidence
    /\ Replan([plan.status EXCEPT ![t] = "accepted"], plan.version)
    /\ UNCHANGED <<phase, offerVars, build, calls, disk, gitVars, histVars, crashes>>

\* snapshotActiveMeeting() runs when the plan-updated event is durable.
SyncPlan ==
    /\ Due("plan")
    /\ disk' = [disk EXCEPT !.nodes = MergedNodes(Head(tail).status)]
    /\ tail' = Append(Tail(tail), Snapshot(plan, evidence))
    /\ UNCHANGED <<phase, planVars, offerVars, build, calls, gitVars, histVars, crashes>>

SyncSnapshot ==
    /\ Due("snapshot")
    /\ disk' = [disk EXCEPT !.snapshot = [plan |-> Head(tail).plan,
                                          evidence |-> Head(tail).evidence]]
    /\ tail' = Tail(tail)
    /\ UNCHANGED <<phase, planVars, offerVars, build, calls, gitVars, histVars, crashes>>

-----------------------------------------------------------------------------
(* buildFinalMeetingDelivery(), one at a time.                             *)

\* The tasks are read before the first await.
NewBuild == [pc |-> "inspect", plan |-> plan, evidence |-> evidence, head |-> head,
             result |-> None]

\* A build that is over returns this, a delivery or null.
Returns(result) == build' = [build EXCEPT !.pc = "return", !.result = result]

SettleDelivery(result) ==
    calls' = [c \in Callers |-> IF calls[c].pc = "prepare" /\ result # None
                                THEN [calls[c] EXCEPT !.pc = "decide", !.result = result]
                                ELSE calls[c]]

\* Every caller that joined the build gets its result.
Settle(result) ==
    calls' = [c \in Callers |-> IF calls[c].pc = "prepare"
                                THEN [calls[c] EXCEPT !.pc = "decide", !.result = result]
                                ELSE calls[c]]

\* getMeetingDelivery(), and after each accepted task.
Prepare ==
    /\ phase = "up"
    /\ build = None
    /\ build' = NewBuild
    /\ UNCHANGED <<phase, planVars, offerVars, calls, tail, disk, gitVars, histVars, crashes>>

\* An offer of this plan version and this head is still current.
Current == offer # None /\ offer.version = plan.version /\ offer.head = head

InspectHead ==
    /\ build # None
    /\ build.pc = "inspect"
    /\ IF Current
       THEN Returns(offer)
       ELSE build' = [build EXCEPT !.pc = "verify", !.head = head]
    /\ UNCHANGED <<phase, planVars, offerVars, calls, tail, disk, gitVars, histVars, crashes>>

\* What blocks a delivery once every accepted task passed verification: a
\* required task that is not accepted (no task of a plan is optional), an
\* accepted one without the evidence, or no accepted task at all.
Blocked(b) ==
    \/ Known(b.plan) # Accepted(b.plan)
    \/ Accepted(b.plan) \ b.evidence # {}
    \/ Accepted(b.plan) = {}

\* Verification fails, or the delivery is blocked: the build returns null.
BuildNotReady ==
    /\ build # None
    /\ build.pc = "verify"
    /\ Returns(None)
    /\ UNCHANGED <<phase, planVars, offerVars, calls, tail, disk, gitVars, histVars, crashes>>

\* The build is over: the next call starts another one.
BuildReturns ==
    /\ build # None
    /\ build.pc = "return"
    /\ build' = None
    /\ Settle(build.result)
    /\ UNCHANGED <<phase, planVars, offerVars, tail, disk, gitVars, histVars, crashes>>

TasksReadAgain == Accepted(plan)
DeliveredTasks == Accepted(build.plan)

\* The plan version is read after the verification, the tasks were before it.
BuildReady ==
    /\ build # None
    /\ build.pc = "verify"
    /\ ~Blocked(build)
    /\ LET d == [tasks |-> DeliveredTasks, version |-> plan.version,
                 head |-> build.head, expected |-> expected]
       IN tail' = Append(tail, Fact("ready", None, d))
    /\ build' = [build EXCEPT !.pc = "persist"]
    /\ UNCHANGED <<phase, planVars, offerVars, calls, disk, gitVars, histVars, crashes>>

DecisionOfNewOffer == None

\* The delivery is on offer; the build returns it when the snapshot is written.
SyncReady ==
    /\ Due("ready")
    /\ build # None
    /\ LET d == Head(tail).delivery IN
       /\ disk' = [disk EXCEPT !.offer = d, !.decision = None]
       /\ offer' = d
       /\ seen' = seen \cup {d}
       /\ reoffered' = reoffered \cup (seen \cap {d})
       /\ Returns(d)
    /\ decision' = DecisionOfNewOffer
    /\ tail' = Append(Tail(tail), Snapshot(plan, evidence))
    /\ UNCHANGED <<phase, planVars, calls, gitVars, workAt, decided, contested, crashes>>

-----------------------------------------------------------------------------
(* acceptMeetingDelivery() and requestMeetingDeliveryRework().             *)

\* requireCurrentMeetingDelivery() joins the running build or starts one.
Call(c, kind, d) ==
    /\ phase = "up"
    /\ calls[c].pc = "idle"
    /\ calls' = [calls EXCEPT ![c] = [pc |-> "prepare", kind |-> kind, delivery |-> d,
                                      result |-> None]]
    /\ build' = IF build = None THEN NewBuild ELSE build
    /\ UNCHANGED <<phase, planVars, offerVars, tail, disk, gitVars, histVars, crashes>>

MayDecideAgain(c) == calls[c].result = calls[c].delivery

MayDecide(c) == calls[c].result = calls[c].delivery /\ decision = None

\* The calls between their check of the decision and the record of theirs.
Deciding == {"intent", "publish", "start", "merge", "complete", "pause", "finish"}
Pending == {c \in Callers : calls[c].pc \in Deciding}

\* A stale delivery and a conflicting decision reject; a repeated one returns.
Decide(c) ==
    /\ calls[c].pc = "decide"
    /\ IF MayDecide(c)
       THEN /\ calls' = [calls EXCEPT ![c].pc = "intent"]
            /\ tail' = Append(tail, Fact(IF calls[c].kind = "accept" THEN "accept-intent"
                                         ELSE "rework-intent", c, calls[c].delivery))
            /\ contested' = IF Pending = {} THEN contested
                            ELSE contested \cup {calls[o].delivery : o \in Pending \cup {c}}
       ELSE /\ calls' = [calls EXCEPT ![c] = Idle]
            /\ UNCHANGED <<tail, contested>>
    /\ UNCHANGED <<phase, planVars, offerVars, build, disk, gitVars, workAt, decided, reoffered,
                   crashes>>

\* The continuations of a settled build run before anything else the event loop
\* has: only microtasks lie between a result and the check of the decision.
Settled == \A c \in Callers : calls[c].pc # "decide"

SyncAcceptIntent ==
    /\ Due("accept-intent")
    /\ disk' = [disk EXCEPT !.intent = Head(tail).delivery]
    /\ calls' = [calls EXCEPT ![Head(tail).by].pc = "publish"]
    /\ tail' = Tail(tail)
    /\ UNCHANGED <<phase, planVars, offerVars, build, gitVars, histVars, crashes>>

StartPublication(c) ==
    /\ Settled
    /\ calls[c].pc = "publish"
    /\ ~Publishing
    /\ IF calls[c].delivery.head = head
       THEN /\ calls' = [calls EXCEPT ![c].pc = "start"]
            /\ tail' = Append(tail, Fact("publishing", c, calls[c].delivery))
       ELSE /\ calls' = [calls EXCEPT ![c] = Idle]
            /\ UNCHANGED tail
    /\ UNCHANGED <<phase, planVars, offerVars, build, disk, gitVars, histVars, crashes>>

\* A publication fact is durable; the one that starts it goes on to the merge,
\* the completed one to the accepted fact, and a pause rejects the call.
SyncPublication ==
    \E state \in {"publishing", "published", "paused"} :
        LET c == Head(tail).by
            d == Head(tail).delivery IN
        /\ Due(state)
        /\ disk' = [disk EXCEPT !.publication = [state |-> state, delivery |-> d]]
        /\ calls' = [calls EXCEPT ![c] = CASE state = "publishing" -> [@ EXCEPT !.pc = "merge"]
                                           [] state = "published" -> [@ EXCEPT !.pc = "finish"]
                                           [] state = "paused" -> Idle]
        /\ tail' = IF state = "published" THEN Append(Tail(tail), Fact("accepted", c, d))
                   ELSE Tail(tail)
        /\ UNCHANGED <<phase, planVars, offerVars, build, gitVars, histVars, crashes>>

\* The base must be where the delivery expects it, or there already.
MergeBase(c) ==
    LET d == calls[c].delivery IN
    /\ Settled
    /\ calls[c].pc = "merge"
    /\ \/ /\ base \in {d.expected, d.head}
          /\ base' = d.head
          /\ calls' = [calls EXCEPT ![c].pc = "complete"]
          /\ tail' = Append(tail, Fact("published", c, d))
       \/ /\ UNCHANGED base
          /\ calls' = [calls EXCEPT ![c].pc = "pause"]
          /\ tail' = Append(tail, Fact("paused", c, d))
    /\ UNCHANGED <<phase, planVars, offerVars, build, disk, head, expected, histVars, crashes>>

Decides(kind, d) ==
    /\ decision' = [kind |-> kind, delivery |-> d]
    /\ decided' = decided \cup {[kind |-> kind, delivery |-> d]}

SyncAccepted ==
    /\ Due("accepted")
    /\ LET d == Head(tail).delivery IN
       /\ disk' = [disk EXCEPT !.offer = d,
                               !.decision = [kind |-> "accept", delivery |-> d]]
       /\ offer' = d
       /\ Decides("accept", d)
    /\ IF Head(tail).by = None
       THEN phase' = "up" /\ UNCHANGED calls
       ELSE calls' = [calls EXCEPT ![Head(tail).by] = Idle] /\ UNCHANGED phase
    /\ tail' = Append(Tail(tail), Snapshot(plan, evidence))
    /\ UNCHANGED <<planVars, seen, build, gitVars, workAt, overlapVars, crashes>>

\* The bounds leave room for the replacements.
RoomForRework ==
    /\ plan.version < MaxVersion
    /\ Cardinality(Accepted(plan)) <= Cardinality(Tasks \ Known(plan))

\* createFinalDeliveryRework(): a fresh replacement for every accepted task; it
\* throws when the plan has none.
SyncReworkIntent ==
    LET c == Head(tail).by
        d == Head(tail).delivery IN
    /\ Due("rework-intent")
    /\ IF Accepted(plan) = {}
       THEN /\ tail' = Tail(tail)
            /\ calls' = [calls EXCEPT ![c] = Idle]
            /\ UNCHANGED plan
       ELSE /\ RoomForRework
            /\ \E fresh \in kSubset(Cardinality(Accepted(plan)), Tasks \ Known(plan)) :
                  plan' = [status |-> [t \in Tasks |-> IF t \in fresh THEN "open"
                                                      ELSE plan.status[t]],
                           version |-> NextVersion]
            /\ tail' = Tail(tail) \o <<PlanUpdated(plan'), Fact("rework-created", c, d)>>
            /\ calls' = [calls EXCEPT ![c].pc = "finish"]
    /\ UNCHANGED <<phase, evidence, offerVars, build, disk, gitVars, histVars, crashes>>

SyncReworkCreated ==
    /\ Due("rework-created")
    /\ LET d == Head(tail).delivery IN
       /\ disk' = [disk EXCEPT !.decision = [kind |-> "rework", delivery |-> d]]
       /\ Decides("rework", d)
    /\ calls' = [calls EXCEPT ![Head(tail).by] = Idle]
    /\ tail' = Append(Tail(tail), Snapshot(plan, evidence))
    /\ UNCHANGED <<phase, planVars, offer, seen, build, gitVars, workAt, overlapVars, crashes>>

-----------------------------------------------------------------------------
(* Crash and recovery.                                                     *)

Crash ==
    /\ phase # "down"
    /\ crashes < MaxCrashes
    /\ crashes' = crashes + 1
    /\ phase' = "down"
    /\ tail' = <<>> /\ build' = None /\ calls' = [c \in Callers |-> Idle]
    /\ UNCHANGED <<planVars, offerVars, disk, gitVars, histVars>>

\* listRecoverable() and restoreTasks(): the tasks of the snapshot with the
\* latest status the journal has for them.  A node without a snapshot entry has
\* no prompt and is not restored.
RecoveredStatus(t) ==
    IF disk.snapshot.plan.status[t] = "absent" THEN "absent"
    ELSE IF \/ disk.nodes[t] = "accepted"
            \/ disk.nodes[t] = "absent" /\ disk.snapshot.plan.status[t] = "accepted"
         THEN "accepted"
         ELSE "open"

\* reconcileInterruptedFinalAcceptance(): exact evidence of the publication.
NothingToReconcile == FALSE
MustReconcile ==
    /\ disk.offer # None
    /\ disk.decision = None
    /\ disk.intent = disk.offer
    /\ disk.publication = [state |-> "published", delivery |-> disk.offer]

Restart ==
    /\ phase = "down"
    /\ phase' = IF MustReconcile THEN "starting" ELSE "up"
    /\ plan' = [status |-> [t \in Tasks |-> RecoveredStatus(t)],
                version |-> disk.snapshot.plan.version]
    /\ evidence' = disk.snapshot.evidence
    /\ offer' = disk.offer
    /\ decision' = disk.decision
    /\ expected' = base
    /\ tail' = (IF MustReconcile THEN <<Fact("accepted", None, disk.offer)>> ELSE <<>>)
               \o <<PlanUpdated(plan')>>
    /\ UNCHANGED <<build, calls, disk, head, base, seen, histVars, crashes>>

-----------------------------------------------------------------------------
SyncStep ==
    /\ Settled
    /\ \/ SyncPlan \/ SyncSnapshot \/ SyncReady \/ SyncAcceptIntent \/ SyncPublication
       \/ SyncAccepted \/ SyncReworkIntent \/ SyncReworkCreated

BuildStep == Settled /\ (InspectHead \/ BuildNotReady \/ BuildReturns \/ BuildReady)

CallStep(c) == Decide(c) \/ StartPublication(c) \/ MergeBase(c)

PlanStep ==
    /\ Settled
    /\ \/ \E t \in Tasks : AddTask(t) \/ CancelTask(t) \/ IntegrateTask(t) \/ AcceptTask(t)
       \/ RevisePlan

\* What the user asks for.
UserStep ==
    /\ Settled
    /\ \/ Prepare
       \/ \E c \in Callers, kind \in {"accept", "rework"}, d \in seen : Call(c, kind, d)

Next ==
    \/ SyncStep \/ BuildStep \/ \E c \in Callers : CallStep(c)
    \/ PlanStep \/ UserStep
    \/ Crash \/ Restart

Spec == Init /\ [][Next]_vars

\* Disk writes, verification and Git calls return and the event loop runs their
\* continuations, although it runs those of other calls first; the integration queue
\* serves publications in the order they came.  So a step that is possible again and
\* again is taken.  Nothing obliges the user to do anything.
FairSpec ==
    /\ Spec
    /\ SF_vars(SyncStep) /\ SF_vars(BuildStep)
    /\ \A c \in Callers : SF_vars(CallStep(c))

-----------------------------------------------------------------------------
CallPcs == {"idle", "prepare", "decide", "intent", "publish", "start", "merge", "complete",
            "pause", "finish"}

TypeOK ==
    /\ phase \in {"up", "starting", "down"}
    /\ plan \in Plan /\ evidence \in SUBSET Tasks
    /\ offer \in Delivery \cup {None} /\ decision \in Decision \cup {None}
    /\ build \in Build \cup {None}
    /\ calls \in [Callers -> [pc : CallPcs, kind : {"accept", "rework"},
                              delivery : Delivery \cup {None},
                              result : Delivery \cup {None}]]
    /\ {expected, head, base} \subseteq 0..MaxHead
    /\ disk \in [nodes : [Tasks -> {"absent", "open", "accepted"}],
                 snapshot : [plan : Plan, evidence : SUBSET Tasks],
                 offer : Delivery \cup {None}, decision : Decision \cup {None},
                 intent : Delivery \cup {None}, publication : Publication \cup {None}]
    /\ workAt \in [Tasks -> 0..MaxHead]
    /\ seen \in SUBSET Delivery /\ decided \in SUBSET Decision
    /\ reoffered \in SUBSET Delivery /\ contested \in SUBSET Delivery
    /\ crashes \in 0..MaxCrashes

-----------------------------------------------------------------------------
(* Safety.                                                                 *)

\* A new delivery claims a task only when the head it offers carries the task's
\* work: the tasks are read before the head and both before the awaits of the
\* verification (buildFinalMeetingDelivery()).
DeliveredWorkInHead ==
    [][\A d \in seen' \ seen : \A t \in d.tasks : workAt[t] <= d.head]_vars

\* Deliveries of which more than one decision may be journaled.
Unsettled == reoffered \cup contested

\* Memory and journal agree about the decision: what the process offers and has
\* decided is what a restart would restore (restoreFinalMeetingDelivery()); and a
\* completed publication of the delivery on offer is a recorded acceptance, when no
\* call is about to record it (reconcileInterruptedFinalAcceptance()).
DecisionSurvives ==
    phase = "up" =>
        /\ offer = disk.offer /\ decision = disk.decision
        /\ (/\ Pending = {}
            /\ offer \notin Unsettled \cup {None}
            /\ disk.publication = [state |-> "published", delivery |-> offer])
              => decision = [kind |-> "accept", delivery |-> offer]

\* An acceptance and a rework never both decide the same delivery ("final Meeting
\* delivery already has a conflicting decision", acceptMeetingDelivery()), unless
\* calls overlap - the decision is read before the awaits of a call and recorded
\* after them - or a crash lost the plan version that a later offer was made for and
\* the same content is offered again, undecided.
OneDecisionPerDelivery ==
    \A a, b \in decided :
        a.delivery = b.delivery /\ a.delivery \notin Unsettled => a.kind = b.kind

(* Liveness.                                                               *)

\* Every call of the decision API returns, also the ones that join one build,
\* unless a rework is out of task identities or plan versions of the instance.
EveryCallSettles ==
    \A c \in Callers :
        calls[c].pc # "idle" ~> \/ calls[c].pc = "idle"
                                \/ Due("rework-intent") /\ ~RoomForRework
=============================================================================
