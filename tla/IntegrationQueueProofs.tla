----------------------- MODULE IntegrationQueueProofs -----------------------
(***************************************************************************)
(* Proofs about IntegrationQueue, for any candidates, tasks and bounds: its *)
(* types; which candidates reach the user's base, what the journal names and *)
(* how its head moves; that the queue implements MeetingLedger; and that a *)
(* publication moves the user's base from exactly the revision the user    *)
(* accepted to exactly the head they accepted.                             *)
(*                                                                         *)
(* None of the safety properties is inductive.  DurableInv adds what ties the *)
(* running operation to the durable head: where its awaits stand (PhaseOK), *)
(* what it staged (StagedOK) and what a restart restored (HeadsSafe,       *)
(* HeadsVerified, MemoryOK).  LedgerInv adds where the heads come from     *)
(* (OriginOK: every head on disk or in memory is the base as it once was with *)
(* candidates on top, none of them twice), that a staged candidate is new to *)
(* the durable head (FreshOK), and what the journal and the base hold while a *)
(* publication runs (PublishingOK).                                        *)
(*                                                                         *)
(* A publication compares the base in one Git call and merges in another.  *)
(* What makes this safe is the origin of the head: all that it has beyond the *)
(* accepted revision are commits of candidates, so a base with one more commit *)
(* of its user is no ancestor of it and the merge is no fast-forward.      *)
(***************************************************************************)
EXTENDS IntegrationQueueLedger, TLAPS

-----------------------------------------------------------------------------
(* Histories.                                                              *)

\* Extending a history by a commit gives a history (git cherry-pick).
LEMMA AppendHistory ==
    ASSUME NEW h \in History, NEW e \in Commit
    PROVE  Append(h, e) \in History
BY DEF History

\* The parent of a history is a history (the amend keeps it).
LEMMA FrontHistory ==
    ASSUME NEW h \in History
    PROVE  Front(h) \in History
<1>1. CASE h = <<>>
  <2>1. SubSeq(h, 1, 0 - 1) = <<>>
    BY <1>1 DEF History
  <2>2. Len(h) = 0
    BY <1>1
  <2> QED
    BY <2>1, <2>2 DEF Front, History
<1>2. CASE h # <<>>
  BY <1>2 DEF History, Front
<1> QED
  BY <1>1, <1>2

\* A cherry-pick contributes one candidate.
LEMMA CarriedAppend ==
    ASSUME NEW h \in History, NEW e \in Commit
    PROVE  Carried(Append(h, e)) = Carried(h) \cup ({e.cand} \ {None})
<1>1. DOMAIN Append(h, e) = DOMAIN h \cup {Len(h) + 1}
  BY DEF History
<1>2. \A i \in DOMAIN h : Append(h, e)[i] = h[i]
  BY DEF History
<1>3. Append(h, e)[Len(h) + 1] = e
  BY DEF History
<1>4. QED
  BY <1>1, <1>2, <1>3 DEF Carried

\* The parent of an extended history is the history it extends.
LEMMA FrontAppend ==
    ASSUME NEW h \in History, NEW e \in Commit
    PROVE  Front(Append(h, e)) = h
BY DEF History, Front

\* A non-empty history extends its parent by its last commit.
LEMMA FrontLast ==
    ASSUME NEW h \in History, h # <<>>
    PROVE  h = Append(Front(h), Last(h))
BY DEF History, Front, Last

\* The empty history is one, and so are the commits the queue makes commits.
LEMMA Commits ==
    /\ <<>> \in History
    /\ UserCommit \in Commit
    /\ \A c \in Candidates : Picked(c) \in Commit /\ Stamped(c) \in Commit
BY DEF History, Commit, UserCommit, Picked, Stamped

\* What an operation the callers chain on `tail` is (enqueue(), publish()).
LEMMA Jobs ==
    /\ \A c \in Candidates : Integrate(c) \in Job
    /\ \A d \in Delivery : Publish(d) \in Job
BY Commits DEF Integrate, Publish, Job, Delivery

-----------------------------------------------------------------------------
(* Type correctness.                                                       *)

\* What an operation on the queue is and when its parts are set (process(),
\* publish()): the pc tells.
JobOK(j) == j.kind = "integrate" => j.cand \in Candidates

PcOK ==
    /\ pc \in IntegratePcs => job # None /\ job.kind = "integrate"
    /\ pc \in PublishPcs => job # None /\ job.kind = "publish"
    /\ pc \in {"staged", "verify", "verified", "accept", "accepted", "abort"} =>
           staged # None
    /\ job # None => JobOK(job)
    /\ \A i \in 1..Len(waiting) : JobOK(waiting[i])

ConflictOK == conflictTask # None => interrupted # None

TypeInv == TypeOK /\ PcOK /\ ConflictOK

LEMMA TypeInit == Init => TypeInv
<1> SUFFICES ASSUME Init PROVE TypeInv
  OBVIOUS
<1>1. JournalOK
  BY DEF Init, JournalOK, LogState, PublicationState
<1>2. GitOK /\ BaseOK /\ DeliveryOK /\ HistoryOK
  BY Commits DEF Init, GitOK, BaseOK, DeliveryOK, HistoryOK
<1>3. MemOK /\ PublicationOK /\ StartOK
  BY Commits DEF Init, MemOK, PublicationOK, StartOK, PublicationState
<1>4. OperationOK
  BY DEF Init, OperationOK
<1>5. PcOK /\ ConflictOK
  BY DEF Init, PcOK, ConflictOK, IntegratePcs, PublishPcs
<1> QED
  BY <1>1, <1>2, <1>3, <1>4, <1>5 DEF TypeInv, TypeOK

\* A part whose variables a step leaves alone keeps its type.
LEMMA Frame ==
    ASSUME TypeInv
    PROVE  /\ UNCHANGED gitVars => GitOK'
           /\ UNCHANGED baseVars => BaseOK'
           /\ UNCHANGED journalVars => JournalOK'
           /\ UNCHANGED delivery => DeliveryOK'
           /\ UNCHANGED memVars => MemOK'
           /\ UNCHANGED publicationVars => PublicationOK'
           /\ UNCHANGED startVars => StartOK' /\ ConflictOK'
           /\ UNCHANGED <<waiting, pc, job, staged>> => OperationOK' /\ PcOK'
           /\ UNCHANGED histVars => HistoryOK'
<1> USE DEF TypeInv, TypeOK
<1>1. UNCHANGED gitVars => GitOK'
  BY DEF GitOK, gitVars
<1>2. UNCHANGED baseVars => BaseOK'
  BY DEF BaseOK, baseVars
<1>3. UNCHANGED journalVars => JournalOK'
  BY DEF JournalOK, journalVars
<1>4. UNCHANGED delivery => DeliveryOK'
  BY DEF DeliveryOK
<1>5. UNCHANGED memVars => MemOK'
  BY DEF MemOK, memVars
<1>6. UNCHANGED publicationVars => PublicationOK'
  BY DEF PublicationOK, publicationVars
<1>7. UNCHANGED startVars => StartOK' /\ ConflictOK'
  BY DEF StartOK, ConflictOK, startVars
<1>8. UNCHANGED <<waiting, pc, job, staged>> => OperationOK' /\ PcOK'
  BY DEF OperationOK, PcOK
<1>9. UNCHANGED histVars => HistoryOK'
  BY DEF HistoryOK, histVars
<1> QED
  BY <1>1, <1>2, <1>3, <1>4, <1>5, <1>6, <1>7, <1>8, <1>9

\* The journal holds a LogState after any write, rejected or not (persist()).
LEMMA PersistType ==
    ASSUME TypeInv, NEW entry \in LogState,
           PersistOk(entry) \/ PersistRejects(entry)
    PROVE  JournalOK'
<1>1. log' \in LogState /\ faults' \in Nat
  BY DEF TypeInv, TypeOK, JournalOK, PersistOk, PersistRejects, journalVars
<1>2. faulted' \in BOOLEAN
  BY Zenon DEF TypeInv, TypeOK, JournalOK, PersistOk, PersistRejects, journalVars
<1>3. QED
  BY <1>1, <1>2 DEF JournalOK

\* The facts of a candidate replay to a LogState.
LEMMA CandidateFacts ==
    ASSUME TypeInv, pc \in IntegratePcs
    PROVE  /\ job \in Job /\ job.kind = "integrate" /\ job.cand \in Candidates
           /\ TaskOf[job.cand] \in Tasks
           /\ LogActive \in LogState
           /\ LogFailed \in LogState
           /\ staged # None => LogStaged \in LogState /\ LogAccepted \in LogState
<1>1. job \in Job /\ job.kind = "integrate" /\ job.cand \in Candidates
  BY DEF TypeInv, TypeOK, OperationOK, PcOK, JobOK
<1>2. TaskOf[job.cand] \in Tasks
  BY <1>1, TaskOfAssumption
<1>3. log \in LogState /\ staged \in Staged \cup {None}
  BY DEF TypeInv, TypeOK, OperationOK, JournalOK
<1> QED
  BY <1>1, <1>2, <1>3 DEF LogState, LogActive, LogFailed, LogStaged, LogAccepted, Staged

\* The facts of a publication replay to a LogState.
LEMMA PublicationFacts ==
    ASSUME TypeInv, pc \in PublishPcs
    PROVE  /\ job \in Job /\ job.kind = "publish"
           /\ [head |-> job.head, expected |-> job.expected] \in Delivery
           /\ LogStarted \in LogState
           /\ LogCompleted \in LogState
           /\ LogPaused \in LogState
<1>1. job \in Job /\ job.kind = "publish"
  BY DEF TypeInv, TypeOK, OperationOK, PcOK
<1>2. log \in LogState
  BY DEF TypeInv, TypeOK, JournalOK
<1>3. [head |-> job.head, expected |-> job.expected] \in Delivery
  BY <1>1 DEF Job, Delivery
<1> QED
  BY <1>1, <1>2, <1>3 DEF LogState, LogStarted, LogCompleted, LogPaused, PublicationState

\* The end of an operation leaves none (process(), publish()).
LEMMA FinishType ==
    ASSUME TypeInv, Finish, UNCHANGED waiting
    PROVE  OperationOK' /\ PcOK'
BY DEF TypeInv, TypeOK, OperationOK, PcOK, Finish, IntegratePcs, PublishPcs

\* An operation that moves on keeps its job (process(), publish()).
LEMMA MoveType ==
    ASSUME TypeInv, UNCHANGED <<waiting, job>>, staged' \in Staged \cup {None},
           \/ pc \in IntegratePcs /\ pc' \in IntegratePcs
           \/ pc \in PublishPcs /\ pc' \in PublishPcs,
           pc' \in {"staged", "verify", "verified", "accept", "accepted", "abort"} =>
               staged' # None
    PROVE  OperationOK' /\ PcOK'
<1>1. OperationOK'
  BY DEF TypeInv, TypeOK, OperationOK
<1>2. IntegratePcs \cap PublishPcs = {}
  BY DEF IntegratePcs, PublishPcs
<1>3. PcOK'
  BY <1>2 DEF TypeInv, PcOK, JobOK
<1> QED
  BY <1>1, <1>3

\* What stageCandidate() returns is a StagedIntegration.
LEMMA StagedType ==
    ASSUME NEW p \in History, NEW r \in History
    PROVE  /\ [prior |-> p, result |-> r] \in Staged
           /\ [prior |-> p, result |-> r] # None
BY NoneAssumption DEF Staged

\* process() keeps the types.
LEMMA ProcessType == TypeInv /\ ProcessStep => TypeInv'
<1> SUFFICES ASSUME TypeInv, ProcessStep PROVE TypeInv'
  OBVIOUS
<1> USE Frame DEF TypeInv, TypeOK
<1>s. staged \in Staged \cup {None}
  BY DEF OperationOK
<1>p. ASSUME pc \in IntegratePcs PROVE /\ branch \in History /\ durableHead \in History
                                       /\ Stamped(job.cand) \in Commit
                                       /\ Picked(job.cand) \in Commit
  BY <1>p, CandidateFacts, Commits DEF GitOK, MemOK
<1>1. CASE PersistQueued
  <2>1. pc \in IntegratePcs
    BY <1>1 DEF PersistQueued, IntegratePcs
  <2>2. JournalOK'
    BY <1>1, <2>1, CandidateFacts, PersistType DEF PersistQueued
  <2>3. OperationOK' /\ PcOK'
    BY <1>1, <1>s, <2>1, MoveType, FinishType DEF PersistQueued, IntegratePcs
  <2> QED
    BY <1>1, <2>2, <2>3 DEF PersistQueued
<1>2. CASE PersistStaging
  <2>1. pc \in IntegratePcs
    BY <1>2 DEF PersistStaging, IntegratePcs
  <2>2. JournalOK'
    BY <1>2, <2>1, CandidateFacts, PersistType DEF PersistStaging
  <2>3. OperationOK' /\ PcOK'
    BY <1>2, <1>s, <2>1, MoveType DEF PersistStaging, IntegratePcs
  <2> QED
    BY <1>2, <2>2, <2>3 DEF PersistStaging
<1>3. CASE CheckCandidate
  <2>1. pc \in IntegratePcs
    BY <1>3 DEF CheckCandidate, IntegratePcs
  <2>2. /\ [prior |-> durableHead, result |-> branch] \in Staged
        /\ [prior |-> durableHead, result |-> branch] # None
    BY <1>p, <2>1, StagedType
  <2>3. /\ staged' \in Staged \cup {None}
        /\ pc' \in {"pick", "staged", "failed"}
        /\ pc' = "staged" => staged' # None
    BY <1>3, <1>s, <2>2 DEF CheckCandidate
  <2>4. OperationOK' /\ PcOK'
    BY <1>3, <2>1, <2>3, MoveType DEF CheckCandidate, IntegratePcs
  <2> QED
    BY <1>3, <2>4 DEF CheckCandidate
<1>4. CASE CherryPick
  <2>1. pc \in IntegratePcs
    BY <1>4 DEF CherryPick, IntegratePcs
  <2>2. /\ job.cand \in Candidates
        /\ Append(branch, Picked(job.cand)) \in History
    BY <1>p, <2>1, CandidateFacts, AppendHistory
  <2>3. GitOK'
    BY <1>4, <2>2 DEF CherryPick, GitOK
  <2>4. OperationOK' /\ PcOK'
    BY <1>4, <1>s, <2>1, MoveType DEF CherryPick, IntegratePcs
  <2> QED
    BY <1>4, <2>3, <2>4 DEF CherryPick
<1>5. CASE AbortPick
  <2>1. GitOK'
    BY <1>5 DEF AbortPick, GitOK
  <2>2. OperationOK' /\ PcOK'
    BY <1>5, <1>s, MoveType DEF AbortPick, IntegratePcs
  <2> QED
    BY <1>5, <2>1, <2>2 DEF AbortPick
<1>6. CASE AddTrailers
  <2> DEFINE amended == Append(Front(branch), Stamped(job.cand))
  <2>1. pc \in IntegratePcs
    BY <1>6 DEF AddTrailers, IntegratePcs
  <2>2. amended \in History
    BY <1>p, <2>1, FrontHistory, AppendHistory
  <2>4. /\ [prior |-> durableHead, result |-> amended] \in Staged
        /\ [prior |-> durableHead, result |-> amended] # None
    BY <1>p, <2>1, <2>2, StagedType
  <2>5. GitOK'
    BY <1>6, <2>2 DEF AddTrailers, GitOK
  <2>6. /\ staged' \in Staged \cup {None}
        /\ pc' \in {"staged", "failed"}
        /\ pc' = "staged" => staged' # None
    BY <1>6, <1>s, <2>4 DEF AddTrailers
  <2>7. OperationOK' /\ PcOK'
    BY <1>6, <2>1, <2>6, MoveType DEF AddTrailers, IntegratePcs
  <2> QED
    BY <1>6, <2>5, <2>7 DEF AddTrailers
<1>7. CASE PersistStaged
  <2>1. pc \in IntegratePcs /\ staged # None
    BY <1>7 DEF PersistStaged, IntegratePcs, PcOK
  <2>2. JournalOK'
    BY <1>7, <2>1, CandidateFacts, PersistType DEF PersistStaged
  <2>3. OperationOK' /\ PcOK'
    BY <1>7, <1>s, <2>1, MoveType DEF PersistStaged, IntegratePcs
  <2> QED
    BY <1>7, <2>2, <2>3 DEF PersistStaged
<1>8. CASE VerifyStaged
  <2>1. pc \in IntegratePcs /\ staged # None
    BY <1>8 DEF VerifyStaged, IntegratePcs, PcOK
  <2>2. HistoryOK'
    BY <1>8, <1>p, <2>1 DEF VerifyStaged, VerificationPasses, HistoryOK
  <2>3. OperationOK' /\ PcOK'
    BY <1>8, <1>s, <2>1, MoveType DEF VerifyStaged, IntegratePcs
  <2> QED
    BY <1>8, <2>2, <2>3 DEF VerifyStaged
<1>9. CASE PersistVerified
  <2>1. pc \in IntegratePcs /\ staged # None
    BY <1>9 DEF PersistVerified, IntegratePcs, PcOK
  <2>2. JournalOK'
    BY <1>9, <2>1, CandidateFacts, PersistType DEF PersistVerified
  <2>3. OperationOK' /\ PcOK'
    BY <1>9, <1>s, <2>1, MoveType DEF PersistVerified, IntegratePcs
  <2> QED
    BY <1>9, <2>2, <2>3 DEF PersistVerified
<1>10. CASE AcceptVerified
  <2>1. pc \in IntegratePcs /\ staged # None
    BY <1>10 DEF AcceptVerified, IntegratePcs, PcOK
  <2>2. OperationOK' /\ PcOK'
    BY <1>10, <1>s, <2>1, MoveType DEF AcceptVerified, IntegratePcs
  <2> QED
    BY <1>10, <2>2 DEF AcceptVerified
<1>11. CASE PersistAccepted
  <2>1. pc \in IntegratePcs /\ staged # None
    BY <1>11 DEF PersistAccepted, IntegratePcs, PcOK
  <2>2. JournalOK'
    BY <1>11, <2>1, CandidateFacts, PersistType DEF PersistAccepted
  <2>3. OperationOK' /\ PcOK'
    BY <1>11, <1>s, <2>1, MoveType, FinishType DEF PersistAccepted, IntegratePcs
  <2>4. staged.result \in History /\ job.cand \in Candidates
    BY <1>s, <2>1, CandidateFacts DEF Staged
  <2>5. MemOK'
    BY <1>11, <2>4 DEF PersistAccepted, RememberAccepted, MemOK, memVars
  <2> QED
    BY <1>11, <2>2, <2>3, <2>5 DEF PersistAccepted
<1>12. CASE AbortStaged
  <2>1. pc \in IntegratePcs /\ staged # None
    BY <1>12 DEF AbortStaged, IntegratePcs, PcOK
  <2>2. staged.prior \in History
    BY <1>s, <2>1 DEF Staged
  <2>3. GitOK'
    BY <1>12, <2>2 DEF AbortStaged, GitOK
  <2>4. OperationOK' /\ PcOK'
    BY <1>12, <1>s, <2>1, MoveType DEF AbortStaged, IntegratePcs
  <2> QED
    BY <1>12, <2>3, <2>4 DEF AbortStaged
<1>13. CASE PersistFailed
  <2>1. pc \in IntegratePcs
    BY <1>13 DEF PersistFailed, IntegratePcs
  <2>2. JournalOK'
    BY <1>13, <2>1, CandidateFacts, PersistType DEF PersistFailed
  <2>3. OperationOK' /\ PcOK'
    BY <1>13, FinishType DEF PersistFailed
  <2>4. MemOK'
    BY <1>13 DEF PersistFailed, MemOK
  <2> QED
    BY <1>13, <2>2, <2>3, <2>4 DEF PersistFailed
<1> QED
  BY <1>1, <1>2, <1>3, <1>4, <1>5, <1>6, <1>7, <1>8, <1>9, <1>10, <1>11, <1>12, <1>13
     DEF ProcessStep

\* publish() keeps the types.
LEMMA PublishType == TypeInv /\ PublishStep => TypeInv'
<1> SUFFICES ASSUME TypeInv, PublishStep PROVE TypeInv'
  OBVIOUS
<1> USE Frame DEF TypeInv, TypeOK
<1>s. staged \in Staged \cup {None}
  BY DEF OperationOK
<1>p. pc \in PublishPcs
  BY DEF PublishStep, PersistStarted, InspectBase, MergeBase, PersistCompleted,
         PersistPaused, PublishPcs
<1>f. /\ job.head \in History
      /\ [head |-> job.head, expected |-> job.expected] \in Delivery
      /\ LogStarted \in LogState /\ LogCompleted \in LogState /\ LogPaused \in LogState
  BY <1>p, PublicationFacts DEF Job
<1>m. ASSUME pc' \in PublishPcs, UNCHANGED <<waiting, job, staged>>
      PROVE  OperationOK' /\ PcOK'
  BY <1>m, <1>p, <1>s, MoveType DEF PublishPcs
<1>1. CASE PersistStarted
  <2>1. JournalOK'
    BY <1>1, <1>f, PersistType DEF PersistStarted
  <2>2. OperationOK' /\ PcOK'
    BY <1>1, <1>m, FinishType DEF PersistStarted, PublishPcs
  <2>3. PublicationOK'
    BY <1>1, <1>f DEF PersistStarted, PublicationOK, PublicationState, publicationVars
  <2> QED
    BY <1>1, <2>1, <2>2, <2>3 DEF PersistStarted
<1>2. CASE InspectBase
  <2>1. OperationOK' /\ PcOK'
    BY <1>2, <1>m DEF InspectBase, PublishPcs
  <2> QED
    BY <1>2, <2>1 DEF InspectBase
<1>3. CASE MergeBase
  <2>1. OperationOK' /\ PcOK'
    BY <1>3, <1>m DEF MergeBase, PublishPcs
  <2>2. BaseOK'
    BY <1>3, <1>f DEF MergeBase, BaseOK
  <2> QED
    BY <1>3, <2>1, <2>2 DEF MergeBase
<1>4. CASE PersistCompleted
  <2>1. JournalOK'
    BY <1>4, <1>f, PersistType DEF PersistCompleted
  <2>2. OperationOK' /\ PcOK'
    BY <1>4, <1>m, FinishType DEF PersistCompleted, PublishPcs
  <2>3. PublicationOK'
    BY <1>4 DEF PersistCompleted, PublicationOK, PublicationState
  <2> QED
    BY <1>4, <2>1, <2>2, <2>3 DEF PersistCompleted
<1>5. CASE PersistPaused
  <2>1. JournalOK'
    BY <1>5, <1>f, PersistType DEF PersistPaused
  <2>2. OperationOK' /\ PcOK'
    BY <1>5, FinishType DEF PersistPaused
  <2>3. PublicationOK'
    BY <1>5 DEF PersistPaused, PublicationOK, PublicationState
  <2> QED
    BY <1>5, <2>1, <2>2, <2>3 DEF PersistPaused
<1> QED
  BY <1>1, <1>2, <1>3, <1>4, <1>5 DEF PublishStep

\* state(), the callers, the user, a crash and a restart keep the types.
LEMMA OtherType ==
    TypeInv /\ (Begin \/ StateStep \/ Restart \/ DetectInterrupted \/ Environment) => TypeInv'
<1> SUFFICES ASSUME TypeInv, Begin \/ StateStep \/ Restart \/ DetectInterrupted \/ Environment
             PROVE  TypeInv'
  OBVIOUS
<1> USE Frame DEF TypeInv, TypeOK
<1>w. WorktreeHead \in History
  BY DEF WorktreeHead, GitOK, StartOK
<1>1. CASE Begin
  <2>1. Head(waiting) \in Job /\ JobOK(Head(waiting)) /\ Tail(waiting) \in Seq(Job)
    BY <1>1 DEF Begin, OperationOK, PcOK
  <2>2. \A i \in 1..Len(Tail(waiting)) : JobOK(Tail(waiting)[i])
    BY <1>1 DEF Begin, OperationOK, PcOK
  <2>3. OperationOK'
    BY <1>1, <2>1 DEF Begin, OperationOK, IntegratePcs, PublishPcs
  <2>4. PcOK'
    BY <1>1, <2>1, <2>2, NoneAssumption DEF Begin, PcOK, IntegratePcs, PublishPcs
  <2>5. MemOK'
    <3>1. active' \in Tasks \cup {None}
      BY <1>1, <2>1, TaskOfAssumption DEF Begin, MemOK, JobOK
    <3> QED
      BY <1>1, <3>1 DEF Begin, MemOK
  <2> QED
    BY <1>1, <2>3, <2>4, <2>5 DEF Begin
<1>2. CASE InitializeState
  <2>1. GitOK'
    BY <1>2, <1>w DEF InitializeState, GitOK
  <2>2. MemOK'
    BY <1>2, <1>w DEF InitializeState, MemOK, StartOK
  <2>3. HistoryOK'
    BY <1>2, <1>w DEF InitializeState, HistoryOK
  <2>4. StartOK' /\ ConflictOK'
    BY <1>2 DEF InitializeState, StartOK, ConflictOK
  <2> QED
    BY <1>2, <2>1, <2>2, <2>3, <2>4 DEF InitializeState
<1>3. CASE InitializeFails
  <2>1. GitOK'
    BY <1>3, <1>w DEF InitializeFails, GitOK, gitVars
  <2>2. StartOK' /\ ConflictOK'
    BY <1>3 DEF InitializeFails, StartOK, ConflictOK
  <2> QED
    BY <1>3, <2>1, <2>2 DEF InitializeFails
<1>4. CASE Restart
  <2>1. /\ log.head \in History \cup {None}
        /\ log.active \in Tasks \cup {None}
        /\ log.accepted \in SUBSET Candidates
        /\ log.publication \in PublicationState
        /\ log.request \in Delivery \cup {None}
    BY DEF JournalOK, LogState
  <2>2. MemOK' /\ PublicationOK'
    BY <1>4, <2>1 DEF Restart, ResumeHead, MemOK, PublicationOK, BaseOK
  <2>3. StartOK' /\ ConflictOK'
    BY <1>4, <2>1 DEF Restart, StartOK, ConflictOK, BaseOK
  <2>4. OperationOK' /\ PcOK'
    BY <1>4 DEF Restart, OperationOK, PcOK, IntegratePcs, PublishPcs
  <2>5. JournalOK'
    BY <1>4 DEF Restart, JournalOK
  <2> QED
    BY <1>4, <2>2, <2>3, <2>4, <2>5 DEF Restart
<1>5. CASE DetectInterrupted
  <2>1. picking # None =>
           /\ [pick |-> picking, durableHead |-> durableHead, currentHead |-> branch]
                \in Interrupted
           /\ [pick |-> picking, durableHead |-> durableHead, currentHead |-> branch]
                # None
    BY InterruptedAssumption DEF GitOK, MemOK, Interrupted
  <2>2. StartOK' /\ ConflictOK'
    BY <1>5, <2>1 DEF DetectInterrupted, StartOK, ConflictOK, MemOK
  <2>3. OperationOK' /\ PcOK'
    BY <1>5 DEF DetectInterrupted, OperationOK, PcOK, IntegratePcs, PublishPcs
  <2> QED
    BY <1>5, <2>2, <2>3 DEF DetectInterrupted
<1>6. ASSUME NEW c \in Candidates, Enqueue(c) PROVE TypeInv'
  <2>1. Integrate(c) \in Job /\ JobOK(Integrate(c))
    BY Commits DEF Integrate, Job, JobOK
  <2>2. OperationOK'
    BY <1>6, <2>1 DEF Enqueue, OperationOK
  <2>3. PcOK'
    BY <1>6, <2>1 DEF Enqueue, PcOK, OperationOK
  <2> QED
    BY <1>6, <2>2, <2>3 DEF Enqueue
<1>7. CASE BuildDelivery
  <2>1. DeliveryOK'
    BY <1>7 DEF BuildDelivery, DeliveryOK, Delivery, MemOK, StartOK
  <2> QED
    BY <1>7, <2>1 DEF BuildDelivery
<1>8. CASE RequestPublication
  <2>1. Publish(delivery) \in Job /\ JobOK(Publish(delivery))
    BY <1>8 DEF RequestPublication, DeliveryOK, Delivery, Publish, Job, JobOK
  <2>2. OperationOK'
    BY <1>8, <2>1 DEF RequestPublication, OperationOK
  <2>3. PcOK'
    BY <1>8, <2>1 DEF RequestPublication, PcOK, OperationOK
  <2> QED
    BY <1>8, <2>2, <2>3 DEF RequestPublication
<1>9. CASE UserCommits
  <2>1. BaseOK'
    BY <1>9, Commits, AppendHistory DEF UserCommits, BaseOK
  <2> QED
    BY <1>9, <2>1 DEF UserCommits
<1>10. CASE CleanupPublished
  <2>1. GitOK'
    BY <1>10 DEF CleanupPublished, GitOK
  <2> QED
    BY <1>10, <2>1 DEF CleanupPublished
<1>11. CASE ResolveInterrupted
  <2>1. GitOK'
    BY <1>11 DEF ResolveInterrupted, CheckInterrupted,
       AbortInterrupted, SettleInterrupted, GitOK
  <2>2. MemOK'
    BY <1>11 DEF ResolveInterrupted, CheckInterrupted,
       AbortInterrupted, SettleInterrupted, MemOK
  <2>3. /\ interrupted' \in {None, interrupted}
        /\ conflictTask' \in {None, conflictTask}
        /\ conflictTask' # None => interrupted' = interrupted /\ conflictTask' = conflictTask
    BY <1>11 DEF ResolveInterrupted, CheckInterrupted,
       AbortInterrupted, SettleInterrupted
  <2>4. StartOK'
    BY <1>11, <2>3 DEF ResolveInterrupted, CheckInterrupted,
       AbortInterrupted, SettleInterrupted, StartOK
  <2>5. ConflictOK'
    BY <2>3 DEF ConflictOK
  <2> QED
    BY <1>11, <2>1, <2>2, <2>4, <2>5 DEF ResolveInterrupted, CheckInterrupted,
       AbortInterrupted, SettleInterrupted
<1>12. CASE Crash
  <2>1. OperationOK' /\ PcOK'
    BY <1>12 DEF Crash, OperationOK, PcOK, IntegratePcs, PublishPcs
  <2>2. StartOK'
    <3>1. crashes' \in Nat
      BY <1>12 DEF Crash, StartOK
    <3>2. up' \in BOOLEAN
      BY <1>12, Zenon DEF Crash
    <3> QED
      BY <1>12, <3>1, <3>2 DEF Crash, StartOK
  <2>3. ConflictOK'
    BY <1>12 DEF Crash, ConflictOK
  <2> QED
    BY <1>12, <2>1, <2>2, <2>3 DEF Crash
<1> QED
  BY <1>1, <1>2, <1>3, <1>4, <1>5, <1>6, <1>7, <1>8, <1>9, <1>10, <1>11, <1>12
     DEF StateStep, Environment

\* Every step keeps the types.
LEMMA TypeNext == TypeInv /\ [Next]_vars => TypeInv'
<1> SUFFICES ASSUME TypeInv, [Next]_vars PROVE TypeInv'
  OBVIOUS
<1>1. CASE UNCHANGED vars
  BY <1>1, Frame DEF vars, TypeInv, TypeOK
<1> QED
  BY <1>1, ProcessType, PublishType, OtherType DEF Next, QueueStep

\* The queue, its worktree and its journal keep their types from any start,
\* through failing writes, crashes and restarts.
THEOREM TypeCorrect == Spec => []TypeOK
<1>1. Spec => []TypeInv
  BY TypeInit, TypeNext, PTL DEF Spec
<1>2. TypeInv => TypeOK
  BY DEF TypeInv
<1> QED
  BY <1>1, <1>2, PTL

-----------------------------------------------------------------------------
(* The inductive invariant.                                                *)

\* A head is safe when every candidate in it was accepted, or adopted with the
\* worktree; it is verified when it was verified, or adopted, as a whole.
SafeHead(h) == h # None => Carried(h) \subseteq log.accepted \cup AdoptedCandidates
VerifiedHead(h) == h # None => h \in checked \cup adopted

PhaseOK ==
    /\ ~up => pc = "idle"
    /\ pc \in IntegratePcs \cup PublishPcs => statePromise = "ready"
    /\ up /\ statePromise = "none" => restored = log.head
    /\ pc = "pick" => branch = durableHead
    /\ pc = "trailers" => branch = Append(durableHead, Picked(job.cand))
    /\ pc = "merge" => job.head = durableHead

StagedOK ==
    /\ staged # None => /\ pc \in IntegratePcs
                        /\ staged.prior = durableHead
                        /\ staged.result = Append(durableHead, Stamped(job.cand))
    /\ pc \in {"verified", "accept", "accepted"} => staged.result \in checked

HeadsSafe ==
    SafeHead(base) /\ SafeHead(durableHead) /\ SafeHead(restored) /\ SafeHead(log.head)

HeadsVerified ==
    /\ VerifiedHead(log.head) /\ VerifiedHead(restored)
    /\ statePromise = "ready" => VerifiedHead(durableHead)

MemoryOK ==
    up /\ ~faulted => /\ accepted = log.accepted
                      /\ log.head # None => durableHead = log.head

HeadsOK == HeadsSafe /\ HeadsVerified /\ MemoryOK /\ AcceptedOnJournaledHead

DurableInv == TypeInv /\ PhaseOK /\ StagedOK /\ HeadsOK

\* A new Meeting has no head to restore and nothing accepted.
LEMMA DurableInit == Init => DurableInv
<1> SUFFICES ASSUME Init PROVE DurableInv
  OBVIOUS
<1>1. TypeInv
  BY TypeInit
<1>2. PhaseOK /\ StagedOK
  BY DEF Init, PhaseOK, StagedOK, IntegratePcs, PublishPcs
<1>3. Carried(<<>>) = {}
  BY DEF Carried
<1>4. HeadsOK
  BY <1>3 DEF Init, HeadsOK, HeadsSafe, SafeHead, HeadsVerified, VerifiedHead, MemoryOK,
              AcceptedOnJournaledHead
<1> QED
  BY <1>1, <1>2, <1>4 DEF DurableInv

-----------------------------------------------------------------------------
(* Steps that leave the heads alone.                                       *)

Quiet ==
    /\ UNCHANGED <<base, durableHead, accepted, restored, statePromise>>
    /\ checked \subseteq checked' /\ adopted' = adopted
    /\ log'.head = log.head /\ log'.accepted = log.accepted
    /\ up' => up
    /\ faulted => faulted'

\* A step that moves no head and accepts nothing keeps what is known of the
\* heads, even when it verifies another commit or fails the journal.
LEMMA QuietHeads == DurableInv /\ Quiet => HeadsOK'
<1> SUFFICES ASSUME DurableInv, Quiet PROVE HeadsOK'
  OBVIOUS
<1> USE DEF DurableInv, HeadsOK, Quiet
<1>1. HeadsSafe'
  BY DEF HeadsSafe, SafeHead, AdoptedCandidates
<1>2. HeadsVerified'
  BY DEF HeadsVerified, VerifiedHead
<1>3. MemoryOK'
  BY DEF MemoryOK
<1>4. AcceptedOnJournaledHead'
  BY DEF AcceptedOnJournaledHead
<1> QED
  BY <1>1, <1>2, <1>3, <1>4

\* An entry that names the same head and the same acceptances keeps both,
\* whether it was written or not, and never undoes a fault (persist()).
LEMMA PersistQuiet ==
    ASSUME NEW entry, PersistOk(entry) \/ PersistRejects(entry),
           entry.head = log.head, entry.accepted = log.accepted
    PROVE  log'.head = log.head /\ log'.accepted = log.accepted /\ (faulted => faulted')
<1>1. log' \in {log, entry}
  BY DEF PersistOk, PersistRejects, journalVars
<1>2. faulted => faulted'
  BY Zenon DEF PersistOk, PersistRejects, journalVars
<1> QED
  BY <1>1, <1>2

\* The entries other than the staged and the accepted facts name the same head.
LEMMA SameHead ==
    ASSUME TypeInv
    PROVE  \A e \in {LogActive, LogFailed, LogStarted, LogCompleted, LogPaused} :
               e.head = log.head /\ e.accepted = log.accepted
BY DEF TypeInv, TypeOK, JournalOK, LogState, LogActive, LogFailed, LogStarted, LogCompleted,
       LogPaused

-----------------------------------------------------------------------------
(* process().                                                              *)

\* While an operation runs the heads it works on stay put (state() is settled
\* before the first await, and `tail` admits no second operation).
LEMMA RunningFacts ==
    ASSUME DurableInv, pc \in IntegratePcs \cup PublishPcs
    PROVE  /\ up /\ statePromise = "ready"
           /\ durableHead \in History /\ branch \in History
           /\ job \in Job
           /\ pc \in IntegratePcs => /\ job.cand \in Candidates
                                     /\ Picked(job.cand) \in Commit
                                     /\ Stamped(job.cand) \in Commit
<1>1. up /\ statePromise = "ready"
  BY DEF DurableInv, PhaseOK, IntegratePcs, PublishPcs
<1>2. durableHead \in History /\ branch \in History
  BY DEF DurableInv, TypeInv, TypeOK, MemOK, GitOK
<1>3. job \in Job
  BY DEF DurableInv, TypeInv, TypeOK, OperationOK, PcOK
<1>4. pc \in IntegratePcs => job.cand \in Candidates
  BY CandidateFacts DEF DurableInv
<1> QED
  BY <1>1, <1>2, <1>3, <1>4, Commits

\* The steps of process() that journal no staged and no accepted fact.
LEMMA ProcessQuiet ==
    DurableInv /\ ( \/ PersistQueued \/ PersistStaging \/ CheckCandidate \/ CherryPick
                    \/ AbortPick \/ AddTrailers \/ VerifyStaged \/ AcceptVerified
                    \/ AbortStaged \/ PersistFailed )
        => PhaseOK' /\ StagedOK' /\ HeadsOK'
<1> SUFFICES ASSUME DurableInv,
                    \/ PersistQueued \/ PersistStaging \/ CheckCandidate \/ CherryPick
                    \/ AbortPick \/ AddTrailers \/ VerifyStaged \/ AcceptVerified
                    \/ AbortStaged \/ PersistFailed
             PROVE  PhaseOK' /\ StagedOK' /\ HeadsOK'
  OBVIOUS
<1>t. TypeInv
  BY DEF DurableInv
<1>1. CASE PersistQueued
  <2>1. Quiet
    BY <1>1, <1>t, SameHead, PersistQuiet
       DEF PersistQueued, Quiet, baseVars, memVars, startVars, histVars
  <2>2. PhaseOK' /\ StagedOK'
    BY <1>1, <2>1 DEF PersistQueued, Quiet, DurableInv, PhaseOK, StagedOK, Finish,
          IntegratePcs, PublishPcs, gitVars, memVars, startVars, histVars
  <2> QED
    BY <2>1, <2>2, QuietHeads
<1>2. CASE PersistStaging
  <2>1. Quiet
    BY <1>2, <1>t, SameHead, PersistQuiet
       DEF PersistStaging, Quiet, baseVars, memVars, startVars, histVars
  <2>2. PhaseOK' /\ StagedOK'
    BY <1>2, <2>1 DEF PersistStaging, Quiet, DurableInv, PhaseOK, StagedOK,
          IntegratePcs, PublishPcs, gitVars, memVars, startVars, histVars
  <2> QED
    BY <2>1, <2>2, QuietHeads
<1>3. CASE CheckCandidate
  <2>1. Quiet
    BY <1>3 DEF CheckCandidate, Quiet, baseVars, memVars, startVars, histVars, journalVars
  <2>2. Recoverable(job.cand) => branch = Append(durableHead, Stamped(job.cand))
    BY <1>3, RunningFacts, FrontLast DEF CheckCandidate, Recoverable, IntegratePcs
  <2>3. PhaseOK'
    BY <1>3, <2>1 DEF CheckCandidate, DurableInv, PhaseOK,
          IntegratePcs, PublishPcs, gitVars, memVars, startVars, journalVars
  <2>4. StagedOK'
    BY <1>3, <2>2 DEF CheckCandidate, DurableInv, StagedOK, IntegratePcs, memVars, histVars
  <2> QED
    BY <2>1, <2>3, <2>4, QuietHeads
<1>4. CASE CherryPick
  <2>1. Quiet
    BY <1>4 DEF CherryPick, Quiet, baseVars, memVars, startVars, histVars, journalVars
  <2>2. PhaseOK' /\ StagedOK'
    BY <1>4 DEF CherryPick, DurableInv, PhaseOK, StagedOK,
          IntegratePcs, PublishPcs, memVars, startVars, histVars, journalVars
  <2> QED
    BY <2>1, <2>2, QuietHeads
<1>5. CASE AbortPick
  <2>1. Quiet
    BY <1>5 DEF AbortPick, Quiet, baseVars, memVars, startVars, histVars, journalVars
  <2>2. PhaseOK' /\ StagedOK'
    BY <1>5 DEF AbortPick, DurableInv, PhaseOK, StagedOK,
          IntegratePcs, PublishPcs, memVars, startVars, histVars, journalVars
  <2> QED
    BY <2>1, <2>2, QuietHeads
<1>6. CASE AddTrailers
  <2>1. Quiet
    BY <1>6 DEF AddTrailers, Quiet, baseVars, memVars, startVars, histVars, journalVars
  <2>2. Front(branch) = durableHead
    BY <1>6, RunningFacts, FrontAppend DEF AddTrailers, DurableInv, PhaseOK, IntegratePcs
  <2>3. PhaseOK' /\ StagedOK'
    BY <1>6, <2>2 DEF AddTrailers, DurableInv, PhaseOK, StagedOK,
          IntegratePcs, PublishPcs, memVars, startVars, histVars, journalVars
  <2> QED
    BY <2>1, <2>3, QuietHeads
<1>7. CASE VerifyStaged
  <2>1. Quiet
    BY <1>7 DEF VerifyStaged, VerificationPasses, Quiet, baseVars, memVars, startVars,
          journalVars
  <2>2. PhaseOK' /\ StagedOK'
    BY <1>7 DEF VerifyStaged, VerificationPasses, DurableInv, PhaseOK, StagedOK,
          IntegratePcs, PublishPcs, gitVars, memVars, startVars, journalVars
  <2> QED
    BY <2>1, <2>2, QuietHeads
<1>8. CASE AcceptVerified
  <2>1. Quiet
    BY <1>8 DEF AcceptVerified, Quiet, baseVars, memVars, startVars, histVars, journalVars
  <2>2. PhaseOK' /\ StagedOK'
    BY <1>8 DEF AcceptVerified, DurableInv, PhaseOK, StagedOK,
          IntegratePcs, PublishPcs, gitVars, memVars, startVars, histVars, journalVars
  <2> QED
    BY <2>1, <2>2, QuietHeads
<1>9. CASE AbortStaged
  <2>1. Quiet
    BY <1>9 DEF AbortStaged, Quiet, baseVars, memVars, startVars, histVars, journalVars
  <2>2. PhaseOK' /\ StagedOK'
    BY <1>9 DEF AbortStaged, DurableInv, PhaseOK, StagedOK,
          IntegratePcs, PublishPcs, memVars, startVars, histVars, journalVars
  <2> QED
    BY <2>1, <2>2, QuietHeads
<1>10. CASE PersistFailed
  <2>1. Quiet
    BY <1>10, <1>t, SameHead, PersistQuiet
       DEF PersistFailed, Quiet, baseVars, startVars, histVars
  <2>2. PhaseOK' /\ StagedOK'
    BY <1>10, <2>1 DEF PersistFailed, Quiet, DurableInv, PhaseOK, StagedOK, Finish,
          IntegratePcs, PublishPcs, startVars
  <2> QED
    BY <2>1, <2>2, QuietHeads
<1> QED
  BY <1>1, <1>2, <1>3, <1>4, <1>5, <1>6, <1>7, <1>8, <1>9, <1>10

\* The staged fact names the head in memory, so it first names a head or
\* repeats the one it names (persist('review-received'), persist('review-pass')).
LEMMA StagedFact ==
    DurableInv /\ (PersistStaged \/ PersistVerified)
        => PhaseOK' /\ StagedOK' /\ HeadsOK'
<1> SUFFICES ASSUME DurableInv, PersistStaged \/ PersistVerified
             PROVE  PhaseOK' /\ StagedOK' /\ HeadsOK'
  OBVIOUS
<1> USE DEF DurableInv
<1>1. /\ pc \in IntegratePcs /\ staged # None
      /\ staged.prior = durableHead
      /\ up /\ statePromise = "ready"
      /\ log \in LogState
  <2>1. pc \in IntegratePcs /\ staged # None
    BY DEF PersistStaged, PersistVerified, TypeInv, PcOK, IntegratePcs
  <2> QED
    BY <2>1, RunningFacts DEF StagedOK, TypeInv, TypeOK, JournalOK
<1>2. /\ log'.head \in {log.head, durableHead}
      /\ log'.head = log.head \/ ~faulted
      /\ log'.accepted = log.accepted
  BY <1>1 DEF PersistStaged, PersistVerified, PersistOk, PersistRejects, journalVars,
              LogStaged, LogState
<1>3. faulted => faulted'
  BY Zenon DEF PersistStaged, PersistVerified, PersistOk, PersistRejects, journalVars
<1>4. UNCHANGED <<branch, base, up, restored, statePromise, durableHead, accepted, job,
                  staged, checked, adopted>>
  BY DEF PersistStaged, PersistVerified, gitVars, baseVars, memVars, startVars, histVars
<1>5. PhaseOK' /\ StagedOK'
  <2>1. /\ pc' \in IntegratePcs \ {"pick", "trailers", "merge", "verified", "accepted"}
        /\ pc' = "accept" => pc = "verified"
    BY DEF PersistStaged, PersistVerified, IntegratePcs
  <2> QED
    BY <1>1, <1>4, <2>1 DEF PhaseOK, StagedOK
<1>6. HeadsSafe' /\ HeadsVerified'
  BY <1>1, <1>2, <1>4 DEF HeadsOK, HeadsSafe, SafeHead, HeadsVerified, VerifiedHead,
                          AdoptedCandidates
<1>7. MemoryOK' /\ AcceptedOnJournaledHead'
  BY <1>1, <1>2, <1>3, <1>4 DEF HeadsOK, MemoryOK, AcceptedOnJournaledHead
<1> QED
  BY <1>5, <1>6, <1>7 DEF HeadsOK

\* The accepted fact: the head gains exactly the accepted candidate, in the
\* journal first and then in memory (persist('review-pass', 'accepted')).
LEMMA AcceptedFact ==
    DurableInv /\ PersistAccepted => PhaseOK' /\ StagedOK' /\ HeadsOK'
<1> SUFFICES ASSUME DurableInv, PersistAccepted
             PROVE  PhaseOK' /\ StagedOK' /\ HeadsOK'
  OBVIOUS
<1> USE DEF DurableInv
<1> DEFINE c == job.cand
           new == Append(durableHead, Stamped(c))
<1>1. /\ pc = "accepted" /\ staged # None
      /\ staged.result = new /\ new \in checked
      /\ up /\ statePromise = "ready"
      /\ c \in Candidates /\ durableHead \in History /\ Stamped(c) \in Commit
      /\ log \in LogState
  <2>1. pc = "accepted" /\ pc \in IntegratePcs /\ staged # None
    BY DEF PersistAccepted, TypeInv, PcOK, IntegratePcs
  <2> QED
    BY <2>1, RunningFacts DEF StagedOK, TypeInv, TypeOK, JournalOK
<1>2. Carried(new) = Carried(durableHead) \cup {c}
  BY <1>1, CarriedAppend, NoneAssumption DEF Stamped
<1>3. \/ UNCHANGED log
      \/ /\ log'.head = new
         /\ log'.accepted = log.accepted \cup {c}
         /\ ~faulted
  BY <1>1 DEF PersistAccepted, PersistOk, PersistRejects, journalVars, LogAccepted, LogState
<1>4. UNCHANGED <<branch, base, up, restored, statePromise, checked, adopted>>
  BY DEF PersistAccepted, gitVars, baseVars, startVars, histVars
<1>5. \/ /\ UNCHANGED <<durableHead, accepted, job, staged>>
         /\ pc' = "abort" /\ faulted'
      \/ /\ durableHead' = new /\ accepted' = accepted \cup {c}
         /\ log'.head = new /\ log'.accepted = log.accepted \cup {c}
         /\ pc' = "idle" /\ staged' = None
         /\ ~faulted
  <2>1. CASE PersistOk(LogAccepted) /\ RememberAccepted /\ Finish
    BY <1>1, <2>1 DEF PersistOk, LogAccepted, LogState, RememberAccepted, Finish
  <2>2. CASE PersistRejects(LogAccepted) /\ pc' = "abort" /\ UNCHANGED <<memVars, job, staged>>
    <3>1. faulted'
      <4>1. CASE faulted
        BY <2>2, <4>1 DEF PersistRejects, journalVars
      <4>2. CASE ~faulted
        BY <2>2, <4>2 DEF PersistRejects
      <4> QED
        BY <4>1, <4>2
    <3> QED
      BY <2>2, <3>1 DEF memVars
  <2> QED
    BY <2>1, <2>2 DEF PersistAccepted
<1>6. PhaseOK' /\ StagedOK'
  BY <1>1, <1>4, <1>5 DEF PhaseOK, StagedOK, IntegratePcs, PublishPcs
<1>7. HeadsSafe'
  <2>1. AdoptedCandidates' = AdoptedCandidates /\ log.accepted \subseteq log'.accepted
    BY <1>3, <1>4 DEF AdoptedCandidates
  <2>2. SafeHead(base)' /\ SafeHead(restored)'
    BY <1>4, <2>1 DEF HeadsOK, HeadsSafe, SafeHead
  <2>3. Carried(durableHead) \subseteq log.accepted \cup AdoptedCandidates
    BY <1>1, NoneAssumption DEF HeadsOK, HeadsSafe, SafeHead
  <2>4. SafeHead(durableHead)'
    BY <1>2, <1>5, <2>1, <2>3 DEF SafeHead
  <2>5. SafeHead(log.head)'
    BY <1>2, <1>3, <2>1, <2>3 DEF HeadsOK, HeadsSafe, SafeHead
  <2> QED
    BY <2>2, <2>4, <2>5 DEF HeadsSafe
<1>8. HeadsVerified'
  BY <1>1, <1>3, <1>4, <1>5 DEF HeadsOK, HeadsVerified, VerifiedHead
<1>9. MemoryOK'
  BY <1>1, <1>4, <1>5, <1>3 DEF HeadsOK, MemoryOK
<1>10. AcceptedOnJournaledHead'
  <2>1. new # None
    BY <1>1, AppendHistory, NoneAssumption
  <2>2. ~faulted => log.accepted \subseteq Carried(durableHead)
    BY <1>1 DEF HeadsOK, AcceptedOnJournaledHead, MemoryOK
  <2>3. CASE UNCHANGED log
    BY <2>3 DEF HeadsOK, AcceptedOnJournaledHead
  <2>4. CASE log'.head = new /\ log'.accepted = log.accepted \cup {c} /\ ~faulted
    BY <1>2, <2>1, <2>2, <2>4 DEF AcceptedOnJournaledHead
  <2> QED
    BY <1>3, <2>3, <2>4
<1> QED
  BY <1>6, <1>7, <1>8, <1>9, <1>10 DEF HeadsOK

-----------------------------------------------------------------------------
(* publish(), state() and everything around the queue.                     *)

\* A publication moves the base to the durable head and nothing else.
LEMMA PublishDurable ==
    DurableInv /\ PublishStep => PhaseOK' /\ StagedOK' /\ HeadsOK'
<1> SUFFICES ASSUME DurableInv, PublishStep PROVE PhaseOK' /\ StagedOK' /\ HeadsOK'
  OBVIOUS
<1> USE DEF DurableInv
<1>r. pc \in PublishPcs /\ up /\ statePromise = "ready" /\ staged = None
  <2>1. pc \in PublishPcs /\ pc \notin IntegratePcs
    BY DEF PublishStep, PersistStarted, InspectBase, MergeBase, PersistCompleted,
           PersistPaused, PublishPcs, IntegratePcs
  <2> QED
    BY <2>1, RunningFacts DEF StagedOK
<1>1. CASE PersistStarted
  <2>1. Quiet
    BY <1>1, SameHead, PersistQuiet
       DEF PersistStarted, Quiet, baseVars, memVars, startVars, histVars
  <2>2. PhaseOK' /\ StagedOK'
    BY <1>1, <1>r DEF PersistStarted, PhaseOK, StagedOK, Finish,
          IntegratePcs, PublishPcs, startVars
  <2> QED
    BY <2>1, <2>2, QuietHeads
<1>2. CASE InspectBase
  <2>1. Quiet
    BY <1>2 DEF InspectBase, Quiet, baseVars, memVars, startVars, histVars, journalVars
  <2>2. PhaseOK' /\ StagedOK'
    BY <1>2, <1>r DEF InspectBase, PhaseOK, StagedOK,
          IntegratePcs, PublishPcs, startVars, memVars
  <2> QED
    BY <2>1, <2>2, QuietHeads
<1>3. CASE MergeBase
  <2>1. /\ UNCHANGED <<durableHead, accepted, restored, statePromise, log, up, faulted,
                       checked, adopted>>
        /\ base' \in {base, durableHead}
    BY <1>3 DEF MergeBase, PhaseOK, memVars, startVars, journalVars, histVars
  <2>2. HeadsOK'
    BY <2>1 DEF HeadsOK, HeadsSafe, SafeHead, AdoptedCandidates, HeadsVerified, VerifiedHead,
                MemoryOK, AcceptedOnJournaledHead
  <2>3. PhaseOK' /\ StagedOK'
    BY <1>3, <1>r, <2>1 DEF MergeBase, PhaseOK, StagedOK, IntegratePcs, PublishPcs
  <2> QED
    BY <2>2, <2>3
<1>4. CASE PersistCompleted
  <2>1. Quiet
    BY <1>4, SameHead, PersistQuiet
       DEF PersistCompleted, Quiet, baseVars, memVars, startVars, histVars
  <2>2. PhaseOK' /\ StagedOK'
    BY <1>4, <1>r DEF PersistCompleted, PhaseOK, StagedOK, Finish,
          IntegratePcs, PublishPcs, startVars
  <2> QED
    BY <2>1, <2>2, QuietHeads
<1>5. CASE PersistPaused
  <2>1. Quiet
    BY <1>5, SameHead, PersistQuiet
       DEF PersistPaused, Quiet, baseVars, memVars, startVars, histVars
  <2>2. PhaseOK' /\ StagedOK'
    BY <1>5, <1>r DEF PersistPaused, PhaseOK, StagedOK, Finish,
          IntegratePcs, PublishPcs, startVars
  <2> QED
    BY <2>1, <2>2, QuietHeads
<1> QED
  BY <1>1, <1>2, <1>3, <1>4, <1>5 DEF PublishStep

\* A user's commit carries no candidate.
LEMMA UserDurable ==
    DurableInv /\ UserCommits => PhaseOK' /\ StagedOK' /\ HeadsOK'
<1> SUFFICES ASSUME DurableInv, UserCommits PROVE PhaseOK' /\ StagedOK' /\ HeadsOK'
  OBVIOUS
<1> USE DEF DurableInv, UserCommits
<1>1. Carried(base') = Carried(base)
  <2>1. base \in History /\ UserCommit \in Commit
    BY Commits DEF TypeInv, TypeOK, BaseOK
  <2>2. Carried(Append(base, UserCommit)) = Carried(base) \cup ({UserCommit.cand} \ {None})
    BY <2>1, CarriedAppend
  <2> QED
    BY <2>2 DEF UserCommit
<1>2. base # None
  BY NoneAssumption DEF TypeInv, TypeOK, BaseOK
<1>3. HeadsOK'
  BY <1>1, <1>2 DEF HeadsOK, HeadsSafe, SafeHead, AdoptedCandidates, HeadsVerified,
        VerifiedHead, MemoryOK, AcceptedOnJournaledHead, memVars, startVars, journalVars,
        histVars
<1>4. PhaseOK' /\ StagedOK'
  BY DEF PhaseOK, StagedOK, gitVars, memVars, startVars, journalVars, histVars
<1> QED
  BY <1>3, <1>4

\* state() resumes from the restored head, or adopts the one it finds.
LEMMA StateDurable ==
    DurableInv /\ StateStep => PhaseOK' /\ StagedOK' /\ HeadsOK'
<1> SUFFICES ASSUME DurableInv, StateStep PROVE PhaseOK' /\ StagedOK' /\ HeadsOK'
  OBVIOUS
<1> USE DEF DurableInv
<1>r. pc \notin IntegratePcs \cup PublishPcs /\ staged = None
  BY DEF StateStep, InitializeState, InitializeFails, PhaseOK, StagedOK
<1>p. ASSUME UNCHANGED <<pc, staged, up>>, statePromise' # "none"
      PROVE  PhaseOK' /\ StagedOK'
  BY <1>p, <1>r DEF PhaseOK, StagedOK, IntegratePcs, PublishPcs
<1>1. CASE InitializeFails
  <2>1. HeadsOK'
    BY <1>1 DEF InitializeFails, HeadsOK, HeadsSafe, SafeHead, AdoptedCandidates,
          HeadsVerified, VerifiedHead, MemoryOK, AcceptedOnJournaledHead, baseVars, memVars,
          journalVars, histVars
  <2> QED
    BY <1>1, <1>p, <2>1 DEF InitializeFails
<1>2. CASE InitializeState
  <2>1. /\ UNCHANGED <<base, log, faulted, restored, accepted, up, checked>>
        /\ up /\ restored = log.head
        /\ adopted \subseteq adopted'
        /\ restored # None => durableHead' = restored
        /\ restored = None => durableHead' \in adopted'
    BY <1>2 DEF InitializeState, PhaseOK, baseVars, journalVars
  <2>2. AdoptedCandidates \subseteq AdoptedCandidates'
    BY <2>1 DEF AdoptedCandidates
  <2>3. HeadsSafe'
    <3>1. SafeHead(base)' /\ SafeHead(restored)' /\ SafeHead(log.head)'
      BY <2>1, <2>2 DEF HeadsOK, HeadsSafe, SafeHead
    <3>2. SafeHead(durableHead)'
      BY <2>1, <2>2, <3>1 DEF SafeHead, AdoptedCandidates
    <3> QED
      BY <3>1, <3>2 DEF HeadsSafe
  <2>4. HeadsVerified'
    BY <2>1 DEF HeadsOK, HeadsVerified, VerifiedHead
  <2>5. MemoryOK' /\ AcceptedOnJournaledHead'
    BY <2>1 DEF HeadsOK, MemoryOK, AcceptedOnJournaledHead
  <2> QED
    BY <1>2, <1>p, <2>3, <2>4, <2>5 DEF InitializeState, HeadsOK
<1> QED
  BY <1>1, <1>2 DEF StateStep

\* A restart reads back the head and the acceptances the journal names.
LEMMA RestartDurable ==
    DurableInv /\ Restart => PhaseOK' /\ StagedOK' /\ HeadsOK'
<1> SUFFICES ASSUME DurableInv, Restart PROVE PhaseOK' /\ StagedOK' /\ HeadsOK'
  OBVIOUS
<1> USE DEF DurableInv, Restart
<1>1. /\ UNCHANGED <<base, log, checked, adopted, staged>>
      /\ durableHead' = ResumeHead /\ restored' = log.head
      /\ accepted' = log.accepted /\ statePromise' = "none"
      /\ up' /\ pc' \in {"idle", "detect"}
  BY DEF baseVars, histVars
<1>2. HeadsOK'
  BY <1>1 DEF HeadsOK, HeadsSafe, SafeHead, AdoptedCandidates, HeadsVerified, VerifiedHead,
              MemoryOK, AcceptedOnJournaledHead, ResumeHead
<1>3. staged = None
  BY DEF PhaseOK, StagedOK, IntegratePcs
<1>4. PhaseOK' /\ StagedOK'
  BY <1>1, <1>3 DEF PhaseOK, StagedOK, IntegratePcs, PublishPcs
<1> QED
  BY <1>2, <1>4

\* The callers, the user, a crash, the recovery of a cherry-pick and the start
\* of an operation move no head.
LEMMA AroundDurable ==
    DurableInv /\ ( \/ \E c \in Candidates : Enqueue(c)
                    \/ BuildDelivery \/ RequestPublication \/ CleanupPublished
                    \/ ResolveInterrupted \/ Crash \/ DetectInterrupted \/ Begin
                    \/ UNCHANGED vars )
        => PhaseOK' /\ StagedOK' /\ HeadsOK'
<1> USE DEF DurableInv
<1>1. ASSUME DurableInv, NEW c \in Candidates, Enqueue(c)
      PROVE  PhaseOK' /\ StagedOK' /\ Quiet
  BY <1>1 DEF Enqueue, Quiet, PhaseOK, StagedOK, gitVars, baseVars, journalVars, memVars,
              startVars, histVars
<1>2. ASSUME DurableInv, BuildDelivery \/ RequestPublication \/ CleanupPublished
      PROVE  PhaseOK' /\ StagedOK' /\ Quiet
  BY <1>2 DEF BuildDelivery, RequestPublication, CleanupPublished, Quiet, PhaseOK, StagedOK,
              gitVars, baseVars, journalVars, memVars, startVars, histVars
<1>3. ASSUME DurableInv, ResolveInterrupted PROVE PhaseOK' /\ StagedOK' /\ Quiet
  BY <1>3 DEF ResolveInterrupted, CheckInterrupted,
     AbortInterrupted, SettleInterrupted, Quiet, PhaseOK, StagedOK, baseVars, journalVars, histVars
<1>4. ASSUME DurableInv, Crash PROVE PhaseOK' /\ StagedOK' /\ Quiet
  BY <1>4 DEF Crash, Quiet, PhaseOK, StagedOK, IntegratePcs, PublishPcs,
              baseVars, journalVars, memVars, histVars
<1>5. ASSUME DurableInv, DetectInterrupted PROVE PhaseOK' /\ StagedOK' /\ Quiet
  BY <1>5 DEF DetectInterrupted, Quiet, PhaseOK, StagedOK, IntegratePcs, PublishPcs,
              gitVars, baseVars, journalVars, memVars, histVars
<1>6. ASSUME DurableInv, Begin PROVE PhaseOK' /\ StagedOK' /\ Quiet
  <2>1. staged = None
    BY <1>6 DEF Begin, StagedOK, IntegratePcs
  <2> QED
    BY <1>6, <2>1 DEF Begin, Started, Quiet, PhaseOK, StagedOK, IntegratePcs, PublishPcs,
                      gitVars, baseVars, journalVars, startVars, histVars
<1>7. ASSUME DurableInv, UNCHANGED vars PROVE PhaseOK' /\ StagedOK' /\ Quiet
  BY <1>7 DEF vars, Quiet, PhaseOK, StagedOK, gitVars, baseVars, journalVars, memVars,
              startVars, histVars
<1> QED
  BY <1>1, <1>2, <1>3, <1>4, <1>5, <1>6, <1>7, QuietHeads

\* Every step keeps the invariant.
LEMMA DurableNext == DurableInv /\ [Next]_vars => DurableInv'
<1> SUFFICES ASSUME DurableInv, [Next]_vars PROVE DurableInv'
  OBVIOUS
<1>1. TypeInv'
  BY TypeNext DEF DurableInv
<1>2. PhaseOK' /\ StagedOK' /\ HeadsOK'
  BY ProcessQuiet, StagedFact, AcceptedFact, PublishDurable, UserDurable, StateDurable,
     RestartDurable, AroundDurable
     DEF Next, QueueStep, ProcessStep, Environment
<1> QED
  BY <1>1, <1>2 DEF DurableInv

\* DurableInv holds in every reachable state.
THEOREM Durable == Spec => []DurableInv
BY DurableInit, DurableNext, PTL DEF Spec

-----------------------------------------------------------------------------
(* The properties.                                                         *)

\* Only a candidate whose acceptance is journaled, or one adopted with the
\* worktree, ever reaches the user's base.
THEOREM BaseSafe == Spec => []OnlyAcceptedOrAdoptedOnBase
<1>1. DurableInv => OnlyAcceptedOrAdoptedOnBase
  BY NoneAssumption DEF DurableInv, TypeInv, TypeOK, BaseOK, HeadsOK, HeadsSafe, SafeHead,
                        OnlyAcceptedOrAdoptedOnBase
<1> QED
  BY <1>1, Durable, PTL

\* The head the journal names was verified as a whole, or adopted.
THEOREM HeadVerified == Spec => []JournaledHeadVerified
<1>1. DurableInv => JournaledHeadVerified
  BY DEF DurableInv, HeadsOK, HeadsVerified, VerifiedHead, JournaledHeadVerified
<1> QED
  BY <1>1, Durable, PTL

\* Every journaled acceptance is in the history of the journaled head.
THEOREM NoOrphanedAcceptance == Spec => []AcceptedOnJournaledHead
<1>1. DurableInv => AcceptedOnJournaledHead
  BY DEF DurableInv, HeadsOK
<1> QED
  BY <1>1, Durable, PTL

\* A process whose journal works agrees with what a restart would read back.
THEOREM RestartAgrees == Spec => []MemoryMatchesJournal
<1>1. DurableInv => MemoryMatchesJournal
  BY DEF DurableInv, HeadsOK, MemoryOK, MemoryMatchesJournal
<1> QED
  BY <1>1, Durable, PTL

\* A step that moves the journaled head journals one acceptance, of the
\* candidate the head gains.
LEMMA HeadStep ==
    DurableInv /\ [Next]_vars =>
        (log.head # None /\ log'.head # log.head
            => \E c \in Candidates : /\ log'.head = Append(log.head, Stamped(c))
                                     /\ log'.accepted = log.accepted \cup {c})
<1> SUFFICES ASSUME DurableInv, Next, log.head # None, log'.head # log.head
             PROVE  \E c \in Candidates : /\ log'.head = Append(log.head, Stamped(c))
                                          /\ log'.accepted = log.accepted \cup {c}
  BY DEF vars, journalVars
<1> USE DEF DurableInv
<1>t. log \in LogState /\ up \in BOOLEAN
  BY DEF TypeInv, TypeOK, JournalOK, StartOK
<1>q. ASSUME NEW e \in {LogActive, LogFailed, LogStarted, LogCompleted, LogPaused},
             PersistOk(e) \/ PersistRejects(e)
      PROVE  FALSE
  BY <1>q, SameHead, PersistQuiet
<1>1. PersistStaged \/ PersistVerified \/ PersistAccepted
  BY <1>q DEF Next, QueueStep, ProcessStep, PublishStep, StateStep, Environment,
     Begin, PersistQueued, PersistStaging, CheckCandidate, CherryPick, AbortPick, AddTrailers,
     VerifyStaged, AcceptVerified, AbortStaged, PersistFailed, PersistStarted, InspectBase,
     MergeBase, PersistCompleted, PersistPaused, InitializeState, InitializeFails, Restart,
     DetectInterrupted, Enqueue, BuildDelivery, RequestPublication, UserCommits,
     CleanupPublished, ResolveInterrupted, CheckInterrupted,
     AbortInterrupted, SettleInterrupted, Crash, journalVars
<1>2. pc \in IntegratePcs /\ staged # None /\ up
  <2>1. pc \in IntegratePcs /\ staged # None
    BY <1>1 DEF PersistStaged, PersistVerified, PersistAccepted, TypeInv, PcOK, IntegratePcs
  <2> QED
    BY <2>1, RunningFacts
<1>3. ~faulted
  BY <1>1 DEF PersistStaged, PersistVerified, PersistAccepted, PersistOk, PersistRejects,
              journalVars
<1>4. durableHead = log.head
  BY <1>2, <1>3 DEF HeadsOK, MemoryOK
<1>5. PersistAccepted
  <2>1. CASE PersistStaged \/ PersistVerified
    BY <2>1, <1>t, <1>2, <1>4 DEF PersistStaged, PersistVerified, PersistOk, PersistRejects,
       LogStaged, LogState, StagedOK, journalVars
  <2> QED
    BY <1>1, <2>1
<1>6. log' = LogAccepted
  BY <1>5, <1>3 DEF PersistAccepted, PersistOk, PersistRejects
<1>7. job.cand \in Candidates
  BY <1>2, RunningFacts, CandidateFacts
<1> WITNESS job.cand \in Candidates
<1> QED
  BY <1>2, <1>4, <1>6, <1>t DEF LogAccepted, LogState, StagedOK

\* Once the journal names a head, only an acceptance moves it, by exactly the
\* accepted candidate, whatever fails and whenever the application restarts.
THEOREM HeadMoves == Spec => HeadMovesByAcceptance
<1>1. DurableInv /\ [Next]_vars =>
        [ /\ log.head # None
          /\ log'.head # log.head
          => \E c \in Candidates : /\ log'.head = Append(log.head, Stamped(c))
                                   /\ log'.accepted = log.accepted \cup {c} ]_vars
  BY HeadStep
<1> QED
  BY <1>1, Durable, PTL DEF Spec, HeadMovesByAcceptance

-----------------------------------------------------------------------------
(* Where a history comes from.                                             *)

\* The history b as it once was, with commits of candidates on top.
Grown(h, b) == \E n \in 0 .. Len(b) :
                   /\ n <= Len(h)
                   /\ \A i \in 1 .. n : h[i] = b[i]
                   /\ \A i \in n + 1 .. Len(h) : h[i].cand \in Candidates

\* No candidate is in it twice.
Single(h) == \A i, j \in DOMAIN h : h[i].cand = h[j].cand /\ h[i].cand # None => i = j

\* A prefix agrees with what extends it (git merge-base --is-ancestor).
LEMMA PrefixPoints ==
    ASSUME NEW a \in History, NEW b \in History, IsPrefix(a, b)
    PROVE  Len(a) <= Len(b) /\ \A i \in 1 .. Len(a) : a[i] = b[i]
<1>1. Len(a) <= Len(b) /\ SubSeq(a, 1, Len(a)) = SubSeq(b, 1, Len(a))
  BY DEF IsPrefix
<1>2. \A i \in 1 .. Len(a) : SubSeq(a, 1, Len(a))[i] = a[i] /\ SubSeq(b, 1, Len(a))[i] = b[i]
  BY <1>1 DEF History
<1> QED
  BY <1>1, <1>2

\* A history is a prefix of its extension, and of itself.
LEMMA PrefixAppend ==
    ASSUME NEW a \in History, NEW b \in History, NEW e \in Commit, IsPrefix(a, b)
    PROVE  IsPrefix(a, Append(b, e))
<1>1. Len(a) <= Len(b) /\ SubSeq(a, 1, Len(a)) = SubSeq(b, 1, Len(a))
  BY DEF IsPrefix
<1>2. SubSeq(Append(b, e), 1, Len(a)) = SubSeq(b, 1, Len(a))
  BY <1>1 DEF History
<1>3. Len(Append(b, e)) = Len(b) + 1
  BY DEF History
<1> QED
  BY <1>1, <1>2, <1>3 DEF IsPrefix, History

\* Every history is grown from itself.
LEMMA GrownSelf == ASSUME NEW h \in History PROVE Grown(h, h)
BY DEF Grown, History

\* A cherry-pick grows a history (stageCandidate()).
LEMMA GrownAppend ==
    ASSUME NEW h \in History, NEW b \in History, NEW e \in Commit,
           e.cand \in Candidates, Grown(h, b)
    PROVE  Grown(Append(h, e), b)
<1>1. PICK n \in 0 .. Len(b) : /\ n <= Len(h)
                               /\ \A i \in 1 .. n : h[i] = b[i]
                               /\ \A i \in n + 1 .. Len(h) : h[i].cand \in Candidates
  BY DEF Grown
<1>2. /\ Len(Append(h, e)) = Len(h) + 1 /\ Len(h) \in Nat
      /\ \A i \in 1 .. Len(h) : Append(h, e)[i] = h[i]
      /\ Append(h, e)[Len(h) + 1] = e
  BY DEF History
<1>3. \A i \in n + 1 .. Len(h) + 1 : Append(h, e)[i].cand \in Candidates
  <2> SUFFICES ASSUME NEW i \in n + 1 .. Len(h) + 1
               PROVE  Append(h, e)[i].cand \in Candidates
    OBVIOUS
  <2>1. CASE i = Len(h) + 1
    BY <1>2, <2>1
  <2>2. CASE i # Len(h) + 1
    BY <1>1, <1>2, <2>2
  <2> QED
    BY <2>1, <2>2
<1>4. \A i \in 1 .. n : Append(h, e)[i] = b[i]
  BY <1>1, <1>2
<1>5. n <= Len(Append(h, e)) /\ n + 1 .. Len(Append(h, e)) = n + 1 .. Len(h) + 1
  BY <1>1, <1>2
<1>6. \A i \in n + 1 .. Len(Append(h, e)) : Append(h, e)[i].cand \in Candidates
  BY <1>3, <1>5, Zenon
<1> QED
  BY <1>4, <1>5, <1>6 DEF Grown

\* What grew from the base has grown from what the base became.
LEMMA GrownBase ==
    ASSUME NEW h \in History, NEW b \in History, NEW c \in History,
           Grown(h, b), Len(b) <= Len(c), \A i \in 1 .. Len(b) : b[i] = c[i]
    PROVE  Grown(h, c)
<1>1. PICK n \in 0 .. Len(b) : /\ n <= Len(h)
                               /\ \A i \in 1 .. n : h[i] = b[i]
                               /\ \A i \in n + 1 .. Len(h) : h[i].cand \in Candidates
  BY DEF Grown
<1>2. n \in 0 .. Len(c) /\ \A i \in 1 .. n : h[i] = c[i]
  BY <1>1 DEF History
<1> QED
  BY <1>1, <1>2 DEF Grown

\* A candidate new to a history is in its extension once, and only such a one.
LEMMA SingleAppend ==
    ASSUME NEW h \in History, NEW e \in Commit, Single(h), e.cand \notin Carried(h)
    PROVE  Single(Append(h, e))
<1>1. /\ DOMAIN Append(h, e) = 1 .. Len(h) + 1 /\ DOMAIN h = 1 .. Len(h)
      /\ \A i \in 1 .. Len(h) : Append(h, e)[i] = h[i]
      /\ Append(h, e)[Len(h) + 1] = e /\ Len(h) \in Nat
  BY DEF History
<1>2. \A i \in 1 .. Len(h) : h[i].cand # None => h[i].cand # e.cand
  BY <1>1 DEF Carried
<1> SUFFICES ASSUME NEW i \in 1 .. Len(h) + 1, NEW j \in 1 .. Len(h) + 1,
                    Append(h, e)[i].cand = Append(h, e)[j].cand,
                    Append(h, e)[i].cand # None
             PROVE  i = j
  BY <1>1 DEF Single
<1>3. CASE i = Len(h) + 1 \/ j = Len(h) + 1
  BY <1>1, <1>2, <1>3
<1>4. CASE i \in 1 .. Len(h) /\ j \in 1 .. Len(h)
  BY <1>1, <1>4 DEF Single
<1> QED
  BY <1>1, <1>3, <1>4

LEMMA SingleTop ==
    ASSUME NEW h \in History, NEW e \in Commit, Single(Append(h, e)), e.cand # None
    PROVE  e.cand \notin Carried(h)
<1>1. /\ DOMAIN Append(h, e) = 1 .. Len(h) + 1 /\ DOMAIN h = 1 .. Len(h)
      /\ \A i \in 1 .. Len(h) : Append(h, e)[i] = h[i]
      /\ Append(h, e)[Len(h) + 1] = e /\ Len(h) \in Nat
  BY DEF History
<1> SUFFICES ASSUME NEW i \in 1 .. Len(h), h[i].cand = e.cand PROVE FALSE
  BY <1>1 DEF Carried
<1> QED
  BY <1>1 DEF Single

-----------------------------------------------------------------------------
(* The inductive invariant.                                                *)

\* Every head there is: on disk, in memory, and the user's base.
Heads == {branch, durableHead, expected, base, restored, log.head} \ {None}

Fit(h) == Grown(h, base) /\ Single(h)

OriginOK == \A h \in Heads : Fit(h)

\* stageCandidate() refuses a candidate the durable head contains.
FreshOK == staged # None => job.cand \notin Carried(durableHead)

\* A publication journals its request before it looks at the base.
PublishingOK ==
    /\ pc \in {"inspect", "merge", "completed"} => ~faulted /\ log.request.head = job.head
    /\ pc = "completed" => IsPrefix(job.head, base)

\* A candidate is verified against a head the journal names.
NamedOK == pc \in {"verify", "verified", "accept", "accepted"} => log.head # None

LedgerInv == DurableInv /\ OriginOK /\ FreshOK /\ NamedOK /\ PublishingOK

\* A new Meeting starts from the base the user has.
LEMMA LedgerInit == Init => LedgerInv
<1> SUFFICES ASSUME Init PROVE LedgerInv
  OBVIOUS
<1>1. Heads = {<<>>} \ {None}
  BY DEF Init, Heads
<1>2. Grown(<<>>, <<>>) /\ Single(<<>>)
  BY GrownSelf, Commits DEF Single
<1>3. OriginOK
  BY <1>1, <1>2 DEF OriginOK, Fit, Init
<1>4. FreshOK /\ NamedOK /\ PublishingOK
  BY DEF Init, FreshOK, NamedOK, PublishingOK
<1> QED
  BY <1>3, <1>4, DurableInit DEF LedgerInv

\* The heads are histories.
LEMMA HeadTypes == DurableInv => Heads \subseteq History
BY DEF DurableInv, TypeInv, TypeOK, GitOK, MemOK, StartOK, BaseOK, JournalOK, LogState, Heads

\* A step that leaves the base alone and makes no new head keeps their origin.
LEMMA SameHeads ==
    ASSUME OriginOK, base' = base, Heads' \subseteq Heads
    PROVE  OriginOK'
BY DEF OriginOK, Fit

\* A candidate on top of a head that lacks it makes a fit head.
LEMMA FitTop ==
    ASSUME DurableInv, NEW h \in Heads, Fit(h), NEW c \in Candidates, c \notin Carried(h),
           NEW e \in {Picked(c), Stamped(c)}
    PROVE  Fit(Append(h, e))
<1>1. e \in Commit /\ e.cand = c
  <2>1. Picked(c).cand = c /\ Stamped(c).cand = c
    BY DEF Picked, Stamped
  <2>2. Picked(c) \in Commit /\ Stamped(c) \in Commit
    BY Commits
  <2> QED
    BY <2>1, <2>2
<1>2. h \in History /\ base \in History
  BY HeadTypes DEF DurableInv, TypeInv, TypeOK, BaseOK
<1> QED
  BY <1>1, <1>2, GrownAppend, SingleAppend DEF Fit

\* What a journal write leaves on disk (persist()).
LEMMA Persisted ==
    ASSUME NEW entry, PersistOk(entry) \/ PersistRejects(entry)
    PROVE  log' \in {log, entry}
BY DEF PersistOk, PersistRejects, journalVars

-----------------------------------------------------------------------------
(* Where the heads come from.                                              *)

\* process() puts a candidate on top of the durable head, or puts it back.
LEMMA ProcessOrigin ==
    LedgerInv /\ ProcessStep => OriginOK' /\ FreshOK'
<1> SUFFICES ASSUME LedgerInv, ProcessStep PROVE OriginOK' /\ FreshOK'
  OBVIOUS
<1> USE DEF LedgerInv
<1>r. /\ pc \in IntegratePcs /\ staged \in Staged \cup {None}
      /\ log \in LogState /\ log.head \in History \cup {None}
      /\ PhaseOK /\ StagedOK
      /\ job.cand \in Candidates /\ job.cand # None
      /\ durableHead \in Heads /\ branch \in Heads
      /\ durableHead \in History /\ branch \in History
  <2>1. pc \in IntegratePcs
    BY DEF ProcessStep, PersistQueued, PersistStaging, CheckCandidate, CherryPick, AbortPick,
           AddTrailers, PersistStaged, VerifyStaged, PersistVerified, AcceptVerified,
           PersistAccepted, AbortStaged, PersistFailed, IntegratePcs
  <2> QED
    BY <2>1, RunningFacts, CandidateFacts, NoneAssumption
       DEF DurableInv, TypeInv, TypeOK, OperationOK, JournalOK, LogState, Heads
<1>f. Fit(durableHead) /\ Fit(branch)
  BY <1>r DEF OriginOK
<1>1. CASE PersistQueued \/ PersistStaging \/ PersistFailed
  <2>1. log'.head = log.head
    BY <1>1, SameHead, PersistQuiet
       DEF PersistQueued, PersistStaging, PersistFailed, DurableInv
  <2>2. /\ UNCHANGED <<branch, durableHead, expected, base, restored>>
        /\ staged' # None => UNCHANGED <<staged, job>>
    BY <1>1 DEF PersistQueued, PersistStaging, PersistFailed, Finish, gitVars, baseVars, memVars,
                startVars
  <2> QED
    BY <2>1, <2>2, SameHeads DEF Heads, FreshOK
<1>2. CASE CheckCandidate
  <2>1. UNCHANGED <<branch, durableHead, expected, base, restored, log, job>>
    BY <1>2 DEF CheckCandidate, gitVars, baseVars, memVars, startVars, journalVars
  <2>2. ASSUME Recoverable(job.cand) PROVE job.cand \notin Carried(durableHead)
    <3>1. branch = Append(durableHead, Stamped(job.cand))
      BY <1>r, <2>2, FrontLast DEF Recoverable
    <3>2. Stamped(job.cand).cand = job.cand /\ Stamped(job.cand) \in Commit
      BY <1>r, Commits DEF Stamped
    <3> QED
      BY <1>r, <1>f, <3>1, <3>2, SingleTop DEF Fit
  <2>3. FreshOK'
    BY <1>2, <2>1, <2>2 DEF CheckCandidate, FreshOK
  <2> QED
    BY <2>1, <2>3, SameHeads DEF Heads
<1>3. CASE CherryPick
  <2>1. UNCHANGED <<durableHead, expected, base, restored, log, job, staged>>
    BY <1>3 DEF CherryPick, baseVars, memVars, startVars, journalVars
  <2>2. \/ branch' = branch
        \/ /\ branch' = Append(branch, Picked(job.cand))
           /\ job.cand \notin Carried(branch)
    BY <1>3 DEF CherryPick
  <2>3. Fit(branch')
    BY <1>r, <1>f, <2>2, FitTop
  <2>4. OriginOK'
    BY <2>1, <2>3 DEF OriginOK, Heads, Fit
  <2> QED
    BY <2>1, <2>4 DEF FreshOK
<1>4. CASE AbortPick \/ VerifyStaged \/ AcceptVerified
  BY <1>4, SameHeads DEF AbortPick, VerifyStaged, AcceptVerified, Heads, FreshOK, gitVars,
     baseVars, memVars, startVars, journalVars
<1>5. CASE AddTrailers
  <2>1. UNCHANGED <<durableHead, expected, base, restored, log, job>>
    BY <1>5 DEF AddTrailers, baseVars, memVars, startVars, journalVars
  <2>2. branch = Append(durableHead, Picked(job.cand))
    BY <1>5, <1>r DEF AddTrailers, PhaseOK
  <2>3. job.cand \notin Carried(durableHead)
    <3>1. Picked(job.cand).cand = job.cand /\ Picked(job.cand) \in Commit
      BY <1>r, Commits DEF Picked
    <3> QED
      BY <1>r, <1>f, <2>2, <3>1, SingleTop DEF Fit
  <2>4. Front(branch) = durableHead
    BY <1>r, <2>2, Commits, FrontAppend
  <2>5. branch' \in {branch, Append(durableHead, Stamped(job.cand))}
    BY <1>5, <2>4 DEF AddTrailers
  <2>6. Fit(branch')
    BY <1>r, <1>f, <2>3, <2>5, FitTop
  <2>7. OriginOK'
    BY <2>1, <2>6 DEF OriginOK, Heads, Fit
  <2> QED
    BY <2>1, <2>3, <2>7 DEF FreshOK
<1>6. CASE PersistStaged \/ PersistVerified
  <2>1. staged # None /\ staged.prior = durableHead
    BY <1>6, <1>r DEF PersistStaged, PersistVerified, StagedOK, DurableInv, TypeInv, PcOK
  <2>2. log' \in {log, LogStaged} /\ LogStaged.head = durableHead
    BY <1>6, <1>r, <2>1, Persisted DEF PersistStaged, PersistVerified, LogStaged, LogState
  <2>3. UNCHANGED <<branch, durableHead, expected, base, restored, job, staged>>
    BY <1>6 DEF PersistStaged, PersistVerified, gitVars, baseVars, memVars, startVars
  <2> QED
    BY <2>2, <2>3, SameHeads DEF Heads, FreshOK
<1>7. CASE PersistAccepted
  <2>1. /\ staged # None /\ staged.result = Append(durableHead, Stamped(job.cand))
        /\ job.cand \notin Carried(durableHead)
    BY <1>7, <1>r DEF PersistAccepted, StagedOK, DurableInv, TypeInv, PcOK, FreshOK
  <2>2. Fit(staged.result)
    BY <1>r, <1>f, <2>1, FitTop
  <2>3. log' \in {log, LogAccepted} /\ LogAccepted.head = staged.result
    BY <1>7, <1>r, Persisted DEF PersistAccepted, LogAccepted, LogState
  <2>4. /\ UNCHANGED <<branch, expected, base, restored>>
        /\ durableHead' \in {durableHead, staged.result}
        /\ staged' # None => UNCHANGED <<durableHead, job, staged>>
    BY <1>7 DEF PersistAccepted, RememberAccepted, Finish, gitVars, baseVars, memVars, startVars
  <2>5. OriginOK'
    <3>1. Heads' \subseteq Heads \cup {staged.result}
      BY <2>3, <2>4 DEF Heads
    <3> QED
      BY <2>2, <2>4, <3>1 DEF OriginOK, Fit
  <2> QED
    BY <2>4, <2>5 DEF FreshOK
<1>8. CASE AbortStaged
  <2>1. staged # None /\ staged.prior = durableHead
    BY <1>8, <1>r DEF AbortStaged, StagedOK, DurableInv, TypeInv, PcOK
  <2>2. /\ UNCHANGED <<durableHead, expected, base, restored, log, job, staged>>
        /\ branch' \in {branch, durableHead}
    BY <1>8, <2>1 DEF AbortStaged, baseVars, memVars, startVars, journalVars
  <2> QED
    BY <2>2, SameHeads DEF Heads, FreshOK
<1> QED
  BY <1>1, <1>2, <1>3, <1>4, <1>5, <1>6, <1>7, <1>8 DEF ProcessStep

\* A base that moves forward keeps what grew from it (git merge --ff-only).
LEMMA BaseForward ==
    ASSUME DurableInv, OriginOK, base' \in History, Len(base) <= Len(base'),
           \A i \in 1 .. Len(base) : base[i] = base'[i],
           Heads' \subseteq Heads \cup {base'}, Single(base')
    PROVE  OriginOK'
<1>1. Heads \subseteq History /\ base \in History
  BY HeadTypes DEF DurableInv, TypeInv, TypeOK, BaseOK
<1>2. \A h \in Heads : Grown(h, base') /\ Single(h)
  BY <1>1, GrownBase DEF OriginOK, Fit
<1>3. Grown(base', base')
  BY GrownSelf
<1> QED
  BY <1>2, <1>3 DEF OriginOK, Fit

\* publish() moves the base to the durable head and makes no other head.
LEMMA PublishOrigin ==
    LedgerInv /\ PublishStep => OriginOK' /\ FreshOK'
<1> SUFFICES ASSUME LedgerInv, PublishStep PROVE OriginOK' /\ FreshOK'
  OBVIOUS
<1> USE DEF LedgerInv
<1>r. pc \in PublishPcs /\ staged = None /\ PhaseOK
  <2>1. pc \in PublishPcs /\ pc \notin IntegratePcs
    BY DEF PublishStep, PersistStarted, InspectBase, MergeBase, PersistCompleted,
           PersistPaused, PublishPcs, IntegratePcs
  <2> QED
    BY <2>1 DEF DurableInv, StagedOK
<1>1. /\ UNCHANGED <<branch, durableHead, expected, restored>>
      /\ staged' = None
  BY <1>r DEF PublishStep, PersistStarted, InspectBase, MergeBase, PersistCompleted,
     PersistPaused, Finish, gitVars, memVars, startVars
<1>2. CASE MergeBase
  <2>1. log' = log /\ (base' = base \/ (base' = durableHead /\ IsPrefix(base, durableHead)))
    BY <1>2, <1>r DEF MergeBase, CanFastForward, PhaseOK, journalVars
  <2>2. CASE base' = base
    BY <1>1, <2>1, <2>2, SameHeads DEF Heads, FreshOK
  <2>3. CASE base' = durableHead /\ IsPrefix(base, durableHead)
    <3>1. base \in History /\ durableHead \in History /\ durableHead # None
      BY NoneAssumption DEF DurableInv, TypeInv, TypeOK, BaseOK, MemOK
    <3>2. Len(base) <= Len(base') /\ \A i \in 1 .. Len(base) : base[i] = base'[i]
      BY <2>3, <3>1, PrefixPoints
    <3>3. Single(base')
      BY <2>3, <3>1 DEF OriginOK, Fit, Heads
    <3>4. Heads' \subseteq Heads \cup {base'}
      BY <1>1, <2>1 DEF Heads
    <3>5. OriginOK'
      BY <2>3, <3>1, <3>2, <3>3, <3>4, BaseForward
    <3> QED
      BY <1>1, <3>5 DEF FreshOK
  <2> QED
    BY <2>1, <2>2, <2>3
<1>3. CASE PersistStarted \/ InspectBase \/ PersistCompleted \/ PersistPaused
  <2>1. log'.head = log.head
    BY <1>3, SameHead, PersistQuiet DEF PersistStarted, InspectBase, PersistCompleted,
       PersistPaused, DurableInv, journalVars
  <2>2. base' = base
    BY <1>3 DEF PersistStarted, InspectBase, PersistCompleted, PersistPaused, baseVars
  <2> QED
    BY <1>1, <2>1, <2>2, SameHeads DEF Heads, FreshOK
<1> QED
  BY <1>2, <1>3 DEF PublishStep

\* A restart and state() resume a head there is, the user puts a commit on the
\* base, and nothing else touches a head.
LEMMA OtherOrigin ==
    LedgerInv /\ (Begin \/ StateStep \/ Restart \/ DetectInterrupted \/ Environment
                  \/ UNCHANGED vars)
        => OriginOK' /\ FreshOK'
<1> SUFFICES ASSUME LedgerInv, Begin \/ StateStep \/ Restart \/ DetectInterrupted
                    \/ Environment \/ UNCHANGED vars
             PROVE  OriginOK' /\ FreshOK'
  OBVIOUS
<1> USE DEF LedgerInv
<1>1. CASE Begin \/ StateStep \/ Restart
  <2>1. staged = None
    BY <1>1 DEF Begin, StateStep, InitializeState, InitializeFails, Restart, DurableInv, PhaseOK,
                StagedOK, IntegratePcs
  <2>2. staged' = None /\ base' = base /\ log' = log
    BY <1>1, <2>1 DEF Begin, StateStep, InitializeState, InitializeFails, Restart, baseVars,
                      journalVars
  <2>3. Heads' \subseteq Heads
    <3>1. CASE Begin \/ InitializeFails
      BY <2>2, <3>1 DEF Begin, InitializeFails, Heads, WorktreeHead, gitVars, memVars, startVars
    <3>2. CASE InitializeState
      BY <2>2, <3>2 DEF InitializeState, Heads, WorktreeHead
    <3>3. CASE Restart
      BY <2>2, <3>3 DEF Restart, Heads, ResumeHead, gitVars
    <3> QED
      BY <1>1, <3>1, <3>2, <3>3 DEF StateStep
  <2> QED
    BY <2>2, <2>3, SameHeads DEF FreshOK
<1>2. CASE UserCommits
  <2>1. /\ base' = Append(base, UserCommit) /\ base \in History /\ base \in Heads
        /\ UserCommit \in Commit /\ UserCommit.cand = None
        /\ UNCHANGED <<branch, durableHead, expected, restored, log, staged, job>>
    BY <1>2, Commits, NoneAssumption DEF UserCommits, UserCommit, DurableInv, TypeInv, TypeOK,
       BaseOK, gitVars, memVars, startVars, journalVars, Heads
  <2>2. /\ base' \in History /\ Len(base) <= Len(base')
        /\ \A i \in 1 .. Len(base) : base[i] = base'[i]
    BY <2>1, AppendHistory DEF History
  <2>3. Single(base')
    <3>1. Single(base)
      BY <2>1 DEF OriginOK, Fit
    <3>2. None \notin Carried(base)
      BY DEF Carried
    <3> QED
      BY <2>1, <3>1, <3>2, SingleAppend
  <2>4. Heads' \subseteq Heads \cup {base'}
    BY <2>1 DEF Heads
  <2> QED
    BY <2>1, <2>2, <2>3, <2>4, BaseForward DEF FreshOK
<1>3. CASE \/ \E c \in Candidates : Enqueue(c)
           \/ BuildDelivery \/ RequestPublication \/ CleanupPublished
           \/ ResolveInterrupted \/ Crash \/ DetectInterrupted \/ UNCHANGED vars
  <2>1. /\ UNCHANGED <<branch, durableHead, expected, base, restored, log>>
        /\ staged' # None => UNCHANGED <<staged, job>>
    BY <1>3 DEF Enqueue, BuildDelivery, RequestPublication, CleanupPublished, ResolveInterrupted, CheckInterrupted,
       AbortInterrupted, SettleInterrupted,
       Crash, DetectInterrupted, vars, gitVars, baseVars, memVars, startVars, journalVars
  <2> QED
    BY <2>1, SameHeads DEF Heads, FreshOK
<1> QED
  BY <1>1, <1>2, <1>3 DEF Environment

-----------------------------------------------------------------------------
(* What a running publication knows.                                       *)

LEMMA PublishingNext ==
    LedgerInv /\ [Next]_vars => PublishingOK'
<1> SUFFICES ASSUME LedgerInv, [Next]_vars PROVE PublishingOK'
  OBVIOUS
<1> USE DEF LedgerInv
<1>t. /\ log \in LogState /\ base \in History
      /\ job # None => job.head \in History
      /\ PhaseOK
  BY DEF DurableInv, TypeInv, TypeOK, JournalOK, BaseOK, OperationOK, Job
<1>1. CASE PublishStep
  <2>r. job.head \in History
    BY <1>1, PublicationFacts DEF PublishStep, PersistStarted, InspectBase, MergeBase,
       PersistCompleted, PersistPaused, PublishPcs, DurableInv, Job
  <2>1. CASE PersistStarted
    <3>1. LogStarted.request.head = job.head
      BY <1>t DEF LogStarted, LogState
    <3>2. CASE PersistOk(LogStarted) /\ pc' = "inspect" /\ UNCHANGED <<job, staged>>
      BY <3>1, <3>2 DEF PersistOk, PublishingOK
    <3>3. CASE pc' = "idle"
      BY <3>3 DEF PublishingOK
    <3> QED
      BY <2>1, <3>2, <3>3 DEF PersistStarted, Finish
  <2>2. CASE InspectBase
    <3>1. IsPrefix(job.head, job.head)
      BY <2>r DEF IsPrefix, History
    <3> QED
      BY <2>2, <3>1 DEF InspectBase, PublishingOK, baseVars, journalVars
  <2>3. CASE MergeBase
    <3>1. IsPrefix(job.head, job.head)
      BY <2>r DEF IsPrefix, History
    <3> QED
      BY <2>3, <3>1 DEF MergeBase, PublishingOK, journalVars
  <2>4. CASE PersistCompleted \/ PersistPaused
    BY <2>4 DEF PersistCompleted, PersistPaused, PublishingOK, Finish
  <2> QED
    BY <1>1, <2>1, <2>2, <2>3, <2>4 DEF PublishStep
<1>2. CASE UserCommits
  <2>1. IsPrefix(job.head, base) /\ job # None => IsPrefix(job.head, Append(base, UserCommit))
    BY <1>t, Commits, PrefixAppend
  <2>2. pc = "completed" => job # None
    BY DEF DurableInv, TypeInv, PcOK, PublishPcs
  <2> QED
    BY <1>2, <2>1, <2>2 DEF UserCommits, PublishingOK, journalVars
<1>3. CASE \/ ProcessStep \/ Begin \/ Restart \/ DetectInterrupted \/ Crash
  BY <1>3 DEF ProcessStep, PersistQueued, PersistStaging, CheckCandidate, CherryPick, AbortPick,
     AddTrailers, PersistStaged, VerifyStaged, PersistVerified, AcceptVerified, PersistAccepted,
     AbortStaged, PersistFailed, Finish, Begin, Restart, DetectInterrupted, Crash, PublishingOK
<1>4. CASE \/ StateStep \/ (\E c \in Candidates : Enqueue(c))
           \/ BuildDelivery \/ RequestPublication \/ CleanupPublished \/ ResolveInterrupted
           \/ UNCHANGED vars
  <2>1. UNCHANGED <<pc, job, log, faulted, base>>
    BY <1>4 DEF StateStep, InitializeState, InitializeFails, Enqueue, BuildDelivery,
       RequestPublication, CleanupPublished, ResolveInterrupted, CheckInterrupted,
       AbortInterrupted, SettleInterrupted, vars, baseVars, journalVars
  <2> QED
    BY <2>1 DEF PublishingOK
<1> QED
  BY <1>1, <1>2, <1>3, <1>4 DEF Next, QueueStep, Environment

\* The staged fact names a head, and no later line removes it.
LEMMA NamedNext ==
    LedgerInv /\ [Next]_vars => NamedOK'
<1> SUFFICES ASSUME LedgerInv, [Next]_vars,
                    pc' \in {"verify", "verified", "accept", "accepted"}
             PROVE  log'.head # None
  BY DEF NamedOK
<1> USE DEF LedgerInv
<1>1. CASE PersistStaged \/ PersistVerified
  <2>1. /\ log' = LogStaged /\ log \in LogState
        /\ staged # None /\ staged.prior = durableHead
    BY <1>1 DEF PersistStaged, PersistVerified, PersistOk, StagedOK, DurableInv, TypeInv, TypeOK,
                JournalOK, PcOK
  <2>2. durableHead # None
    BY NoneAssumption DEF DurableInv, TypeInv, TypeOK, MemOK
  <2> QED
    BY <2>1, <2>2 DEF LogStaged, LogState
<1>2. CASE VerifyStaged \/ AcceptVerified
  BY <1>2 DEF VerifyStaged, AcceptVerified, NamedOK, journalVars
<1>3. CASE UNCHANGED <<pc, log>>
  BY <1>3 DEF NamedOK
<1> QED
  BY <1>1, <1>2, <1>3 DEF Next, QueueStep, ProcessStep, PublishStep, StateStep, Environment,
     Begin, PersistQueued, PersistStaging, CheckCandidate, CherryPick, AbortPick, AddTrailers,
     PersistAccepted, AbortStaged, PersistFailed, PersistStarted, InspectBase, MergeBase,
     PersistCompleted, PersistPaused, InitializeState, InitializeFails, Restart,
     DetectInterrupted, Enqueue, BuildDelivery, RequestPublication, UserCommits,
     CleanupPublished, ResolveInterrupted, CheckInterrupted,
     AbortInterrupted, SettleInterrupted, Crash, Finish, journalVars, vars

\* Every step keeps the invariant.
LEMMA LedgerNext == LedgerInv /\ [Next]_vars => LedgerInv'
<1> SUFFICES ASSUME LedgerInv, [Next]_vars PROVE LedgerInv'
  OBVIOUS
<1>1. DurableInv'
  BY DurableNext DEF LedgerInv
<1>2. OriginOK' /\ FreshOK'
  BY ProcessOrigin, PublishOrigin, OtherOrigin DEF Next, QueueStep
<1>3. NamedOK' /\ PublishingOK'
  BY NamedNext, PublishingNext
<1> QED
  BY <1>1, <1>2, <1>3 DEF LedgerInv

-----------------------------------------------------------------------------
(* The steps.                                                              *)

\* The journal names nothing at first.
LEMMA InitImplements == Init => Ledger!Init
BY DEF Init, Ledger!Init

\* Naming the first head takes it over; accepting moves it; all other lines of
\* process() leave the ledger alone.
LEMMA ProcessImplements ==
    LedgerInv /\ ProcessStep => Ledger!Next \/ UNCHANGED Ledger!vars
<1> SUFFICES ASSUME LedgerInv, ProcessStep PROVE Ledger!Next \/ UNCHANGED Ledger!vars
  OBVIOUS
<1> USE DEF LedgerInv
<1>r. /\ pc \in IntegratePcs /\ base' = base
      /\ log \in LogState /\ log.head \in History \cup {None}
      /\ job.cand \in Candidates /\ job.cand # None /\ up
      /\ durableHead \in Heads /\ durableHead \in History /\ durableHead # None
      /\ StagedOK
  <2>1. pc \in IntegratePcs /\ base' = base
    BY DEF ProcessStep, PersistQueued, PersistStaging, CheckCandidate, CherryPick, AbortPick,
           AddTrailers, PersistStaged, VerifyStaged, PersistVerified, AcceptVerified,
           PersistAccepted, AbortStaged, PersistFailed, IntegratePcs, baseVars
  <2> QED
    BY <2>1, RunningFacts, CandidateFacts, NoneAssumption
       DEF DurableInv, TypeInv, TypeOK, JournalOK, LogState, Heads
<1>1. CASE log' = log
  BY <1>1, <1>r DEF Ledger!vars
<1>2. CASE PersistQueued \/ PersistStaging \/ PersistFailed
  <2>1. log' \in {log, LogActive, LogFailed}
    BY <1>2, Persisted DEF PersistQueued, PersistStaging, PersistFailed
  <2>2. /\ log'.head = log.head /\ log'.accepted = log.accepted
        /\ log'.publication = log.publication /\ log'.request = log.request
    BY <1>r, <2>1 DEF LogActive, LogFailed, LogState
  <2> QED
    BY <1>r, <2>2 DEF Ledger!vars
<1>3. ASSUME PersistStaged \/ PersistVerified, log' # log PROVE Ledger!Next \/ UNCHANGED Ledger!vars
  <2>1. /\ staged # None /\ staged.prior = durableHead
        /\ log' = LogStaged /\ ~faulted
    BY <1>3, <1>r DEF PersistStaged, PersistVerified, PersistOk, PersistRejects, journalVars,
                      StagedOK, DurableInv, TypeInv, PcOK
  <2>2. /\ log'.head = durableHead /\ log'.accepted = log.accepted
        /\ log'.publication = log.publication /\ log'.request = log.request
    BY <1>r, <2>1 DEF LogStaged, LogState
  <2>3. CASE log.head # None
    <3>1. log.head = durableHead
      BY <1>r, <2>1, <2>3 DEF DurableInv, HeadsOK, MemoryOK
    <3> QED
      BY <1>r, <2>2, <3>1 DEF Ledger!vars
  <2>4. CASE log.head = None
    <3>1. Grown(durableHead, base)
      BY <1>r DEF OriginOK, Fit
    <3>2. Ledger!FromBase(durableHead)
      BY <3>1 DEF Grown, Ledger!FromBase
    <3>3. Ledger!TakeOver
      BY <1>r, <2>2, <2>4, <3>2 DEF Ledger!TakeOver
    <3> QED
      BY <3>3 DEF Ledger!Next
  <2> QED
    BY <2>3, <2>4
<1>4. ASSUME PersistAccepted, log' # log PROVE Ledger!Next
  <2>1. /\ staged # None /\ staged.result = Append(durableHead, Stamped(job.cand))
        /\ log' = LogAccepted /\ ~faulted /\ log.head # None
        /\ job.cand \notin Carried(durableHead)
    BY <1>4, <1>r DEF PersistAccepted, PersistOk, PersistRejects, journalVars,
                      StagedOK, FreshOK, NamedOK, DurableInv, TypeInv, PcOK
  <2>2. log.head = durableHead
    BY <1>r, <2>1 DEF DurableInv, HeadsOK, MemoryOK
  <2>3. job.cand \notin log.accepted
    BY <2>1, <2>2 DEF DurableInv, HeadsOK, AcceptedOnJournaledHead
  <2>4. \A i \in DOMAIN log.head : log.head[i].cand # job.cand
    BY <1>r, <2>1, <2>2 DEF Carried
  <2>5. /\ log'.head = Append(log.head, Stamped(job.cand))
        /\ log'.accepted = log.accepted \cup {job.cand}
        /\ log'.publication = log.publication /\ log'.request = log.request
    BY <1>r, <2>1, <2>2 DEF LogAccepted, LogState
  <2>6. Stamped(job.cand) = Ledger!Accepted(job.cand)
    BY DEF Stamped, Ledger!Accepted
  <2>7. Ledger!Accept(job.cand)
    BY <1>r, <2>1, <2>3, <2>4, <2>5, <2>6 DEF Ledger!Accept
  <2> QED
    BY <1>r, <2>7 DEF Ledger!Next
<1>5. CASE CheckCandidate \/ CherryPick \/ AbortPick \/ AddTrailers \/ VerifyStaged
           \/ AcceptVerified \/ AbortStaged
  <2>1. log' = log
    BY <1>5 DEF CheckCandidate, CherryPick, AbortPick, AddTrailers, VerifyStaged, AcceptVerified,
                AbortStaged, journalVars
  <2> QED
    BY <1>1, <2>1
<1> QED
  BY <1>1, <1>2, <1>3, <1>4, <1>5 DEF ProcessStep

\* Lines of a publication leave the head and the acceptances alone; what they
\* call published is on the base.
LEMMA PublishImplements ==
    LedgerInv /\ PublishStep => Ledger!Next \/ UNCHANGED Ledger!vars
<1> SUFFICES ASSUME LedgerInv, PublishStep PROVE Ledger!Next \/ UNCHANGED Ledger!vars
  OBVIOUS
<1> USE DEF LedgerInv
<1>r. /\ pc \in PublishPcs /\ job.head \in History /\ job.head # None
      /\ log \in LogState /\ base \in History
      /\ durableHead \in Heads /\ durableHead \in History /\ up
      /\ PhaseOK
  <2>1. pc \in PublishPcs
    BY DEF PublishStep, PersistStarted, InspectBase, MergeBase, PersistCompleted,
           PersistPaused, PublishPcs
  <2> QED
    BY <2>1, RunningFacts, PublicationFacts, NoneAssumption
       DEF DurableInv, TypeInv, TypeOK, JournalOK, BaseOK, Job, Heads
<1>1. CASE InspectBase
  BY <1>1 DEF InspectBase, Ledger!vars, baseVars, journalVars
<1>2. CASE MergeBase
  <2>1. log' = log /\ ~faulted /\ job.head = durableHead
    BY <1>2, <1>r DEF MergeBase, PublishingOK, PhaseOK, journalVars
  <2>2. CASE base' = base
    BY <2>1, <2>2 DEF Ledger!vars
  <2>3. CASE base' = durableHead /\ IsPrefix(base, durableHead)
    <3>1. Ledger!IsPrefix(base, base')
      BY <2>3 DEF IsPrefix, Ledger!IsPrefix
    <3>2. log.head # None => base' = log.head
      BY <1>r, <2>1, <2>3 DEF DurableInv, HeadsOK, MemoryOK
    <3>3. Ledger!FromBase(base')
      <4>1. Grown(durableHead, base)
        BY <1>r DEF OriginOK, Fit
      <4> QED
        BY <2>3, <4>1 DEF Grown, Ledger!FromBase
    <3>4. Ledger!Publish
      BY <2>1, <3>1, <3>2, <3>3 DEF Ledger!Publish
    <3> QED
      BY <3>4 DEF Ledger!Next
  <2> QED
    BY <1>2, <2>1, <2>2, <2>3 DEF MergeBase, CanFastForward
<1>3. CASE PersistStarted \/ PersistPaused
  <2>1. log' \in {log, LogStarted, LogPaused} /\ base' = base
    BY <1>3, Persisted DEF PersistStarted, PersistPaused, baseVars
  <2>2. CASE log' = log
    BY <2>1, <2>2 DEF Ledger!vars
  <2>3. CASE log' \in {LogStarted, LogPaused}
    <3>1. /\ log'.head = log.head /\ log'.accepted = log.accepted
          /\ log'.publication # "published"
      BY <1>r, <2>3 DEF LogStarted, LogPaused, LogState
    <3>2. Ledger!RecordUnpublished
      BY <2>1, <3>1 DEF Ledger!RecordUnpublished
    <3> QED
      BY <3>2 DEF Ledger!Next
  <2> QED
    BY <2>1, <2>2, <2>3
<1>4. CASE PersistCompleted
  <2>1. log' \in {log, LogCompleted} /\ base' = base
    BY <1>4, Persisted DEF PersistCompleted, baseVars
  <2>2. CASE log' = log
    BY <2>1, <2>2 DEF Ledger!vars
  <2>3. CASE log' = LogCompleted
    <3>1. /\ log'.head = log.head /\ log'.accepted = log.accepted
          /\ log'.publication = "published" /\ log'.request = log.request
      BY <1>r, <2>3 DEF LogCompleted, LogState
    <3>2. log.request.head = job.head /\ IsPrefix(job.head, base)
      BY <1>4 DEF PersistCompleted, PublishingOK
    <3>3. Ledger!IsPrefix(job.head, base)
      BY <3>2 DEF IsPrefix, Ledger!IsPrefix
    <3>4. Ledger!RecordPublished
      BY <1>r, <2>1, <3>1, <3>2, <3>3 DEF Ledger!RecordPublished
    <3> QED
      BY <3>4 DEF Ledger!Next
  <2> QED
    BY <2>1, <2>2, <2>3
<1> QED
  BY <1>1, <1>2, <1>3, <1>4 DEF PublishStep

\* The user's commits are the ledger's; starts, calls, crashes and recoveries
\* leave the disk as it is.
LEMMA OtherImplements ==
    LedgerInv /\ (Begin \/ StateStep \/ Restart \/ DetectInterrupted \/ Environment
                  \/ UNCHANGED vars)
        => Ledger!Next \/ UNCHANGED Ledger!vars
<1> SUFFICES ASSUME Begin \/ StateStep \/ Restart \/ DetectInterrupted \/ Environment
                    \/ UNCHANGED vars
             PROVE  Ledger!Next \/ UNCHANGED Ledger!vars
  OBVIOUS
<1>1. CASE UserCommits
  <2>1. log' = log /\ base' = Append(base, UserCommit)
    BY <1>1 DEF UserCommits, journalVars
  <2>2. UserCommit = Ledger!UserCommit
    BY DEF UserCommit, Ledger!UserCommit
  <2>3. Ledger!UserCommits
    BY <2>1, <2>2 DEF Ledger!UserCommits
  <2> QED
    BY <2>3 DEF Ledger!Next
<1>2. CASE \/ Begin \/ StateStep \/ Restart \/ DetectInterrupted
           \/ \E c \in Candidates : Enqueue(c)
           \/ BuildDelivery \/ RequestPublication \/ CleanupPublished
           \/ ResolveInterrupted \/ Crash \/ UNCHANGED vars
  <2>1. log' = log /\ base' = base
    BY <1>2 DEF Begin, StateStep, InitializeState, InitializeFails, Restart, DetectInterrupted,
       Enqueue, BuildDelivery, RequestPublication, CleanupPublished, ResolveInterrupted, CheckInterrupted,
       AbortInterrupted, SettleInterrupted, Crash,
       vars, baseVars, journalVars
  <2> QED
    BY <2>1 DEF Ledger!vars
<1> QED
  BY <1>1, <1>2 DEF Environment

\* The queue implements the ledger: from any start, through failing calls and
\* writes, crashes and restarts, what it leaves on disk is a history the ledger
\* allows.
THEOREM Implements == Spec => ImplementsLedger
<1>1. Spec => []LedgerInv
  BY LedgerInit, LedgerNext, PTL DEF Spec
<1>2. LedgerInv /\ [Next]_vars => [Ledger!Next]_(Ledger!vars)
  BY ProcessImplements, PublishImplements, OtherImplements DEF Next, QueueStep
<1> QED
  BY <1>1, <1>2, InitImplements, PTL DEF Spec, ImplementsLedger, Ledger!Spec

-----------------------------------------------------------------------------
\* While the merge is due, the base is what the user accepted, or the merge fails.
MergeOK == pc = "merge" => base = job.expected \/ ~IsPrefix(base, job.head)

\* A head grown from a base that it extends goes on with candidates.
LEMMA CandidatesAbove ==
    ASSUME NEW h \in History, NEW b \in History, Grown(h, b)
    PROVE  ~IsPrefix(Append(b, UserCommit), h)
<1> DEFINE u == Append(b, UserCommit)
<1> SUFFICES ASSUME IsPrefix(u, h) PROVE FALSE
  OBVIOUS
<1>1. u \in History /\ Len(u) = Len(b) + 1 /\ u[Len(b) + 1] = UserCommit /\ Len(b) \in Nat
  BY Commits, AppendHistory DEF History
<1> HIDE DEF u
<1>2. Len(b) + 1 <= Len(h) /\ h[Len(b) + 1] = UserCommit
  BY <1>1, PrefixPoints
<1>3. PICK n \in 0 .. Len(b) : \A i \in n + 1 .. Len(h) : h[i].cand \in Candidates
  BY DEF Grown
<1>4. h[Len(b) + 1].cand \in Candidates
  BY <1>1, <1>2, <1>3 DEF History
<1> QED
  BY <1>2, <1>4, NoneAssumption DEF UserCommit

\* Only the user's commits and the merge move the base.
LEMMA BaseMoves ==
    ASSUME [Next]_vars, ~UserCommits, ~MergeBase
    PROVE  base' = base
<1>1. ProcessStep \/ Begin => base' = base
  BY DEF ProcessStep, Begin, PersistQueued, PersistStaging, CheckCandidate, CherryPick,
     AbortPick, AddTrailers, PersistStaged, VerifyStaged, PersistVerified, AcceptVerified,
     PersistAccepted, AbortStaged, PersistFailed, baseVars
<1>2. PublishStep => base' = base
  BY DEF PublishStep, PersistStarted, InspectBase, PersistCompleted, PersistPaused, baseVars
<1>3. StateStep \/ Restart \/ DetectInterrupted => base' = base
  BY DEF StateStep, InitializeState, InitializeFails, Restart, DetectInterrupted, baseVars
<1>4. Environment => base' = base
  BY DEF Environment, Enqueue, BuildDelivery, RequestPublication, CleanupPublished,
     ResolveInterrupted, CheckInterrupted,
     AbortInterrupted, SettleInterrupted, Crash, baseVars
<1> QED
  BY <1>1, <1>2, <1>3, <1>4 DEF Next, QueueStep, vars, baseVars

\* The merge becomes due only when the base has been inspected.
LEMMA MergeDue ==
    ASSUME [Next]_vars, ~InspectBase, pc' = "merge"
    PROVE  pc = "merge" /\ job' = job /\ ~MergeBase
<1>1. CASE Begin \/ ProcessStep \/ PublishStep
  <2>1. ~Begin
    BY DEF Begin
  <2>2. ~ProcessStep
    BY DEF ProcessStep, PersistQueued, PersistStaging, CheckCandidate, CherryPick, AbortPick,
       AddTrailers, PersistStaged, VerifyStaged, PersistVerified, AcceptVerified,
       PersistAccepted, AbortStaged, PersistFailed, Finish
  <2>3. ~PersistStarted /\ ~MergeBase /\ ~PersistCompleted /\ ~PersistPaused
    BY DEF PersistStarted, MergeBase, PersistCompleted, PersistPaused, Finish
  <2> QED
    BY <1>1, <2>1, <2>2, <2>3 DEF PublishStep
<1>2. CASE StateStep \/ Restart \/ DetectInterrupted \/ Environment \/ UNCHANGED vars
  <2>1. ~MergeBase
    BY DEF MergeBase
  <2>2. pc = "merge" /\ job' = job
    BY <1>2 DEF StateStep, InitializeState, InitializeFails, Restart, DetectInterrupted,
       Environment, Enqueue, BuildDelivery, RequestPublication, UserCommits,
       CleanupPublished, ResolveInterrupted, CheckInterrupted,
       AbortInterrupted, SettleInterrupted, Crash, vars
  <2> QED
    BY <2>1, <2>2
<1> QED
  BY <1>1, <1>2 DEF Next, QueueStep

\* What a due merge is of.
LEMMA DueFacts ==
    ASSUME LedgerInv, pc \in {"inspect", "merge"}
    PROVE  /\ job # None /\ job.kind = "publish"
           /\ job.head \in History /\ job.expected \in History /\ base \in History
           /\ durableHead \in History
           /\ pc = "merge" => job.head = durableHead
           /\ Grown(durableHead, base)
<1> USE DEF LedgerInv, DurableInv
<1>1. pc \in PublishPcs
  BY DEF PublishPcs
<1>2. /\ job.kind = "publish" /\ job # None
      /\ [head |-> job.head, expected |-> job.expected] \in Delivery
  BY <1>1, PublicationFacts DEF TypeInv, PcOK
<1>3. job.head \in History /\ job.expected \in History
  BY <1>2 DEF Delivery
<1>4. base \in History /\ durableHead \in History
  BY <1>1, RunningFacts DEF TypeInv, TypeOK, BaseOK
<1>5. durableHead # None
  BY <1>4, NoneAssumption
<1>6. Grown(durableHead, base)
  BY <1>5 DEF OriginOK, Heads, Fit
<1> QED
  BY <1>2, <1>3, <1>4, <1>6 DEF PhaseOK

\* Every step keeps a due merge honest, the user's commits in between included.
LEMMA MergeStep == LedgerInv /\ MergeOK /\ [Next]_vars => MergeOK'
<1> SUFFICES ASSUME LedgerInv, MergeOK, [Next]_vars, pc' = "merge"
             PROVE  base' = job'.expected \/ ~IsPrefix(base', job'.head)
  BY DEF MergeOK
<1>1. CASE InspectBase
  <2>1. base = job.expected /\ base' = base /\ job' = job
    BY <1>1 DEF InspectBase, baseVars
  <2> QED
    BY <2>1
<1>2. CASE ~InspectBase
  <2>1. pc = "merge" /\ job' = job /\ ~MergeBase
    BY <1>2, MergeDue
  <2>2. CASE UserCommits
    <3>1. base' = Append(base, UserCommit)
      BY <2>2 DEF UserCommits
    <3>2. ~IsPrefix(Append(base, UserCommit), job.head)
      BY <2>1, DueFacts, CandidatesAbove
    <3> QED
      BY <2>1, <3>1, <3>2
  <2>3. CASE ~UserCommits
    BY <2>1, <2>3, BaseMoves DEF MergeOK
  <2> QED
    BY <2>2, <2>3
<1> QED
  BY <1>1, <1>2

\* The base moves by a commit of its user, or from exactly the revision the user's
\* decision names to exactly the head it names, which is the durable head: a commit
\* between the check of the base and the merge makes the merge fail.
THEOREM PublishedExactly == Spec => PublishesWhatWasAccepted
<1>1. Init => LedgerInv /\ MergeOK
  BY LedgerInit DEF Init, MergeOK
<1>2. (LedgerInv /\ MergeOK) /\ [Next]_vars => (LedgerInv /\ MergeOK)'
  BY LedgerNext, MergeStep
<1>3. LedgerInv /\ MergeOK /\ [Next]_vars =>
        [ base' # base =>
            \/ base' = Append(base, UserCommit)
            \/ /\ job # None /\ job.kind = "publish"
               /\ base = job.expected
               /\ base' = job.head
               /\ base' = durableHead ]_vars
  <2> SUFFICES ASSUME LedgerInv, MergeOK, [Next]_vars, base' # base
               PROVE  \/ base' = Append(base, UserCommit)
                      \/ /\ job # None /\ job.kind = "publish"
                         /\ base = job.expected
                         /\ base' = job.head
                         /\ base' = durableHead
    OBVIOUS
  <2>1. CASE UserCommits
    BY <2>1 DEF UserCommits
  <2>2. CASE MergeBase
    <3>1. pc = "merge" /\ IsPrefix(base, job.head) /\ base' = job.head
      BY <2>2 DEF MergeBase, CanFastForward
    <3> QED
      BY <3>1, DueFacts DEF MergeOK
  <2> QED
    BY <2>1, <2>2, BaseMoves
<1>4. Spec => [](LedgerInv /\ MergeOK)
  BY <1>1, <1>2, PTL DEF Spec
<1> QED
  BY <1>3, <1>4, PTL DEF Spec, PublishesWhatWasAccepted
=============================================================================
