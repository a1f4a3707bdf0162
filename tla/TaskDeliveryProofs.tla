------------------------ MODULE TaskDeliveryProofs ------------------------
(***************************************************************************)
(* Proofs about TaskDelivery, for any diff, deliveries, attempts, turns    *)
(* and crashes: its type invariant, that what is integrated or accepted    *)
(* was reviewed, that what is reviewed is what would be integrated, and    *)
(* that a late answer opens no closed task.                                *)
(*                                                                         *)
(* The inductive invariant relates the records a task keeps twice: the     *)
(* view of a delivery and its report, its review and its evaluation, the   *)
(* handle and its view, HEAD and the candidate, and all of them again in   *)
(* the snapshot a crash may restore.  A step is one of the reviews alone   *)
(* (Calm), of one delivery outside of its review (Moves), or one of the    *)
(* five that relate them: freezing, completion, reopening, a save and a    *)
(* restart.                                                                *)
(***************************************************************************)
EXTENDS TaskDelivery, TLAPS

-----------------------------------------------------------------------------
(* The invariant.                                                          *)

\* The statuses of a delivery the harness knows.
Proposed == ViewStatus \ {"unproposed", "lost"}

\* A review session is what its callback says it is.
SessionOK(s) ==
    /\ s \in Session
    /\ s.status = "completed" => s.covered = Chunks
    /\ s.todo = "complete" => s.status = "completed"
    /\ s.todo \in {"rework", "reopen"} => s.status = "rework-requested"

\* What the views of the deliveries, the reports and the reviews say of each other.
ViewsOK(v, r, s) ==
    /\ v \in [Deliveries -> View]
    /\ r \in [Slots -> BOOLEAN \cup {None}]
    /\ s \in [Slots -> Session] /\ \A slot \in Slots : SessionOK(s[slot])
    /\ \A d \in Deliveries : v[d].status \in Proposed => v[d].attempt \in Attempts

\* A delivery is in review only with a report, and in integration or accepted only with
\* the completed review of its attempt or with a report that lists no files.
Backed(v, r, s, d) ==
    LET slot == <<d, v[d].attempt>>
    IN  /\ v[d].status = "coordinator-reviewing" => r[slot] # None
        /\ v[d].status = "integrating" => v[d].candidate = "frozen"
        /\ v[d].status \in {"integrating", "accepted"} =>
              \/ v[d].candidate = "frozen" /\ s[slot].status = "completed" /\ r[slot] # None
              \/ v[d].candidate = "reportOnly" /\ r[slot] = FALSE
        /\ v[d].status = "awaiting-acceptance" /\ v[d].candidate = "reportOnly" =>
              r[slot] = FALSE

\* The types of what the records do not hold.
ControlOK ==
    /\ handle \in Handle
    /\ observers \subseteq Deliveries
    /\ claimed \in Report \cup {None}
    /\ reworks \subseteq Slots
    /\ {followUp, finalizing, host, watched, journaled} \subseteq BOOLEAN
    /\ recovered \in {"nothing", "task", "conflict"}

\* The handle's delivery is one the harness knows.
HandleOK == handle.delivery # None => view[handle.delivery].status \in Proposed

\* What an evaluation awaits is what its delivery's status says, of a taken report.
EvaluatingOK ==
    /\ evaluating \in [Deliveries -> {"nothing", "verify", "freeze"}]
    /\ \A d \in Deliveries :
          /\ evaluating[d] = "verify" => view[d].status = "verifying"
          /\ evaluating[d] = "freeze" => view[d].status = "reviewing"
          /\ evaluating[d] # "nothing" => reports[<<d, view[d].attempt>>] \in BOOLEAN

\* The snapshot a crash would restore is as consistent as the records.
SavedOK ==
    saved # None =>
        /\ crashes < MaxCrashes
        /\ saved.delivery \in Deliveries \cup {None}
        /\ ViewsOK(saved.view, saved.reports, saved.session)
        /\ \A d \in Deliveries : Backed(saved.view, saved.reports, saved.session, d)
        /\ saved.delivery # None => saved.view[saved.delivery].status \in Proposed

\* The records of the task are consistent.
RecordsOK ==
    /\ ViewsOK(view, reports, session)
    /\ \A d \in Deliveries : Backed(view, reports, session, d)
    /\ worktree \in Slots \cup {None}
    /\ crashes \in 0 .. MaxCrashes

Records == RecordsOK /\ EvaluatingOK /\ SavedOK

\* A candidate under review or integration is the worktree's HEAD.
AtHead ==
    \A d \in Deliveries : view[d].status \in {"coordinator-reviewing", "integrating"} =>
        worktree = <<d, view[d].attempt>>

\* Before any restart a review is open only for the attempt under review.
OpenOK ==
    crashes = 0 =>
        \A d \in Deliveries, a \in Attempts :
            session[<<d, a>>].status \in {"active", "paused"} =>
                view[d].status = "coordinator-reviewing" /\ view[d].attempt = a

Closed == {"failed", "interrupted"}

\* A closed handle that keeps its delivery keeps a failed one, unless recovery
\* still offers the task; closed or in conflict, it keeps one that has ended.
Rested == Closed \cup {"integration-conflict"}
Ended == Rested \cup {"accepted"}
ClosedOK ==
    handle.delivery # None =>
        /\ handle.status \in Closed /\ recovered = "nothing" =>
              view[handle.delivery].status = "failed"
        /\ handle.status \in Rested => view[handle.delivery].status \in Ended

\* An acceptance that awaits its flush is the one of a delivery.
AcceptanceOK == finalizing => \E d \in Deliveries : view[d].status = "accepted"

Inv == ControlOK /\ HandleOK /\ Records /\ AtHead /\ OpenOK /\ ClosedOK /\ AcceptanceOK

\* The inductive invariant contains the type invariant.
LEMMA InvType == Inv => TypeOK
BY DEF Inv, Records, RecordsOK, ViewsOK, ControlOK, EvaluatingOK, TypeOK

\* What the assumptions say of the constants, None included.
LEMMA Constants ==
    /\ MaxDeliveries \in Nat /\ MaxAttempts \in Nat /\ MaxTurns \in Nat /\ MaxCrashes \in Nat
    /\ MaxTurns > 0
    /\ None \notin Deliveries /\ None \notin BOOLEAN /\ None \notin Slots
BY BoundsAssumption, NoneAssumption DEF Deliveries

\* The initial state satisfies the invariant: nothing is proposed.
LEMMA InvInit == Init => Inv
<1> SUFFICES ASSUME Init PROVE Inv
  OBVIOUS
<1>1. Unproposed \in View /\ Unproposed.status = "unproposed"
  BY Constants DEF Unproposed, View, ViewStatus, CandidateKind
<1>2. NoSession \in Session /\ NoSession.status = "none" /\ NoSession.todo = "none"
  BY Constants DEF NoSession, Session
<1>3. ViewsOK(view, reports, session)
  BY <1>1, <1>2 DEF Init, ViewsOK, SessionOK, Proposed
<1>4. \A d \in Deliveries : Backed(view, reports, session, d)
  BY <1>1 DEF Init, Backed
<1>5. ControlOK /\ HandleOK
  BY DEF Init, ControlOK, HandleOK, Handle, HandleStatus
<1>6. EvaluatingOK /\ SavedOK /\ worktree \in Slots \cup {None} /\ crashes \in 0 .. MaxCrashes
  BY Constants DEF Init, EvaluatingOK, SavedOK
<1> QED
  BY <1>1, <1>2, <1>3, <1>4, <1>5, <1>6
     DEF Inv, Records, RecordsOK, Init, AtHead, OpenOK, ClosedOK, Closed, Rested, AcceptanceOK,
         Slots

-----------------------------------------------------------------------------
(* The handle.                                                             *)

\* A change of status and disposeWorker() leave a handle; disposal of a failed or
\* interrupted one drops its delivery.
LEMMA HandleStatusChange ==
    ASSUME NEW h \in Handle, NEW status \in HandleStatus
    PROVE  /\ [h EXCEPT !.status = status] \in Handle
           /\ [h EXCEPT !.status = status].delivery = h.delivery
           /\ [h EXCEPT !.status = status].status = status
           /\ Disposed(h, status) \in Handle
           /\ Disposed(h, status).status = status
           /\ Disposed(h, status).delivery \in {h.delivery, None}
           /\ status \in {"failed", "interrupted"} => Disposed(h, status).delivery = None
BY DEF Handle, Disposed

\* runAutomaticRework() leaves the handle its delivery, pausing or reworking.
LEMMA Schedules ==
    ASSUME NEW h \in Handle, NEW d \in Deliveries, NEW a \in Attempts, reworks \subseteq Slots,
           ScheduleRework(h, d, a)
    PROVE  /\ handle' \in Handle /\ handle'.delivery = h.delivery
           /\ handle'.status \in {"budget-paused", "reworking"}
           /\ reworks' \subseteq Slots
<1>1. "budget-paused" \in HandleStatus /\ "reworking" \in HandleStatus
  BY DEF HandleStatus
<1>2. <<d, a>> \in Slots
  BY DEF Slots
<1>3. CASE handle' = [h EXCEPT !.status = "budget-paused"] /\ UNCHANGED reworks
  BY <1>1, <1>3, HandleStatusChange
<1>4. CASE /\ handle' = [h EXCEPT !.status = "reworking"]
           /\ reworks' = reworks \cup {<<d, a>>}
  BY <1>1, <1>2, <1>4, HandleStatusChange
<1> QED
  BY <1>3, <1>4 DEF ScheduleRework

\* A settle changes only an open handle of the very delivery, and closes it only
\* with a failed view or without its delivery.
LEMMA Settles ==
    ASSUME NEW h \in Handle, NEW d \in Deliveries, NEW v, v.attempt \in Attempts,
           v.status \in {"failed", "reworking", "awaiting-acceptance", "coordinator-reviewing"},
           reworks \subseteq Slots, Settle(h, d, v)
    PROVE  /\ handle' \in Handle /\ handle'.delivery \in {h.delivery, None}
           /\ reworks' \subseteq Slots
           /\ h.status \in {"failed", "interrupted"} => handle' = h
           /\ handle' = h \/ h.delivery = d
           /\ handle'.status \in {"failed", "interrupted", "integration-conflict"} =>
                 \/ handle' = h
                 \/ handle'.delivery = None
                 \/ handle'.delivery = d /\ v.status = "failed"
<1>1. "failed" \in HandleStatus /\ v.status \in HandleStatus
  BY DEF HandleStatus
<1>2. CASE LateSettle(h, d)
  BY <1>2 DEF Settle
<1>3. CASE ~LateSettle(h, d)
  <2>1. h.delivery = d /\ h.status \notin {"failed", "interrupted"}
    BY <1>3 DEF LateSettle, SettleStale
  <2>2. CASE v.status = "failed"
    <3>1. /\ handle' = Disposed(h, "failed") \/ handle' = [h EXCEPT !.status = "failed"]
          /\ UNCHANGED reworks
      BY <1>3, <2>2 DEF Settle
    <3>2. /\ Disposed(h, "failed") \in Handle /\ Disposed(h, "failed").delivery = None
          /\ [h EXCEPT !.status = "failed"] \in Handle
          /\ [h EXCEPT !.status = "failed"].delivery = d
      BY <1>1, <2>1, HandleStatusChange
    <3> QED
      BY <2>1, <2>2, <3>1, <3>2
  <2>3. CASE v.status = "reworking"
    <3>1. ScheduleRework(h, d, v.attempt)
      BY <1>3, <2>3 DEF Settle
    <3> QED
      BY <2>1, <3>1, Schedules
  <2>4. CASE v.status \notin {"failed", "reworking"}
    <3>1. handle' = [h EXCEPT !.status = v.status] /\ UNCHANGED reworks
      BY <1>3, <2>4 DEF Settle
    <3> QED
      BY <1>1, <2>1, <2>4, <3>1, HandleStatusChange
  <2> QED
    BY <2>2, <2>3, <2>4
<1> QED
  BY <1>2, <1>3

\* An observer changes the handle only while the handle has the delivery.
LEMMA Observing ==
    ASSUME handle \in Handle, NEW d \in Deliveries, NEW status \in HandleStatus
    PROVE  /\ Observed(d, status) \in Handle
           /\ Observed(d, status).delivery = handle.delivery
           /\ \/ Observed(d, status) = handle
              \/ handle.delivery = d /\ Observed(d, status).status = status
BY HandleStatusChange DEF Observed, Observes

-----------------------------------------------------------------------------
(* What a step does to the records.                                        *)

Open(s) == s.status \in {"active", "paused"}

\* What a step of a review leaves of it.
Follows(s, t) ==
    /\ SessionOK(t)
    /\ s.status = "completed" => t.status = "completed"
    /\ Open(t) => Open(s)

SessionsFollow ==
    /\ session' \in [Slots -> Session]
    /\ \A slot \in Slots : Follows(session[slot], session'[slot])

\* Nothing moves but the reviews.
Calm == SessionsFollow /\ UNCHANGED <<view, reports, evaluating, worktree, saved, crashes>>

Settled == {"coordinator-reviewing", "accepted", "failed"}

\* One delivery moves on, outside of its review.
Moves(d, v) ==
    /\ v \in View /\ v.status \in Proposed /\ v.attempt \in Attempts
    /\ view[d].status \notin Settled
    /\ v.status \notin {"coordinator-reviewing", "integrating"}
    /\ view' = [view EXCEPT ![d] = v]
    /\ reports' \in [Slots -> BOOLEAN \cup {None}]
    /\ \A slot \in Slots : slot[1] # d => reports'[slot] = reports[slot]
    /\ evaluating' \in [Deliveries -> {"nothing", "verify", "freeze"}]
    /\ \A e \in Deliveries : e # d => evaluating'[e] = evaluating[e]
    /\ evaluating'[d] = "verify" => v.status = "verifying"
    /\ evaluating'[d] = "freeze" => v.status = "reviewing"
    /\ evaluating'[d] # "nothing" => reports'[<<d, v.attempt>>] \in BOOLEAN
    /\ Backed(view', reports', session, d)
    /\ UNCHANGED <<session, worktree, saved, crashes>>

\* A step without a save and without a crash keeps the snapshot as good as it was.
LEMMA SavedStays == ASSUME SavedOK, UNCHANGED <<saved, crashes>> PROVE SavedOK'
BY DEF SavedOK, ViewsOK, Backed

\* A step of the reviews alone keeps the records consistent.
LEMMA CalmKeeps == ASSUME Records, Calm PROVE Records'
<1>1. ViewsOK(view, reports, session)' /\ (worktree \in Slots \cup {None})'
      /\ (crashes \in 0 .. MaxCrashes)'
  BY DEF Records, RecordsOK, ViewsOK, Calm, SessionsFollow, Follows
<1>2. ASSUME NEW d \in Deliveries PROVE Backed(view, reports, session, d)'
  <2>1. Backed(view, reports, session, d) /\ view' = view /\ reports' = reports
    BY DEF Records, RecordsOK, Calm
  <2>2. CASE view[d].status \in Proposed
    <3>1. <<d, view[d].attempt>> \in Slots
      BY <2>2 DEF Records, RecordsOK, ViewsOK, Slots
    <3>2. session[<<d, view[d].attempt>>].status = "completed"
             => session'[<<d, view[d].attempt>>].status = "completed"
      BY <3>1 DEF Calm, SessionsFollow, Follows
    <3> QED
      BY <2>1, <3>2 DEF Backed
  <2>3. CASE view[d].status \notin Proposed
    <3>1. view[d].status \in {"unproposed", "lost"}
      BY <2>3 DEF Records, RecordsOK, ViewsOK, View, Proposed
    <3> QED
      BY <2>1, <3>1 DEF Backed
  <2> QED
    BY <2>2, <2>3
<1>3. EvaluatingOK'
  BY DEF Records, EvaluatingOK, Calm
<1>4. SavedOK'
  BY SavedStays DEF Records, Calm
<1> QED
  BY <1>1, <1>2, <1>3, <1>4 DEF Records, RecordsOK

\* A step of one delivery outside of its review keeps the records consistent.
LEMMA MoveKeeps == ASSUME Records, NEW d \in Deliveries, NEW v, Moves(d, v) PROVE Records'
<1>1. /\ view' \in [Deliveries -> View] /\ view'[d] = v
      /\ \A e \in Deliveries : e # d => view'[e] = view[e]
  BY DEF Records, RecordsOK, ViewsOK, Moves
<1>2. ViewsOK(view, reports, session)' /\ (worktree \in Slots \cup {None})'
      /\ (crashes \in 0 .. MaxCrashes)'
  BY <1>1 DEF Records, RecordsOK, ViewsOK, Moves
<1>3. ASSUME NEW e \in Deliveries PROVE Backed(view, reports, session, e)'
  <2>1. CASE e = d
    BY <2>1 DEF Moves, Backed
  <2>2. CASE e # d
    <3>1. Backed(view, reports, session, e) /\ view'[e] = view[e] /\ session' = session
      BY <1>1, <2>2 DEF Records, RecordsOK, Moves
    <3>2. CASE view[e].status \in Proposed
      <4>1. reports'[<<e, view[e].attempt>>] = reports[<<e, view[e].attempt>>]
        BY <2>2, <3>2 DEF Records, RecordsOK, ViewsOK, Moves, Slots
      <4> QED
        BY <3>1, <4>1 DEF Backed
    <3>3. CASE view[e].status \notin Proposed
      <4>1. view[e].status \in {"unproposed", "lost"}
        BY <3>3 DEF Records, RecordsOK, ViewsOK, View, Proposed
      <4> QED
        BY <3>1, <4>1 DEF Backed
    <3> QED
      BY <3>2, <3>3
  <2> QED
    BY <2>1, <2>2
<1>4. EvaluatingOK'
  <2>1. ASSUME NEW e \in Deliveries
        PROVE  /\ evaluating'[e] = "verify" => view'[e].status = "verifying"
               /\ evaluating'[e] = "freeze" => view'[e].status = "reviewing"
               /\ evaluating'[e] # "nothing" => reports'[<<e, view'[e].attempt>>] \in BOOLEAN
    <3>1. CASE e = d
      BY <1>1, <3>1 DEF Moves
    <3>2. CASE e # d
      <4>1. evaluating'[e] = evaluating[e] /\ view'[e] = view[e]
        BY <1>1, <3>2 DEF Moves
      <4>2. CASE evaluating[e] = "nothing"
        BY <4>1, <4>2
      <4>3. CASE evaluating[e] # "nothing"
        <5>1. view[e].status \in {"verifying", "reviewing"}
          BY <4>3 DEF Records, EvaluatingOK
        <5>2. <<e, view[e].attempt>> \in Slots
          BY <5>1 DEF Records, RecordsOK, ViewsOK, Proposed, ViewStatus, Slots
        <5> QED
          BY <3>2, <4>1, <5>2 DEF Records, EvaluatingOK, Moves
      <4> QED
        BY <4>2, <4>3
    <3> QED
      BY <3>1, <3>2
  <2> QED
    BY <2>1 DEF EvaluatingOK, Moves
<1>5. SavedOK'
  BY SavedStays DEF Records, Moves
<1> QED
  BY <1>2, <1>3, <1>4, <1>5 DEF Records, RecordsOK

-----------------------------------------------------------------------------
(* The reviews.                                                            *)

\* A step of one review that follows from what it was is a step of the reviews.
LEMMA OneSession ==
    ASSUME Records, NEW slot \in Slots, NEW t, Follows(session[slot], t),
           session' = [session EXCEPT ![slot] = t]
    PROVE  SessionsFollow
<1>1. \A q \in Slots : session[q] \in Session /\ SessionOK(session[q])
  BY DEF Records, RecordsOK, ViewsOK
<1>2. t \in Session /\ \A q \in Slots : session'[q] = IF q = slot THEN t ELSE session[q]
  BY DEF Records, RecordsOK, ViewsOK, Follows, SessionOK
<1> QED
  BY <1>1, <1>2 DEF SessionsFollow, Follows, Records, RecordsOK, ViewsOK

\* What the steps of a review do to a session.
Covering(s, c) == [s EXCEPT !.covered = @ \cup {c}, !.turns = 0]
Finished(s) == [s EXCEPT !.status = "completed", !.todo = "complete"]
Owing(s, todo) == [s EXCEPT !.todo = todo]
Parked(s) == [s EXCEPT !.status = "paused", !.disconnected = TRUE]

\* What each update of a review session makes of its status and of its callback.
LEMMA SessionUpdates ==
    ASSUME NEW s \in Session
    PROVE  /\ \A c \in Chunks : /\ Covering(s, c) \in Session
                                /\ Covering(s, c).status = s.status
                                /\ Covering(s, c).todo = s.todo
           /\ SentBack(s) \in Session
           /\ SentBack(s).status = "rework-requested" /\ SentBack(s).todo = "rework"
           /\ Finished(s) \in Session /\ Finished(s).covered = s.covered
           /\ Finished(s).status = "completed" /\ Finished(s).todo = "complete"
           /\ \A todo \in {"none", "reopen"} :
                 /\ Owing(s, todo) \in Session
                 /\ Owing(s, todo).status = s.status /\ Owing(s, todo).covered = s.covered
                 /\ Owing(s, todo).todo = todo
           /\ Resumed(s) \in Session
           /\ Resumed(s).status = "active" /\ Resumed(s).todo = s.todo
           /\ Parked(s) \in Session
           /\ Parked(s).status = "paused" /\ Parked(s).todo = s.todo
           /\ ChargedTurn(s) \in Session
           /\ ChargedTurn(s).status \in {s.status, "paused"} /\ ChargedTurn(s).todo = s.todo
<1>1. 0 \in 0 .. MaxTurns /\ MaxTurns \in 0 .. MaxTurns /\ s.turns \in 0 .. MaxTurns
      /\ s.covered \subseteq Chunks
  BY Constants DEF Session
<1>2. \A c \in Chunks : /\ Covering(s, c) \in Session
                        /\ Covering(s, c).status = s.status
                        /\ Covering(s, c).todo = s.todo
  BY <1>1 DEF Session, Covering
<1>3. /\ SentBack(s) \in Session
      /\ SentBack(s).status = "rework-requested" /\ SentBack(s).todo = "rework"
  BY <1>1 DEF Session, SentBack
<1>4. /\ Finished(s) \in Session /\ Finished(s).covered = s.covered
      /\ Finished(s).status = "completed" /\ Finished(s).todo = "complete"
  BY DEF Session, Finished
<1>5. ASSUME NEW todo \in {"none", "reopen"}
      PROVE  /\ Owing(s, todo) \in Session
             /\ Owing(s, todo).status = s.status /\ Owing(s, todo).covered = s.covered
             /\ Owing(s, todo).todo = todo
  BY DEF Session, Owing
<1>6. /\ Resumed(s) \in Session
      /\ Resumed(s).status = "active" /\ Resumed(s).todo = s.todo
  BY DEF Session, Resumed
<1>7. /\ Parked(s) \in Session
      /\ Parked(s).status = "paused" /\ Parked(s).todo = s.todo
  BY DEF Session, Parked
<1>8. /\ ChargedTurn(s) \in Session
      /\ ChargedTurn(s).status \in {s.status, "paused"} /\ ChargedTurn(s).todo = s.todo
  <2>1. CASE s.turns + 1 >= MaxTurns
    BY <1>1, <2>1 DEF Session, ChargedTurn
  <2>2. CASE ~(s.turns + 1 >= MaxTurns)
    <3>1. s.turns + 1 \in 0 .. MaxTurns
      BY <1>1, <2>2, Constants
    <3>2. ChargedTurn(s) = [s EXCEPT !.turns = @ + 1]
      BY <2>2 DEF ChargedTurn
    <3> QED
      BY <3>1, <3>2 DEF Session
  <2> QED
    BY <2>1, <2>2
<1> QED
  BY <1>2, <1>3, <1>4, <1>5, <1>6, <1>7, <1>8

\* The frame of a step of the reviews.
Elsewhere == <<handle, view, reports, evaluating, worktree, observers, control, durable>>

\* Verdicts, confirmations, completion, charged turns and resumption of a review
\* change that review alone.
LEMMA ReviewStepsCalm ==
    ASSUME Records, NEW slot \in Slots,
           \/ PassChunk(slot) \/ ConfirmChunk(slot) \/ BlockChunk(slot) \/ Complete(slot)
           \/ StartReopen(slot[1], slot[2]) \/ ReopenFails(slot)
           \/ HostTurn(slot) \/ StallSweep(slot) \/ ResumeReview(slot)
    PROVE  SessionsFollow /\ UNCHANGED <<Elsewhere, host>>
           /\ watched' \in {watched, watched \/ host}
<1> DEFINE s == session[slot]
<1>1. s \in Session /\ SessionOK(s) /\ <<slot[1], slot[2]>> = slot
  BY DEF Records, RecordsOK, ViewsOK, Slots
<1>2. \A t \in Session : Follows(s, t) /\ session' = [session EXCEPT ![slot] = t]
                          => SessionsFollow
  BY OneSession
<1>3. ASSUME NEW chunk \in Chunks, CoverChunk(slot, chunk) PROVE SessionsFollow
  <2>1. Follows(s, Covering(s, chunk))
    BY <1>1, <1>3, SessionUpdates DEF CoverChunk, Follows, SessionOK, Open
  <2>2. session' = [session EXCEPT ![slot] = Covering(s, chunk)]
    BY <1>3 DEF CoverChunk, Covering
  <2> QED
    BY <1>1, <1>2, <1>3, <2>1, <2>2, SessionUpdates
<1>4. CASE PassChunk(slot) \/ ConfirmChunk(slot)
  BY <1>3, <1>4, ChunksAssumption DEF PassChunk, ConfirmChunk, CoverChunk, Elsewhere
<1>5. CASE BlockChunk(slot)
  <2>1. Follows(s, SentBack(s))
    BY <1>1, <1>5, SessionUpdates DEF BlockChunk, Follows, SessionOK, Open
  <2> QED
    BY <1>1, <1>2, <1>5, <2>1, SessionUpdates DEF BlockChunk, Elsewhere
<1>6. CASE Complete(slot)
  <2>1. Follows(s, Finished(s))
    BY <1>1, <1>6, SessionUpdates DEF Complete, Covered, Follows, SessionOK, Open
  <2>2. session' = [session EXCEPT ![slot] = Finished(s)]
    BY <1>6 DEF Complete, Finished
  <2> QED
    BY <1>1, <1>2, <1>6, <2>1, <2>2, SessionUpdates DEF Complete, Elsewhere
<1>7. CASE StartReopen(slot[1], slot[2]) \/ ReopenFails(slot)
  <2>1. PICK todo \in {"none", "reopen"} :
           session' = [session EXCEPT ![slot] = Owing(s, todo)]
    BY <1>1, <1>7 DEF StartReopen, ReopenFails, Owing
  <2>2. s.todo \in {"rework", "reopen"}
    BY <1>1, <1>7 DEF StartReopen, ReopenFails
  <2>3. Follows(s, Owing(s, todo))
    BY <1>1, <2>2, SessionUpdates DEF Follows, SessionOK, Open
  <2> QED
    BY <1>1, <1>2, <1>7, <2>1, <2>3, SessionUpdates DEF StartReopen, ReopenFails, Elsewhere
<1>8. ASSUME NEW t \in Session, Follows(s, t), Open(t), Notify(slot, t) PROVE SessionsFollow
  <2>1. Follows(s, Parked(t))
    BY <1>8, SessionUpdates DEF Follows, SessionOK, Open
  <2> QED
    BY <1>2, <1>8, <2>1, SessionUpdates DEF Notify, Parked
<1>9. CASE TurnEnded(slot)
  <2>1. Open(s) /\ Follows(s, ChargedTurn(s)) /\ Open(ChargedTurn(s))
    BY <1>1, <1>9, SessionUpdates DEF TurnEnded, Active, Follows, SessionOK, Open
  <2> QED
    BY <1>1, <1>2, <1>8, <1>9, <2>1, SessionUpdates DEF TurnEnded, Notify, Elsewhere
<1>10. CASE ResumeReview(slot)
  <2>1. Follows(s, Resumed(s)) /\ Open(Resumed(s))
    BY <1>1, <1>10, SessionUpdates DEF ResumeReview, Follows, SessionOK, Open
  <2> QED
    BY <1>1, <1>8, <1>10, <2>1, SessionUpdates DEF ResumeReview, Notify, Elsewhere
<1> QED
  BY <1>4, <1>5, <1>6, <1>7, <1>9, <1>10 DEF HostTurn, StallSweep

\* The return of the Coordinator resumes reviews and changes nothing else.
LEMMA HostReturnsCalm ==
    ASSUME Records, HostReturns
    PROVE  SessionsFollow /\ UNCHANGED Elsewhere /\ host' = TRUE /\ watched' \in BOOLEAN
<1>1. ASSUME NEW slot \in Slots
      PROVE  Follows(session[slot], session'[slot]) /\ session'[slot] \in Session
  <2>1. session[slot] \in Session /\ SessionOK(session[slot])
    BY DEF Records, RecordsOK, ViewsOK
  <2>2. \/ session'[slot] = session[slot]
        \/ session[slot].status = "paused" /\ session'[slot] = Resumed(session[slot])
    BY DEF HostReturns
  <2> QED
    BY <2>1, <2>2, SessionUpdates DEF Follows, SessionOK, Open
<1> QED
  BY <1>1 DEF HostReturns, SessionsFollow, Elsewhere

-----------------------------------------------------------------------------
(* The steps.                                                              *)

\* What ClosedStaysClosed says of a step: of a closed task, and of the other deliveries.
StaysClosed ==
    handle.status \in Closed /\ handle'.status \notin Closed =>
        \/ FollowedUp \/ Recovered \/ Returned \/ Restarted
        \/ LateRework \/ LateAcceptance \/ \E d \in Deliveries : LateVerdict(d)
Minds(d) ==
    \/ handle' = handle
    \/ d = handle.delivery
    \/ handle.delivery = None /\ handle'.delivery = d /\ view[d].status = "unproposed"
StaysOut ==
    \A d \in Deliveries : view'[d] # view[d] =>
        Minds(d) \/ crashes' # crashes \/ LateVerdict(d)

\* What a step makes of the handle and of its acceptance.
HandleStep ==
    /\ finalizing' => finalizing \/ \E d \in Deliveries : view'[d].status = "accepted"
    /\ ControlOK'
    /\ \/ handle'.delivery \in {handle.delivery, None}
       \/ view'[handle'.delivery].status \in Proposed
    /\ handle'.status \in Closed /\ handle'.delivery # None /\ recovered' = "nothing" =>
          \/ handle' = handle /\ recovered = "nothing"
          \/ view'[handle'.delivery].status = "failed"
    /\ handle'.status \in Rested /\ handle'.delivery # None =>
          \/ handle.status \in Rested /\ handle'.delivery = handle.delivery
          \/ view'[handle'.delivery].status \in Ended
    /\ StaysClosed

Step == Inv' /\ StaysClosed /\ StaysOut

\* A step of the reviews keeps the invariant when it treats the handle well.
LEMMA CalmStep == ASSUME Inv, Calm, HandleStep PROVE Step
<1>1. Records' /\ ControlOK' /\ StaysClosed /\ view' = view
  BY CalmKeeps DEF Inv, HandleStep, Calm
<1>2. HandleOK' /\ ClosedOK'
  BY <1>1 DEF Inv, HandleStep, HandleOK, ClosedOK
<1>3. AtHead'
  BY DEF Inv, AtHead, Calm
<1>4. OpenOK'
  BY DEF Inv, OpenOK, Calm, SessionsFollow, Follows, Open, Slots
<1>5. AcceptanceOK' /\ StaysOut
  BY <1>1 DEF Inv, AcceptanceOK, HandleStep, StaysOut
<1> QED
  BY <1>1, <1>2, <1>3, <1>4, <1>5 DEF Step, Inv

\* A step of one delivery keeps the invariant when it treats the handle well.
LEMMA MoveStep ==
    ASSUME Inv, NEW d \in Deliveries, NEW v, Moves(d, v), HandleStep, Minds(d),
           handle'.status \in Rested =>
               view[d].status \notin {"interrupted", "integration-conflict"}
    PROVE  Step
<1>1. Records' /\ ControlOK' /\ StaysClosed
  BY MoveKeeps DEF Inv, HandleStep
<1>2. view'[d] = v /\ \A e \in Deliveries : e # d => view'[e] = view[e]
  BY DEF Inv, Records, RecordsOK, ViewsOK, Moves
<1>3. handle.delivery \in Deliveries \cup {None}
  BY DEF Inv, ControlOK, Handle
<1>4. HandleOK'
  BY <1>2, <1>3 DEF Inv, HandleStep, HandleOK, Moves
<1>9. ClosedOK'
  BY <1>2, <1>3 DEF Inv, HandleStep, ClosedOK, Moves, Settled, Ended, Rested, Closed
<1>5. AtHead'
  BY <1>2 DEF Inv, AtHead, Moves
<1>6. OpenOK'
  BY <1>2 DEF Inv, OpenOK, Moves, Settled
<1>7. AcceptanceOK'
  BY <1>2 DEF Inv, AcceptanceOK, HandleStep, Moves, Settled
<1>8. StaysOut
  BY <1>2 DEF StaysOut
<1> QED
  BY <1>1, <1>4, <1>5, <1>6, <1>7, <1>8, <1>9 DEF Step, Inv

\* The variables of the records.
recorded == <<view, reports, evaluating, worktree, session, saved, crashes>>

\* A step that changes no record keeps the invariant when it treats the handle well.
LEMMA QuietStep == ASSUME Inv, UNCHANGED recorded, HandleStep PROVE Step
<1>1. SessionsFollow
  BY DEF Inv, Records, RecordsOK, ViewsOK, SessionsFollow, Follows, recorded
<1> QED
  BY <1>1, CalmStep DEF Calm, recorded

\* The types of the handle and of its pending reworks.
LEMMA Controls ==
    ASSUME Inv
    PROVE  /\ handle \in Handle /\ handle.status \in HandleStatus
           /\ handle.delivery \in Deliveries \cup {None}
           /\ reworks \subseteq Slots
BY DEF Inv, ControlOK, Handle

\* A stuttering step keeps the invariant.
LEMMA Stuttering == ASSUME Inv, UNCHANGED vars PROVE Step
<1>1. HandleStep
  BY DEF Inv, HandleStep, StaysClosed, ControlOK, vars, control, review, durable, ClosedOK
<1> QED
  BY <1>1, QuietStep DEF vars, review, durable, recorded

\* A claim, an interruption, a failure of the worker and the sweep keep the invariant.
LEMMA WorkerSteps ==
    ASSUME Inv, ClaimReport \/ Interrupt \/ WorkerFails \/ SweepParked
    PROVE  Step
<1>1. UNCHANGED recorded
  BY DEF ClaimReport, Interrupt, WorkerFails, WorkerStops, SweepParked, review, durable, recorded
<1>2. handle.status \notin Closed
  BY DEF ClaimReport, Interrupt, WorkerFails, WorkerStops, SweepParked, Closed
<1>3. CASE ClaimReport
  <2>1. handle'.delivery = handle.delivery /\ handle'.status = "running" /\ handle' \in Handle
    BY <1>3, Controls DEF ClaimReport, Handle
  <2> QED
    BY <1>1, <1>2, <1>3, <2>1, QuietStep
       DEF Inv, HandleStep, StaysClosed, ControlOK, ClaimReport, review, durable, Closed
<1>4. CASE Interrupt \/ WorkerFails \/ SweepParked
  <2>1. PICK status \in Closed : handle' = Disposed(handle, status)
    BY <1>4 DEF Interrupt, WorkerFails, WorkerStops, SweepParked, Closed
  <2>2. handle' \in Handle /\ handle'.delivery = None
    <3>1. status \in HandleStatus /\ status \in {"failed", "interrupted"} /\ handle \in Handle
      BY Controls DEF Closed, HandleStatus
    <3> QED
      BY <2>1, <3>1, HandleStatusChange
  <2> QED
    BY <1>1, <1>2, <1>4, <2>2, QuietStep
       DEF Inv, HandleStep, StaysClosed, ControlOK, Interrupt, WorkerFails, WorkerStops,
           SweepParked, control, review, durable
<1> QED
  BY <1>3, <1>4

\* The end of the watch, of the host and a request for a follow-up keep the invariant.
LEMMA HostSteps ==
    ASSUME Inv, StopWatchdog \/ HostDies \/ Instruct \/ Forward
    PROVE  Step
<1>1. UNCHANGED recorded /\ UNCHANGED <<handle, recovered, finalizing>>
  BY DEF StopWatchdog, HostDies, Instruct, Forward, RequestFollowUp, control, review, durable,
         recorded
<1>2. ControlOK'
  BY DEF Inv, ControlOK, StopWatchdog, HostDies, Instruct, Forward, RequestFollowUp, control,
         review, durable
<1> QED
  BY <1>1, <1>2, QuietStep DEF HandleStep, StaysClosed

\* What resumes after the mailbox or the journal, and a larger budget, keep the
\* invariant.
LEMMA FollowUpSteps ==
    ASSUME Inv, \/ Finalize \/ ExtendBudget \/ FollowUpEnqueued
                \/ \E slot \in Slots : ReworkEnqueued(slot)
    PROVE  Step
<1>1. UNCHANGED recorded
  BY DEF Finalize, Journals, ExtendBudget, FollowUpEnqueued, ReworkEnqueued, review, durable,
         recorded
<1>2. CASE Finalize
  <2>1. handle' \in Handle /\ handle'.status = "accepted"
        /\ handle'.delivery \in {handle.delivery, None}
    BY <1>2, Controls, HandleStatusChange DEF Finalize, HandleStatus
  <2>2. ControlOK'
    BY <1>2, <2>1 DEF Inv, ControlOK, Finalize, Journals, review
  <2>3. LateAcceptance
    BY <1>2, <2>1 DEF Finalize, LateAcceptance, Inv, AcceptanceOK
  <2>4. ~finalizing' /\ handle'.status \notin Closed
    BY <1>2, <2>1 DEF Finalize, Closed
  <2> QED
    BY <1>1, <2>1, <2>2, <2>3, <2>4, QuietStep DEF HandleStep, StaysClosed, Rested
<1>3. CASE ExtendBudget
  <2>1. handle.delivery \in Deliveries
    BY <1>3, Controls DEF ExtendBudget
  <2>2. view[handle.delivery].attempt \in Attempts
    BY <1>3, <2>1 DEF ExtendBudget, Submitted
  <2>3. /\ handle' \in Handle /\ handle'.delivery = handle.delivery
        /\ handle'.status \notin Rested /\ reworks' \subseteq Slots
    BY <1>3, <2>1, <2>2, Controls, Schedules DEF ExtendBudget, Rested, Closed
  <2>4. ControlOK' /\ handle.status \notin Closed /\ finalizing' = finalizing
    BY <1>3, <2>3 DEF Inv, ControlOK, ExtendBudget, review, durable, Closed
  <2> QED
    BY <1>1, <2>3, <2>4, QuietStep DEF HandleStep, StaysClosed, Rested
<1>4. CASE FollowUpEnqueued
  <2>1. handle' \in Handle /\ handle'.status = "pending" /\ handle'.delivery = None
    BY <1>4 DEF FollowUpEnqueued, Handle, HandleStatus
  <2>2. ControlOK'
    BY <1>4, <2>1 DEF Inv, ControlOK, FollowUpEnqueued, review, durable
  <2>3. FollowedUp /\ finalizing' = finalizing /\ handle'.status \notin Closed
    BY <1>4, <2>1 DEF FollowUpEnqueued, FollowedUp, Closed
  <2> QED
    BY <1>1, <2>1, <2>2, <2>3, QuietStep DEF HandleStep, StaysClosed, Rested
<1>5. ASSUME NEW slot \in Slots, ReworkEnqueued(slot) PROVE Step
  <2>1. /\ handle' \in Handle /\ handle'.status = "pending"
        /\ handle'.delivery = handle.delivery
    BY <1>5, Controls DEF ReworkEnqueued, Handle, HandleStatus
  <2>2. ControlOK'
    BY <1>5, <2>1 DEF Inv, ControlOK, ReworkEnqueued, review, durable
  <2>3. LateRework /\ finalizing' = finalizing /\ handle'.status \notin Closed
    BY <1>5, <2>1 DEF ReworkEnqueued, LateRework, Closed
  <2> QED
    BY <1>1, <2>1, <2>2, <2>3, QuietStep DEF HandleStep, StaysClosed, Rested
<1> QED
  BY <1>2, <1>3, <1>4, <1>5

\* Resolving the conflict and abandoning the recovered task keep the invariant.
LEMMA RecoverySteps == ASSUME Inv, ResolveConflict \/ AbandonTask PROVE Step
<1>1. UNCHANGED recorded
  BY DEF ResolveConflict, AbandonTask, review, recorded
<1>2. CASE ResolveConflict
  <2>1. handle' \in Handle /\ handle'.delivery = handle.delivery
    BY <1>2, Controls, HandleStatusChange DEF ResolveConflict, HandleStatus
  <2>2. ControlOK' /\ finalizing' = finalizing
    BY <1>2, <2>1 DEF Inv, ControlOK, ResolveConflict, control, review
  <2>3. \/ handle' = handle
        \/ handle.status = "integration-conflict"
    BY <1>2 DEF ResolveConflict
  <2>4. recovered' # "nothing"
    BY <1>2 DEF ResolveConflict
  <2> QED
    BY <1>1, <2>1, <2>2, <2>3, <2>4, QuietStep DEF HandleStep, StaysClosed, Rested, Closed
<1>3. CASE AbandonTask
  <2>1. handle' \in Handle /\ handle'.delivery = None /\ handle'.status = "failed"
    BY <1>3, Controls, HandleStatusChange DEF AbandonTask, HandleStatus
  <2>2. ControlOK' /\ finalizing' = finalizing
    BY <1>3, <2>1 DEF Inv, ControlOK, AbandonTask, control, review
  <2> QED
    BY <1>1, <2>1, <2>2, QuietStep DEF HandleStep, StaysClosed, Closed
<1> QED
  BY <1>2, <1>3

\* Every step of a review that moves no delivery keeps the invariant.
LEMMA ReviewSteps ==
    ASSUME Inv,
           \/ HostReturns
           \/ \E slot \in Slots :
                \/ PassChunk(slot) \/ ConfirmChunk(slot) \/ BlockChunk(slot) \/ Complete(slot)
                \/ StartReopen(slot[1], slot[2]) \/ ReopenFails(slot)
                \/ HostTurn(slot) \/ StallSweep(slot) \/ ResumeReview(slot)
    PROVE  Step
<1>1. SessionsFollow /\ UNCHANGED Elsewhere /\ watched' \in BOOLEAN /\ host' \in BOOLEAN
  <2>1. Records /\ {host, watched} \subseteq BOOLEAN
    BY DEF Inv, ControlOK
  <2>2. CASE HostReturns
    BY <2>1, <2>2, HostReturnsCalm
  <2>3. CASE ~HostReturns
    BY <2>1, <2>3, ReviewStepsCalm
  <2> QED
    BY <2>2, <2>3
<1>2. Calm /\ UNCHANGED <<handle, recovered, finalizing>>
  BY <1>1 DEF Calm, Elsewhere, control, durable
<1>3. ControlOK'
  BY <1>1 DEF Inv, ControlOK, Elsewhere, control, durable
<1> QED
  BY <1>2, <1>3, CalmStep DEF HandleStep, StaysClosed

\* What the invariant says of one delivery.
LEMMA DeliveryFacts ==
    ASSUME Inv, NEW d \in Deliveries
    PROVE  /\ view \in [Deliveries -> View] /\ view[d] \in View
           /\ reports \in [Slots -> BOOLEAN \cup {None}]
           /\ evaluating \in [Deliveries -> {"nothing", "verify", "freeze"}]
           /\ view[d].status \in Proposed =>
                 view[d].attempt \in Attempts /\ <<d, view[d].attempt>> \in Slots
           /\ view[d].status \notin {"verifying", "reviewing"} => evaluating[d] = "nothing"
           /\ Backed(view, reports, session, d)
BY DEF Inv, Records, RecordsOK, ViewsOK, EvaluatingOK, Slots

\* A delivery moves on by a decision or an evaluation that takes no report.
LEMMA Decides ==
    ASSUME Inv, NEW d \in Deliveries, NEW v \in View,
           v.status \in Proposed \ {"coordinator-reviewing", "integrating"},
           v.attempt \in Attempts,
           view[d].status \notin Settled,
           view' = [view EXCEPT ![d] = v],
           \/ evaluating' = [evaluating EXCEPT ![d] = "nothing"]
           \/ evaluating' = evaluating /\ view[d].status \notin {"verifying", "reviewing"},
           UNCHANGED <<reports, session, worktree, saved, crashes>>,
           \/ v.status \notin {"accepted", "awaiting-acceptance"}
           \/ v.status = "awaiting-acceptance" /\ v.candidate # "reportOnly"
           \/ v.candidate = "reportOnly" /\ reports[<<d, v.attempt>>] = FALSE
           \/ /\ v.candidate = "frozen"
              /\ session[<<d, v.attempt>>].status = "completed"
              /\ reports[<<d, v.attempt>>] # None
    PROVE  Moves(d, v)
<1>1. view'[d] = v
  BY DeliveryFacts
<1>2. /\ evaluating' \in [Deliveries -> {"nothing", "verify", "freeze"}]
      /\ \A e \in Deliveries : e # d => evaluating'[e] = evaluating[e]
      /\ evaluating'[d] = "nothing"
  BY DeliveryFacts
<1>3. Backed(view', reports', session, d)
  BY <1>1 DEF Backed
<1>4. reports' \in [Slots -> BOOLEAN \cup {None}]
  BY DeliveryFacts
<1> QED
  BY <1>2, <1>3, <1>4 DEF Moves

\* acceptDelivery() and returnDelivery() keep the invariant: an accepted report lists
\* no files.
LEMMA UserSteps ==
    ASSUME Inv, NEW d \in Deliveries, UserAccept(d) \/ UserReturn(d) PROVE Step
<1>1. /\ view[d].status \in {"awaiting-acceptance", "reworking", "integration-conflict"}
      /\ handle.delivery = d
  BY DEF UserAccept, UserReturn, AcceptedAttempt
<1>2. /\ view[d].status \in Proposed /\ view[d].status \notin Settled
      /\ view[d].status \notin {"verifying", "reviewing"}
  BY <1>1 DEF Proposed, ViewStatus, Settled
<1>3. StaysClosed /\ Minds(d)
  <2>1. handle.status \in Closed => view[d].status = "integration-conflict"
    BY <1>1, Constants DEF Inv, ClosedOK, Ended, Rested, Closed
  <2>2. ASSUME view[d].status = "integration-conflict" PROVE Returned
    <3>1. UserReturn(d)
      BY <2>2 DEF UserAccept, AcceptedAttempt
    <3>2. view'[d].status = "reworking"
      BY <3>1, DeliveryFacts DEF UserReturn, View
    <3>3. d # None
      BY Constants
    <3> QED
      BY <1>1, <2>2, <3>2, <3>3 DEF Returned
  <2> QED
    BY <1>1, <2>1, <2>2 DEF StaysClosed, Minds
<1>4. CASE UserAccept(d)
  <2>1. PICK a \in Attempts :
           /\ AcceptedAttempt(d, a)
           /\ view' = [view EXCEPT ![d] =
                  [status |-> "accepted", attempt |-> a, candidate |-> "reportOnly"]]
    BY <1>4 DEF UserAccept
  <2> DEFINE v == [status |-> "accepted", attempt |-> a, candidate |-> "reportOnly"]
  <2>2. v \in View
    BY Constants DEF View, ViewStatus, CandidateKind, Attempts
  <2>3. reports[<<d, a>>] = FALSE
    <3>1. <<d, a>> \in Slots
      BY DEF Slots
    <3>2. reports[<<d, a>>] \in BOOLEAN \cup {None}
      BY <3>1, DeliveryFacts
    <3> QED
      BY <2>1, <3>2, DeliveryFacts DEF AcceptedAttempt, Submitted, Backed
  <2>4. Moves(d, v)
    BY <1>2, <1>4, <2>1, <2>2, <2>3, Decides DEF UserAccept, Journals, review, Proposed, ViewStatus
  <2>5. /\ handle' \in Handle /\ handle'.delivery = handle.delivery
        /\ handle'.status = "accepted"
    BY <1>4, Controls, HandleStatusChange DEF UserAccept, HandleStatus
  <2>6. ControlOK'
    BY <1>4, <2>5 DEF Inv, ControlOK, UserAccept, Journals, review
  <2> QED
    <3>1. view'[d].status = "accepted" /\ handle'.status \notin Rested
      BY <2>4, <2>5, DeliveryFacts DEF Moves, Rested, Closed
    <3> QED
      BY <1>3, <2>4, <2>5, <2>6, <3>1, MoveStep DEF HandleStep, Closed
<1>5. CASE UserReturn(d)
  <2> DEFINE v == [view[d] EXCEPT !.status = "reworking", !.candidate = "none"]
             h == [handle EXCEPT !.report = FALSE]
  <2>1. v \in View /\ v.status = "reworking" /\ v.attempt \in Attempts
    BY <1>2, DeliveryFacts DEF View, ViewStatus, CandidateKind
  <2>2. view' = [view EXCEPT ![d] = v]
    BY <1>5, DeliveryFacts DEF UserReturn, View
  <2>3. Moves(d, v)
    BY <1>2, <1>5, <2>1, <2>2, Decides DEF UserReturn, review, durable, Proposed, ViewStatus
  <2>4. h \in Handle /\ h.delivery = handle.delivery
    BY Controls DEF Handle
  <2>5. /\ handle' \in Handle /\ handle'.delivery = handle.delivery
        /\ handle'.status \notin Rested /\ reworks' \subseteq Slots
    <3>1. CASE ScheduleRework(h, d, view[d].attempt)
      <4>1. view[d].attempt \in Attempts
        BY <1>2, DeliveryFacts
      <4> QED
        BY <2>4, <3>1, <4>1, Controls, Schedules DEF Rested, Closed
    <3>2. CASE handle' = [h EXCEPT !.status = "reworking"] /\ UNCHANGED reworks
      BY <2>4, <3>2, Controls, HandleStatusChange DEF Rested, Closed, HandleStatus
    <3> QED
      BY <1>5, <3>1, <3>2 DEF UserReturn
  <2>6. ControlOK' /\ finalizing' = finalizing
    BY <1>5, <2>5 DEF Inv, ControlOK, UserReturn, review, durable
  <2> QED
    BY <1>3, <2>3, <2>5, <2>6, MoveStep DEF HandleStep, Rested
<1> QED
  BY <1>4, <1>5

\* The end of an evaluation settles on the handle.
LEMMA SettleStep ==
    ASSUME Inv, NEW d \in Deliveries, NEW v, Settle(handle, d, v), v.attempt \in Attempts,
           v.status \in {"failed", "reworking", "awaiting-acceptance", "coordinator-reviewing"},
           view'[d] = v, view[d].status # "failed",
           \A e \in Deliveries : e # d => view'[e] = view[e],
           UNCHANGED <<observers, claimed, followUp, finalizing, host, durable>>,
           watched' \in BOOLEAN
    PROVE  HandleStep /\ Minds(d)
<1>1. /\ handle' \in Handle /\ handle'.delivery \in {handle.delivery, None}
      /\ reworks' \subseteq Slots
      /\ handle.status \in Closed => handle' = handle
      /\ handle' = handle \/ handle.delivery = d
      /\ handle'.status \in Rested => \/ handle' = handle
                                      \/ handle'.delivery = None
                                      \/ handle'.delivery = d /\ v.status = "failed"
  BY Settles, Controls DEF Closed, Rested
<1>2. ControlOK'
  BY <1>1 DEF Inv, ControlOK, durable
<1>3. recovered' = recovered /\ finalizing' = finalizing
  BY DEF durable
<1> QED
  BY <1>1, <1>2, <1>3 DEF HandleStep, StaysClosed, Minds, Rested, Ended, Closed

\* An observer applies a view to the handle.
LEMMA ObserveStep ==
    ASSUME Inv, NEW d \in Deliveries, NEW status \in HandleStatus, handle' = Observed(d, status),
           view'[d].status = status, status # "interrupted",
           view[d].status \in {"verifying", "coordinator-reviewing", "integrating"},
           UNCHANGED <<observers, claimed, reworks, followUp, host, recovered>>,
           {watched', finalizing', journaled'} \subseteq BOOLEAN,
           finalizing' => finalizing \/ status = "accepted"
    PROVE  HandleStep /\ Minds(d)
<1>1. /\ handle' \in Handle /\ handle'.delivery = handle.delivery
      /\ \/ handle' = handle
         \/ handle.delivery = d /\ handle'.status = status
  BY Observing, Controls
<1>2. ControlOK'
  BY <1>1 DEF Inv, ControlOK
<1>3. handle.status \in Closed => handle.delivery # d
  BY Constants DEF Inv, ClosedOK, Ended, Rested, Closed
<1> QED
  BY <1>1, <1>2, <1>3 DEF HandleStep, StaysClosed, Minds, Closed, Rested, Ended

\* The answer of the integration queue keeps the invariant.
LEMMA IntegratedStep == ASSUME Inv, NEW d \in Deliveries, Integrated(d) PROVE Step
<1>1. PICK status \in {"accepted", "integration-conflict", "failed"} :
         /\ view' = [view EXCEPT ![d].status = status]
         /\ handle' = Observed(d, status)
         /\ finalizing' = (finalizing \/ (status = "accepted" /\ Observes(d)))
  BY DEF Integrated
<1> DEFINE v == [view[d] EXCEPT !.status = status]
<1>2. /\ view[d].status = "integrating" /\ view[d].status \in Proposed
      /\ view[d].status \notin Settled \cup {"verifying", "reviewing"}
  BY DEF Integrated, Proposed, ViewStatus, Settled
<1>3. /\ v \in View /\ v.status = status /\ v.attempt = view[d].attempt
      /\ v.attempt \in Attempts /\ v.candidate = view[d].candidate
      /\ v.status \in Proposed \ {"coordinator-reviewing", "integrating"}
      /\ view' = [view EXCEPT ![d] = v]
  BY <1>1, <1>2, DeliveryFacts DEF View, ViewStatus, Proposed
<1>4. \/ v.candidate = "reportOnly" /\ reports[<<d, v.attempt>>] = FALSE
      \/ /\ v.candidate = "frozen"
         /\ session[<<d, v.attempt>>].status = "completed"
         /\ reports[<<d, v.attempt>>] # None
  BY <1>2, <1>3, DeliveryFacts DEF Backed
<1>5. Moves(d, v)
  BY <1>2, <1>3, <1>4, Decides DEF Integrated, Journals, review
<1>6. status \in HandleStatus /\ view'[d].status = status
  BY <1>3, DeliveryFacts DEF HandleStatus
<1>7. {watched', finalizing', journaled'} \subseteq BOOLEAN
  BY <1>1 DEF Integrated, Journals, review, Inv, ControlOK
<1>8. UNCHANGED <<observers, claimed, reworks, followUp, host, recovered>>
  BY DEF Integrated, Journals, review
<1>9. HandleStep /\ Minds(d)
  BY <1>1, <1>2, <1>6, <1>7, <1>8, ObserveStep
<1> QED
  BY <1>2, <1>5, <1>9, MoveStep

\* A candidate that cannot be frozen keeps the invariant.
LEMMA DeferStep == ASSUME Inv, NEW d \in Deliveries, DeferFreeze(d) PROVE Step
<1> DEFINE v == [view[d] EXCEPT !.status = "awaiting-acceptance", !.candidate = "deferred"]
<1>1. view[d].status = "reviewing"
  BY DEF DeferFreeze, Inv, Records, EvaluatingOK
<1>2. /\ v \in View /\ v.status = "awaiting-acceptance" /\ v.candidate = "deferred"
      /\ v.attempt \in Attempts
  BY <1>1, DeliveryFacts DEF View, ViewStatus, Proposed, CandidateKind
<1>3. view' = [view EXCEPT ![d] = v] /\ view'[d] = v
  BY DeliveryFacts DEF DeferFreeze, View
<1>4. Moves(d, v)
  BY <1>1, <1>2, <1>3, Decides DEF DeferFreeze, review, durable, Proposed, ViewStatus, Settled
<1>5. /\ Settle(handle, d, v) /\ \A e \in Deliveries : e # d => view'[e] = view[e]
      /\ UNCHANGED <<observers, claimed, followUp, finalizing, host, durable>>
  BY <1>3, DeliveryFacts DEF DeferFreeze, review
<1>6. watched' \in BOOLEAN
  BY DEF DeferFreeze, review, Inv, ControlOK
<1>7. HandleStep /\ Minds(d)
  BY <1>1, <1>2, <1>3, <1>5, <1>6, SettleStep
<1> QED
  BY <1>1, <1>4, <1>7, MoveStep

\* The verdict of the verifier keeps the invariant, late or not.
LEMMA VerifyStep == ASSUME Inv, NEW d \in Deliveries, Verify(d) PROVE Step
<1>1. /\ view[d].status = "verifying" /\ view[d].status \in Proposed
      /\ reports[<<d, view[d].attempt>>] \in BOOLEAN
  BY DEF Verify, Inv, Records, EvaluatingOK, Proposed, ViewStatus
<1>2. /\ view[d].attempt \in Attempts /\ view[d] \in View
      /\ view[d].status \notin Settled
      /\ view \in [Deliveries -> View]
      /\ evaluating \in [Deliveries -> {"nothing", "verify", "freeze"}]
      /\ reports \in [Slots -> BOOLEAN \cup {None}]
  BY <1>1, DeliveryFacts DEF Settled
<1>3. /\ UNCHANGED <<reports, session, worktree, saved, crashes>>
      /\ UNCHANGED <<observers, claimed, followUp, finalizing, host, durable>>
      /\ watched' \in BOOLEAN
  BY DEF Verify, review, durable, Inv, ControlOK
<1>4. CASE \E status \in {"failed", "reworking"} :
              /\ view' = [view EXCEPT ![d].status = status]
              /\ evaluating' = [evaluating EXCEPT ![d] = "nothing"]
              /\ Settle(handle, d, view'[d])
  <2>1. PICK status \in {"failed", "reworking"} :
           /\ view' = [view EXCEPT ![d].status = status]
           /\ evaluating' = [evaluating EXCEPT ![d] = "nothing"]
           /\ Settle(handle, d, view'[d])
    BY <1>4
  <2> DEFINE v == [view[d] EXCEPT !.status = status]
  <2>2. v \in View /\ v.status = status /\ v.attempt = view[d].attempt
    BY <1>2 DEF View, ViewStatus
  <2>3. /\ view' = [view EXCEPT ![d] = v] /\ view'[d] = v
        /\ \A e \in Deliveries : e # d => view'[e] = view[e]
    BY <1>2, <2>1
  <2>4. Moves(d, v)
    BY <1>2, <1>3, <2>1, <2>2, <2>3, Decides DEF Proposed, ViewStatus
  <2>5. HandleStep /\ Minds(d)
    BY <1>1, <1>2, <1>3, <2>1, <2>2, <2>3, SettleStep
  <2> QED
    BY <1>1, <2>4, <2>5, MoveStep
<1>5. CASE /\ ~reports[<<d, view[d].attempt>>]
           /\ view' = [view EXCEPT ![d].status = "awaiting-acceptance",
                                   ![d].candidate = "reportOnly"]
           /\ evaluating' = [evaluating EXCEPT ![d] = "nothing"]
           /\ Settle(handle, d, view'[d])
  <2> DEFINE v == [view[d] EXCEPT !.status = "awaiting-acceptance", !.candidate = "reportOnly"]
  <2>1. /\ v \in View /\ v.status = "awaiting-acceptance" /\ v.candidate = "reportOnly"
        /\ v.attempt = view[d].attempt
    BY <1>2 DEF View, ViewStatus, CandidateKind
  <2>2. /\ view' = [view EXCEPT ![d] = v] /\ view'[d] = v
        /\ \A e \in Deliveries : e # d => view'[e] = view[e]
    BY <1>2, <1>5 DEF View
  <2>3. Moves(d, v)
    <3>1. reports[<<d, view[d].attempt>>] = FALSE
      BY <1>1, <1>5
    <3>2. reports[<<d, v.attempt>>] = FALSE
      BY <2>1, <3>1
    <3> QED
      BY <1>2, <1>3, <1>5, <2>1, <2>2, <3>2, Decides DEF Proposed, ViewStatus
  <2>4. HandleStep /\ Minds(d)
    BY <1>1, <1>2, <1>3, <1>5, <2>1, <2>2, SettleStep
  <2> QED
    BY <1>1, <2>3, <2>4, MoveStep
<1>6. CASE /\ view' = [view EXCEPT ![d].status = "reviewing"]
           /\ evaluating' = [evaluating EXCEPT ![d] = "freeze"]
           /\ handle' = Observed(d, "reviewing")
           /\ UNCHANGED reworks
  <2> DEFINE v == [view[d] EXCEPT !.status = "reviewing"]
  <2>1. /\ v \in View /\ v.status = "reviewing" /\ v.attempt = view[d].attempt
        /\ v.status \in Proposed
    BY <1>2 DEF View, ViewStatus, Proposed
  <2>2. view' = [view EXCEPT ![d] = v] /\ view'[d] = v
    BY <1>2, <1>6
  <2>3. Moves(d, v)
    <3>1. Backed(view', reports', session, d)
      BY <2>1, <2>2 DEF Backed
    <3> QED
      BY <1>1, <1>2, <1>3, <1>6, <2>1, <2>2, <3>1 DEF Moves
  <2>4. HandleStep /\ Minds(d)
    <3>1. "reviewing" \in HandleStatus
      BY DEF HandleStatus
    <3>2. {watched', finalizing', journaled'} \subseteq BOOLEAN /\ recovered' = recovered
      BY <1>3 DEF Inv, ControlOK, durable
    <3> QED
      BY <1>1, <1>3, <1>6, <2>1, <2>2, <3>1, <3>2, ObserveStep
  <2> QED
    BY <1>1, <2>3, <2>4, MoveStep
<1> QED
  BY <1>4, <1>5, <1>6 DEF Verify

\* spawnWorker() keeps the invariant, with a new delivery or the one it has.
LEMMA SpawnStep == ASSUME Inv, Spawn PROVE Step
<1>1. /\ UNCHANGED <<reports, evaluating, worktree, control, review, durable>>
      /\ handle.status \notin Closed
  BY DEF Spawn, Closed
<1>2. "running" \in HandleStatus
  BY DEF HandleStatus
<1>3. CASE /\ handle' = [handle EXCEPT !.status = "running"]
           /\ UNCHANGED <<view, observers>>
  <2>1. handle' \in Handle /\ handle'.delivery = handle.delivery
    BY <1>2, <1>3, Controls, HandleStatusChange
  <2>2. ControlOK' /\ UNCHANGED recorded /\ handle'.status = "running"
        /\ finalizing' = finalizing
    BY <1>1, <1>2, <1>3, <2>1, Controls, HandleStatusChange
       DEF Inv, ControlOK, control, review, durable, recorded
  <2> QED
    BY <1>1, <2>1, <2>2, QuietStep DEF HandleStep, StaysClosed, Closed, Rested
<1>4. ASSUME NEW d \in Deliveries, view[d].status = "unproposed",
             view' = [view EXCEPT ![d].status = "executing", ![d].attempt = 1],
             observers' = observers \cup {d},
             handle.delivery = None,
             handle' = [handle EXCEPT !.status = "running", !.delivery = d]
      PROVE  Step
  <2> DEFINE v == [view[d] EXCEPT !.status = "executing", !.attempt = 1]
  <2>1. 1 \in Attempts /\ 1 \in 0 .. MaxAttempts
    BY BoundsAssumption, Constants DEF Attempts
  <2>2. /\ v \in View /\ v.status = "executing" /\ v.attempt = 1 /\ v.status \in Proposed
    <3>1. view[d] \in View
      BY DeliveryFacts
    <3> QED
      BY <2>1, <3>1 DEF View, ViewStatus, Proposed
  <2>3. view' = [view EXCEPT ![d] = v] /\ view'[d] = v
    BY <1>4, DeliveryFacts DEF View
  <2>4. view[d].status \notin Settled \cup {"verifying", "reviewing"}
    BY <1>4 DEF Settled
  <2>5. Moves(d, v)
    BY <1>1, <2>1, <2>2, <2>3, <2>4, Decides
       DEF control, review, durable, Proposed, ViewStatus
  <2>6. handle' \in Handle /\ handle'.delivery = d /\ handle'.status = "running"
    BY <1>2, <1>4, Controls DEF Handle
  <2>7. ControlOK' /\ finalizing' = finalizing
    BY <1>1, <1>4, <2>6 DEF Inv, ControlOK, control, review, durable
  <2>8. HandleStep
    BY <1>1, <2>2, <2>3, <2>6, <2>7 DEF HandleStep, StaysClosed, Closed, Rested
  <2>9. Minds(d)
    BY <1>4, <2>6 DEF Minds
  <2> QED
    BY <1>4, <2>5, <2>8, <2>9, MoveStep
<1> QED
  BY <1>3, <1>4 DEF Spawn

\* Resuming a recovered task keeps the invariant.
LEMMA ResumeStep == ASSUME Inv, ResumeTask PROVE Step
<1>1. /\ UNCHANGED <<reports, evaluating, worktree, observers, control, review, journaled,
                     saved, crashes>>
      /\ handle' = [handle EXCEPT !.status = "pending", !.report = FALSE]
      /\ recovered' = "nothing" /\ recovered # "nothing"
  BY DEF ResumeTask
<1>2. /\ handle' \in Handle /\ handle'.delivery = handle.delivery
      /\ handle'.status = "pending"
  BY <1>1, Controls DEF Handle, HandleStatus
<1>3. ControlOK' /\ finalizing' = finalizing
  BY <1>1, <1>2 DEF Inv, ControlOK, control, review
<1>4. HandleStep /\ handle'.status \notin Rested
  <2>1. Recovered
    BY <1>2 DEF ResumeTask, Recovered
  <2> QED
    BY <1>1, <1>2, <1>3, <2>1 DEF HandleStep, StaysClosed, Closed, Rested
<1>5. ASSUME NEW d \in Deliveries, d = handle.delivery, view[d].status = "interrupted"
      PROVE  Step
  <2> DEFINE v == [view[d] EXCEPT !.status = "reworking", !.candidate = "none"]
  <2>1. /\ view[d].status \in Proposed
        /\ view[d].status \notin Settled \cup {"verifying", "reviewing"}
    BY <1>5 DEF Proposed, ViewStatus, Settled
  <2>2. v \in View /\ v.status = "reworking" /\ v.attempt \in Attempts
    BY <2>1, DeliveryFacts DEF View, ViewStatus, CandidateKind
  <2>3. view' = [view EXCEPT ![d] = v]
    BY <1>5, Constants, DeliveryFacts DEF ResumeTask, View
  <2>4. Moves(d, v)
    BY <1>1, <2>1, <2>2, <2>3, Decides DEF review, Proposed, ViewStatus
  <2> QED
    BY <1>4, <1>5, <2>4, MoveStep DEF Minds
<1>6. CASE ~(handle.delivery # None /\ view[handle.delivery].status = "interrupted")
  BY <1>1, <1>4, <1>6, QuietStep DEF ResumeTask, review, recorded
<1> QED
  BY <1>5, <1>6, Controls

\* A report keeps the invariant: it reopens no closed delivery.
LEMMA SubmitStep == ASSUME Inv, SubmitReport PROVE Step
<1>1. /\ claimed \in Report /\ claimed' = None
      /\ UNCHANGED <<worktree, observers, followUp, finalizing, review, durable>>
  BY DEF SubmitReport, Inv, ControlOK
<1>2. ASSUME handle' \in Handle, reworks' \subseteq Slots
      PROVE  ControlOK'
  BY <1>1, <1>2 DEF Inv, ControlOK, review, durable
<1>3. ASSUME UNCHANGED <<reports, evaluating, reworks>>,
             \/ handle.delivery = None /\ handle' = [handle EXCEPT !.status = "failed"]
             \/ handle' = Disposed(handle, "failed"),
             \/ view' = view
             \/ /\ handle.delivery # None
                /\ view[handle.delivery].status = "reworking"
                /\ NextAttempt(handle.delivery) <= MaxAttempts
                /\ view' = [view EXCEPT ![handle.delivery].status = "executing",
                                        ![handle.delivery].attempt =
                                            NextAttempt(handle.delivery)]
      PROVE  Step
  <2>1. handle' \in Handle /\ handle'.status = "failed" /\ handle'.delivery = None
    <3>1. "failed" \in HandleStatus /\ handle \in Handle
      BY Controls DEF HandleStatus
    <3>2. /\ [handle EXCEPT !.status = "failed"] \in Handle
          /\ [handle EXCEPT !.status = "failed"].delivery = handle.delivery
          /\ [handle EXCEPT !.status = "failed"].status = "failed"
          /\ Disposed(handle, "failed") \in Handle
          /\ Disposed(handle, "failed").status = "failed"
          /\ Disposed(handle, "failed").delivery = None
      BY <3>1, HandleStatusChange
    <3> QED
      BY <1>3, <3>2
  <2>2. ControlOK' /\ HandleStep
    BY <1>1, <1>2, <1>3, <2>1, Controls DEF HandleStep, StaysClosed, Closed
  <2>3. CASE view' = view
    <3>1. UNCHANGED recorded
      BY <1>1, <1>3, <2>3 DEF review, durable, recorded
    <3> QED
      BY <2>2, <3>1, QuietStep
  <2>4. ASSUME NEW d \in Deliveries, d = handle.delivery, view[d].status = "reworking",
               NextAttempt(d) <= MaxAttempts,
               view' = [view EXCEPT ![d].status = "executing", ![d].attempt = NextAttempt(d)]
        PROVE  Step
    <3> DEFINE v == [view[d] EXCEPT !.status = "executing", !.attempt = NextAttempt(d)]
    <3>1. /\ view[d].status \in Proposed
          /\ view[d].status \notin Settled \cup {"verifying", "reviewing"}
      BY <2>4 DEF Proposed, ViewStatus, Settled
    <3>2. NextAttempt(d) \in Attempts /\ NextAttempt(d) \in 0 .. MaxAttempts
      <4>1. view[d].attempt \in Attempts
        BY <3>1, DeliveryFacts
      <4> QED
        BY <2>4, <4>1, Constants DEF NextAttempt, Attempts
    <3>3. v \in View /\ v.status = "executing" /\ v.attempt = NextAttempt(d)
      BY <3>2, DeliveryFacts DEF View, ViewStatus
    <3>4. view' = [view EXCEPT ![d] = v]
      BY <2>4, DeliveryFacts DEF View
    <3>5. Moves(d, v)
      BY <1>1, <1>3, <3>1, <3>2, <3>3, <3>4, Decides DEF review, durable, Proposed, ViewStatus
    <3> QED
      BY <2>2, <2>4, <3>5, MoveStep DEF Minds
  <2> QED
    BY <1>3, <2>3, <2>4, Controls
<1>4. ASSUME NEW d \in Deliveries, d = handle.delivery, TakesReport(d),
             NextAttempt(d) <= MaxAttempts,
             NEW v, v = Evaluated(d, NextAttempt(d), claimed),
             NEW h, h = [handle EXCEPT !.status = "verifying"],
             view' = [view EXCEPT ![d] = v],
             reports' = [reports EXCEPT ![<<d, v.attempt>>] = claimed.files],
             \/ /\ claimed.complete
                /\ evaluating' = [evaluating EXCEPT ![d] = "verify"]
                /\ handle' = h
                /\ UNCHANGED reworks
             \/ /\ ~claimed.complete
                /\ UNCHANGED evaluating
                /\ Settle(h, d, v)
      PROVE  Step
  <2>1. /\ view[d].status \in {"executing", "reworking"} /\ view[d].status \in Proposed
        /\ view[d].status \notin Settled \cup {"verifying", "reviewing"}
    BY <1>4 DEF TakesReport, Proposed, ViewStatus, Settled
  <2>2. /\ view[d].attempt \in Attempts /\ view[d] \in View /\ evaluating[d] = "nothing"
        /\ view \in [Deliveries -> View]
        /\ evaluating \in [Deliveries -> {"nothing", "verify", "freeze"}]
        /\ reports \in [Slots -> BOOLEAN \cup {None}]
    BY <2>1, DeliveryFacts
  <2>3. NextAttempt(d) \in Attempts /\ NextAttempt(d) \in 0 .. MaxAttempts
    BY <1>4, <2>2, Constants DEF NextAttempt, Attempts
  <2>4. claimed.files \in BOOLEAN /\ claimed.complete \in BOOLEAN
    BY <1>1 DEF Report
  <2>5. /\ v.attempt = NextAttempt(d)
        /\ claimed.complete => v.status = "verifying"
        /\ ~claimed.complete => v.status \in {"reworking", "awaiting-acceptance"}
        /\ v.status = "awaiting-acceptance" => claimed.files = FALSE
    BY <1>4, <2>4 DEF Evaluated
  <2>6. v \in View
    BY <1>4, <2>2, <2>3, <2>4 DEF Evaluated, View, ViewStatus, CandidateKind
  <2>7. <<d, v.attempt>> \in Slots
    BY <2>3, <2>5 DEF Slots
  <2>8. /\ view'[d] = v /\ reports' \in [Slots -> BOOLEAN \cup {None}]
        /\ reports'[<<d, v.attempt>>] = claimed.files
        /\ \A slot \in Slots : slot[1] # d => reports'[slot] = reports[slot]
    BY <1>4, <2>2, <2>4, <2>7 DEF Slots
  <2>9. Backed(view', reports', session, d)
    BY <2>4, <2>5, <2>8 DEF Backed
  <2>10. /\ evaluating' \in [Deliveries -> {"nothing", "verify", "freeze"}]
         /\ \A e \in Deliveries : e # d => evaluating'[e] = evaluating[e]
         /\ evaluating'[d] # "nothing" => claimed.complete /\ evaluating'[d] = "verify"
    BY <1>4, <2>2
  <2>11. /\ v.status \in {"verifying", "reworking", "awaiting-acceptance"}
         /\ v.status \in Proposed
    BY <2>4, <2>5 DEF Proposed, ViewStatus
  <2>12. Moves(d, v)
    BY <1>1, <1>4, <2>1, <2>3, <2>4, <2>5, <2>6, <2>8, <2>9, <2>10, <2>11
       DEF Moves, review, durable
  <2>13. /\ h \in Handle /\ h.delivery = d /\ h.status = "verifying"
    BY <1>4, Controls, HandleStatusChange DEF HandleStatus
  <2>14. /\ handle' \in Handle /\ handle'.delivery \in {d, None} /\ reworks' \subseteq Slots
         /\ handle'.status \in Rested => handle'.delivery = None
    <3>1. CASE claimed.complete
      BY <1>4, <2>13, <3>1, Controls DEF Closed, Rested
    <3>2. CASE ~claimed.complete
      BY <1>4, <2>3, <2>5, <2>13, <3>2, Controls, Settles DEF Closed, Rested
    <3> QED
      BY <2>4, <3>1, <3>2
  <2>15. StaysClosed
    <3>1. handle.status \notin Closed
      BY <1>4, <2>1, Constants DEF Inv, ClosedOK, Ended, Rested, Closed
    <3> QED
      BY <3>1 DEF StaysClosed
  <2>16. HandleStep
    BY <1>1, <1>2, <1>4, <2>14, <2>15 DEF HandleStep, Rested
  <2> QED
    BY <1>4, <2>1, <2>12, <2>16, MoveStep DEF Minds
<1>5. handle.delivery = None \/ handle.delivery \in Deliveries
  BY Controls
<1> QED
  BY <1>3, <1>4, <1>5 DEF SubmitReport

\* Freezing keeps the invariant: HEAD is at the base or at the candidate, so no other
\* candidate loses it, and no other review of the delivery is open.
LEMMA FreezeStep == ASSUME Inv, NEW d \in Deliveries, Freeze(d) PROVE Step
<1> DEFINE slot == <<d, view[d].attempt>>
           v == [view[d] EXCEPT !.status = "coordinator-reviewing"]
           t == [NoSession EXCEPT !.status = "active"]
<1>1. /\ view[d].status = "reviewing" /\ view[d].status \in Proposed
      /\ reports[slot] \in BOOLEAN
  BY DEF Freeze, Inv, Records, EvaluatingOK, Proposed, ViewStatus
<1>2. /\ view[d].attempt \in Attempts /\ slot \in Slots /\ view[d] \in View
      /\ view \in [Deliveries -> View]
      /\ evaluating \in [Deliveries -> {"nothing", "verify", "freeze"}]
  BY <1>1, DeliveryFacts
<1>3. /\ UNCHANGED <<reports, observers, claimed, followUp, finalizing, host, durable>>
      /\ worktree' = slot /\ worktree \in {None, slot}
      /\ evaluating' = [evaluating EXCEPT ![d] = "nothing"]
      /\ Notify(slot, t) /\ Settle(handle, d, view'[d])
  BY DEF Freeze, CanFreeze
<1>4. v \in View /\ v.status = "coordinator-reviewing" /\ v.attempt = view[d].attempt
  BY <1>2 DEF View, ViewStatus
<1>5. /\ view' = [view EXCEPT ![d] = v] /\ view' \in [Deliveries -> View] /\ view'[d] = v
      /\ \A e \in Deliveries : e # d => view'[e] = view[e]
  BY <1>2, <1>4 DEF Freeze
<1>6. t \in Session /\ t.status = "active" /\ t.todo = "none"
  <2>1. NoSession \in Session /\ NoSession.todo = "none"
    BY Constants DEF NoSession, Session
  <2> QED
    BY <2>1 DEF Session
<1>7. PICK u \in Session :
         session' = [session EXCEPT ![slot] = u] /\ Open(u) /\ u.todo = "none"
  <2>1. Parked(t) \in Session /\ Parked(t).status = "paused" /\ Parked(t).todo = "none"
    BY <1>6, SessionUpdates
  <2>2. session' = [session EXCEPT ![slot] = IF host THEN t ELSE Parked(t)]
    BY <1>3 DEF Notify, Parked
  <2> QED
    BY <1>6, <2>1, <2>2 DEF Open
<1>8. SessionOK(u)
  BY <1>7 DEF SessionOK, Open
<1>9. /\ session' \in [Slots -> Session] /\ session'[slot] = u
      /\ \A q \in Slots : q # slot => session'[q] = session[q]
  BY <1>2, <1>7 DEF Inv, Records, RecordsOK, ViewsOK
<1>10. ViewsOK(view, reports, session)'
  <2>1. \A q \in Slots : SessionOK(session'[q])
    BY <1>8, <1>9 DEF Inv, Records, RecordsOK, ViewsOK
  <2>2. \A e \in Deliveries : view'[e].status \in Proposed => view'[e].attempt \in Attempts
    BY <1>2, <1>4, <1>5 DEF Inv, Records, RecordsOK, ViewsOK
  <2> QED
    BY <1>3, <1>5, <1>9, <2>1, <2>2, DeliveryFacts DEF ViewsOK
<1>11. ASSUME NEW e \in Deliveries PROVE Backed(view, reports, session, e)'
  <2>1. CASE e = d
    BY <1>1, <1>3, <1>4, <1>5, <2>1, Constants DEF Backed
  <2>2. CASE e # d
    <3>1. Backed(view, reports, session, e) /\ view'[e] = view[e] /\ reports' = reports
      BY <1>3, <1>5, <2>2, DeliveryFacts
    <3>2. CASE view[e].status \in Proposed
      <4>1. <<e, view[e].attempt>> \in Slots /\ <<e, view[e].attempt>> # slot
        BY <2>2, <3>2, DeliveryFacts
      <4> QED
        BY <1>9, <3>1, <4>1 DEF Backed
    <3>3. CASE view[e].status \notin Proposed
      <4>1. view[e].status \in {"unproposed", "lost"}
        BY <3>3, DeliveryFacts DEF View, Proposed
      <4> QED
        BY <3>1, <4>1 DEF Backed
    <3> QED
      BY <3>2, <3>3
  <2> QED
    BY <2>1, <2>2
<1>12. EvaluatingOK'
  BY <1>2, <1>3, <1>5 DEF Inv, Records, EvaluatingOK
<1>13. Records'
  <2>1. SavedOK' /\ (crashes \in 0 .. MaxCrashes)'
    BY <1>3, SavedStays DEF durable, Inv, Records, RecordsOK
  <2> QED
    BY <1>2, <1>3, <1>10, <1>11, <1>12, <2>1 DEF Records, RecordsOK
<1>14. AtHead'
  <2>1. ASSUME NEW e \in Deliveries, e # d,
               view[e].status \in {"coordinator-reviewing", "integrating"}
        PROVE  FALSE
    <3>1. worktree = <<e, view[e].attempt>>
      BY <2>1 DEF Inv, AtHead
    <3>2. <<e, view[e].attempt>> \in Slots
      BY <2>1, DeliveryFacts DEF Proposed, ViewStatus
    <3> QED
      BY <1>3, <2>1, <3>1, <3>2, Constants
  <2> QED
    BY <1>3, <1>4, <1>5, <2>1 DEF AtHead
<1>15. OpenOK'
  <2>1. ASSUME crashes = 0, NEW e \in Deliveries, NEW a \in Attempts,
               session'[<<e, a>>].status \in {"active", "paused"}
        PROVE  view'[e].status = "coordinator-reviewing" /\ view'[e].attempt = a
    <3>1. CASE <<e, a>> = slot
      BY <1>4, <1>5, <3>1
    <3>2. CASE <<e, a>> # slot
      <4>1. session[<<e, a>>].status \in {"active", "paused"}
        BY <1>9, <2>1, <3>2 DEF Slots
      <4>2. view[e].status = "coordinator-reviewing" /\ view[e].attempt = a
        BY <2>1, <4>1 DEF Inv, OpenOK
      <4> QED
        BY <1>1, <1>5, <4>2
    <3> QED
      BY <3>1, <3>2
  <2> QED
    BY <1>3, <2>1 DEF OpenOK, durable
<1>16. HandleStep /\ Minds(d)
  <2>1. watched' \in BOOLEAN
    BY <1>3 DEF Notify, Inv, ControlOK
  <2> QED
    BY <1>1, <1>2, <1>3, <1>4, <1>5, <2>1, SettleStep
<1>17. HandleOK' /\ ClosedOK'
  <2>1. v.status \in Proposed
    BY <1>4 DEF Proposed, ViewStatus
  <2> QED
    BY <1>1, <1>5, <1>16, <2>1, Controls
       DEF Inv, HandleStep, HandleOK, ClosedOK, Ended, Rested, Closed
<1>18. AcceptanceOK' /\ StaysOut
  BY <1>1, <1>3, <1>5, <1>16 DEF Inv, AcceptanceOK, StaysOut
<1> QED
  BY <1>13, <1>14, <1>15, <1>16, <1>17, <1>18 DEF Step, Inv, HandleStep

\* A delivery that does not move stays backed while its reviews go on.
LEMMA StaysBacked ==
    ASSUME Inv, SessionsFollow, reports' = reports, NEW e \in Deliveries, view'[e] = view[e]
    PROVE  Backed(view', reports', session', e)
<1>1. Backed(view, reports, session, e)
  BY DeliveryFacts
<1>2. CASE view[e].status \in Proposed
  <2>1. session[<<e, view[e].attempt>>].status = "completed"
           => session'[<<e, view[e].attempt>>].status = "completed"
    BY <1>2, DeliveryFacts DEF SessionsFollow, Follows
  <2> QED
    BY <1>1, <2>1 DEF Backed
<1>3. CASE view[e].status \notin Proposed
  <2>1. view[e].status \in {"unproposed", "lost"}
    BY <1>3, DeliveryFacts DEF View, Proposed
  <2> QED
    BY <1>1, <2>1 DEF Backed
<1> QED
  BY <1>2, <1>3

\* onCompleted keeps the invariant: only the completed review of the attempt under
\* review moves the delivery to integration.
LEMMA CompletedStep ==
    ASSUME Inv, NEW d \in Deliveries, NEW a \in Attempts, Completed(d, a) PROVE Step
<1> DEFINE slot == <<d, a>>
           s == session[slot]
<1>1. slot \in Slots /\ s \in Session /\ SessionOK(s)
  BY DEF Slots, Inv, Records, RecordsOK, ViewsOK
<1>2. /\ s.todo = "complete" /\ session' = [session EXCEPT ![slot] = Owing(s, "none")]
      /\ UNCHANGED <<reports, evaluating, worktree, observers, control, host, watched, durable>>
  BY DEF Completed, Owing
<1>3. /\ Owing(s, "none") \in Session /\ Owing(s, "none").status = "completed"
      /\ Owing(s, "none").covered = s.covered /\ Owing(s, "none").todo = "none"
      /\ s.status = "completed"
  BY <1>1, <1>2, SessionUpdates DEF SessionOK
<1>4. SessionsFollow
  <2>1. Follows(s, Owing(s, "none"))
    BY <1>1, <1>3 DEF Follows, SessionOK, Open
  <2> QED
    BY <1>1, <1>2, <2>1, OneSession DEF Inv
<1>5. CASE UNCHANGED <<view, handle>>
  <2>1. Calm
    BY <1>2, <1>4, <1>5 DEF Calm, durable
  <2>2. HandleStep
    BY <1>2, <1>5 DEF Inv, HandleStep, StaysClosed, ControlOK, control, durable
  <2> QED
    BY <2>1, <2>2, CalmStep
<1>6. CASE /\ TakesReview(d, a)
           /\ view' = [view EXCEPT ![d].status = "integrating", ![d].candidate = "frozen"]
           /\ handle' = Observed(d, "integrating")
  <2> DEFINE v == [view[d] EXCEPT !.status = "integrating", !.candidate = "frozen"]
  <2>1. view[d].status = "coordinator-reviewing" /\ view[d].attempt = a
    BY <1>6 DEF TakesReview
  <2>2. /\ v \in View /\ v.status = "integrating" /\ v.candidate = "frozen" /\ v.attempt = a
        /\ v.status \in Proposed
    BY <2>1, DeliveryFacts DEF View, ViewStatus, CandidateKind, Proposed
  <2>3. /\ view' = [view EXCEPT ![d] = v] /\ view' \in [Deliveries -> View] /\ view'[d] = v
        /\ \A e \in Deliveries : e # d => view'[e] = view[e]
    BY <1>6, <2>2, DeliveryFacts DEF View
  <2>4. ViewsOK(view, reports, session)'
    <3>1. \A q \in Slots : SessionOK(session'[q])
      BY <1>4 DEF SessionsFollow, Follows
    <3>2. \A e \in Deliveries : view'[e].status \in Proposed => view'[e].attempt \in Attempts
      BY <2>2, <2>3 DEF Inv, Records, RecordsOK, ViewsOK
    <3> QED
      BY <1>2, <1>4, <2>3, <3>1, <3>2, DeliveryFacts DEF ViewsOK, SessionsFollow
  <2>5. ASSUME NEW e \in Deliveries PROVE Backed(view, reports, session, e)'
    <3>1. CASE e = d
      <4>1. reports[slot] # None
        BY <2>1, DeliveryFacts DEF Backed
      <4>2. session'[slot].status = "completed"
        BY <1>1, <1>3, <1>4 DEF SessionsFollow, Follows
      <4> QED
        BY <1>2, <2>2, <2>3, <3>1, <4>1, <4>2 DEF Backed
    <3>2. CASE e # d
      BY <1>2, <1>4, <2>3, <3>2, StaysBacked
    <3> QED
      BY <3>1, <3>2
  <2>6. EvaluatingOK'
    BY <1>2, <2>1, <2>3 DEF Inv, Records, EvaluatingOK
  <2>7. Records'
    <3>1. SavedOK' /\ (crashes \in 0 .. MaxCrashes)' /\ (worktree \in Slots \cup {None})'
      BY <1>2, SavedStays DEF durable, Inv, Records, RecordsOK
    <3> QED
      BY <2>4, <2>5, <2>6, <3>1 DEF Records, RecordsOK
  <2>8. AtHead'
    BY <1>2, <2>1, <2>2, <2>3 DEF Inv, AtHead
  <2>9. OpenOK'
    <3>1. ASSUME crashes = 0, NEW e \in Deliveries, NEW b \in Attempts,
                 session'[<<e, b>>].status \in {"active", "paused"}
          PROVE  view'[e].status = "coordinator-reviewing" /\ view'[e].attempt = b
      <4>1. session[<<e, b>>].status \in {"active", "paused"}
        BY <1>4, <3>1 DEF SessionsFollow, Follows, Open, Slots
      <4>2. view[e].status = "coordinator-reviewing" /\ view[e].attempt = b
        BY <3>1, <4>1 DEF Inv, OpenOK
      <4>3. e # d
        BY <1>3, <2>1, <4>1, <4>2
      <4> QED
        BY <2>3, <4>2, <4>3
    <3> QED
      BY <1>2, <3>1 DEF OpenOK, durable
  <2>10. HandleStep /\ Minds(d)
    <3>1. "integrating" \in HandleStatus
      BY DEF HandleStatus
    <3>2. {watched', finalizing', journaled'} \subseteq BOOLEAN
          /\ UNCHANGED <<observers, claimed, reworks, followUp, finalizing, host, recovered>>
      BY <1>2 DEF Inv, ControlOK, control, durable
    <3> QED
      BY <1>6, <2>1, <2>2, <2>3, <3>1, <3>2, ObserveStep
  <2>11. HandleOK' /\ ClosedOK'
    BY <2>1, <2>2, <2>3, <2>10, Controls
       DEF Inv, HandleStep, HandleOK, ClosedOK, Ended, Rested, Closed
  <2>12. AcceptanceOK' /\ StaysOut
    BY <1>2, <2>1, <2>3, <2>10 DEF Inv, AcceptanceOK, StaysOut, control
  <2> QED
    BY <2>7, <2>8, <2>9, <2>10, <2>11, <2>12 DEF Step, Inv, HandleStep
<1> QED
  BY <1>5, <1>6 DEF Completed

\* Reopening HEAD keeps the invariant: the candidate at HEAD is the one sent back, so
\* no candidate in review or integration loses it.
LEMMA ReopenedStep ==
    ASSUME Inv, NEW d \in Deliveries, NEW a \in Attempts, Reopened(d, a) PROVE Step
<1> DEFINE slot == <<d, a>>
           s == session[slot]
<1>1. slot \in Slots /\ s \in Session /\ SessionOK(s)
  BY DEF Slots, Inv, Records, RecordsOK, ViewsOK
<1>2. /\ s.todo = "reopen" /\ session' = [session EXCEPT ![slot] = Owing(s, "none")]
      /\ worktree = slot /\ worktree' = None
      /\ UNCHANGED <<reports, evaluating, observers, claimed, followUp, finalizing, host, watched,
                     durable>>
  BY DEF Reopened, CanReopen, Owing
<1>3. s.status = "rework-requested"
  BY <1>1, <1>2 DEF SessionOK
<1>4. SessionsFollow
  <2>1. Follows(s, Owing(s, "none"))
    BY <1>1, <1>3, SessionUpdates DEF Follows, SessionOK, Open
  <2> QED
    BY <1>1, <1>2, <2>1, OneSession DEF Inv
<1>6. ASSUME NEW e \in Deliveries, view[e].status \in {"coordinator-reviewing", "integrating"}
      PROVE  e = d /\ view[d].attempt = a /\ view[d].status = "coordinator-reviewing"
  <2>1. e = d /\ view[d].attempt = a
    BY <1>2, <1>6 DEF Inv, AtHead
  <2>2. view[d].status # "integrating"
    BY <1>3, <2>1, DeliveryFacts DEF Backed
  <2> QED
    BY <1>6, <2>1, <2>2
<1>7. \A q \in Slots : SessionOK(session'[q])
  BY <1>4 DEF SessionsFollow, Follows
<1>8. SavedOK' /\ (crashes \in 0 .. MaxCrashes)'
  BY <1>2, SavedStays DEF durable, Inv, Records, RecordsOK
<1>9. CASE view[d].status # "coordinator-reviewing" /\ UNCHANGED <<view, handle, reworks>>
  <2>1. Records'
    <3>1. ViewsOK(view, reports, session)'
      BY <1>2, <1>4, <1>7, <1>9 DEF Inv, Records, RecordsOK, ViewsOK, SessionsFollow
    <3>2. \A e \in Deliveries : Backed(view, reports, session, e)'
      BY <1>2, <1>4, <1>9, StaysBacked
    <3>3. EvaluatingOK'
      BY <1>2, <1>9 DEF Inv, Records, EvaluatingOK
    <3> QED
      BY <1>2, <1>8, <3>1, <3>2, <3>3 DEF Records, RecordsOK
  <2>2. AtHead'
    BY <1>6, <1>9 DEF AtHead
  <2>3. OpenOK'
    BY <1>2, <1>4, <1>9 DEF Inv, OpenOK, SessionsFollow, Follows, Open, Slots, durable
  <2>4. ControlOK' /\ HandleOK' /\ ClosedOK' /\ AcceptanceOK'
    BY <1>2, <1>9 DEF Inv, ControlOK, HandleOK, ClosedOK, AcceptanceOK, durable
  <2>5. StaysClosed /\ StaysOut
    BY <1>9 DEF StaysClosed, StaysOut
  <2> QED
    BY <2>1, <2>2, <2>3, <2>4, <2>5 DEF Step, Inv
<1>10. CASE /\ view[d].status = "coordinator-reviewing"
            /\ view' = [view EXCEPT ![d].status = "reworking", ![d].candidate = "none"]
            /\ ScheduleRework(handle, d, view[d].attempt)
  <2> DEFINE v == [view[d] EXCEPT !.status = "reworking", !.candidate = "none"]
  <2>1. /\ v \in View /\ v.status = "reworking" /\ v.status \in Proposed
        /\ v.attempt \in Attempts /\ view[d].attempt \in Attempts
    BY <1>10, DeliveryFacts DEF View, ViewStatus, CandidateKind, Proposed
  <2>2. /\ view' = [view EXCEPT ![d] = v] /\ view' \in [Deliveries -> View] /\ view'[d] = v
        /\ \A e \in Deliveries : e # d => view'[e] = view[e]
    BY <1>10, <2>1, DeliveryFacts DEF View
  <2>3. Records'
    <3>1. ViewsOK(view, reports, session)'
      <4>1. \A e \in Deliveries : view'[e].status \in Proposed => view'[e].attempt \in Attempts
        BY <2>1, <2>2 DEF Inv, Records, RecordsOK, ViewsOK
      <4> QED
        BY <1>2, <1>4, <1>7, <2>2, <4>1, DeliveryFacts DEF ViewsOK, SessionsFollow
    <3>2. ASSUME NEW e \in Deliveries PROVE Backed(view, reports, session, e)'
      <4>1. CASE e = d
        BY <2>1, <2>2, <4>1 DEF Backed
      <4>2. CASE e # d
        BY <1>2, <1>4, <2>2, <4>2, StaysBacked
      <4> QED
        BY <4>1, <4>2
    <3>3. EvaluatingOK'
      BY <1>2, <1>10, <2>2 DEF Inv, Records, EvaluatingOK
    <3> QED
      BY <1>2, <1>8, <3>1, <3>2, <3>3 DEF Records, RecordsOK
  <2>4. AtHead'
    BY <1>6, <2>1, <2>2 DEF AtHead
  <2>5. OpenOK'
    <3>1. ASSUME crashes = 0, NEW e \in Deliveries, NEW b \in Attempts,
                 session'[<<e, b>>].status \in {"active", "paused"}
          PROVE  view'[e].status = "coordinator-reviewing" /\ view'[e].attempt = b
      <4>1. session[<<e, b>>].status \in {"active", "paused"}
        BY <1>4, <3>1 DEF SessionsFollow, Follows, Open, Slots
      <4>2. view[e].status = "coordinator-reviewing" /\ view[e].attempt = b
        BY <3>1, <4>1 DEF Inv, OpenOK
      <4>3. e # d
        BY <1>3, <1>6, <4>1, <4>2
      <4> QED
        BY <2>2, <4>2, <4>3
    <3> QED
      BY <1>2, <3>1 DEF OpenOK, durable
  <2>6. /\ handle' \in Handle /\ handle'.delivery = handle.delivery
        /\ handle'.status \in {"reworking", "budget-paused"} /\ reworks' \subseteq Slots
    BY <1>10, <2>1, Controls, Schedules
  <2>7. ControlOK'
    BY <1>2, <2>6 DEF Inv, ControlOK, durable
  <2>8. HandleOK' /\ ClosedOK'
    BY <2>1, <2>2, <2>6, Controls DEF Inv, HandleOK, ClosedOK, Rested, Closed
  <2>9. LateVerdict(d)
    BY <1>2, <1>6, <1>10, <2>1, <2>2, <2>6 DEF LateVerdict
  <2>10. StaysClosed /\ StaysOut
    BY <2>2, <2>9 DEF StaysClosed, StaysOut
  <2>11. AcceptanceOK'
    BY <1>2, <1>10, <2>2 DEF Inv, AcceptanceOK
  <2> QED
    BY <2>3, <2>4, <2>5, <2>7, <2>8, <2>10, <2>11 DEF Step, Inv
<1> QED
  BY <1>9, <1>10 DEF Reopened

\* A snapshot is as consistent as the records it is taken of.
LEMMA SaveStep == ASSUME Inv, Save PROVE Step
<1>1. /\ saved' = Snapshot /\ crashes < MaxCrashes
      /\ UNCHANGED <<handle, view, reports, evaluating, worktree, observers, control, review,
                     recovered, journaled, crashes>>
  BY DEF Save
<1>2. /\ saved'.delivery = handle.delivery /\ saved'.view = view
      /\ saved'.reports = reports /\ saved'.session = session
  BY <1>1 DEF Snapshot
<1>3. SavedOK'
  BY <1>1, <1>2, Controls DEF Inv, Records, RecordsOK, HandleOK, SavedOK, Backed
<1>4. Records'
  BY <1>1, <1>3 DEF Inv, Records, RecordsOK, ViewsOK, Backed, EvaluatingOK, review
<1>5. AtHead' /\ OpenOK' /\ ClosedOK' /\ ControlOK' /\ HandleOK' /\ AcceptanceOK'
  BY <1>1 DEF Inv, AtHead, OpenOK, ClosedOK, ControlOK, HandleOK, AcceptanceOK, control, review
<1>6. StaysClosed /\ StaysOut
  BY <1>1 DEF StaysClosed, StaysOut
<1> QED
  BY <1>4, <1>5, <1>6 DEF Step, Inv

\* A restart from any snapshot keeps the invariant: what it restores was consistent,
\* and nothing it restores is in review or integration.
LEMMA CrashStep == ASSUME Inv, CrashRestart PROVE Step
<1>1. /\ saved # None /\ crashes' = crashes + 1 /\ saved' = None
      /\ view' = [d \in Deliveries |-> RestoredView(d)]
      /\ reports' = [slot \in Slots |->
                        IF slot[1] = saved.delivery THEN saved.reports[slot] ELSE None]
      /\ session' = [slot \in Slots |-> Owing(saved.session[slot], "none")]
      /\ evaluating' = [d \in Deliveries |-> "nothing"]
      /\ worktree' = worktree
  BY DEF CrashRestart, Owing
<1>2. /\ crashes < MaxCrashes /\ crashes \in 0 .. MaxCrashes
      /\ saved.delivery \in Deliveries \cup {None}
      /\ ViewsOK(saved.view, saved.reports, saved.session)
      /\ \A d \in Deliveries : Backed(saved.view, saved.reports, saved.session, d)
      /\ saved.delivery # None => saved.view[saved.delivery].status \in Proposed
  BY <1>1 DEF Inv, Records, RecordsOK, SavedOK
<1>3. ASSUME NEW d \in Deliveries
      PROVE  /\ view'[d] \in View
             /\ view'[d].status \in {"accepted", "failed", "interrupted", "unproposed", "lost"}
             /\ view'[d].status \in Proposed => view'[d].attempt \in Attempts
             /\ d = saved.delivery => view'[d].status \in Proposed
             /\ view'[d].status = "accepted" => d = saved.delivery /\ view'[d] = saved.view[d]
  <2>1. /\ saved.view[d] \in View
        /\ saved.view[d].status \in Proposed => saved.view[d].attempt \in Attempts
    BY <1>2 DEF ViewsOK
  <2>2. view'[d] = RestoredView(d)
    BY <1>1
  <2>3. CASE d = saved.delivery /\ saved.view[d].status \in {"accepted", "failed"}
    <3>1. view'[d] = saved.view[d]
      BY <2>2, <2>3 DEF RestoredView
    <3>2. saved.view[d].status \in Proposed
      BY <1>2, <2>3, Constants
    <3> QED
      BY <2>1, <2>3, <3>1, <3>2
  <2>4. CASE d = saved.delivery /\ saved.view[d].status \notin {"accepted", "failed"}
    <3>1. view'[d] = [saved.view[d] EXCEPT !.status = "interrupted", !.candidate = "none"]
      BY <2>2, <2>4 DEF RestoredView
    <3>2. /\ view'[d] \in View /\ view'[d].status = "interrupted"
          /\ view'[d].attempt = saved.view[d].attempt
      BY <2>1, <3>1 DEF View, ViewStatus, CandidateKind
    <3> QED
      BY <1>2, <2>1, <2>4, <3>2, Constants DEF Proposed, ViewStatus
  <2>5. CASE d # saved.delivery
    <3>1. Unproposed \in View /\ Unproposed.status = "unproposed"
      BY Constants DEF Unproposed, View, ViewStatus, CandidateKind
    <3>2. /\ [Unproposed EXCEPT !.status = "lost"] \in View
          /\ [Unproposed EXCEPT !.status = "lost"].status = "lost"
      BY <3>1 DEF View, ViewStatus
    <3>3. view'[d] \in {Unproposed, [Unproposed EXCEPT !.status = "lost"]}
      BY <2>2, <2>5 DEF RestoredView
    <3> QED
      BY <2>5, <3>1, <3>2, <3>3 DEF Proposed
  <2> QED
    BY <2>3, <2>4, <2>5
<1>4. ASSUME NEW slot \in Slots
      PROVE  /\ session'[slot] \in Session /\ SessionOK(session'[slot])
             /\ session'[slot].status = saved.session[slot].status
             /\ reports'[slot] \in BOOLEAN \cup {None}
             /\ slot[1] = saved.delivery => reports'[slot] = saved.reports[slot]
  <2>1. /\ saved.session[slot] \in Session /\ SessionOK(saved.session[slot])
        /\ saved.reports[slot] \in BOOLEAN \cup {None}
    BY <1>2 DEF ViewsOK
  <2> QED
    BY <1>1, <2>1, SessionUpdates DEF SessionOK
<1>5. ViewsOK(view, reports, session)'
  BY <1>1, <1>3, <1>4 DEF ViewsOK
<1>6. ASSUME NEW d \in Deliveries PROVE Backed(view, reports, session, d)'
  <2>1. CASE view'[d].status = "accepted"
    <3> DEFINE slot == <<d, view'[d].attempt>>
    <3>1. d = saved.delivery /\ view'[d] = saved.view[d]
      BY <1>3, <2>1
    <3>2. slot \in Slots /\ slot[1] = d
      BY <1>3, <2>1 DEF Proposed, ViewStatus, Slots
    <3>3. reports'[slot] = saved.reports[slot]
          /\ session'[slot].status = saved.session[slot].status
      BY <1>4, <3>1, <3>2
    <3> QED
      BY <1>2, <2>1, <3>1, <3>3 DEF Backed
  <2>2. CASE view'[d].status # "accepted"
    BY <1>3, <2>2 DEF Backed
  <2> QED
    BY <2>1, <2>2
<1>7. EvaluatingOK' /\ SavedOK'
  BY <1>1 DEF EvaluatingOK, SavedOK
<1>8. (crashes \in 0 .. MaxCrashes)' /\ crashes' # 0 /\ crashes' # crashes
  BY <1>1, <1>2, Constants
<1>9. Records'
  BY <1>1, <1>5, <1>6, <1>7, <1>8 DEF Inv, Records, RecordsOK
<1>10. AtHead' /\ OpenOK'
  BY <1>3, <1>8 DEF AtHead, OpenOK
<1>11. /\ handle'.status \in HandleStatus /\ handle'.delivery = saved.delivery
       /\ handle' \in Handle /\ recovered' \in {"task", "conflict"}
  <2>1. RecoveredStatus \in HandleStatus
    BY DEF RecoveredStatus, HandleStatus
  <2>2. PICK status \in HandleStatus :
           handle' = [status |-> status, delivery |-> saved.delivery, report |-> FALSE]
    BY <2>1 DEF CrashRestart, HandleStatus
  <2>3. recovered' \in {"task", "conflict"}
    BY DEF CrashRestart
  <2> QED
    BY <1>2, <2>2, <2>3 DEF Handle
<1>12. ControlOK'
  BY <1>11 DEF CrashRestart, Inv, ControlOK
<1>13. HandleOK' /\ ClosedOK'
  <2>1. ASSUME handle'.delivery # None
        PROVE  /\ handle'.delivery \in Deliveries
               /\ view'[handle'.delivery].status \in Proposed
               /\ view'[handle'.delivery].status \in
                      {"accepted", "failed", "interrupted", "unproposed", "lost"}
    BY <1>2, <1>3, <1>11, <2>1
  <2> QED
    BY <1>11, <2>1 DEF HandleOK, ClosedOK, Ended, Rested, Closed, Proposed
<1>14. ~finalizing' /\ StaysOut
  BY <1>8 DEF CrashRestart, StaysOut
<1>15. StaysClosed
  <2>1. SUFFICES ASSUME handle.status \in Closed, handle'.status \notin Closed PROVE Restarted
    BY DEF StaysClosed
  <2>2. PICK picked \in BOOLEAN :
           /\ recovered' = IF picked THEN "conflict" ELSE "task"
           /\ handle' = [status |-> IF picked THEN "integration-conflict" ELSE RecoveredStatus,
                         delivery |-> saved.delivery, report |-> FALSE]
    BY DEF CrashRestart
  <2>3. CASE picked
    BY <1>8, <2>2, <2>3 DEF Restarted
  <2>4. CASE ~picked
    <3>1. handle'.status = RecoveredStatus
      BY <2>2, <2>4
    <3>2. journaled /\ RecoveredStatus = "accepted"
      BY <2>1, <3>1 DEF RecoveredStatus, Closed, Inv, ControlOK
    <3> QED
      BY <1>8, <3>1, <3>2 DEF Restarted
  <2> QED
    BY <2>3, <2>4
<1> QED
  BY <1>9, <1>10, <1>12, <1>13, <1>14, <1>15 DEF Step, Inv, AcceptanceOK

-----------------------------------------------------------------------------
(* The theorems.                                                           *)

\* Every step keeps the invariant and leaves a closed task closed.
LEMMA NextStep == ASSUME Inv, [Next]_vars PROVE Step
<1>1. CASE TaskStep
  BY <1>1, SpawnStep, WorkerSteps, SubmitStep, HostSteps, ReviewSteps, FollowUpSteps, SaveStep,
     CrashStep, RecoverySteps, ResumeStep DEF TaskStep
<1>2. ASSUME NEW slot \in Slots, ReviewStep(slot) PROVE Step
  <2>1. slot[1] \in Deliveries /\ slot[2] \in Attempts
    BY DEF Slots
  <2>2. CASE Completed(slot[1], slot[2])
    BY <2>1, <2>2, CompletedStep
  <2>3. CASE Reopened(slot[1], slot[2])
    BY <2>1, <2>3, ReopenedStep
  <2>4. CASE ~Completed(slot[1], slot[2]) /\ ~Reopened(slot[1], slot[2])
    BY <1>2, <2>4, ReviewSteps DEF ReviewStep
  <2> QED
    BY <2>2, <2>3, <2>4
<1>3. ASSUME NEW d \in Deliveries, DeliveryStep(d) PROVE Step
  BY <1>3, VerifyStep, FreezeStep, DeferStep, IntegratedStep, UserSteps DEF DeliveryStep
<1> QED
  BY <1>1, <1>2, <1>3, Stuttering DEF Next

\* The invariant holds throughout.
LEMMA Invariance == Spec => []Inv
<1>1. Init => Inv
  BY InvInit
<1>2. Inv /\ [Next]_vars => Inv'
  BY NextStep DEF Step
<1> QED
  BY <1>1, <1>2, PTL DEF Spec

\* The type invariant of the task's records holds for every bound, through crashes.
THEOREM TypeCorrect == Spec => []TypeOK
BY Invariance, InvType, PTL

\* ADR-0001 for every diff and any number of deliveries, attempts and crashes: what
\* is integrated was reviewed in full, what is accepted unreviewed lists no files.
THEOREM AcceptedReviewed == Spec => []AcceptedWasReviewed
<1>1. Inv => AcceptedWasReviewed
  <2>1. ASSUME Inv, NEW d \in Deliveries, view[d].status \in {"integrating", "accepted"}
        PROVE  LET slot == <<d, view[d].attempt>>
               IN  \/ /\ view[d].candidate = "frozen"
                      /\ session[slot].status = "completed"
                      /\ session[slot].covered = Chunks
                      /\ reports[slot] # None
                   \/ /\ view[d].candidate = "reportOnly"
                      /\ reports[slot] # None
                      /\ ~reports[slot]
    <3>1. <<d, view[d].attempt>> \in Slots
      BY <2>1, DeliveryFacts DEF Proposed, ViewStatus
    <3>2. SessionOK(session[<<d, view[d].attempt>>])
      BY <2>1, <3>1 DEF Inv, Records, RecordsOK, ViewsOK
    <3>3. FALSE # None
      BY Constants
    <3> QED
      BY <2>1, <3>2, <3>3, DeliveryFacts DEF Backed, SessionOK
  <2> QED
    BY <2>1 DEF AcceptedWasReviewed
<1> QED
  BY <1>1, Invariance, PTL

\* For every bound, the candidate in review or integration is the worktree's HEAD, and
\* without a restart a review is open only for the attempt under review.
THEOREM ReviewIntegrated == Spec => []ReviewedIsIntegrated
<1>1. Inv => ReviewedIsIntegrated
  BY DEF Inv, AtHead, OpenOK, ReviewedIsIntegrated
<1> QED
  BY <1>1, Invariance, PTL

\* For every bound: a closed task is opened only by a follow-up, recovery, the return of
\* a delivery in conflict, or by one of the three answers the scheduler does not check; no
\* late report, verification, observation or integration answer opens it.  And nothing
\* that happens to a delivery the task no longer has changes the task, but for a verdict.
THEOREM StayClosed == Spec => ClosedStaysClosed
<1> DEFINE Keeps ==
        /\ handle.status \in {"failed", "interrupted"}
           /\ handle'.status \notin {"failed", "interrupted"}
           => \/ FollowedUp \/ Recovered \/ Returned \/ Restarted
              \/ LateRework \/ LateAcceptance \/ \E d \in Deliveries : LateVerdict(d)
        /\ \A d \in Deliveries : view'[d] # view[d] /\ handle' # handle =>
              \/ d = handle.delivery
              \/ handle.delivery = None /\ handle'.delivery = d /\ view[d].status = "unproposed"
              \/ crashes' # crashes
              \/ LateVerdict(d)
<1>1. Inv /\ [Next]_vars => Keeps
  BY NextStep DEF Step, StaysClosed, StaysOut, Minds, Closed
<1> QED
  BY <1>1, Invariance, PTL DEF Spec, ClosedStaysClosed
=============================================================================
