------------------------ MODULE FinalDeliveryProofs ------------------------
(***************************************************************************)
(* Proofs about FinalDelivery, for any tasks, callers and bounds, through  *)
(* overlapping calls, crashes and restarts: its type invariant; that a     *)
(* delivery claims a task only when the head it offers carries the work;   *)
(* that memory and journal agree about the decision; and that no delivery  *)
(* is decided both ways.                                                   *)
(*                                                                         *)
(* The last two rest on DecisionInv: a fact on the queue belongs to the    *)
(* one call that awaits it (Owners), a call between its check and its      *)
(* record that no other one overlaps decides what is undecided (PendingOK),*)
(* its intent is on disk while it publishes (IntentOK), and a completed    *)
(* publication is recorded, about to be, or what a restart reconciles      *)
(* (RecordedOK).                                                           *)
(***************************************************************************)
EXTENDS FinalDelivery, TLAPS

-----------------------------------------------------------------------------
(* Shapes.                                                                 *)

DecisionCall == [pc : CallPcs, kind : {"accept", "rework"}, delivery : Delivery \cup {None},
                 result : Delivery \cup {None}]
Disk == [nodes : [Tasks -> {"absent", "open", "accepted"}],
         snapshot : [plan : Plan, evidence : SUBSET Tasks],
         offer : Delivery \cup {None}, decision : Decision \cup {None},
         intent : Delivery \cup {None}, publication : Publication \cup {None}]

\* The facts a call awaits.
CallFacts == {"accept-intent", "rework-intent", "publishing", "published", "paused",
              "rework-created"}
Entry ==
    [kind : {"plan"}, by : {None}, status : [Tasks -> Status]]
    \cup [kind : {"snapshot"}, by : {None}, plan : Plan, evidence : SUBSET Tasks]
    \cup [kind : {"ready"}, by : {None}, delivery : Delivery]
    \cup [kind : {"accepted"}, by : Callers \cup {None}, delivery : Delivery]
    \cup [kind : CallFacts, by : Callers, delivery : Delivery]

\* The step at which a call awaits a fact of this kind.
Awaits(pc, kind) ==
    \/ pc = "intent" /\ kind \in {"accept-intent", "rework-intent"}
    \/ pc = "start" /\ kind = "publishing"
    \/ pc = "complete" /\ kind = "published"
    \/ pc = "pause" /\ kind = "paused"
    \/ pc = "finish" /\ kind \in {"accepted", "rework-created"}
Awaiting == {"intent", "start", "complete", "pause", "finish"}

\* Every fact with a call behind it is the one fact which that call awaits.
Owned(s, cs) ==
    \A i \in DOMAIN s :
        s[i].by # None => /\ Awaits(cs[s[i].by].pc, s[i].kind)
                          /\ \A j \in DOMAIN s : s[j].by = s[i].by => j = i

PlanOK == /\ phase \in {"up", "starting", "down"} /\ crashes \in 0..MaxCrashes
          /\ plan \in Plan /\ evidence \in SUBSET Tasks
OfferOK == /\ offer \in Delivery \cup {None} /\ decision \in Decision \cup {None}
           /\ seen \in SUBSET Delivery /\ decided \in SUBSET Decision
           /\ reoffered \in SUBSET Delivery /\ contested \in SUBSET Delivery
BuildOK == build \in Build \cup {None}
CallsOK == /\ calls \in [Callers -> DecisionCall]
           /\ \A c \in Callers : calls[c].pc # "idle" => calls[c].delivery \in Delivery
GitOK == /\ expected \in 0..MaxHead /\ head \in 0..MaxHead /\ base \in 0..MaxHead
         /\ workAt \in [Tasks -> 0..MaxHead]
DiskOK == disk \in Disk
TailOK == tail \in Seq(Entry) /\ Owned(tail, calls)
Shapes == PlanOK /\ OfferOK /\ BuildOK /\ CallsOK /\ GitOK /\ DiskOK /\ TailOK

\* The shapes are finer than the type invariant.
LEMMA ShapesType == Shapes => TypeOK
BY DEF Shapes, PlanOK, OfferOK, BuildOK, CallsOK, GitOK, DiskOK, TypeOK, Build, DecisionCall,
   Disk

\* The bounds are numbers.
LEMMA Bounds == MaxVersion \in Nat /\ MaxHead \in Nat /\ MaxCrashes \in Nat
BY BoundsAssumption

-----------------------------------------------------------------------------
(* The queue of writes.                                                    *)

\* A write that becomes durable leaves the queue; the others move up.
LEMMA HeadTail ==
    ASSUME NEW s \in Seq(Entry), s # <<>>
    PROVE  /\ Head(s) \in Entry /\ Head(s) = s[1] /\ 1 \in DOMAIN s
           /\ Tail(s) \in Seq(Entry)
           /\ \A i \in DOMAIN Tail(s) : i + 1 \in DOMAIN s /\ Tail(s)[i] = s[i + 1]
                                        /\ i \in Nat /\ i + 1 # 1
OBVIOUS

\* What a write of each kind carries.
LEMMA EntryFacts ==
    ASSUME NEW e \in Entry
    PROVE  /\ e.by \in Callers \cup {None}
           /\ e.kind = "plan" => e.status \in [Tasks -> Status]
           /\ e.kind = "snapshot" => e.plan \in Plan /\ e.evidence \in SUBSET Tasks
           /\ e.kind \notin {"plan", "snapshot"} => e.delivery \in Delivery
           /\ e.kind \in CallFacts => e.by \in Callers /\ e.by # None
           /\ e.kind \in {"plan", "snapshot", "ready"} => e.by = None
BY NoneAssumption DEF Entry, CallFacts

\* What is put on the queue.
LEMMA NewEntries ==
    /\ \A p \in Plan : PlanUpdated(p) \in Entry /\ PlanUpdated(p).by = None
    /\ \A p \in Plan, e \in SUBSET Tasks : Snapshot(p, e) \in Entry /\ Snapshot(p, e).by = None
    /\ \A d \in Delivery : /\ Fact("ready", None, d) \in Entry
                           /\ Fact("accepted", None, d) \in Entry
    /\ \A k \in CallFacts \cup {"accepted"}, c \in Callers, d \in Delivery :
          Fact(k, c, d) \in Entry
BY DEF PlanUpdated, Snapshot, Fact, Entry, Plan

\* The other calls go on waiting.
LEMMA OwnedTail ==
    ASSUME NEW s \in Seq(Entry), s # <<>>, NEW cs, NEW after, Owned(s, cs),
           \A c \in Callers : c # Head(s).by => after[c] = cs[c]
    PROVE  /\ Owned(Tail(s), after)
           /\ Head(s).by # None => \A i \in DOMAIN Tail(s) : Tail(s)[i].by # Head(s).by
<1>1. ASSUME NEW i \in DOMAIN Tail(s), Tail(s)[i].by # None
      PROVE  /\ Tail(s)[i].by # Head(s).by
             /\ Awaits(after[Tail(s)[i].by].pc, Tail(s)[i].kind)
             /\ \A j \in DOMAIN Tail(s) : Tail(s)[j].by = Tail(s)[i].by => j = i
  <2>1. i + 1 \in DOMAIN s /\ Tail(s)[i] = s[i + 1] /\ i + 1 # 1 /\ 1 \in DOMAIN s
        /\ s[1] = Head(s) /\ i \in Nat
    BY HeadTail
  <2>2. s[1].by # s[i + 1].by
    BY <1>1, <2>1 DEF Owned
  <2>3. s[i + 1] \in Entry
    BY <2>1
  <2>4. s[i + 1].by \in Callers
    BY <1>1, <2>1, <2>3, EntryFacts
  <2>5. Awaits(after[s[i + 1].by].pc, s[i + 1].kind)
    BY <1>1, <2>1, <2>2, <2>4 DEF Owned
  <2>6. ASSUME NEW j \in DOMAIN Tail(s), Tail(s)[j].by = Tail(s)[i].by
        PROVE  j = i
    <3>1. j + 1 \in DOMAIN s /\ Tail(s)[j] = s[j + 1] /\ j \in Nat
      BY HeadTail
    <3>2. j + 1 = i + 1
      BY <1>1, <2>1, <2>6, <3>1 DEF Owned
    <3> QED
      BY <2>1, <3>1, <3>2
  <2> QED
    BY <2>1, <2>2, <2>5, <2>6
<1>2. Head(s).by # None => \A i \in DOMAIN Tail(s) : Tail(s)[i].by # Head(s).by
  BY <1>1
<1> QED
  BY <1>1, <1>2 DEF Owned

\* A write nobody awaits, or the one its call awaits, joins the queue.
LEMMA OwnedAppend ==
    ASSUME NEW s \in Seq(Entry), NEW e \in Entry, NEW cs, Owned(s, cs),
           e.by # None => /\ Awaits(cs[e.by].pc, e.kind)
                          /\ \A i \in DOMAIN s : s[i].by # e.by
    PROVE  Append(s, e) \in Seq(Entry) /\ Owned(Append(s, e), cs)
<1>1. /\ Append(s, e) \in Seq(Entry)
      /\ DOMAIN Append(s, e) = DOMAIN s \cup {Len(s) + 1} /\ Len(s) + 1 \notin DOMAIN s
      /\ Append(s, e)[Len(s) + 1] = e
      /\ \A i \in DOMAIN s : Append(s, e)[i] = s[i]
  OBVIOUS
<1> DEFINE t == Append(s, e)
<1>2. /\ DOMAIN t = DOMAIN s \cup {Len(s) + 1} /\ Len(s) + 1 \notin DOMAIN s
      /\ t[Len(s) + 1] = e /\ \A i \in DOMAIN s : t[i] = s[i]
  BY <1>1
<1> HIDE DEF t
<1>3. Owned(t, cs)
  BY <1>2 DEF Owned
<1> QED
  BY <1>1, <1>3 DEF t

\* A call that awaits no write has none on the queue.
LEMMA Silent ==
    ASSUME NEW s \in Seq(Entry), NEW cs, Owned(s, cs), NEW c \in Callers,
           cs[c].pc \notin Awaiting
    PROVE  \A i \in DOMAIN s : s[i].by # c
BY NoneAssumption DEF Owned, Awaits, Awaiting

\* Only the calls that await no write move.
LEMMA OwnedCalls ==
    ASSUME NEW s \in Seq(Entry), NEW cs, NEW after, Owned(s, cs),
           \A c \in Callers : cs[c].pc \in Awaiting => after[c].pc = cs[c].pc
    PROVE  Owned(s, after)
<1>1. ASSUME NEW i \in DOMAIN s, s[i].by # None
      PROVE  Awaits(after[s[i].by].pc, s[i].kind)
  <2>1. s[i] \in Entry
    OBVIOUS
  <2>2. s[i].by \in Callers
    BY <1>1, <2>1, EntryFacts
  <2> QED
    BY <1>1, <2>2 DEF Owned, Awaits, Awaiting
<1> QED
  BY <1>1 DEF Owned

-----------------------------------------------------------------------------
\* The empty Meeting has these shapes.
LEMMA ShapesInit == Init => Shapes
<1> SUFFICES ASSUME Init PROVE Shapes
  OBVIOUS
<1>1. [t \in Tasks |-> "absent"] \in [Tasks -> Status]
  BY DEF Status
<1>2. plan \in Plan /\ evidence = {}
  BY <1>1, Bounds DEF Init, Plan
<1>3. PlanOK /\ OfferOK /\ BuildOK /\ GitOK
  BY <1>2, Bounds DEF Init, PlanOK, OfferOK, BuildOK, GitOK
<1>4. CallsOK
  BY DEF Init, CallsOK, Idle, DecisionCall, CallPcs
<1>5. DiskOK
  BY <1>1, Bounds DEF Init, DiskOK, Disk, Plan
<1>6. TailOK
  BY DEF Init, TailOK, Owned
<1> QED
  BY <1>3, <1>4, <1>5, <1>6 DEF Shapes

\* A change of the plan is journaled.
LEMMA ReplanShape ==
    ASSUME Shapes, NEW s \in [Tasks -> Status], NEW v \in 0..MaxVersion, Replan(s, v),
           UNCHANGED calls
    PROVE  plan' \in Plan /\ TailOK'
<1>1. plan' \in Plan
  BY DEF Replan, Plan
<1>2. PlanUpdated(plan') \in Entry /\ PlanUpdated(plan').by = None
  BY <1>1, NewEntries
<1>3. tail \in Seq(Entry) /\ Owned(tail, calls)
  BY DEF Shapes, TailOK
<1>4. tail' \in Seq(Entry) /\ Owned(tail', calls)
  BY <1>2, <1>3, OwnedAppend DEF Replan
<1> QED
  BY <1>1, <1>4 DEF TailOK

\* Every version that a bound leaves room for is one.
LEMMA NextVersionShape == Shapes /\ plan.version < MaxVersion => NextVersion \in 0..MaxVersion
BY Bounds DEF Shapes, PlanOK, Plan, NextVersion

\* The plan.
LEMMA PlanShapes == Shapes /\ PlanStep => Shapes'
<1> SUFFICES ASSUME Shapes, PlanStep PROVE Shapes'
  OBVIOUS
<1> USE DEF Shapes
<1>0. plan \in Plan /\ plan.status \in [Tasks -> Status] /\ plan.version \in 0..MaxVersion
  BY DEF PlanOK, Plan
<1>1. ASSUME NEW t \in Tasks, AddTask(t) PROVE Shapes'
  <2>1. [plan.status EXCEPT ![t] = "open"] \in [Tasks -> Status]
    BY <1>0 DEF Status
  <2>2. plan' \in Plan /\ TailOK'
    BY <1>1, <2>1, NextVersionShape, ReplanShape DEF AddTask, CanReplan
  <2> QED
    BY <1>1, <2>2 DEF AddTask, offerVars, gitVars, histVars, PlanOK, OfferOK, BuildOK, CallsOK,
       GitOK, DiskOK
<1>2. ASSUME NEW t \in Tasks, CancelTask(t) PROVE Shapes'
  <2>1. [plan.status EXCEPT ![t] = "absent"] \in [Tasks -> Status]
    BY <1>0 DEF Status
  <2>2. plan' \in Plan /\ TailOK'
    BY <1>2, <2>1, NextVersionShape, ReplanShape DEF CancelTask, CanReplan
  <2> QED
    BY <1>2, <2>2 DEF CancelTask, offerVars, gitVars, histVars, PlanOK, OfferOK, BuildOK,
       CallsOK, GitOK, DiskOK
<1>3. ASSUME NEW t \in Tasks, IntegrateTask(t) PROVE Shapes'
  <2>1. plan' \in Plan
    BY <1>0, <1>3 DEF IntegrateTask, Plan, Status
  <2>2. GitOK'
    BY <1>3, Bounds DEF IntegrateTask, GitOK
  <2> QED
    BY <1>3, <2>1, <2>2 DEF IntegrateTask, offerVars, overlapVars, PlanOK, OfferOK, BuildOK, CallsOK,
       DiskOK, TailOK
<1>4. ASSUME NEW t \in Tasks, AcceptTask(t) PROVE Shapes'
  <2>1. [plan.status EXCEPT ![t] = "accepted"] \in [Tasks -> Status]
    BY <1>0 DEF Status
  <2>2. plan' \in Plan /\ TailOK'
    BY <1>0, <1>4, <2>1, ReplanShape DEF AcceptTask
  <2>3. evidence' \in SUBSET Tasks
    BY <1>4 DEF AcceptTask, PlanOK
  <2> QED
    BY <1>4, <2>2, <2>3 DEF AcceptTask, offerVars, gitVars, histVars, PlanOK, OfferOK, BuildOK,
       CallsOK, GitOK, DiskOK
<1>5. CASE RevisePlan
  <2>1. plan' \in Plan /\ TailOK'
    BY <1>0, <1>5, NextVersionShape, ReplanShape DEF RevisePlan, CanReplan
  <2> QED
    BY <1>5, <2>1 DEF RevisePlan, offerVars, gitVars, histVars, PlanOK, OfferOK, BuildOK,
       CallsOK, GitOK, DiskOK
<1> QED
  BY <1>1, <1>2, <1>3, <1>4, <1>5 DEF PlanStep

\* Who joined a build decides on its result.
LEMMA SettleShape ==
    ASSUME Shapes, NEW r \in Delivery \cup {None}, Settle(r)
    PROVE  /\ CallsOK'
           /\ \A c \in Callers : calls[c].pc \in Awaiting => calls'[c] = calls[c]
           /\ Owned(tail, calls')
<1>1. \A c \in Callers : calls[c] \in DecisionCall
  BY DEF Shapes, CallsOK
<1>2. CallsOK'
  BY <1>1 DEF Shapes, CallsOK, Settle, DecisionCall, CallPcs
<1>3. \A c \in Callers : calls[c].pc \in Awaiting => calls'[c] = calls[c]
  BY DEF Settle, Awaiting
<1> QED
  BY <1>2, <1>3, OwnedCalls DEF Shapes, TailOK

\* The build.
LEMMA BuildShapes == Shapes /\ (BuildStep \/ Prepare) => Shapes'
<1> SUFFICES ASSUME Shapes, BuildStep \/ Prepare PROVE Shapes'
  OBVIOUS
<1> USE DEF Shapes
<1>1. CASE Prepare
  <2>1. BuildOK'
    BY <1>1 DEF Prepare, NewBuild, PlanOK, GitOK, BuildOK, Build
  <2> QED
    BY <1>1, <2>1 DEF Prepare, planVars, offerVars, gitVars, histVars, PlanOK, OfferOK, CallsOK,
       GitOK, DiskOK, TailOK
<1>2. CASE InspectHead
  <2>1. BuildOK'
    BY <1>2 DEF InspectHead, Returns, Current, BuildOK, OfferOK, GitOK, Build
  <2> QED
    BY <1>2, <2>1 DEF InspectHead, planVars, offerVars, gitVars, histVars, PlanOK, OfferOK,
       CallsOK, GitOK, DiskOK, TailOK
<1>3. CASE BuildNotReady
  <2>1. BuildOK'
    BY <1>3 DEF BuildNotReady, Returns, BuildOK, Build
  <2> QED
    BY <1>3, <2>1 DEF BuildNotReady, planVars, offerVars, gitVars, histVars, PlanOK, OfferOK,
       CallsOK, GitOK, DiskOK, TailOK
<1>4. CASE BuildReturns
  <2>1. build.result \in Delivery \cup {None}
    BY <1>4 DEF BuildReturns, BuildOK, Build
  <2>2. CallsOK' /\ Owned(tail, calls')
    BY <1>4, <2>1, SettleShape DEF BuildReturns
  <2> QED
    BY <1>4, <2>2 DEF BuildReturns, planVars, offerVars, gitVars, histVars, PlanOK, OfferOK,
       BuildOK, GitOK, DiskOK, TailOK
<1>5. CASE BuildReady
  <2> DEFINE d == [tasks |-> DeliveredTasks, version |-> plan.version,
                   head |-> build.head, expected |-> expected]
  <2>1. build \in Build /\ BuildOK'
    BY <1>5 DEF BuildReady, BuildOK, Build
  <2>2. d \in Delivery
    BY <2>1 DEF Build, PlanOK, GitOK, Plan, Delivery, DeliveredTasks, Accepted
  <2>3. Fact("ready", None, d) \in Entry /\ Fact("ready", None, d).by = None
    BY <2>2, NewEntries DEF Fact
  <2>4. TailOK'
    BY <1>5, <2>3, OwnedAppend DEF BuildReady, TailOK
  <2> QED
    BY <1>5, <2>1, <2>4 DEF BuildReady, planVars, offerVars, gitVars, histVars, PlanOK, OfferOK,
       CallsOK, GitOK, DiskOK
<1> QED
  BY <1>1, <1>2, <1>3, <1>4, <1>5 DEF BuildStep

\* What the queue has does not concern the calls that await nothing.
LEMMA Uninvolved ==
    ASSUME Shapes, \A c \in Callers : calls[c].pc \in Awaiting => calls'[c].pc = calls[c].pc
    PROVE  Owned(tail, calls') /\ tail \in Seq(Entry)
BY OwnedCalls DEF Shapes, TailOK

\* A call that decides joins no write until it appends one.
LEMMA CallWrites ==
    ASSUME Shapes, NEW c \in Callers, calls[c].pc \notin Awaiting, calls[c].pc # "idle",
           NEW k \in CallFacts, NEW pc \in CallPcs, Awaits(pc, k), pc # "idle",
           calls' = [calls EXCEPT ![c].pc = pc],
           tail' = Append(tail, Fact(k, c, calls[c].delivery))
    PROVE  CallsOK' /\ TailOK'
<1>1. calls[c].delivery \in Delivery /\ calls[c] \in DecisionCall /\ c # None
  BY NoneAssumption DEF Shapes, CallsOK
<1>2. CallsOK'
  BY <1>1 DEF Shapes, CallsOK, DecisionCall
<1>3. Owned(tail, calls') /\ tail \in Seq(Entry)
  <2>1. \A b \in Callers : calls[b].pc \in Awaiting => calls'[b].pc = calls[b].pc
    BY DEF Shapes, CallsOK
  <2> QED
    BY <2>1, Uninvolved
<1>4. \A i \in DOMAIN tail : tail[i].by # c
  BY Silent DEF Shapes, TailOK
<1>5. /\ Fact(k, c, calls[c].delivery) \in Entry
      /\ Fact(k, c, calls[c].delivery).by = c /\ Fact(k, c, calls[c].delivery).kind = k
  BY <1>1, NewEntries DEF Fact
<1>6. calls'[c].pc = pc
  BY DEF Shapes, CallsOK, DecisionCall
<1> QED
  BY <1>2, <1>3, <1>4, <1>5, <1>6, OwnedAppend DEF TailOK

\* A call that gives up joins no write.
LEMMA CallReturns ==
    ASSUME Shapes, NEW c \in Callers, calls[c].pc \notin Awaiting,
           calls' = [calls EXCEPT ![c] = Idle], UNCHANGED tail
    PROVE  CallsOK' /\ TailOK'
<1>1. CallsOK'
  BY DEF Shapes, CallsOK, Idle, DecisionCall, CallPcs
<1>2. \A k \in Callers : calls[k].pc \in Awaiting => calls'[k].pc = calls[k].pc
  BY DEF Shapes, CallsOK
<1>3. Owned(tail, calls') /\ tail \in Seq(Entry)
  BY <1>2, Uninvolved
<1> QED
  BY <1>1, <1>3 DEF TailOK

\* The calls.
LEMMA CallShapes ==
    ASSUME Shapes, NEW c \in Callers,
           \/ CallStep(c)
           \/ \E kind \in {"accept", "rework"}, d \in seen : Call(c, kind, d)
    PROVE  Shapes'
<1> USE DEF Shapes
<1>1. ASSUME NEW kind \in {"accept", "rework"}, NEW d \in seen, Call(c, kind, d)
      PROVE  Shapes'
  <2>1. d \in Delivery
    BY DEF OfferOK
  <2>2. CallsOK'
    BY <1>1, <2>1 DEF Call, CallsOK, DecisionCall, CallPcs
  <2>3. TailOK'
    <3>1. \A k \in Callers : calls[k].pc \in Awaiting => calls'[k].pc = calls[k].pc
      BY <1>1 DEF Call, CallsOK, Awaiting
    <3> QED
      BY <1>1, <3>1, Uninvolved DEF Call, TailOK
  <2>4. BuildOK'
    BY <1>1 DEF Call, NewBuild, PlanOK, GitOK, BuildOK, Build
  <2> QED
    BY <1>1, <2>2, <2>3, <2>4 DEF Call, planVars, offerVars, gitVars, histVars, PlanOK, OfferOK,
       GitOK, DiskOK
<1>2. CASE Decide(c)
  <2>1. calls[c].pc \notin Awaiting /\ calls[c].pc # "idle"
    BY <1>2 DEF Decide, Awaiting
  <2>2. CallsOK' /\ TailOK'
    <3>1. CASE MayDecide(c)
      <4> DEFINE k == IF calls[c].kind = "accept" THEN "accept-intent" ELSE "rework-intent"
      <4>1. k \in CallFacts /\ Awaits("intent", k) /\ "intent" \in CallPcs
        BY DEF CallFacts, Awaits, CallPcs
      <4> QED
        BY <1>2, <2>1, <3>1, <4>1, CallWrites DEF Decide
    <3> QED
      BY <1>2, <2>1, <3>1, CallReturns DEF Decide
  <2>3. contested' \in SUBSET Delivery
    BY <1>2, <2>1 DEF Decide, Pending, Deciding, CallsOK, OfferOK
  <2> QED
    BY <1>2, <2>2, <2>3 DEF Decide, planVars, offerVars, gitVars, PlanOK, OfferOK, BuildOK,
       GitOK, DiskOK
<1>3. CASE StartPublication(c)
  <2>1. calls[c].pc \notin Awaiting /\ calls[c].pc # "idle"
    BY <1>3 DEF StartPublication, Awaiting
  <2>2. "publishing" \in CallFacts /\ Awaits("start", "publishing") /\ "start" \in CallPcs
    BY DEF CallFacts, Awaits, CallPcs
  <2>3. CallsOK' /\ TailOK'
    BY <1>3, <2>1, <2>2, CallWrites, CallReturns DEF StartPublication
  <2> QED
    BY <1>3, <2>3 DEF StartPublication, planVars, offerVars, gitVars, histVars, PlanOK, OfferOK,
       BuildOK, GitOK, DiskOK
<1>4. CASE MergeBase(c)
  <2>1. calls[c].pc \notin Awaiting /\ calls[c].pc # "idle" /\ calls[c].delivery \in Delivery
    BY <1>4 DEF MergeBase, Awaiting, CallsOK
  <2>2. /\ "published" \in CallFacts /\ Awaits("complete", "published")
        /\ "paused" \in CallFacts /\ Awaits("pause", "paused")
        /\ {"complete", "pause"} \subseteq CallPcs
    BY DEF CallFacts, Awaits, CallPcs
  <2>3. CallsOK' /\ TailOK'
    BY <1>4, <2>1, <2>2, CallWrites DEF MergeBase
  <2>4. GitOK'
    BY <1>4, <2>1 DEF MergeBase, GitOK, Delivery, histVars
  <2> QED
    BY <1>4, <2>3, <2>4 DEF MergeBase, planVars, offerVars, histVars, PlanOK, OfferOK, BuildOK,
       DiskOK
<1> QED
  BY <1>1, <1>2, <1>3, <1>4 DEF CallStep

\* A snapshot of the plan is put on the queue when a write leaves it.
LEMMA SnapshotShape ==
    ASSUME Shapes, tail # <<>>, Owned(Tail(tail), calls'),
           tail' = Append(Tail(tail), Snapshot(plan, evidence))
    PROVE  TailOK'
<1>1. Snapshot(plan, evidence) \in Entry /\ Snapshot(plan, evidence).by = None
  BY NewEntries DEF Shapes, PlanOK
<1>2. Tail(tail) \in Seq(Entry)
  BY HeadTail DEF Shapes, TailOK
<1> QED
  BY <1>1, <1>2, OwnedAppend DEF TailOK

\* What the queue has in front.
LEMMA DueFacts ==
    ASSUME Shapes, NEW kind, Due(kind)
    PROVE  /\ tail # <<>> /\ tail \in Seq(Entry) /\ Owned(tail, calls)
           /\ Head(tail) \in Entry /\ Head(tail).kind = kind /\ Tail(tail) \in Seq(Entry)
           /\ Head(tail).by \in Callers \cup {None}
           /\ kind \notin {"plan", "snapshot"} => Head(tail).delivery \in Delivery
           /\ kind \in CallFacts => Head(tail).by \in Callers /\ Head(tail).by # None
           /\ Head(tail).by # None => Awaits(calls[Head(tail).by].pc, kind)
<1>1. /\ tail # <<>> /\ tail \in Seq(Entry) /\ Owned(tail, calls) /\ Head(tail).kind = kind
  BY DEF Due, Shapes, TailOK
<1>2. Head(tail) \in Entry /\ Head(tail) = tail[1] /\ 1 \in DOMAIN tail
      /\ Tail(tail) \in Seq(Entry)
  BY <1>1, HeadTail
<1>3. Head(tail).by # None => Awaits(calls[Head(tail).by].pc, kind)
  BY <1>1, <1>2 DEF Owned
<1> QED
  BY <1>1, <1>2, <1>3, EntryFacts

\* A call whose write is durable goes on, the others wait.
LEMMA CallGoesOn ==
    ASSUME Shapes, NEW kind \in CallFacts, Due(kind), NEW pc \in CallPcs,
           calls' = [calls EXCEPT ![Head(tail).by].pc = pc]
    PROVE  CallsOK' /\ Owned(Tail(tail), calls')
<1> DEFINE c == Head(tail).by
<1>1. c \in Callers /\ Awaits(calls[c].pc, kind)
  BY DueFacts
<1>2. calls[c].pc # "idle" /\ calls[c] \in DecisionCall
  BY <1>1 DEF Awaits, Shapes, CallsOK
<1>3. CallsOK'
  BY <1>1, <1>2 DEF Shapes, CallsOK, DecisionCall
<1>4. \A k \in Callers : k # c => calls'[k] = calls[k]
  BY DEF Shapes, CallsOK
<1> QED
  BY <1>3, <1>4, DueFacts, OwnedTail

\* Likewise a call that is over.
LEMMA CallIsOver ==
    ASSUME Shapes, NEW kind, Due(kind), calls' = [calls EXCEPT ![Head(tail).by] = Idle]
    PROVE  CallsOK' /\ Owned(Tail(tail), calls')
<1>1. CallsOK'
  BY DEF Shapes, CallsOK, Idle, DecisionCall, CallPcs
<1>2. \A k \in Callers : k # Head(tail).by => calls'[k] = calls[k]
  BY DEF Shapes, CallsOK
<1> QED
  BY <1>1, <1>2, DueFacts, OwnedTail

\* The writes.
LEMMA SyncShapes == Shapes /\ SyncStep => Shapes'
<1> SUFFICES ASSUME Shapes, SyncStep PROVE Shapes'
  OBVIOUS
<1> USE DEF Shapes
<1>1. CASE SyncPlan
  <2>1. Due("plan")
    BY <1>1 DEF SyncPlan
  <2>2. Head(tail).status \in [Tasks -> Status]
    BY <2>1, DueFacts, EntryFacts
  <2>3. MergedNodes(Head(tail).status) \in [Tasks -> {"absent", "open", "accepted"}]
    BY <2>2 DEF MergedNodes, DiskOK, Disk
  <2>4. DiskOK'
    BY <1>1, <2>3 DEF SyncPlan, DiskOK, Disk
  <2>5. Head(tail).by = None
    BY <2>1, DueFacts, EntryFacts
  <2>6. Owned(Tail(tail), calls')
    BY <1>1, <2>1, DueFacts, OwnedTail DEF SyncPlan
  <2>7. TailOK'
    BY <1>1, <2>1, <2>6, DueFacts, SnapshotShape DEF SyncPlan
  <2> QED
    BY <1>1, <2>4, <2>7 DEF SyncPlan, planVars, offerVars, gitVars, histVars, PlanOK, OfferOK,
       BuildOK, CallsOK, GitOK
<1>2. CASE SyncSnapshot
  <2>1. Due("snapshot")
    BY <1>2 DEF SyncSnapshot
  <2>2. Head(tail).plan \in Plan /\ Head(tail).evidence \in SUBSET Tasks
    BY <2>1, DueFacts, EntryFacts
  <2>3. DiskOK'
    BY <1>2, <2>2 DEF SyncSnapshot, DiskOK, Disk
  <2>4. TailOK'
    BY <1>2, <2>1, DueFacts, OwnedTail DEF SyncSnapshot, TailOK
  <2> QED
    BY <1>2, <2>3, <2>4 DEF SyncSnapshot, planVars, offerVars, gitVars, histVars, PlanOK,
       OfferOK, BuildOK, CallsOK, GitOK
<1>3. CASE SyncReady
  <2> DEFINE d == Head(tail).delivery
  <2>1. /\ Due("ready") /\ offer' = d /\ seen' = seen \cup {d} /\ decision' = None
        /\ reoffered' = reoffered \cup (seen \cap {d}) /\ Returns(d) /\ calls' = calls
        /\ disk' = [disk EXCEPT !.offer = d, !.decision = None]
        /\ decided' = decided /\ contested' = contested /\ build # None
    BY <1>3 DEF SyncReady, DecisionOfNewOffer
  <2>2. d \in Delivery /\ tail # <<>> /\ tail \in Seq(Entry) /\ Owned(tail, calls)
    BY <2>1, DueFacts
  <2> HIDE DEF d
  <2>3. Owned(Tail(tail), calls')
    BY <2>1, <2>2, OwnedTail
  <2>4. TailOK'
    BY <1>3, <2>2, <2>3, SnapshotShape DEF SyncReady
  <2>5. DiskOK'
    BY <2>1, <2>2 DEF DiskOK, Disk
  <2>7. OfferOK' /\ CallsOK'
    BY <2>1, <2>2 DEF OfferOK, CallsOK
  <2>6. BuildOK'
    BY <2>1, <2>2 DEF Returns, BuildOK, Build
  <2> QED
    BY <1>3, <2>4, <2>5, <2>6, <2>7 DEF SyncReady, planVars, gitVars, PlanOK, GitOK
<1>4. CASE SyncAcceptIntent
  <2>1. Due("accept-intent") /\ "accept-intent" \in CallFacts /\ "publish" \in CallPcs
    BY <1>4 DEF SyncAcceptIntent, CallFacts, CallPcs
  <2>2. CallsOK' /\ Owned(Tail(tail), calls')
    BY <1>4, <2>1, CallGoesOn DEF SyncAcceptIntent
  <2>3. DiskOK'
    BY <1>4, <2>1, DueFacts DEF SyncAcceptIntent, DiskOK, Disk
  <2> QED
    BY <1>4, <2>1, <2>2, <2>3, DueFacts DEF SyncAcceptIntent, planVars, offerVars, gitVars,
       histVars, PlanOK, OfferOK, BuildOK, GitOK, TailOK
<1>5. CASE SyncPublication
  <2> DEFINE c == Head(tail).by
             d == Head(tail).delivery
  <2>1. PICK state \in {"publishing", "published", "paused"} :
          /\ Due(state)
          /\ disk' = [disk EXCEPT !.publication = [state |-> state, delivery |-> d]]
          /\ calls' = [calls EXCEPT
                         ![c] = CASE state = "publishing" -> [@ EXCEPT !.pc = "merge"]
                                  [] state = "published" -> [@ EXCEPT !.pc = "finish"]
                                  [] state = "paused" -> Idle]
          /\ tail' = IF state = "published" THEN Append(Tail(tail), Fact("accepted", c, d))
                     ELSE Tail(tail)
    BY <1>5 DEF SyncPublication
  <2>2. state \in CallFacts /\ {"merge", "finish"} \subseteq CallPcs
    BY DEF CallFacts, CallPcs
  <2>3. /\ d \in Delivery /\ c \in Callers /\ c # None /\ Tail(tail) \in Seq(Entry)
        /\ tail # <<>> /\ tail \in Seq(Entry) /\ Owned(tail, calls)
    BY <2>1, <2>2, DueFacts
  <2>4. DiskOK'
    BY <2>1, <2>3 DEF DiskOK, Disk, Publication
  <2>5. CallsOK' /\ Owned(Tail(tail), calls')
    <3>1. CASE state = "paused"
      BY <2>1, <3>1, CallIsOver
    <3>2. CASE state = "publishing"
      <4>1. calls' = [calls EXCEPT ![c].pc = "merge"]
        BY <2>1, <3>2
      <4> QED
        BY <2>1, <2>2, <4>1, CallGoesOn
    <3>3. CASE state = "published"
      <4>1. calls' = [calls EXCEPT ![c].pc = "finish"]
        BY <2>1, <3>3
      <4> QED
        BY <2>1, <2>2, <4>1, CallGoesOn
    <3> QED
      BY <3>1, <3>2, <3>3
  <2>6. TailOK'
    <3>1. CASE state = "published"
      <4>1. calls'[c].pc = "finish"
        BY <2>1, <2>3, <3>1 DEF CallsOK, DecisionCall
      <4>2. Fact("accepted", c, d) \in Entry
        BY <2>3, NewEntries
      <4>3. Fact("accepted", c, d).by = c /\ Fact("accepted", c, d).kind = "accepted"
        BY DEF Fact
      <4>4. \A i \in DOMAIN Tail(tail) : Tail(tail)[i].by # c
        BY <2>3, OwnedTail
      <4>5. Awaits(calls'[c].pc, "accepted")
        BY <4>1 DEF Awaits
      <4> HIDE DEF c, d
      <4> QED
        BY <2>1, <2>3, <2>5, <3>1, <4>2, <4>3, <4>4, <4>5, OwnedAppend DEF TailOK
    <3>2. CASE state # "published"
      BY <2>1, <2>3, <2>5, <3>2 DEF TailOK
    <3> QED
      BY <3>1, <3>2
  <2> QED
    BY <1>5, <2>4, <2>5, <2>6 DEF SyncPublication, planVars, offerVars, gitVars, histVars,
       PlanOK, OfferOK, BuildOK, GitOK
<1>6. CASE SyncAccepted
  <2> DEFINE d == Head(tail).delivery
  <2>1. Due("accepted")
    BY <1>6 DEF SyncAccepted
  <2>2. d \in Delivery /\ tail # <<>> /\ tail \in Seq(Entry) /\ Owned(tail, calls)
    BY <2>1, DueFacts
  <2>3. [kind |-> "accept", delivery |-> d] \in Decision
    BY <2>2 DEF Decision
  <2>4. DiskOK' /\ OfferOK'
    <3>1. /\ disk' = [disk EXCEPT !.offer = d,
                                  !.decision = [kind |-> "accept", delivery |-> d]]
          /\ offer' = d /\ seen' = seen /\ Decides("accept", d)
          /\ reoffered' = reoffered /\ contested' = contested
      BY <1>6 DEF SyncAccepted, overlapVars
    <3> HIDE DEF d
    <3>2. DiskOK'
      BY <2>2, <2>3, <3>1 DEF DiskOK, Disk
    <3> QED
      BY <2>2, <2>3, <3>1, <3>2 DEF Decides, OfferOK
  <2>5. CallsOK' /\ Owned(Tail(tail), calls') /\ phase' \in {phase, "up"}
    <3>1. CASE Head(tail).by = None
      BY <1>6, <2>2, <3>1, OwnedTail DEF SyncAccepted, CallsOK
    <3>2. CASE Head(tail).by # None
      BY <1>6, <2>1, <3>2, CallIsOver DEF SyncAccepted
    <3> QED
      BY <3>1, <3>2
  <2>6. TailOK'
    BY <1>6, <2>2, <2>5, SnapshotShape DEF SyncAccepted
  <2> QED
    BY <1>6, <2>4, <2>5, <2>6 DEF SyncAccepted, planVars, gitVars, overlapVars, PlanOK, BuildOK, GitOK
<1>7. CASE SyncReworkIntent
  <2> DEFINE c == Head(tail).by
             d == Head(tail).delivery
  <2>1. /\ Due("rework-intent") /\ "rework-intent" \in CallFacts /\ "finish" \in CallPcs
        /\ "rework-created" \in CallFacts
    BY <1>7 DEF SyncReworkIntent, CallFacts, CallPcs
  <2>2. /\ d \in Delivery /\ c \in Callers /\ c # None /\ Tail(tail) \in Seq(Entry)
        /\ tail # <<>> /\ tail \in Seq(Entry) /\ Owned(tail, calls)
    BY <2>1, DueFacts
  <2>3. plan' \in Plan /\ CallsOK' /\ TailOK'
    <3>1. CASE Accepted(plan) = {}
      <4>1. CallsOK' /\ Owned(Tail(tail), calls')
        BY <1>7, <2>1, <3>1, CallIsOver DEF SyncReworkIntent
      <4> QED
        BY <1>7, <2>2, <3>1, <4>1 DEF SyncReworkIntent, PlanOK, TailOK
    <3>2. CASE Accepted(plan) # {}
      <4>1. plan' \in Plan
        <5>1. PICK fresh : plan' = [status |-> [t \in Tasks |-> IF t \in fresh THEN "open"
                                                              ELSE plan.status[t]],
                                    version |-> NextVersion]
          BY <1>7, <3>2 DEF SyncReworkIntent
        <5>2. NextVersion \in 0..MaxVersion
          BY <1>7, <3>2, NextVersionShape DEF SyncReworkIntent, RoomForRework
        <5> QED
          BY <5>1, <5>2 DEF PlanOK, Plan, Status
      <4>2. calls' = [calls EXCEPT ![c].pc = "finish"]
            /\ tail' = Tail(tail) \o <<PlanUpdated(plan'), Fact("rework-created", c, d)>>
        BY <1>7, <3>2 DEF SyncReworkIntent
      <4>3. CallsOK' /\ Owned(Tail(tail), calls')
        BY <2>1, <4>2, CallGoesOn
      <4>4. PlanUpdated(plan') \in Entry /\ PlanUpdated(plan').by = None
        BY <4>1, NewEntries
      <4>5. Fact("rework-created", c, d) \in Entry
        BY <2>1, <2>2, NewEntries
      <4>6. Fact("rework-created", c, d).by = c
            /\ Fact("rework-created", c, d).kind = "rework-created"
        BY DEF Fact
      <4>7. Awaits(calls'[c].pc, "rework-created")
        BY <2>2, <4>2 DEF Awaits, CallsOK, DecisionCall
      <4>8. \A i \in DOMAIN Tail(tail) : Tail(tail)[i].by # c
        BY <2>2, OwnedTail
      <4> DEFINE s == Append(Tail(tail), PlanUpdated(plan'))
      <4>9. s \in Seq(Entry) /\ Owned(s, calls')
        BY <2>2, <4>3, <4>4, OwnedAppend
      <4>10. \A i \in DOMAIN s : s[i].by # c
        BY <2>2, <4>4, <4>8
      <4>11. tail' = Append(s, Fact("rework-created", c, d))
        BY <2>2, <4>2, <4>4, <4>5
      <4> HIDE DEF s, c, d
      <4> QED
        BY <4>1, <4>3, <4>5, <4>6, <4>7, <4>9, <4>10, <4>11, OwnedAppend DEF TailOK
    <3> QED
      BY <3>1, <3>2
  <2> QED
    BY <1>7, <2>3 DEF SyncReworkIntent, offerVars, gitVars, histVars, PlanOK, OfferOK, BuildOK,
       GitOK, DiskOK
<1>8. CASE SyncReworkCreated
  <2> DEFINE d == Head(tail).delivery
  <2>1. Due("rework-created")
    BY <1>8 DEF SyncReworkCreated
  <2>2. d \in Delivery /\ tail # <<>>
    BY <2>1, DueFacts
  <2>3. [kind |-> "rework", delivery |-> d] \in Decision
    BY <2>2 DEF Decision
  <2>4. DiskOK' /\ OfferOK'
    BY <1>8, <2>3 DEF SyncReworkCreated, Decides, overlapVars, DiskOK, Disk, OfferOK
  <2>5. CallsOK' /\ Owned(Tail(tail), calls')
    BY <1>8, <2>1, CallIsOver DEF SyncReworkCreated
  <2>6. TailOK'
    BY <1>8, <2>2, <2>5, SnapshotShape DEF SyncReworkCreated
  <2> QED
    BY <1>8, <2>4, <2>5, <2>6 DEF SyncReworkCreated, planVars, gitVars, PlanOK, BuildOK, GitOK
<1> QED
  BY <1>1, <1>2, <1>3, <1>4, <1>5, <1>6, <1>7, <1>8 DEF SyncStep

\* Two writes one after the other.
LEMMA TwoWrites ==
    ASSUME NEW a, NEW b
    PROVE  <<a>> \o <<b>> = Append(<<a>>, b)
OBVIOUS

\* A crash, and what a restart reads back.
LEMMA RecoveryShapes == Shapes /\ (Crash \/ Restart) => Shapes'
<1> SUFFICES ASSUME Shapes, Crash \/ Restart PROVE Shapes'
  OBVIOUS
<1> USE DEF Shapes
<1>1. CASE Crash
  <2>1. CallsOK'
    BY <1>1 DEF Crash, CallsOK, Idle, DecisionCall, CallPcs
  <2>2. TailOK'
    BY <1>1 DEF Crash, TailOK, Owned
  <2>3. PlanOK' /\ BuildOK'
    BY <1>1, Bounds DEF Crash, PlanOK, BuildOK, planVars
  <2> QED
    BY <1>1, <2>1, <2>2, <2>3 DEF Crash, offerVars, gitVars, histVars, OfferOK, GitOK, DiskOK
<1>2. CASE Restart
  <2>1. /\ disk.snapshot.plan \in Plan /\ disk.snapshot.evidence \in SUBSET Tasks
        /\ disk.offer \in Delivery \cup {None} /\ disk.decision \in Decision \cup {None}
    BY DEF DiskOK, Disk
  <2>2. plan' \in Plan
    <3>1. \A t \in Tasks : RecoveredStatus(t) \in Status
      BY DEF RecoveredStatus, Status
    <3>2. disk.snapshot.plan.version \in 0..MaxVersion
      BY <2>1 DEF Plan
    <3> QED
      BY <1>2, <3>1, <3>2 DEF Restart, Plan
  <2>3. PlanOK' /\ OfferOK'
    BY <1>2, <2>1, <2>2 DEF Restart, PlanOK, OfferOK, histVars
  <2>4. GitOK'
    BY <1>2 DEF Restart, GitOK, histVars
  <2>5. TailOK'
    <3>1. PlanUpdated(plan') \in Entry /\ PlanUpdated(plan').by = None
      BY <2>2, NewEntries
    <3>2. CASE MustReconcile
      <4>1. disk.offer \in Delivery
        BY <2>1, <3>2 DEF MustReconcile
      <4>2. Fact("accepted", None, disk.offer) \in Entry
            /\ Fact("accepted", None, disk.offer).by = None
        BY <4>1, NewEntries DEF Fact
      <4>3. tail' = <<Fact("accepted", None, disk.offer)>> \o <<PlanUpdated(plan')>>
        BY <1>2, <3>2 DEF Restart
      <4> DEFINE a == Fact("accepted", None, disk.offer)
      <4>4. a \in Entry /\ a.by = None
        BY <4>2
      <4>5. tail' = Append(<<a>>, PlanUpdated(plan'))
        BY <4>3, TwoWrites
      <4> HIDE DEF a
      <4>6. <<a>> \in Seq(Entry) /\ Owned(<<a>>, calls')
        BY <4>4 DEF Owned
      <4> QED
        BY <3>1, <4>5, <4>6, OwnedAppend DEF TailOK
    <3>3. CASE ~MustReconcile
      <4>1. tail' = <<PlanUpdated(plan')>>
        BY <1>2, <3>3 DEF Restart
      <4> QED
        BY <3>1, <4>1 DEF TailOK, Owned
    <3> QED
      BY <3>2, <3>3
  <2> QED
    BY <1>2, <2>3, <2>4, <2>5 DEF Restart, BuildOK, CallsOK, DiskOK
<1> QED
  BY <1>1, <1>2

\* Every step keeps the shapes.
LEMMA ShapesStep == Shapes /\ [Next]_vars => Shapes'
<1> SUFFICES ASSUME Shapes, [Next]_vars PROVE Shapes'
  OBVIOUS
<1>1. CASE SyncStep \/ BuildStep \/ Prepare \/ PlanStep \/ Crash \/ Restart
  BY <1>1, SyncShapes, BuildShapes, PlanShapes, RecoveryShapes
<1>2. CASE \E c \in Callers :
             \/ CallStep(c)
             \/ \E kind \in {"accept", "rework"}, d \in seen : Call(c, kind, d)
  BY <1>2, CallShapes
<1>3. CASE UNCHANGED vars
  BY <1>3 DEF vars, Shapes, PlanOK, OfferOK, BuildOK, CallsOK, GitOK, DiskOK, TailOK
<1> QED
  BY <1>1, <1>2, <1>3 DEF Next, UserStep

\* The plan, the offer, the build, the calls, the queue of writes, the disk and
\* Git keep their types, whatever calls overlap and wherever the program dies.
THEOREM TypeCorrect == Spec => []TypeOK
<1>1. Init => Shapes
  BY ShapesInit
<1>2. Shapes /\ [Next]_vars => Shapes'
  BY ShapesStep
<1>3. Shapes => TypeOK
  BY ShapesType
<1> QED
  BY <1>1, <1>2, <1>3, PTL DEF Spec

-----------------------------------------------------------------------------
(* What a delivery claims.                                                 *)

\* The head carries what was integrated.
WorkOK == \A t \in Tasks : workAt[t] <= head
\* A build that goes on concerns tasks that are still accepted, and from the
\* inspection of the head on their work is in it.
BuiltOK ==
    build # None =>
        /\ Accepted(build.plan) \subseteq Accepted(plan)
        /\ build.pc \in {"verify", "persist"} => \A t \in Accepted(build.plan) : workAt[t] <= build.head
\* So are the tasks of a delivery that is being journaled; the build which awaits
\* that is the only one, and it awaits one.
OneReady(s) ==
    \A i, j \in DOMAIN s : s[i].kind = "ready" /\ s[j].kind = "ready" => i = j
ReadyOK ==
    /\ OneReady(tail)
    /\ \A i \in DOMAIN tail :
          tail[i].kind = "ready" =>
              /\ build # None /\ build.pc = "persist"
              /\ tail[i].delivery.tasks \subseteq Accepted(plan)
              /\ \A t \in tail[i].delivery.tasks : workAt[t] <= tail[i].delivery.head
\* A program that is down builds, writes and decides nothing.
DownOK ==
    phase = "down" => build = None /\ tail = <<>> /\ \A c \in Callers : calls[c].pc = "idle"

WorkInv == Shapes /\ WorkOK /\ BuiltOK /\ ReadyOK /\ DownOK

\* Every fact of a new delivery in these writes is on the queue, and as often.
FromTail(s) ==
    /\ \A i \in DOMAIN s : s[i].kind = "ready" => \E j \in DOMAIN tail : s[i] = tail[j]
    /\ OneReady(tail) => OneReady(s)

\* What leaves the queue or joins it takes no delivery with it.
LEMMA OneReadyFacts ==
    /\ \A s \in Seq(Entry) :
          s # <<>> /\ OneReady(s) =>
              /\ OneReady(Tail(s))
              /\ Head(s).kind = "ready" =>
                     \A i \in DOMAIN Tail(s) : Tail(s)[i].kind # "ready"
    /\ \A s \in Seq(Entry), e \in Entry :
          OneReady(s) /\ (e.kind # "ready" \/ \A i \in DOMAIN s : s[i].kind # "ready")
              => OneReady(Append(s, e))
<1>1. ASSUME NEW s \in Seq(Entry), s # <<>>, OneReady(s)
      PROVE  /\ OneReady(Tail(s))
             /\ Head(s).kind = "ready" => \A i \in DOMAIN Tail(s) : Tail(s)[i].kind # "ready"
  <2>1. /\ Head(s) = s[1] /\ 1 \in DOMAIN s
        /\ \A i \in DOMAIN Tail(s) : i + 1 \in DOMAIN s /\ Tail(s)[i] = s[i + 1]
                                     /\ i \in Nat /\ i + 1 # 1
    BY <1>1, HeadTail
  <2>2. ASSUME NEW i \in DOMAIN Tail(s), NEW j \in DOMAIN Tail(s),
               Tail(s)[i].kind = "ready", Tail(s)[j].kind = "ready"
        PROVE  i = j
    <3>1. i + 1 = j + 1
      BY <1>1, <2>1, <2>2 DEF OneReady
    <3> QED
      BY <2>1, <3>1
  <2>3. ASSUME Head(s).kind = "ready", NEW i \in DOMAIN Tail(s) PROVE Tail(s)[i].kind # "ready"
    BY <1>1, <2>1, <2>3 DEF OneReady
  <2> QED
    BY <2>2, <2>3 DEF OneReady
<1>2. ASSUME NEW s \in Seq(Entry), NEW e \in Entry, OneReady(s),
             e.kind # "ready" \/ \A i \in DOMAIN s : s[i].kind # "ready"
      PROVE  OneReady(Append(s, e))
  <2>1. \A i \in DOMAIN Append(s, e) :
           \/ i \in DOMAIN s /\ Append(s, e)[i] = s[i]
           \/ i = Len(s) + 1 /\ Append(s, e)[i] = e
    OBVIOUS
  <2> QED
    BY <1>2, <2>1 DEF OneReady
<1> QED
  BY <1>1, <1>2

\* The queue and its rest are of it, and what is appended to them is nothing new.
LEMMA FromTailFacts ==
    ASSUME Shapes
    PROVE  /\ tail \in Seq(Entry) /\ FromTail(tail)
           /\ tail # <<>> => Tail(tail) \in Seq(Entry) /\ FromTail(Tail(tail))
           /\ \A s \in Seq(Entry), e \in Entry :
                 FromTail(s) /\ e.kind # "ready" =>
                    Append(s, e) \in Seq(Entry) /\ FromTail(Append(s, e))
<1>1. tail \in Seq(Entry) /\ FromTail(tail)
  BY DEF Shapes, TailOK, FromTail
<1>2. ASSUME tail # <<>> PROVE Tail(tail) \in Seq(Entry) /\ FromTail(Tail(tail))
  BY <1>1, <1>2, HeadTail, OneReadyFacts DEF FromTail
<1>3. ASSUME NEW s \in Seq(Entry), NEW e \in Entry, FromTail(s), e.kind # "ready"
      PROVE  Append(s, e) \in Seq(Entry) /\ FromTail(Append(s, e))
  <2>1. /\ Append(s, e) \in Seq(Entry)
        /\ \A i \in DOMAIN Append(s, e) : \/ i \in DOMAIN s /\ Append(s, e)[i] = s[i]
                                          \/ Append(s, e)[i] = e
    OBVIOUS
  <2>2. OneReady(s) => OneReady(Append(s, e))
    BY <1>3, OneReadyFacts
  <2> QED
    BY <1>3, <2>1, <2>2 DEF FromTail
<1> QED
  BY <1>1, <1>2, <1>3

\* A step that takes no acceptance back and journals no new delivery keeps what the
\* journaled ones claim.
LEMMA ReadyKept ==
    ASSUME ReadyOK, Accepted(plan) \subseteq Accepted(plan'),
           \A t \in Accepted(plan) : workAt'[t] = workAt[t],
           NEW s, tail' = s, FromTail(s),
           build' = build \/ \A i \in DOMAIN s : s[i].kind # "ready"
    PROVE  ReadyOK'
BY DEF ReadyOK, FromTail, OneReady

\* So does it keep what the build claims.
LEMMA BuiltKept ==
    ASSUME BuiltOK, Accepted(plan) \subseteq Accepted(plan'),
           \A t \in Accepted(plan) : workAt'[t] = workAt[t],
           \/ build' \in {build, None}
           \/ build # None /\ build' \in Build /\ build'.pc = "return" /\ build'.plan = build.plan
    PROVE  BuiltOK'
BY DEF BuiltOK

\* The plan.
LEMMA PlanWork == WorkInv /\ PlanStep => WorkOK' /\ BuiltOK' /\ ReadyOK' /\ DownOK'
<1> SUFFICES ASSUME WorkInv, PlanStep PROVE WorkOK' /\ BuiltOK' /\ ReadyOK' /\ DownOK'
  OBVIOUS
<1> USE DEF WorkInv
<1>1. plan \in Plan /\ GitOK
  BY DEF Shapes, PlanOK
<1>2. build' = build /\ phase' = phase /\ phase = "up"
  BY DEF PlanStep, AddTask, CancelTask, RevisePlan, CanReplan, IntegrateTask, AcceptTask
<1>3. Accepted(plan) \subseteq Accepted(plan')
  BY <1>1 DEF PlanStep, AddTask, CancelTask, RevisePlan, IntegrateTask, AcceptTask, Replan,
     Accepted, Plan
<1>4. /\ \A t \in Accepted(plan) : workAt'[t] = workAt[t]
      /\ WorkOK'
  <2>1. CASE \E t \in Tasks : IntegrateTask(t)
    BY <1>1, <2>1, Bounds DEF IntegrateTask, Accepted, GitOK, WorkOK
  <2>2. CASE ~\E t \in Tasks : IntegrateTask(t)
    BY <2>2 DEF PlanStep, AddTask, CancelTask, RevisePlan, AcceptTask, histVars, gitVars, WorkOK
  <2> QED
    BY <2>1, <2>2
<1>5. PICK s : tail' = s /\ FromTail(s)
  <2>1. CASE tail' = tail
    BY <2>1, FromTailFacts
  <2>2. CASE tail' = Append(tail, PlanUpdated(plan'))
    <3>1. plan' \in Plan
      BY PlanShapes DEF Shapes, PlanOK
    <3>2. PlanUpdated(plan') \in Entry /\ PlanUpdated(plan').kind # "ready"
      BY <3>1, NewEntries DEF PlanUpdated
    <3> QED
      BY <2>2, <3>2, FromTailFacts
  <2> QED
    BY <2>1, <2>2 DEF PlanStep, AddTask, CancelTask, RevisePlan, IntegrateTask, AcceptTask,
       Replan
<1>6. ReadyOK' /\ BuiltOK'
  BY <1>2, <1>3, <1>4, <1>5, ReadyKept, BuiltKept
<1> QED
  BY <1>2, <1>4, <1>6 DEF DownOK

\* The build reads the tasks before the head, and journals what it read.
LEMMA BuildWork == WorkInv /\ (BuildStep \/ Prepare) => WorkOK' /\ BuiltOK' /\ ReadyOK' /\ DownOK'
<1> SUFFICES ASSUME WorkInv, BuildStep \/ Prepare
             PROVE  WorkOK' /\ BuiltOK' /\ ReadyOK' /\ DownOK'
  OBVIOUS
<1> USE DEF WorkInv
<1>1. /\ plan' = plan /\ workAt' = workAt /\ head' = head /\ phase' = phase
      /\ build \in Build \cup {None}
  BY DEF BuildStep, Prepare, InspectHead, BuildNotReady, BuildReturns, BuildReady, planVars,
     gitVars, histVars, Shapes, BuildOK
<1>2. WorkOK' /\ DownOK'
  <2>1. phase # "down"
    BY DEF BuildStep, Prepare, InspectHead, BuildNotReady, BuildReturns, BuildReady, DownOK
  <2> QED
    BY <1>1, <2>1 DEF WorkOK, DownOK
<1>3. CASE Prepare
  <2>1. BuiltOK'
    BY <1>1, <1>3 DEF Prepare, NewBuild, BuiltOK
  <2> QED
    BY <1>1, <1>2, <1>3, <2>1 DEF Prepare, ReadyOK
<1>4. CASE InspectHead
  <2>1. BuiltOK'
    BY <1>1, <1>4 DEF InspectHead, Returns, BuiltOK, Build, WorkOK, Accepted
  <2> QED
    BY <1>1, <1>2, <1>4, <2>1 DEF InspectHead, ReadyOK
<1>5. CASE BuildNotReady
  <2>1. BuiltOK'
    BY <1>1, <1>5 DEF BuildNotReady, Returns, BuiltOK, Build
  <2> QED
    BY <1>1, <1>2, <1>5, <2>1 DEF BuildNotReady, ReadyOK
<1>6. CASE BuildReturns
  BY <1>1, <1>2, <1>6 DEF BuildReturns, BuiltOK, ReadyOK
<1>7. CASE BuildReady
  <2> DEFINE d == [tasks |-> DeliveredTasks, version |-> plan.version,
                   head |-> build.head, expected |-> expected]
             e == Fact("ready", None, d)
  <2>1. BuiltOK'
    BY <1>1, <1>7 DEF BuildReady, BuiltOK, Build
  <2>2. tail' = Append(tail, e) /\ build # None /\ build.pc = "verify"
    BY <1>7 DEF BuildReady
  <2>3. d.tasks = Accepted(build.plan) /\ d.head = build.head /\ e.delivery = d
    BY DEF DeliveredTasks, Fact
  <2>4. d.tasks \subseteq Accepted(plan) /\ \A t \in d.tasks : workAt[t] <= d.head
    BY <2>2, <2>3 DEF BuiltOK
  <2> HIDE DEF d, e
  <2>5. \A i \in DOMAIN tail' : \/ i \in DOMAIN tail /\ tail'[i] = tail[i]
                                \/ tail'[i] = e
    BY <2>2 DEF Shapes, TailOK
  <2>6. \A i \in DOMAIN tail : tail[i].kind # "ready"
    BY <2>2 DEF ReadyOK
  <2>7. OneReady(tail')
    <3>1. \A i \in DOMAIN tail' : \/ i \in DOMAIN tail /\ tail'[i] = tail[i]
                                  \/ i = Len(tail) + 1
      BY <2>2 DEF Shapes, TailOK
    <3> QED
      BY <2>6, <3>1 DEF OneReady
  <2>8. build' # None /\ build'.pc = "persist"
    BY <1>1, <1>7, NoneAssumption DEF BuildReady, Build
  <2>9. ReadyOK'
    BY <1>1, <2>3, <2>4, <2>5, <2>6, <2>7, <2>8 DEF ReadyOK
  <2> QED
    BY <1>2, <2>1, <2>9
<1> QED
  BY <1>3, <1>4, <1>5, <1>6, <1>7 DEF BuildStep

\* Calls decide and publish; they take no acceptance back.
LEMMA CallWork ==
    ASSUME WorkInv, NEW c \in Callers,
           \/ CallStep(c)
           \/ \E kind \in {"accept", "rework"}, d \in seen : Call(c, kind, d)
    PROVE  WorkOK' /\ BuiltOK' /\ ReadyOK' /\ DownOK'
<1> USE DEF WorkInv
<1>1. /\ plan' = plan /\ workAt' = workAt /\ head' = head /\ phase' = phase
  BY DEF CallStep, Call, Decide, StartPublication, MergeBase, planVars, gitVars, histVars
<1>2. WorkOK'
  BY <1>1 DEF WorkOK
<1>3. ASSUME NEW kind \in {"accept", "rework"}, NEW d \in seen, Call(c, kind, d)
      PROVE  BuiltOK' /\ ReadyOK' /\ DownOK'
  BY <1>1, <1>3 DEF Call, NewBuild, BuiltOK, ReadyOK, DownOK
<1>4. CASE CallStep(c)
  <2>1. build' = build
    BY <1>4 DEF CallStep, Decide, StartPublication, MergeBase
  <2>2. \A k \in {"accept-intent", "rework-intent", "publishing", "published", "paused"} :
           Fact(k, c, calls[c].delivery).kind # "ready"
    BY DEF Fact
  <2>3. PICK e : tail' \in {tail, Append(tail, e)} /\ e.kind # "ready"
    BY <1>4, <2>2 DEF CallStep, Decide, StartPublication, MergeBase
  <2>4. tail' = tail \/ e \in Entry
    <3>1. tail' \in Seq(Entry) /\ tail \in Seq(Entry)
      BY <1>4, CallShapes DEF Shapes, TailOK
    <3>2. CASE tail' = Append(tail, e)
      <4>1. Len(tail') = Len(tail) + 1 /\ tail'[Len(tail) + 1] = e
        BY <3>1, <3>2
      <4> QED
        BY <3>1, <4>1
    <3> QED
      BY <2>3, <3>2
  <2>5. PICK s : tail' = s /\ FromTail(s)
    <3>1. CASE tail' = tail
      BY <3>1, FromTailFacts
    <3>2. CASE tail' # tail
      <4>1. e \in Entry /\ tail' = Append(tail, e) /\ e.kind # "ready"
        BY <2>3, <2>4, <3>2
      <4> QED
        BY <4>1, FromTailFacts
    <3> QED
      BY <3>1, <3>2
  <2>6. BuiltOK' /\ ReadyOK'
    BY <1>1, <2>1, <2>5, BuiltKept, ReadyKept
  <2>7. phase # "down"
    BY <1>4 DEF CallStep, Decide, StartPublication, MergeBase, DownOK
  <2> QED
    BY <1>1, <1>2, <2>6, <2>7 DEF DownOK
<1> QED
  BY <1>2, <1>3, <1>4

\* A delivery becomes durable as it was journaled.
LEMMA SyncWork == WorkInv /\ SyncStep => WorkOK' /\ BuiltOK' /\ ReadyOK' /\ DownOK'
<1> SUFFICES ASSUME WorkInv, SyncStep PROVE WorkOK' /\ BuiltOK' /\ ReadyOK' /\ DownOK'
  OBVIOUS
<1> USE DEF WorkInv
<1>1. /\ workAt' = workAt /\ head' = head
      /\ phase' \in {phase, "up"} /\ tail # <<>>
  BY DEF SyncStep, SyncPlan, SyncSnapshot, SyncReady, SyncAcceptIntent, SyncPublication,
     SyncAccepted, SyncReworkIntent, SyncReworkCreated, gitVars, histVars, Due
<1>2. WorkOK'
  BY <1>1 DEF WorkOK
<1>3. phase # "down" /\ DownOK'
  BY <1>1 DEF DownOK
<1>4. Accepted(plan) \subseteq Accepted(plan') /\ plan \in Plan /\ plan' \in Plan
  <2>1. plan \in Plan /\ plan' \in Plan
    BY SyncShapes DEF Shapes, PlanOK
  <2>2. CASE plan' = plan
    BY <2>1, <2>2
  <2>3. CASE plan' # plan
    <3>1. SyncReworkIntent /\ Accepted(plan) # {}
      BY <2>3 DEF SyncStep, SyncPlan, SyncSnapshot, SyncReady, SyncAcceptIntent,
         SyncPublication, SyncAccepted, SyncReworkIntent, SyncReworkCreated, planVars
    <3>2. PICK fresh \in kSubset(Cardinality(Accepted(plan)), Tasks \ Known(plan)) :
             plan' = [status |-> [t \in Tasks |-> IF t \in fresh THEN "open"
                                                  ELSE plan.status[t]],
                      version |-> NextVersion]
      BY <3>1 DEF SyncReworkIntent
    <3>3. fresh \subseteq Tasks \ Known(plan)
      BY <3>2 DEF kSubset
    <3> QED
      BY <2>1, <3>2, <3>3 DEF Accepted, Known
  <2> QED
    BY <2>2, <2>3
<1>5. PICK s : tail' = s /\ FromTail(s)
  <2>1. Tail(tail) \in Seq(Entry) /\ FromTail(Tail(tail))
    BY <1>1, FromTailFacts
  <2>2. CASE tail' = Tail(tail)
    BY <2>1, <2>2
  <2>3. CASE tail' = Append(Tail(tail), Snapshot(plan, evidence))
    <3>1. Snapshot(plan, evidence) \in Entry /\ Snapshot(plan, evidence).kind # "ready"
      BY NewEntries DEF Snapshot, Shapes, PlanOK
    <3> QED
      BY <2>1, <2>3, <3>1, FromTailFacts
  <2>4. ASSUME NEW c, NEW d, Head(tail).by = c, Head(tail).delivery = d, Due("published"),
               tail' = Append(Tail(tail), Fact("accepted", c, d))
        PROVE  \E s : tail' = s /\ FromTail(s)
    <3>1. Fact("accepted", c, d) \in Entry
      <4>1. c \in Callers /\ d \in Delivery
        BY <2>4, DueFacts DEF CallFacts
      <4> QED
        BY <4>1, NewEntries
    <3>2. Fact("accepted", c, d).kind # "ready"
      BY DEF Fact
    <3> QED
      BY <2>1, <2>4, <3>1, <3>2, FromTailFacts
  <2>5. ASSUME NEW c, NEW d, Head(tail).by = c, Head(tail).delivery = d, Due("rework-intent"),
               tail' = Tail(tail) \o <<PlanUpdated(plan'), Fact("rework-created", c, d)>>
        PROVE  \E s : tail' = s /\ FromTail(s)
    <3>1. PlanUpdated(plan') \in Entry /\ PlanUpdated(plan').kind # "ready"
      BY <1>4, NewEntries DEF PlanUpdated
    <3>2. Fact("rework-created", c, d) \in Entry
      <4>1. c \in Callers /\ d \in Delivery
        BY <2>5, DueFacts DEF CallFacts
      <4> QED
        BY <4>1, NewEntries DEF CallFacts
    <3>3. Fact("rework-created", c, d).kind # "ready"
      BY DEF Fact
    <3>4. tail' = Append(Append(Tail(tail), PlanUpdated(plan')), Fact("rework-created", c, d))
      BY <2>1, <2>5, <3>1, <3>2
    <3> QED
      BY <2>1, <3>1, <3>2, <3>3, <3>4, FromTailFacts
  <2> QED
    BY <2>2, <2>3, <2>4, <2>5 DEF SyncStep, SyncPlan, SyncSnapshot, SyncReady,
       SyncAcceptIntent, SyncPublication, SyncAccepted, SyncReworkIntent, SyncReworkCreated
<1>6. BuiltOK' /\ ReadyOK'
  <2>1. CASE SyncReady
    <3>1. /\ Due("ready") /\ build # None /\ Returns(Head(tail).delivery)
          /\ tail' = Append(Tail(tail), Snapshot(plan, evidence))
      BY <2>1 DEF SyncReady
    <3>2. build' \in Build \cup {None} /\ build \in Build
      BY <3>1, SyncShapes DEF Shapes, BuildOK
    <3>3. build' \in Build /\ build'.pc = "return" /\ build'.plan = build.plan
      <4>1. PICK d \in Delivery : build' = [build EXCEPT !.pc = "return", !.result = d]
        BY <3>1, DueFacts DEF Returns
      <4> QED
        BY <3>2, <4>1 DEF Build
    <3>4. /\ tail # <<>> /\ tail \in Seq(Entry) /\ Tail(tail) \in Seq(Entry)
          /\ Head(tail).kind = "ready"
      BY <3>1, DueFacts
    <3>5. \A i \in DOMAIN Tail(tail) : Tail(tail)[i].kind # "ready"
      BY <3>4, OneReadyFacts DEF ReadyOK
    <3>6. \A i \in DOMAIN tail' : \/ i \in DOMAIN Tail(tail) /\ tail'[i] = Tail(tail)[i]
                                  \/ tail'[i] = Snapshot(plan, evidence)
      BY <3>1, <3>4
    <3>7. \A i \in DOMAIN tail' : tail'[i].kind # "ready"
      BY <3>5, <3>6 DEF Snapshot
    <3> QED
      BY <1>1, <1>4, <1>5, <3>1, <3>3, <3>7, BuiltKept, ReadyKept
  <2>2. CASE ~SyncReady
    <3>1. build' = build
      BY <2>2 DEF SyncStep, SyncPlan, SyncSnapshot, SyncAcceptIntent, SyncPublication,
         SyncAccepted, SyncReworkIntent, SyncReworkCreated
    <3> QED
      BY <1>1, <1>4, <1>5, <3>1, BuiltKept, ReadyKept
  <2> QED
    BY <2>1, <2>2
<1> QED
  BY <1>2, <1>3, <1>6

\* A restart begins without a build, and journals no new delivery.
LEMMA RecoveryWork == WorkInv /\ (Crash \/ Restart) => WorkOK' /\ BuiltOK' /\ ReadyOK' /\ DownOK'
<1> SUFFICES ASSUME WorkInv, Crash \/ Restart
             PROVE  WorkOK' /\ BuiltOK' /\ ReadyOK' /\ DownOK'
  OBVIOUS
<1> USE DEF WorkInv
<1>1. workAt' = workAt /\ head' = head /\ build' = None
  BY DEF Crash, Restart, gitVars, histVars, DownOK
<1>2. WorkOK' /\ BuiltOK'
  BY <1>1 DEF WorkOK, BuiltOK
<1>3. CASE Crash
  BY <1>2, <1>3 DEF Crash, Idle, ReadyOK, OneReady, DownOK
<1>4. CASE Restart
  <2> DEFINE a == Fact("accepted", None, disk.offer)
             b == PlanUpdated(plan')
  <2>1. a.kind # "ready" /\ b.kind # "ready"
    BY DEF Fact, PlanUpdated
  <2>2. tail' \in {<<a>> \o <<b>>, <<>> \o <<b>>} /\ phase' # "down"
    BY <1>4 DEF Restart
  <2> HIDE DEF a, b
  <2>3. ReadyOK'
    BY <2>1, <2>2 DEF ReadyOK, OneReady
  <2> QED
    BY <1>2, <2>2, <2>3 DEF DownOK
<1> QED
  BY <1>3, <1>4

\* Every step keeps the claims.
LEMMA WorkStep == WorkInv /\ [Next]_vars => WorkInv'
<1> SUFFICES ASSUME WorkInv, [Next]_vars PROVE WorkInv'
  OBVIOUS
<1>1. Shapes'
  BY ShapesStep DEF WorkInv
<1>2. CASE SyncStep \/ BuildStep \/ Prepare \/ PlanStep \/ Crash \/ Restart
  BY <1>1, <1>2, SyncWork, BuildWork, PlanWork, RecoveryWork DEF WorkInv
<1>3. CASE \E c \in Callers :
             \/ CallStep(c)
             \/ \E kind \in {"accept", "rework"}, d \in seen : Call(c, kind, d)
  BY <1>1, <1>3, CallWork DEF WorkInv
<1>4. CASE UNCHANGED vars
  BY <1>1, <1>4 DEF vars, WorkInv, WorkOK, BuiltOK, ReadyOK, DownOK
<1> QED
  BY <1>2, <1>3, <1>4 DEF Next, UserStep

\* A delivery that is offered claims only tasks whose work its head carries: the tasks
\* are read before the head and the acceptance of a task is never taken back, so that
\* neither awaits, revisions, reworks nor crashes come between the two.
THEOREM DeliveredWork == Spec => DeliveredWorkInHead
<1>1. Init => WorkInv
  <2>1. Init => Shapes
    BY ShapesInit
  <2>2. Init => WorkOK /\ BuiltOK /\ ReadyOK /\ DownOK
    BY DEF Init, WorkOK, BuiltOK, ReadyOK, OneReady, DownOK
  <2> QED
    BY <2>1, <2>2 DEF WorkInv
<1>2. WorkInv /\ [Next]_vars =>
        [\A d \in seen' \ seen : \A t \in d.tasks : workAt[t] <= d.head]_vars
  <2> SUFFICES ASSUME WorkInv, [Next]_vars, NEW d \in seen' \ seen
               PROVE  \A t \in d.tasks : workAt[t] <= d.head
    OBVIOUS
  <2>1. SyncReady
    BY DEF Next, SyncStep, BuildStep, CallStep, PlanStep, SyncPlan, SyncSnapshot,
       SyncAcceptIntent, SyncPublication, SyncAccepted, SyncReworkIntent, SyncReworkCreated,
       InspectHead, BuildNotReady, BuildReturns, BuildReady, Decide, StartPublication, MergeBase,
       AddTask, CancelTask, IntegrateTask, AcceptTask, RevisePlan, Prepare, Call, Crash,
       Restart, UserStep, offerVars, vars
  <2>2. d = Head(tail).delivery /\ Due("ready")
    BY <2>1 DEF SyncReady
  <2>3. Head(tail) = tail[1] /\ 1 \in DOMAIN tail /\ tail[1].kind = "ready"
    BY <2>2, HeadTail, DueFacts DEF WorkInv
  <2> QED
    BY <2>2, <2>3 DEF WorkInv, ReadyOK
<1> QED
  BY <1>1, <1>2, WorkStep, PTL DEF Spec, DeliveredWorkInHead
-----------------------------------------------------------------------------
(* The decision.                                                           *)

\* No decision about this delivery is journaled, or more than one may be.
Undecided(d) == d \in Unsettled \/ \A x \in decided : x.delivery # d

\* What is offered and decided in memory is what is on disk.
MemoryOK == offer = disk.offer /\ decision = disk.decision

\* Calls, decisions and publications are about deliveries that were offered.
SeenOK ==
    /\ offer \in seen \cup {None}
    /\ \A c \in Callers : calls[c].pc # "idle" => calls[c].delivery \in seen
    /\ \A x \in decided : x.delivery \in seen
    /\ disk.publication \in Publication => disk.publication.delivery \in seen

\* A fact with a call behind it is about the delivery of that call.
FactsOK == \A i \in DOMAIN tail :
              tail[i].by # None => tail[i].delivery = calls[tail[i].by].delivery

\* While start() records an acceptance it does nothing else, and a program that is
\* down does nothing.
Recovers(i) == tail[i].kind = "accepted" /\ tail[i].by = None
StartingOK ==
    /\ phase # "up" => build = None /\ \A c \in Callers : calls[c].pc = "idle"
    /\ phase = "down" => tail = <<>>
    /\ phase = "starting" =>
          /\ 1 \in DOMAIN tail /\ Recovers(1)
          /\ tail[1].delivery = offer /\ decision = None
    /\ \A i \in DOMAIN tail : Recovers(i) => phase = "starting" /\ i = 1

\* As long as nothing is decided about the delivery on offer, it is undecided; so is
\* what a build returns and a call is about to decide.
OfferOpen == offer # None /\ decision = None => Undecided(offer)
ResultOpen ==
    build # None /\ build.pc = "return" /\ build.result # None /\ decision = None
        => Undecided(build.result)
CallsOpen ==
    \A c \in Callers :
        calls[c].pc = "decide" /\ calls[c].result # None /\ decision = None
            => Undecided(calls[c].result)

\* A call that no other overlaps decides alone what nobody decided.
PendingOK ==
    \A c \in Pending : \/ calls[c].delivery \in contested
                       \/ Pending = {c} /\ decision = None /\ Undecided(calls[c].delivery)

\* Its intent is on disk before it publishes.
Records(c, i) == tail[i].kind = "accepted" /\ tail[i].by = c
Publishes(c) == \/ calls[c].pc \in {"publish", "start", "merge", "complete"}
                \/ \E i \in DOMAIN tail : Records(c, i)
IntentOK ==
    \A c \in Callers : Publishes(c) => \/ calls[c].delivery \in contested
                                       \/ disk.intent = calls[c].delivery

\* A completed publication of the delivery on offer is recorded, is about to be, or
\* is what a restart reconciles.
RecordedOK ==
    offer \notin Unsettled \cup {None}
        /\ disk.publication = [state |-> "published", delivery |-> offer] =>
            \/ decision = [kind |-> "accept", delivery |-> offer] /\ Pending = {}
            \/ \E c \in Callers : /\ calls[c].delivery = offer
                                  /\ \E i \in DOMAIN tail : Records(c, i)
            \/ phase # "up" /\ decision = None /\ disk.intent = offer

DecisionInv ==
    /\ MemoryOK /\ SeenOK /\ FactsOK /\ StartingOK /\ OfferOpen /\ ResultOpen /\ CallsOpen
    /\ PendingOK /\ IntentOK /\ RecordedOK /\ OneDecisionPerDelivery

\* Nobody's call is over while its fact is on the queue.
Owners ==
    \A i \in DOMAIN tail :
        tail[i].by # None =>
            /\ tail[i].by \in Pending /\ tail[i].by \in Callers
            /\ Awaits(calls[tail[i].by].pc, tail[i].kind)
            /\ \A j \in DOMAIN tail : tail[j].by = tail[i].by => j = i
LEMMA OwnersWait == Shapes => Owners
<1> SUFFICES ASSUME Shapes, NEW i \in DOMAIN tail, tail[i].by # None
             PROVE  /\ tail[i].by \in Pending /\ tail[i].by \in Callers
                    /\ Awaits(calls[tail[i].by].pc, tail[i].kind)
                    /\ \A j \in DOMAIN tail : tail[j].by = tail[i].by => j = i
  BY DEF Owners
<1>1. tail[i] \in Entry /\ Owned(tail, calls)
  BY DEF Shapes, TailOK
<1>2. tail[i].by \in Callers
  BY <1>1, EntryFacts
<1>3. /\ Awaits(calls[tail[i].by].pc, tail[i].kind)
      /\ \A j \in DOMAIN tail : tail[j].by = tail[i].by => j = i
  BY <1>1 DEF Owned
<1> QED
  BY <1>2, <1>3 DEF Awaits, Pending, Deciding

\* A call is pending in a program that is up.
LEMMA PendingUp == Shapes /\ StartingOK /\ Pending # {} => phase = "up"
BY DEF StartingOK, Pending, Deciding

\* Writes that follow those on the queue: new ones are no facts, or facts of the call
\* that journals them, and no acceptance is lost.
Quiet == {"plan", "snapshot", "ready"}
Follows(s) ==
    /\ \A i \in DOMAIN s :
          \/ s[i].kind \in Quiet /\ s[i].by = None
          \/ \E j \in DOMAIN tail : s[i] = tail[j]
          \/ /\ s[i].by \in Callers /\ s[i].delivery = calls[s[i].by].delivery
             /\ s[i].kind = "accepted" => Publishes(s[i].by)
    /\ \A j \in DOMAIN tail : tail[j].kind = "accepted" => \E i \in DOMAIN s : s[i] = tail[j]

LEMMA FollowsFacts ==
    ASSUME Shapes
    PROVE  /\ tail \in Seq(Entry) /\ Follows(tail)
           /\ tail # <<>> /\ Head(tail).kind # "accepted" =>
                 Tail(tail) \in Seq(Entry) /\ Follows(Tail(tail))
           /\ \A s \in Seq(Entry), e \in Entry :
                 /\ Follows(s)
                 /\ \/ e.kind \in Quiet /\ e.by = None
                    \/ /\ e.by \in Callers /\ e.delivery = calls[e.by].delivery
                       /\ e.kind = "accepted" => Publishes(e.by)
                 => Append(s, e) \in Seq(Entry) /\ Follows(Append(s, e))
<1>1. tail \in Seq(Entry) /\ Follows(tail)
  BY DEF Shapes, TailOK, Follows
<1>2. ASSUME tail # <<>>, Head(tail).kind # "accepted"
      PROVE  Tail(tail) \in Seq(Entry) /\ Follows(Tail(tail))
  <2>1. /\ Tail(tail) \in Seq(Entry) /\ Head(tail) = tail[1]
        /\ \A i \in DOMAIN Tail(tail) : i + 1 \in DOMAIN tail /\ Tail(tail)[i] = tail[i + 1]
    BY <1>1, <1>2, HeadTail
  <2>2. \A j \in DOMAIN tail : j # 1 => j - 1 \in DOMAIN Tail(tail) /\ Tail(tail)[j - 1] = tail[j]
    BY <1>1, <1>2
  <2>3. \A j \in DOMAIN tail : tail[j].kind = "accepted" => j # 1
    BY <1>2, <2>1
  <2> QED
    BY <2>1, <2>2, <2>3 DEF Follows
<1>3. ASSUME NEW s \in Seq(Entry), NEW e \in Entry, Follows(s),
             \/ e.kind \in Quiet /\ e.by = None
             \/ /\ e.by \in Callers /\ e.delivery = calls[e.by].delivery
                /\ e.kind = "accepted" => Publishes(e.by)
      PROVE  Append(s, e) \in Seq(Entry) /\ Follows(Append(s, e))
  <2>1. /\ Append(s, e) \in Seq(Entry)
        /\ \A i \in DOMAIN Append(s, e) : \/ i \in DOMAIN s /\ Append(s, e)[i] = s[i]
                                          \/ Append(s, e)[i] = e
        /\ \A i \in DOMAIN s : i \in DOMAIN Append(s, e) /\ Append(s, e)[i] = s[i]
    OBVIOUS
  <2> DEFINE t == Append(s, e)
  <2>2. /\ \A i \in DOMAIN t : (i \in DOMAIN s /\ t[i] = s[i]) \/ t[i] = e
        /\ \A i \in DOMAIN s : i \in DOMAIN t /\ t[i] = s[i]
    BY <2>1
  <2> HIDE DEF t
  <2>3. Follows(t)
    BY <1>3, <2>2 DEF Follows
  <2> QED
    BY <2>1, <2>3 DEF t
<1> QED
  BY <1>1, <1>2, <1>3

\* The facts after such a step.
LEMMA FactsAfter ==
    ASSUME Shapes, Shapes', FactsOK, StartingOK, phase = "up", phase' = "up",
           \A c \in Pending' : calls'[c].delivery = calls[c].delivery,
           Follows(tail')
    PROVE  FactsOK' /\ StartingOK'
<1>1. ASSUME NEW i \in DOMAIN tail', tail'[i].by # None
      PROVE  tail'[i].delivery = calls'[tail'[i].by].delivery
  <2>1. Owners'
    BY OwnersWait, PTL
  <2>2. tail'[i].by \in Pending'
    BY <1>1, <2>1 DEF Owners
  <2>3. calls'[tail'[i].by].delivery = calls[tail'[i].by].delivery
    BY <2>2
  <2> QED
    BY <1>1, <2>3 DEF Follows, FactsOK
<1>2. ASSUME NEW i \in DOMAIN tail', tail'[i].kind = "accepted", tail'[i].by = None
      PROVE  FALSE
  BY <1>2, NoneAssumption DEF Follows, StartingOK, Recovers, Quiet
<1>3. FactsOK'
  BY <1>1 DEF FactsOK
<1> QED
  BY <1>2, <1>3 DEF StartingOK, Recovers

\* A step that decides nothing and adds no call to the pending ones.
Calm == /\ UNCHANGED <<offer, decision, seen, decided, reoffered, contested>>
        /\ disk'.offer = disk.offer /\ disk'.decision = disk.decision
        /\ Pending' \subseteq Pending
        /\ \A c \in Pending' : calls'[c].delivery = calls[c].delivery

\* What such a step leaves as it was.
LEMMA CalmKeeps ==
    ASSUME Shapes, DecisionInv, Calm
    PROVE  MemoryOK' /\ OfferOpen' /\ PendingOK' /\ OneDecisionPerDelivery'
<1>1. \A d : Undecided(d) => Undecided(d)'
  BY DEF Calm, Undecided, Unsettled
<1>2. MemoryOK' /\ OfferOpen' /\ OneDecisionPerDelivery'
  BY <1>1 DEF Calm, DecisionInv, MemoryOK, OfferOpen, OneDecisionPerDelivery, Undecided,
     Unsettled
<1>3. PendingOK'
  <2> SUFFICES ASSUME NEW c \in Pending', calls'[c].delivery \notin contested'
               PROVE  Pending' = {c} /\ decision' = None /\ Undecided(calls[c].delivery)'
    BY DEF PendingOK
  <2>1. c \in Pending /\ calls[c].delivery \notin contested
        /\ calls'[c].delivery = calls[c].delivery
    BY DEF Calm
  <2>2. Pending = {c} /\ decision = None /\ Undecided(calls[c].delivery)
    BY <2>1 DEF DecisionInv, PendingOK
  <2>3. Pending' = {c} /\ decision' = None
    BY <2>2 DEF Calm
  <2>4. Undecided(calls[c].delivery)'
    BY <2>2, <2>1 DEF Calm, Undecided, Unsettled
  <2> QED
    BY <2>1, <2>3, <2>4
<1> QED
  BY <1>2, <1>3

\* A publication that was completed before.
LEMMA RecordedKept ==
    ASSUME Shapes, DecisionInv, Calm, disk'.publication = disk.publication, phase = "up",
           Follows(tail'), Shapes'
    PROVE  RecordedOK'
<1> SUFFICES ASSUME offer \notin Unsettled \cup {None},
                    disk.publication = [state |-> "published", delivery |-> offer]
             PROVE  \/ decision = [kind |-> "accept", delivery |-> offer] /\ Pending' = {}
                    \/ \E c \in Callers : /\ calls'[c].delivery = offer
                                          /\ \E i \in DOMAIN tail' : Records(c, i)'
  BY DEF Calm, RecordedOK, Unsettled
<1>1. CASE decision = [kind |-> "accept", delivery |-> offer] /\ Pending = {}
  BY <1>1 DEF Calm
<1>2. ASSUME NEW c \in Callers, calls[c].delivery = offer, NEW j \in DOMAIN tail, Records(c, j)
      PROVE  /\ calls'[c].delivery = offer
             /\ \E i \in DOMAIN tail' : Records(c, i)'
  <2>1. PICK i \in DOMAIN tail' : tail'[i] = tail[j]
    BY <1>2 DEF Follows, Records
  <2>2. Records(c, i)'
    BY <1>2, <2>1 DEF Records
  <2>3. Owners'
    BY OwnersWait, PTL
  <2>4. c \in Pending'
    BY <1>2, <2>2, <2>3, NoneAssumption DEF Records, Owners
  <2> QED
    BY <1>2, <2>2, <2>4 DEF Calm
<1>3. \/ decision = [kind |-> "accept", delivery |-> offer] /\ Pending = {}
      \/ \E c \in Callers : calls[c].delivery = offer /\ \E j \in DOMAIN tail : Records(c, j)
  BY DEF DecisionInv, RecordedOK
<1> QED
  BY <1>1, <1>2, <1>3

\* An intent on disk stays there as long as no other one is written.
LEMMA IntentKept ==
    ASSUME Shapes, DecisionInv, Calm, disk'.intent = disk.intent, Follows(tail'), Shapes',
           \A c \in Callers :
              calls'[c].pc \in {"publish", "start", "merge", "complete"} => Publishes(c)
    PROVE  IntentOK'
<1> SUFFICES ASSUME NEW c \in Callers, Publishes(c)'
             PROVE  \/ calls'[c].delivery \in contested'
                    \/ disk'.intent = calls'[c].delivery
  BY DEF IntentOK
<1>1. c \in Pending' /\ Publishes(c)
  <2>1. CASE calls'[c].pc \in {"publish", "start", "merge", "complete"}
    BY <2>1 DEF Pending, Deciding
  <2>2. ASSUME NEW i \in DOMAIN tail', Records(c, i)' PROVE c \in Pending' /\ Publishes(c)
    <3>1. Owners'
      BY OwnersWait, PTL
    <3>2. tail'[i].kind = "accepted" /\ tail'[i].by = c /\ c # None
      BY <2>2, NoneAssumption DEF Records
    <3>3. Publishes(c)
      BY <3>2 DEF Follows, Quiet, Publishes, Records
    <3> QED
      BY <3>1, <3>2, <3>3 DEF Owners
  <2> QED
    BY <2>1, <2>2 DEF Publishes
<1> QED
  BY <1>1 DEF DecisionInv, IntentOK, Calm

\* A step that decides and publishes nothing.
LEMMA CalmStep ==
    ASSUME Shapes, Shapes', DecisionInv, Calm, phase = "up", phase' = "up", Follows(tail'),
           disk'.intent = disk.intent, disk'.publication = disk.publication,
           \A c \in Callers :
              /\ calls'[c].pc \in {"publish", "start", "merge", "complete"} => Publishes(c)
              /\ calls'[c].pc # "idle" => calls'[c].delivery \in seen,
           ResultOpen', CallsOpen'
    PROVE  DecisionInv'
<1>1. MemoryOK' /\ OfferOpen' /\ PendingOK' /\ OneDecisionPerDelivery'
  BY CalmKeeps
<1>2. RecordedOK' /\ IntentOK'
  BY RecordedKept, IntentKept
<1>3. FactsOK' /\ StartingOK'
  BY FactsAfter DEF DecisionInv, Calm
<1>4. SeenOK'
  BY DEF DecisionInv, SeenOK, Calm
<1> QED
  BY <1>1, <1>2, <1>3, <1>4 DEF DecisionInv

\* A step of nobody's call.
LEMMA QuietStep ==
    ASSUME Shapes, Shapes', DecisionInv, phase = "up", phase' = "up", Follows(tail'),
           UNCHANGED <<offer, decision, seen, decided, reoffered, contested, calls>>,
           disk'.offer = disk.offer, disk'.decision = disk.decision,
           disk'.intent = disk.intent, disk'.publication = disk.publication,
           ResultOpen'
    PROVE  DecisionInv'
<1>1. Calm
  BY DEF Calm, Pending
<1>2. CallsOpen'
  BY DEF DecisionInv, CallsOpen, Undecided, Unsettled
<1>3. \A c \in Callers :
         /\ calls'[c].pc \in {"publish", "start", "merge", "complete"} => Publishes(c)
         /\ calls'[c].pc # "idle" => calls'[c].delivery \in seen
  BY DEF DecisionInv, SeenOK, Publishes
<1> QED
  BY <1>1, <1>2, <1>3, CalmStep

\* A build that goes on or is over returns nothing else.
LEMMA ResultKept ==
    ASSUME DecisionInv, UNCHANGED <<decision, decided, reoffered, contested>>,
           build' \in {build, None}
    PROVE  ResultOpen'
BY DEF DecisionInv, ResultOpen, Undecided, Unsettled

\* The plan.
LEMMA PlanDecision == Shapes /\ DecisionInv /\ PlanStep => DecisionInv'
<1> SUFFICES ASSUME Shapes, DecisionInv, PlanStep PROVE DecisionInv'
  OBVIOUS
<1>1. Shapes'
  BY PlanShapes
<1>2. /\ UNCHANGED <<offer, decision, seen, decided, reoffered, contested, calls, disk, build>>
      /\ phase = "up" /\ phase' = "up"
  BY DEF PlanStep, AddTask, CancelTask, RevisePlan, IntegrateTask, AcceptTask, CanReplan,
     offerVars, histVars, overlapVars
<1>3. Follows(tail')
  <2>1. tail' \in {tail, Append(tail, PlanUpdated(plan'))}
    BY DEF PlanStep, AddTask, CancelTask, RevisePlan, IntegrateTask, AcceptTask, Replan
  <2>2. PlanUpdated(plan') \in Entry
    BY <1>1, NewEntries DEF Shapes, PlanOK
  <2>3. PlanUpdated(plan').kind \in Quiet /\ PlanUpdated(plan').by = None
    BY DEF PlanUpdated, Quiet
  <2> QED
    BY <2>1, <2>2, <2>3, FollowsFacts
<1>4. ResultOpen'
  BY <1>2, ResultKept
<1> QED
  BY <1>1, <1>2, <1>3, <1>4, QuietStep

\* The build returns what is on offer, or nothing.
LEMMA BuildDecision == Shapes /\ DecisionInv /\ (BuildStep \/ Prepare) => DecisionInv'
<1> SUFFICES ASSUME Shapes, DecisionInv, BuildStep \/ Prepare PROVE DecisionInv'
  OBVIOUS
<1>1. Shapes'
  BY BuildShapes
<1>2. /\ UNCHANGED <<offer, decision, seen, decided, reoffered, contested, disk>>
      /\ phase = "up" /\ phase' = "up"
  BY DEF BuildStep, Prepare, InspectHead, BuildNotReady, BuildReturns, BuildReady, offerVars,
     histVars, DecisionInv, StartingOK, Shapes, PlanOK
<1>3. CASE Prepare
  <2>1. ResultOpen'
    BY <1>3 DEF Prepare, NewBuild, ResultOpen
  <2> QED
    BY <1>1, <1>2, <1>3, <2>1, QuietStep, FollowsFacts DEF Prepare
<1>4. CASE InspectHead
  <2>1. build \in Build
    BY <1>4 DEF InspectHead, Shapes, BuildOK
  <2>2. ResultOpen'
    <3>1. CASE Current
      <4>1. build'.result = offer /\ offer # None
        BY <1>4, <2>1, <3>1 DEF InspectHead, Returns, Build, Current
      <4> QED
        BY <1>2, <4>1 DEF DecisionInv, OfferOpen, ResultOpen, Undecided, Unsettled
    <3>2. CASE ~Current
      <4>1. build'.pc = "verify"
        BY <1>4, <2>1, <3>2 DEF InspectHead, Build
      <4> QED
        BY <4>1 DEF ResultOpen
    <3> QED
      BY <3>1, <3>2
  <2> QED
    BY <1>1, <1>2, <1>4, <2>2, QuietStep, FollowsFacts DEF InspectHead
<1>5. CASE BuildNotReady
  <2>1. build \in Build
    BY <1>5 DEF BuildNotReady, Shapes, BuildOK
  <2>2. build'.result = None
    BY <1>5, <2>1 DEF BuildNotReady, Returns, Build
  <2>3. ResultOpen'
    BY <2>2 DEF ResultOpen
  <2> QED
    BY <1>1, <1>2, <1>5, <2>3, QuietStep, FollowsFacts DEF BuildNotReady
<1>6. CASE BuildReturns
  <2>1. /\ build # None /\ build.pc = "return" /\ build' = None /\ tail' = tail
        /\ calls' = [c \in Callers |->
                       IF calls[c].pc = "prepare"
                       THEN [calls[c] EXCEPT !.pc = "decide", !.result = build.result]
                       ELSE calls[c]]
    BY <1>6 DEF BuildReturns, Settle
  <2>2. \A c \in Callers :
           \/ /\ calls[c].pc = "prepare" /\ calls'[c].pc = "decide"
              /\ calls'[c].result = build.result /\ calls'[c].delivery = calls[c].delivery
           \/ calls'[c] = calls[c]
    BY <2>1 DEF Shapes, CallsOK, DecisionCall
  <2>3. Calm
    BY <1>2, <2>2 DEF Calm, Pending, Deciding
  <2>4. ResultOpen'
    BY <2>1 DEF ResultOpen
  <2>5. CallsOpen'
    BY <1>2, <2>1, <2>2 DEF DecisionInv, CallsOpen, ResultOpen, Undecided, Unsettled
  <2>6. \A c \in Callers :
           /\ calls'[c].pc \in {"publish", "start", "merge", "complete"} => Publishes(c)
           /\ calls'[c].pc # "idle" => calls'[c].delivery \in seen
    BY <2>2 DEF DecisionInv, SeenOK, Publishes
  <2>7. Follows(tail')
    BY <2>1, FollowsFacts
  <2> QED
    BY <1>1, <1>2, <2>3, <2>4, <2>5, <2>6, <2>7, CalmStep
<1>7. CASE BuildReady
  <2> DEFINE d == [tasks |-> DeliveredTasks, version |-> plan.version,
                   head |-> build.head, expected |-> expected]
             e == Fact("ready", None, d)
  <2>1. /\ tail' = Append(tail, e) /\ calls' = calls /\ build \in Build
        /\ build' = [build EXCEPT !.pc = "persist"]
    BY <1>7 DEF BuildReady, Shapes, BuildOK
  <2>2. e.kind \in Quiet /\ e.by = None
    BY DEF Fact, Quiet
  <2> HIDE DEF e
  <2>3. e \in Entry
    <3>1. tail' \in Seq(Entry) /\ tail \in Seq(Entry)
      BY <1>1 DEF Shapes, TailOK
    <3>2. Len(tail') = Len(tail) + 1 /\ tail'[Len(tail) + 1] = e
      BY <2>1, <3>1
    <3> QED
      BY <3>1, <3>2
  <2>4. Follows(tail')
    BY <2>1, <2>2, <2>3, FollowsFacts
  <2>5. ResultOpen'
    BY <2>1 DEF ResultOpen, Build
  <2> QED
    BY <1>1, <1>2, <2>1, <2>4, <2>5, QuietStep
<1> QED
  BY <1>3, <1>4, <1>5, <1>6, <1>7 DEF BuildStep

\* A pending call that journals its next fact.
LEMMA CallWrote ==
    ASSUME Shapes, Shapes', DecisionInv, NEW c \in Pending, NEW pc \in Deciding,
           NEW k \in CallFacts,
           UNCHANGED <<offer, decision, seen, decided, reoffered, contested, disk, phase, build>>,
           calls' = [calls EXCEPT ![c].pc = pc],
           pc \in {"publish", "start", "merge", "complete"} => Publishes(c),
           tail' = Append(tail, Fact(k, c, calls[c].delivery))
    PROVE  DecisionInv'
<1>1. /\ c \in Callers /\ calls[c].pc \in Deciding /\ calls[c].pc # "idle"
      /\ calls[c].delivery \in Delivery
  BY DEF Pending, Deciding, Shapes, CallsOK
<1>2. \A b \in Callers :
         IF b = c THEN calls'[b].pc = pc /\ calls'[b].delivery = calls[b].delivery
         ELSE calls'[b] = calls[b]
  BY <1>1 DEF Shapes, CallsOK, DecisionCall
<1>3. Calm
  BY <1>1, <1>2 DEF Calm, Pending
<1>4. phase = "up"
  BY <1>1 DEF DecisionInv, StartingOK
<1>5. Follows(tail')
  <2>1. Fact(k, c, calls[c].delivery) \in Entry
    BY <1>1, NewEntries
  <2>2. /\ Fact(k, c, calls[c].delivery).by = c
        /\ Fact(k, c, calls[c].delivery).delivery = calls[c].delivery
        /\ Fact(k, c, calls[c].delivery).kind # "accepted"
    BY DEF Fact, CallFacts
  <2> QED
    BY <1>1, <2>1, <2>2, FollowsFacts
<1>6. \A b \in Callers :
         /\ calls'[b].pc \in {"publish", "start", "merge", "complete"} => Publishes(b)
         /\ calls'[b].pc # "idle" => calls'[b].delivery \in seen
  BY <1>1, <1>2 DEF DecisionInv, SeenOK, Publishes
<1>7. ResultOpen'
  BY ResultKept
<1>8. CallsOpen'
  BY <1>2 DEF DecisionInv, CallsOpen, Undecided, Unsettled, Deciding
<1> QED
  BY <1>3, <1>4, <1>5, <1>6, <1>7, <1>8, CalmStep

\* A call that is over without a decision.
LEMMA CallGivesUp ==
    ASSUME Shapes, Shapes', DecisionInv, NEW c \in Callers, phase = "up", phase' = "up",
           UNCHANGED <<offer, decision, seen, decided, reoffered, contested, disk, build>>,
           calls' = [calls EXCEPT ![c] = Idle], Follows(tail')
    PROVE  DecisionInv'
<1>1. \A b \in Callers : IF b = c THEN calls'[b].pc = "idle" ELSE calls'[b] = calls[b]
  BY DEF Shapes, CallsOK, Idle
<1>2. Calm
  BY <1>1 DEF Calm, Pending, Deciding
<1>3. \A b \in Callers :
         /\ calls'[b].pc \in {"publish", "start", "merge", "complete"} => Publishes(b)
         /\ calls'[b].pc # "idle" => calls'[b].delivery \in seen
  BY <1>1 DEF DecisionInv, SeenOK, Publishes
<1>4. ResultOpen'
  BY ResultKept
<1>5. CallsOpen'
  BY <1>1 DEF DecisionInv, CallsOpen, Undecided, Unsettled
<1> QED
  BY <1>2, <1>3, <1>4, <1>5, CalmStep

\* A decision that passes the check: nobody decided before, and if another one is
\* pending both are contested.
LEMMA DecidePasses ==
    ASSUME Shapes, Shapes', DecisionInv, NEW c \in Callers, Decide(c), MayDecide(c)
    PROVE  DecisionInv'
<1>1. /\ calls[c].pc = "decide" /\ calls[c].result = calls[c].delivery /\ decision = None
      /\ UNCHANGED <<offer, decision, seen, decided, reoffered, disk, phase, build>>
      /\ contested' = IF Pending = {} THEN contested
                      ELSE contested \cup {calls[o].delivery : o \in Pending \cup {c}}
      /\ calls' = [calls EXCEPT ![c].pc = "intent"]
  BY DEF Decide, MayDecide, offerVars
<1>2. PICK k \in {"accept-intent", "rework-intent"} :
         tail' = Append(tail, Fact(k, c, calls[c].delivery))
  BY DEF Decide
<1>3. /\ phase = "up" /\ calls[c].delivery \in Delivery /\ calls[c].delivery # None
      /\ c # None /\ c \notin Pending
  BY <1>1, NoneAssumption DEF DecisionInv, StartingOK, Shapes, CallsOK, Pending, Deciding
<1>4. \A b \in Callers :
         IF b = c THEN calls'[b].pc = "intent" /\ calls'[b].delivery = calls[b].delivery
         ELSE calls'[b] = calls[b]
  BY <1>1 DEF Shapes, CallsOK, DecisionCall
<1>5. Pending' = Pending \cup {c}
  BY <1>1, <1>4 DEF Pending, Deciding
<1>6. contested \subseteq contested' /\ Unsettled \subseteq Unsettled'
  BY <1>1 DEF Unsettled
<1>7. \A d : Undecided(d) => Undecided(d)'
  BY <1>1, <1>6 DEF Undecided
<1>8. Follows(tail')
  <2>1. Fact(k, c, calls[c].delivery) \in Entry
    BY <1>3, NewEntries DEF CallFacts
  <2>2. /\ Fact(k, c, calls[c].delivery).by = c
        /\ Fact(k, c, calls[c].delivery).delivery = calls[c].delivery
        /\ Fact(k, c, calls[c].delivery).kind # "accepted"
    BY DEF Fact
  <2> QED
    BY <1>2, <2>1, <2>2, FollowsFacts
<1>9. \A b \in Pending' : calls'[b].delivery = calls[b].delivery
  BY <1>4 DEF Pending
<1>10. FactsOK' /\ StartingOK'
  BY <1>1, <1>3, <1>8, <1>9, FactsAfter DEF DecisionInv
<1>11. MemoryOK' /\ SeenOK' /\ OneDecisionPerDelivery'
  <2>1. MemoryOK'
    BY <1>1 DEF DecisionInv, MemoryOK
  <2>2. SeenOK'
    <3>1. \A b \in Callers : calls'[b].pc # "idle" => calls'[b].delivery \in seen
      BY <1>1, <1>4 DEF DecisionInv, SeenOK
    <3> QED
      BY <1>1, <3>1 DEF DecisionInv, SeenOK
  <2>3. OneDecisionPerDelivery'
    BY <1>1, <1>6 DEF DecisionInv, OneDecisionPerDelivery
  <2> QED
    BY <2>1, <2>2, <2>3
<1>12. OfferOpen' /\ ResultOpen' /\ CallsOpen'
  <2>1. OfferOpen'
    BY <1>1, <1>7 DEF DecisionInv, OfferOpen
  <2>2. ResultOpen'
    BY <1>1, <1>7 DEF DecisionInv, ResultOpen
  <2>3. CallsOpen'
    <3> SUFFICES ASSUME NEW b \in Callers, calls'[b].pc = "decide", calls'[b].result # None
                 PROVE  Undecided(calls[b].result)'
      BY DEF CallsOpen
    <3>1. calls'[b] = calls[b]
      BY <1>4
    <3>2. Undecided(calls[b].result)
      BY <1>1, <3>1 DEF DecisionInv, CallsOpen
    <3> QED
      BY <1>1, <1>6, <3>1, <3>2 DEF Undecided
  <2> QED
    BY <2>1, <2>2, <2>3
<1>13. PendingOK'
  <2> SUFFICES ASSUME NEW b \in Pending', calls'[b].delivery \notin contested'
               PROVE  Pending' = {b} /\ decision' = None /\ Undecided(calls[b].delivery)'
    BY DEF PendingOK
  <2>1. calls'[b].delivery = calls[b].delivery
    BY <1>9
  <2>2. Pending = {}
    BY <1>1, <1>5, <2>1
  <2>3. Pending' = {b} /\ b = c
    BY <1>5, <2>2
  <2>4. Undecided(calls[c].delivery)
    BY <1>1, <1>3 DEF DecisionInv, CallsOpen
  <2>5. Undecided(calls[b].delivery)'
    BY <1>1, <1>6, <2>1, <2>3, <2>4 DEF Undecided
  <2> QED
    BY <1>1, <2>3, <2>5
<1>14. IntentOK'
  <2> SUFFICES ASSUME NEW b \in Callers, Publishes(b)'
               PROVE  \/ calls'[b].delivery \in contested'
                      \/ disk'.intent = calls'[b].delivery
    BY DEF IntentOK
  <2>1. Publishes(b) /\ b # c
    <3>1. CASE calls'[b].pc \in {"publish", "start", "merge", "complete"}
      BY <1>4, <3>1 DEF Publishes
    <3>2. ASSUME NEW i \in DOMAIN tail', Records(b, i)' PROVE Publishes(b) /\ b # c
      <4>1. tail'[i].kind = "accepted" /\ tail'[i].by = b /\ b # None
        BY <3>2, NoneAssumption DEF Records
      <4>2. Publishes(b)
        BY <1>8, <4>1 DEF Follows, Quiet, Publishes, Records
      <4>3. b \in Pending
        BY <4>2, OwnersWait, NoneAssumption DEF Publishes, Records, Owners, Pending, Deciding
      <4> QED
        BY <1>3, <4>2, <4>3
    <3> QED
      BY <3>1, <3>2 DEF Publishes
  <2> QED
    BY <1>1, <1>4, <1>6, <2>1 DEF DecisionInv, IntentOK
<1>15. RecordedOK'
  <2> SUFFICES ASSUME offer \notin Unsettled' \cup {None},
                      disk.publication = [state |-> "published", delivery |-> offer]
               PROVE  FALSE
    BY <1>1 DEF RecordedOK
  <2>1. [kind |-> "accept", delivery |-> offer] # None
    BY NoneAssumption DEF Shapes, OfferOK, Decision
  <2>2. PICK b \in Callers, i \in DOMAIN tail : calls[b].delivery = offer /\ Records(b, i)
    BY <1>1, <1>3, <1>6, <2>1 DEF DecisionInv, RecordedOK
  <2>3. b \in Pending
    BY <2>2, OwnersWait, NoneAssumption DEF Records, Owners
  <2> QED
    BY <1>1, <2>2, <2>3 DEF Unsettled
<1> QED
  BY <1>10, <1>11, <1>12, <1>13, <1>14, <1>15 DEF DecisionInv

\* The calls.
LEMMA CallDecision ==
    ASSUME Shapes, DecisionInv, NEW c \in Callers,
           \/ CallStep(c)
           \/ \E kind \in {"accept", "rework"}, d \in seen : Call(c, kind, d)
    PROVE  DecisionInv'
<1>0. Shapes'
  BY CallShapes
<1>1. ASSUME NEW kind \in {"accept", "rework"}, NEW d \in seen, Call(c, kind, d)
      PROVE  DecisionInv'
  <2>1. /\ phase = "up" /\ phase' = "up" /\ tail' = tail /\ calls[c].pc = "idle"
        /\ calls' = [calls EXCEPT ![c] = [pc |-> "prepare", kind |-> kind, delivery |-> d,
                                          result |-> None]]
        /\ build' = IF build = None THEN NewBuild ELSE build
        /\ UNCHANGED <<offer, decision, seen, decided, reoffered, contested, disk>>
    BY <1>1 DEF Call, offerVars, histVars
  <2>2. \A b \in Callers :
           IF b = c THEN calls'[b].pc = "prepare" /\ calls'[b].delivery = d
           ELSE calls'[b] = calls[b]
    BY <2>1 DEF Shapes, CallsOK
  <2>3. Calm
    BY <2>1, <2>2 DEF Calm, Pending, Deciding
  <2>4. ResultOpen'
    BY <2>1 DEF DecisionInv, ResultOpen, NewBuild, Undecided, Unsettled
  <2>5. CallsOpen'
    BY <2>1, <2>2 DEF DecisionInv, CallsOpen, Undecided, Unsettled
  <2>6. \A b \in Callers :
           /\ calls'[b].pc \in {"publish", "start", "merge", "complete"} => Publishes(b)
           /\ calls'[b].pc # "idle" => calls'[b].delivery \in seen
    BY <2>2 DEF DecisionInv, SeenOK, Publishes
  <2> QED
    BY <1>0, <2>1, <2>3, <2>4, <2>5, <2>6, CalmStep, FollowsFacts
<1>2. CASE Decide(c)
  <2>1. CASE MayDecide(c)
    BY <1>0, <1>2, <2>1, DecidePasses
  <2>2. CASE ~MayDecide(c)
    <3>1. /\ UNCHANGED <<offer, decision, seen, decided, reoffered, contested, disk, build, tail,
                         phase>>
          /\ calls' = [calls EXCEPT ![c] = Idle] /\ calls[c].pc # "idle"
      BY <1>2, <2>2 DEF Decide, offerVars
    <3>2. phase = "up"
      BY <3>1 DEF DecisionInv, StartingOK
    <3> QED
      BY <1>0, <3>1, <3>2, CallGivesUp, FollowsFacts
  <2> QED
    BY <2>1, <2>2
<1>3. CASE StartPublication(c)
  <2>1. /\ UNCHANGED <<offer, decision, seen, decided, reoffered, contested, disk, build, phase>>
        /\ calls[c].pc = "publish" /\ calls[c].pc # "idle"
    BY <1>3 DEF StartPublication, offerVars, histVars
  <2>2. phase = "up" /\ c \in Pending /\ "start" \in Deciding /\ "publishing" \in CallFacts
        /\ Publishes(c)
    BY <2>1 DEF DecisionInv, StartingOK, Pending, Deciding, CallFacts, Publishes
  <2>3. CASE calls[c].delivery.head = head
    BY <1>0, <1>3, <2>1, <2>2, <2>3, CallWrote DEF StartPublication
  <2>4. CASE calls[c].delivery.head # head
    BY <1>0, <1>3, <2>1, <2>2, <2>4, CallGivesUp, FollowsFacts DEF StartPublication
  <2> QED
    BY <2>3, <2>4
<1>4. CASE MergeBase(c)
  <2>1. /\ UNCHANGED <<offer, decision, seen, decided, reoffered, contested, disk, build, phase>>
        /\ calls[c].pc = "merge"
    BY <1>4 DEF MergeBase, offerVars, histVars
  <2>2. /\ c \in Pending /\ "complete" \in Deciding /\ "published" \in CallFacts
        /\ "pause" \in Deciding /\ "paused" \in CallFacts /\ Publishes(c)
    BY <2>1 DEF Pending, Deciding, CallFacts, Publishes
  <2>3. \/ /\ calls' = [calls EXCEPT ![c].pc = "complete"]
           /\ tail' = Append(tail, Fact("published", c, calls[c].delivery))
        \/ /\ calls' = [calls EXCEPT ![c].pc = "pause"]
           /\ tail' = Append(tail, Fact("paused", c, calls[c].delivery))
    BY <1>4 DEF MergeBase
  <2> QED
    BY <1>0, <2>1, <2>2, <2>3, CallWrote
<1> QED
  BY <1>1, <1>2, <1>3, <1>4 DEF CallStep

\* The queue after a fact left it.
LEMMA AfterFact ==
    ASSUME Shapes, NEW kind, Due(kind), kind # "accepted"
    PROVE  Tail(tail) \in Seq(Entry) /\ Follows(Tail(tail))
BY FollowsFacts, DueFacts

\* A snapshot is nobody's fact.
LEMMA SnapshotFollows ==
    ASSUME Shapes, NEW s \in Seq(Entry), Follows(s)
    PROVE  Follows(Append(s, Snapshot(plan, evidence)))
<1>1. Snapshot(plan, evidence) \in Entry
  BY NewEntries DEF Shapes, PlanOK
<1>2. Snapshot(plan, evidence).kind \in Quiet /\ Snapshot(plan, evidence).by = None
  BY DEF Snapshot, Quiet
<1> QED
  BY <1>1, <1>2, FollowsFacts

\* The fact in front is that of its call.
LEMMA DueCall ==
    ASSUME Shapes, DecisionInv, NEW kind \in CallFacts \cup {"accepted"}, Due(kind),
           Head(tail).by # None
    PROVE  /\ Head(tail).by \in Pending /\ Head(tail).by \in Callers /\ phase = "up"
           /\ Awaits(calls[Head(tail).by].pc, kind)
           /\ Head(tail).delivery = calls[Head(tail).by].delivery
           /\ Head(tail).delivery \in Delivery /\ Head(tail).delivery # None
           /\ Head(tail).delivery \in seen
           /\ \A j \in DOMAIN tail : tail[j].by = Head(tail).by => j = 1
           /\ 1 \in DOMAIN tail /\ tail[1] = Head(tail)
<1>1. /\ tail # <<>> /\ tail \in Seq(Entry) /\ Head(tail).kind = kind
      /\ kind \notin {"plan", "snapshot"}
  BY DueFacts DEF CallFacts
<1>2. Head(tail) = tail[1] /\ 1 \in DOMAIN tail
  BY <1>1, HeadTail
<1>3. Owners
  BY OwnersWait
<1>4. /\ Head(tail).by \in Pending /\ Head(tail).by \in Callers
      /\ Awaits(calls[Head(tail).by].pc, kind)
      /\ \A j \in DOMAIN tail : tail[j].by = Head(tail).by => j = 1
  BY <1>1, <1>2, <1>3 DEF Owners
<1>5. phase = "up" /\ Head(tail).delivery = calls[Head(tail).by].delivery
  BY <1>2, <1>4, PendingUp DEF DecisionInv, FactsOK
<1>6. Head(tail).delivery \in Delivery
  BY <1>1, DueFacts
<1>7. Head(tail).delivery \in seen
  BY <1>4, <1>5 DEF DecisionInv, SeenOK, Pending, Deciding
<1> QED
  BY <1>2, <1>4, <1>5, <1>6, <1>7, NoneAssumption

\* A program that reconciles has only the recovered acceptance in front.
LEMMA DueUp ==
    ASSUME Shapes, DecisionInv, NEW kind, Due(kind), kind # "accepted"
    PROVE  phase = "up"
<1>1. tail # <<>> /\ tail \in Seq(Entry) /\ Head(tail).kind = kind
  BY DueFacts
<1>2. Head(tail) = tail[1]
  BY <1>1, HeadTail
<1>3. phase # "starting"
  BY <1>1, <1>2 DEF DecisionInv, StartingOK, Recovers
<1> QED
  BY <1>1, <1>3 DEF Shapes, PlanOK, DecisionInv, StartingOK

\* A call whose fact is durable goes on or is over, and decides nothing by that.
Moves(c, b) ==
    IF b = c THEN \/ calls'[b].pc \in Deciding /\ calls'[b].delivery = calls[b].delivery
                  \/ calls'[b].pc = "idle"
    ELSE calls'[b] = calls[b]

LEMMA CallMoves ==
    ASSUME Shapes, Shapes', DecisionInv, NEW c \in Pending,
           UNCHANGED <<offer, decision, seen, decided, reoffered, contested, phase, build>>,
           disk'.offer = disk.offer, disk'.decision = disk.decision,
           \A b \in Callers : Moves(c, b), Follows(tail')
    PROVE  /\ Calm /\ phase = "up"
           /\ MemoryOK' /\ OfferOpen' /\ PendingOK' /\ OneDecisionPerDelivery'
           /\ FactsOK' /\ StartingOK' /\ ResultOpen' /\ CallsOpen'
           /\ \A b \in Callers : calls'[b].pc # "idle" => calls'[b].delivery \in seen
<1>1. c \in Callers /\ phase = "up"
  BY PendingUp DEF DecisionInv, Pending
<1>2. calls[c].pc # "idle"
  BY DEF Pending, Deciding
<1>3. Calm
  BY <1>1 DEF Calm, Pending, Moves, Deciding
<1>4. FactsOK' /\ StartingOK'
  BY <1>1, <1>3, FactsAfter DEF DecisionInv, Calm
<1>5. ResultOpen'
  BY ResultKept
<1>6. CallsOpen'
  BY DEF DecisionInv, CallsOpen, Undecided, Unsettled, Deciding, Moves
<1>7. \A b \in Callers : calls'[b].pc # "idle" => calls'[b].delivery \in seen
  BY <1>2 DEF DecisionInv, SeenOK, Moves
<1> QED
  BY <1>1, <1>3, <1>4, <1>5, <1>6, <1>7, CalmKeeps

\* That is what a write of the queue does to its call.
LEMMA CallsMove ==
    ASSUME Shapes, NEW c \in Pending,
           \/ \E pc \in Deciding : calls' = [calls EXCEPT ![c].pc = pc]
           \/ calls' = [calls EXCEPT ![c] = Idle]
    PROVE  \A b \in Callers : Moves(c, b)
<1>1. c \in Callers
  BY DEF Pending
<1>2. ASSUME NEW pc \in Deciding, calls' = [calls EXCEPT ![c].pc = pc]
      PROVE  \A b \in Callers : Moves(c, b)
  BY <1>1, <1>2 DEF Shapes, CallsOK, DecisionCall, Moves
<1>3. CASE calls' = [calls EXCEPT ![c] = Idle]
  BY <1>1, <1>3 DEF Shapes, CallsOK, Idle, Moves
<1> QED
  BY <1>2, <1>3

\* Writes of the plan.
LEMMA SyncPlanDecision ==
    Shapes /\ Shapes' /\ DecisionInv /\ (SyncPlan \/ SyncSnapshot) => DecisionInv'
<1> SUFFICES ASSUME Shapes, Shapes', DecisionInv, SyncPlan \/ SyncSnapshot PROVE DecisionInv'
  OBVIOUS
<1>1. UNCHANGED <<offer, decision, seen, decided, reoffered, contested, calls, phase, build>>
  BY DEF SyncPlan, SyncSnapshot, offerVars, histVars
<1>2. /\ disk'.offer = disk.offer /\ disk'.decision = disk.decision
      /\ disk'.intent = disk.intent /\ disk'.publication = disk.publication
  BY DEF SyncPlan, SyncSnapshot, Shapes, DiskOK, Disk
<1>3. PICK kind \in {"plan", "snapshot"} :
         /\ Due(kind)
         /\ tail' \in {Tail(tail), Append(Tail(tail), Snapshot(plan, evidence))}
  BY DEF SyncPlan, SyncSnapshot
<1>4. phase = "up" /\ phase' = "up"
  BY <1>1, <1>3, DueUp
<1>5. Follows(tail')
  BY <1>3, AfterFact, SnapshotFollows
<1>6. ResultOpen'
  BY <1>1, ResultKept
<1> QED
  BY <1>1, <1>2, <1>4, <1>5, <1>6, QuietStep

\* A new offer is undecided, unless it was offered before.
LEMMA SyncReadyDecision ==
    Shapes /\ Shapes' /\ DecisionInv /\ Settled /\ SyncReady => DecisionInv'
<1> SUFFICES ASSUME Shapes, Shapes', DecisionInv, Settled, SyncReady PROVE DecisionInv'
  OBVIOUS
<1>1. PICK d : /\ d = Head(tail).delivery
               /\ disk' = [disk EXCEPT !.offer = d, !.decision = None]
               /\ offer' = d /\ seen' = seen \cup {d} /\ decision' = None
               /\ reoffered' = reoffered \cup (seen \cap {d})
               /\ Returns(d) /\ build # None /\ Due("ready")
               /\ tail' = Append(Tail(tail), Snapshot(plan, evidence))
               /\ UNCHANGED <<decided, contested, calls, phase>>
  BY DEF SyncReady, DecisionOfNewOffer
<1>2. d \in Delivery /\ phase = "up"
  BY <1>1, DueFacts, DueUp
<1>3. /\ disk'.offer = d /\ disk'.decision = None /\ disk'.intent = disk.intent
      /\ disk'.publication = disk.publication /\ disk.publication \in Publication \cup {None}
  BY <1>1 DEF Shapes, DiskOK, Disk
<1>4. Follows(tail')
  BY <1>1, AfterFact, SnapshotFollows
<1>5. FactsOK' /\ StartingOK'
  BY <1>1, <1>2, <1>4, FactsAfter DEF DecisionInv
<1>6. Unsettled \subseteq Unsettled'
  BY <1>1 DEF Unsettled
<1>7. Undecided(d)'
  BY <1>1 DEF DecisionInv, SeenOK, Undecided, Unsettled
<1>8. MemoryOK' /\ SeenOK'
  BY <1>1, <1>3 DEF DecisionInv, MemoryOK, SeenOK
<1>9. OneDecisionPerDelivery'
  BY <1>1, <1>6 DEF DecisionInv, OneDecisionPerDelivery
<1>10. OfferOpen' /\ ResultOpen'
  <2>1. Undecided(offer)'
    BY <1>1, <1>7 DEF Undecided
  <2>2. build'.result = d
    BY <1>1 DEF Returns, Shapes, BuildOK, Build
  <2>3. Undecided(build.result)'
    BY <1>7, <2>2 DEF Undecided
  <2> QED
    BY <2>1, <2>3 DEF OfferOpen, ResultOpen
<1>11. PendingOK'
  <2> SUFFICES ASSUME NEW c \in Pending', calls'[c].delivery \notin contested'
               PROVE  Pending' = {c} /\ decision' = None /\ Undecided(calls[c].delivery)'
    BY DEF PendingOK
  <2>1. Pending' = Pending
    BY <1>1 DEF Pending
  <2>2. Pending = {c} /\ Undecided(calls[c].delivery)
    BY <1>1, <2>1 DEF DecisionInv, PendingOK
  <2> QED
    BY <1>1, <1>6, <2>1, <2>2 DEF Undecided
<1>12. IntentOK'
  <2> SUFFICES ASSUME NEW c \in Callers, Publishes(c)'
               PROVE  calls'[c].delivery \in contested' \/ disk'.intent = calls'[c].delivery
    BY DEF IntentOK
  <2>1. Publishes(c)
    <3>1. CASE calls'[c].pc \in {"publish", "start", "merge", "complete"}
      BY <1>1, <3>1 DEF Publishes
    <3>2. ASSUME NEW i \in DOMAIN tail', Records(c, i)' PROVE Publishes(c)
      BY <1>4, <3>2, NoneAssumption DEF Follows, Quiet, Publishes, Records
    <3> QED
      BY <3>1, <3>2 DEF Publishes
  <2> QED
    BY <1>1, <1>3, <2>1 DEF DecisionInv, IntentOK
<1>13. RecordedOK'
  <2> SUFFICES ASSUME d \notin Unsettled',
                      disk.publication = [state |-> "published", delivery |-> d]
               PROVE  FALSE
    BY <1>1, <1>3 DEF RecordedOK
  <2>1. disk.publication \in Publication /\ disk.publication.delivery = d
    BY <1>2 DEF Publication
  <2>2. d \in seen
    BY <2>1 DEF DecisionInv, SeenOK
  <2> QED
    BY <1>1, <2>2 DEF Unsettled
<1>14. CallsOpen'
  BY <1>1 DEF CallsOpen, Settled
<1> QED
  BY <1>5, <1>8, <1>9, <1>10, <1>11, <1>12, <1>13, <1>14 DEF DecisionInv

\* The intent of the one call that publishes.
LEMMA SyncIntentDecision ==
    Shapes /\ Shapes' /\ DecisionInv /\ SyncAcceptIntent => DecisionInv'
<1> SUFFICES ASSUME Shapes, Shapes', DecisionInv, SyncAcceptIntent PROVE DecisionInv'
  OBVIOUS
<1> DEFINE c == Head(tail).by
           d == Head(tail).delivery
<1>1. /\ Due("accept-intent") /\ "accept-intent" \in CallFacts
      /\ disk' = [disk EXCEPT !.intent = d]
      /\ calls' = [calls EXCEPT ![c].pc = "publish"] /\ tail' = Tail(tail)
      /\ UNCHANGED <<offer, decision, seen, decided, reoffered, contested, phase, build>>
  BY DEF SyncAcceptIntent, CallFacts, offerVars, histVars
<1>2. /\ c \in Pending /\ c \in Callers /\ d = calls[c].delivery
      /\ Awaits(calls[c].pc, "accept-intent")
  BY <1>1, DueFacts, DueCall
<1> HIDE DEF c, d
<1>3. /\ disk'.offer = disk.offer /\ disk'.decision = disk.decision /\ disk'.intent = d
      /\ disk'.publication = disk.publication
  BY <1>1 DEF Shapes, DiskOK, Disk
<1>4. Follows(tail')
  BY <1>1, AfterFact
<1>5. \A b \in Callers : Moves(c, b)
  BY <1>1, <1>2, CallsMove DEF Deciding
<1>6. /\ Calm /\ phase = "up"
      /\ MemoryOK' /\ OfferOpen' /\ PendingOK' /\ OneDecisionPerDelivery'
      /\ FactsOK' /\ StartingOK' /\ ResultOpen' /\ CallsOpen'
      /\ \A b \in Callers : calls'[b].pc # "idle" => calls'[b].delivery \in seen
  BY <1>1, <1>2, <1>3, <1>4, <1>5, CallMoves
<1>7. SeenOK'
  BY <1>1, <1>3, <1>6 DEF DecisionInv, SeenOK
<1>8. RecordedOK'
  BY <1>3, <1>4, <1>6, RecordedKept
<1>9. IntentOK'
  <2> SUFFICES ASSUME NEW b \in Callers, Publishes(b)'
               PROVE  calls'[b].delivery \in contested' \/ disk'.intent = calls'[b].delivery
    BY DEF IntentOK
  <2>1. CASE b = c
    BY <1>1, <1>2, <1>3, <2>1 DEF Shapes, CallsOK, DecisionCall
  <2>2. CASE b # c
    <3>1. calls'[b] = calls[b]
      BY <1>5, <2>2 DEF Moves
    <3>2. b \in Pending
      <4>1. CASE calls'[b].pc \in {"publish", "start", "merge", "complete"}
        BY <3>1, <4>1 DEF Pending, Deciding
      <4>2. ASSUME NEW i \in DOMAIN tail', Records(b, i)' PROVE b \in Pending
        <5>1. Owners'
          BY OwnersWait, PTL
        <5>2. b \in Pending'
          BY <4>2, <5>1, NoneAssumption DEF Owners, Records
        <5> QED
          BY <5>2, <1>6 DEF Calm
      <4> QED
        BY <4>1, <4>2 DEF Publishes
    <3>3. calls[b].delivery \in contested
      BY <1>2, <2>2, <3>2 DEF DecisionInv, PendingOK
    <3> QED
      BY <1>1, <3>1, <3>3
  <2> QED
    BY <2>1, <2>2
<1> QED
  BY <1>6, <1>7, <1>8, <1>9 DEF DecisionInv

\* A completed publication is followed by the record of the acceptance.
LEMMA SyncPublicationDecision ==
    Shapes /\ Shapes' /\ DecisionInv /\ SyncPublication => DecisionInv'
<1> SUFFICES ASSUME Shapes, Shapes', DecisionInv, SyncPublication PROVE DecisionInv'
  OBVIOUS
<1> DEFINE c == Head(tail).by
           d == Head(tail).delivery
<1>1. PICK state \in {"publishing", "published", "paused"} :
        /\ Due(state)
        /\ disk' = [disk EXCEPT !.publication = [state |-> state, delivery |-> d]]
        /\ calls' = [calls EXCEPT ![c] = CASE state = "publishing" -> [@ EXCEPT !.pc = "merge"]
                                           [] state = "published" -> [@ EXCEPT !.pc = "finish"]
                                           [] state = "paused" -> Idle]
        /\ tail' = IF state = "published" THEN Append(Tail(tail), Fact("accepted", c, d))
                   ELSE Tail(tail)
        /\ UNCHANGED <<offer, decision, seen, decided, reoffered, contested, phase, build>>
  BY DEF SyncPublication, offerVars, histVars
<1>2. state \in CallFacts /\ state # "accepted"
  BY DEF CallFacts
<1>3. /\ c \in Pending /\ c \in Callers /\ d = calls[c].delivery /\ d \in Delivery
      /\ d \in seen /\ Awaits(calls[c].pc, state)
  BY <1>1, <1>2, DueFacts, DueCall
<1>4. Tail(tail) \in Seq(Entry) /\ Follows(Tail(tail))
  BY <1>1, <1>2, AfterFact
<1> HIDE DEF c, d
<1>5. /\ disk'.offer = disk.offer /\ disk'.decision = disk.decision
      /\ disk'.intent = disk.intent
      /\ disk'.publication = [state |-> state, delivery |-> d]
  BY <1>1 DEF Shapes, DiskOK, Disk
<1>6. \/ state = "publishing" /\ calls' = [calls EXCEPT ![c].pc = "merge"]
      \/ state = "published" /\ calls' = [calls EXCEPT ![c].pc = "finish"]
      \/ state = "paused" /\ calls' = [calls EXCEPT ![c] = Idle]
  BY <1>1
<1>7. Follows(tail')
  <2>1. CASE state # "published"
    BY <1>1, <1>4, <2>1
  <2>2. CASE state = "published"
    <3>1. Fact("accepted", c, d) \in Entry
      BY <1>3, NewEntries
    <3>2. /\ Fact("accepted", c, d).by = c /\ Fact("accepted", c, d).delivery = d
      BY DEF Fact
    <3>3. Publishes(c)
      BY <1>3, <2>2 DEF Awaits, Publishes
    <3>4. Follows(Append(Tail(tail), Fact("accepted", c, d)))
      BY <1>3, <1>4, <3>1, <3>2, <3>3, FollowsFacts
    <3> QED
      BY <1>1, <2>2, <3>4
  <2> QED
    BY <2>1, <2>2
<1>8. \A b \in Callers : Moves(c, b)
  BY <1>3, <1>6, CallsMove DEF Deciding
<1>9. /\ Calm /\ phase = "up"
      /\ MemoryOK' /\ OfferOpen' /\ PendingOK' /\ OneDecisionPerDelivery'
      /\ FactsOK' /\ StartingOK' /\ ResultOpen' /\ CallsOpen'
      /\ \A b \in Callers : calls'[b].pc # "idle" => calls'[b].delivery \in seen
  BY <1>1, <1>3, <1>5, <1>7, <1>8, CallMoves
<1>10. SeenOK'
  BY <1>1, <1>3, <1>5, <1>9 DEF DecisionInv, SeenOK
<1>11. IntentOK'
  <2>1. ASSUME NEW b \in Callers, calls'[b].pc \in {"publish", "start", "merge", "complete"}
        PROVE  Publishes(b)
    <3>1. CASE b = c
      BY <1>3, <1>6, <2>1, <3>1 DEF Shapes, CallsOK, DecisionCall, Idle, Awaits, Publishes
    <3>2. CASE b # c
      BY <1>8, <2>1, <3>2 DEF Moves, Publishes
    <3> QED
      BY <3>1, <3>2
  <2> QED
    BY <1>5, <1>7, <1>9, <2>1, IntentKept
<1>12. RecordedOK'
  <2> SUFFICES ASSUME disk'.publication = [state |-> "published", delivery |-> offer]
               PROVE  \E b \in Callers : /\ calls'[b].delivery = offer
                                         /\ \E i \in DOMAIN tail' : Records(b, i)'
    BY <1>1 DEF RecordedOK
  <2>1. state = "published" /\ d = offer
    BY <1>5
  <2>2. calls'[c].delivery = offer
    BY <1>3, <1>6, <2>1 DEF Shapes, CallsOK, DecisionCall
  <2>3. tail' = Append(Tail(tail), Fact("accepted", c, d))
    BY <1>1, <2>1
  <2>4. PICK i \in DOMAIN tail' : tail'[i] = Fact("accepted", c, d)
    BY <1>4, <2>3
  <2>5. PICK b \in Callers : b = c
    BY <1>3
  <2>6. Records(b, i)'
    BY <2>4, <2>5 DEF Records, Fact
  <2> QED
    BY <2>2, <2>5, <2>6
<1> QED
  BY <1>9, <1>10, <1>11, <1>12 DEF DecisionInv

\* The replacements of a rework are planned before the decision is recorded.
LEMMA SyncReworkDecision ==
    Shapes /\ Shapes' /\ DecisionInv /\ SyncReworkIntent => DecisionInv'
<1> SUFFICES ASSUME Shapes, Shapes', DecisionInv, SyncReworkIntent PROVE DecisionInv'
  OBVIOUS
<1> DEFINE c == Head(tail).by
           d == Head(tail).delivery
           e == Fact("rework-created", c, d)
<1>1. /\ Due("rework-intent") /\ "rework-intent" \in CallFacts
      /\ UNCHANGED <<offer, decision, seen, decided, reoffered, contested, phase, build, disk>>
  BY DEF SyncReworkIntent, CallFacts, offerVars, histVars
<1>2. \/ tail' = Tail(tail) /\ calls' = [calls EXCEPT ![c] = Idle]
      \/ /\ tail' = Tail(tail) \o <<PlanUpdated(plan'), e>>
         /\ calls' = [calls EXCEPT ![c].pc = "finish"]
  BY DEF SyncReworkIntent
<1>3. /\ c \in Pending /\ c \in Callers /\ d = calls[c].delivery /\ d \in Delivery
      /\ Awaits(calls[c].pc, "rework-intent")
  BY <1>1, DueFacts, DueCall
<1>4. Tail(tail) \in Seq(Entry) /\ Follows(Tail(tail))
  BY <1>1, AfterFact
<1>5. e \in Entry /\ e.by = c /\ e.delivery = d /\ e.kind = "rework-created"
  BY <1>3, NewEntries DEF Fact, CallFacts
<1> HIDE DEF c, d, e
<1>6. Follows(tail')
  <2>1. CASE tail' = Tail(tail)
    BY <1>4, <2>1
  <2>2. CASE tail' = Tail(tail) \o <<PlanUpdated(plan'), e>>
    <3>1. PlanUpdated(plan') \in Entry
      BY NewEntries DEF Shapes, PlanOK
    <3>2. PlanUpdated(plan').kind \in Quiet /\ PlanUpdated(plan').by = None
      BY DEF PlanUpdated, Quiet
    <3> DEFINE s == Append(Tail(tail), PlanUpdated(plan'))
    <3>3. s \in Seq(Entry) /\ Follows(s)
      BY <1>4, <3>1, <3>2, FollowsFacts
    <3>4. tail' = Append(s, e)
      BY <1>4, <1>5, <2>2, <3>1
    <3> HIDE DEF s
    <3>5. Follows(Append(s, e))
      BY <1>3, <1>5, <3>3, FollowsFacts
    <3> QED
      BY <3>4, <3>5
  <2> QED
    BY <1>2, <2>1, <2>2
<1>7. \A b \in Callers : Moves(c, b)
  BY <1>2, <1>3, CallsMove DEF Deciding
<1>8. /\ Calm /\ phase = "up"
      /\ MemoryOK' /\ OfferOpen' /\ PendingOK' /\ OneDecisionPerDelivery'
      /\ FactsOK' /\ StartingOK' /\ ResultOpen' /\ CallsOpen'
      /\ \A b \in Callers : calls'[b].pc # "idle" => calls'[b].delivery \in seen
  BY <1>1, <1>3, <1>6, <1>7, CallMoves
<1>9. SeenOK'
  BY <1>1, <1>8 DEF DecisionInv, SeenOK
<1>10. \A b \in Callers :
          calls'[b].pc \in {"publish", "start", "merge", "complete"} => Publishes(b)
  BY <1>2, <1>3, <1>7 DEF Shapes, CallsOK, DecisionCall, Idle, Moves, Publishes
<1>11. IntentOK' /\ RecordedOK'
  BY <1>1, <1>6, <1>8, <1>10, IntentKept, RecordedKept
<1> QED
  BY <1>8, <1>9, <1>11 DEF DecisionInv

\* What is left on the queue when a decision is recorded.
LEMMA LeftFacts ==
    ASSUME Shapes, tail # <<>>, NEW e, tail' = Append(Tail(tail), e)
    PROVE  \A i \in DOMAIN tail' : \/ tail'[i] = e
                                   \/ \E j \in DOMAIN tail : j # 1 /\ tail'[i] = tail[j]
<1>1. tail \in Seq(Entry)
  BY DEF Shapes, TailOK
<1>2. /\ Tail(tail) \in Seq(Entry)
      /\ \A i \in DOMAIN Tail(tail) : i + 1 \in DOMAIN tail /\ Tail(tail)[i] = tail[i + 1]
                                      /\ i + 1 # 1
  BY <1>1, HeadTail
<1> DEFINE s == Tail(tail)
<1>3. s \in Seq(Entry) /\ tail' = Append(s, e)
      /\ \A i \in DOMAIN s : \E j \in DOMAIN tail : j # 1 /\ s[i] = tail[j]
  BY <1>2
<1> HIDE DEF s
<1>4. \A i \in DOMAIN tail' : \/ tail'[i] = e
                              \/ i \in DOMAIN s /\ tail'[i] = s[i]
  BY <1>3
<1> QED
  BY <1>3, <1>4

\* A decision is recorded, by its call or by start().
Recorded(kind, c, d) ==
    /\ decision' = [kind |-> kind, delivery |-> d]
    /\ decided' = decided \cup {[kind |-> kind, delivery |-> d]}
    /\ disk'.offer = offer' /\ disk'.decision = decision'
    /\ disk'.intent = disk.intent /\ disk'.publication = disk.publication
    /\ offer' \in {offer, d}
    /\ UNCHANGED <<seen, build, reoffered, contested>>
    /\ phase' = "up"
    /\ \A b \in Callers : calls'[b] = IF b = c THEN Idle ELSE calls[b]
    /\ tail' = Append(Tail(tail), Snapshot(plan, evidence))

\* The call that may: no other one is pending, or the delivery is contested.
MayRecord(c, d) ==
    /\ d \in seen
    /\ \A j \in DOMAIN tail : c # None /\ tail[j].by = c => j = 1
    /\ \/ d \in contested
       \/ Pending \subseteq {c} /\ Undecided(d)
    /\ Pending \subseteq {c} \/ c \in Pending

LEMMA DecisionRecorded ==
    ASSUME Shapes, DecisionInv, tail # <<>>, NEW kind \in {"accept", "rework"}, NEW c, NEW d,
           Recorded(kind, c, d), MayRecord(c, d)
    PROVE  /\ MemoryOK' /\ SeenOK' /\ FactsOK' /\ StartingOK' /\ OfferOpen' /\ ResultOpen'
           /\ CallsOpen' /\ PendingOK' /\ IntentOK' /\ OneDecisionPerDelivery'
           /\ Pending' = Pending \ {c}
<1>1. decision' # None
  <2>1. d \in Delivery
    BY DEF Shapes, OfferOK, MayRecord
  <2>2. [kind |-> kind, delivery |-> d] \in Decision
    BY <2>1 DEF Decision
  <2> QED
    BY <2>2, NoneAssumption DEF Recorded
<1>2. MemoryOK' /\ OfferOpen' /\ ResultOpen' /\ CallsOpen'
  BY <1>1 DEF MemoryOK, OfferOpen, ResultOpen, CallsOpen, Recorded
<1>3. SeenOK'
  BY DEF SeenOK, DecisionInv, Recorded, Idle, MayRecord
<1>4. \A i \in DOMAIN tail' : \/ tail'[i] = Snapshot(plan, evidence)
                              \/ \E j \in DOMAIN tail : j # 1 /\ tail'[i] = tail[j]
  BY LeftFacts DEF Recorded
<1>5. ASSUME NEW i \in DOMAIN tail', tail'[i].by # None
      PROVE  /\ tail'[i].by # c
             /\ \E j \in DOMAIN tail : j # 1 /\ tail'[i] = tail[j]
  BY <1>4, <1>5 DEF Snapshot, MayRecord
<1>6. FactsOK'
  <2> SUFFICES ASSUME NEW i \in DOMAIN tail', tail'[i].by # None
               PROVE  tail'[i].delivery = calls'[tail'[i].by].delivery
    BY DEF FactsOK
  <2>1. PICK j \in DOMAIN tail : j # 1 /\ tail'[i] = tail[j]
    BY <1>5
  <2>2. tail[j].by \in Callers
    BY <2>1, OwnersWait DEF Owners
  <2> QED
    BY <1>5, <2>1, <2>2 DEF DecisionInv, FactsOK, Recorded
<1>7. StartingOK'
  <2>1. ASSUME NEW i \in DOMAIN tail', tail'[i].kind = "accepted", tail'[i].by = None
        PROVE  FALSE
    BY <1>4, <2>1 DEF Snapshot, DecisionInv, StartingOK, Recovers
  <2> QED
    BY <2>1 DEF StartingOK, Recovers, Recorded
<1>8. Pending' = Pending \ {c}
  BY DEF Pending, Recorded, Idle, Deciding
<1>9. PendingOK'
  <2> SUFFICES ASSUME NEW b \in Pending' PROVE calls'[b].delivery \in contested'
    BY DEF PendingOK
  <2>1. b \in Pending /\ b # c /\ b \in Callers /\ c \in Pending
    BY <1>8 DEF Pending, MayRecord
  <2>2. calls[b].delivery \in contested
    BY <2>1 DEF DecisionInv, PendingOK, MayRecord
  <2> QED
    BY <2>1, <2>2 DEF Recorded
<1>10. IntentOK'
  <2> SUFFICES ASSUME NEW b \in Callers, Publishes(b)'
               PROVE  calls'[b].delivery \in contested' \/ disk'.intent = calls'[b].delivery
    BY DEF IntentOK
  <2>1. b # c /\ Publishes(b)
    <3>1. CASE calls'[b].pc \in {"publish", "start", "merge", "complete"}
      BY <3>1 DEF Recorded, Idle, Publishes
    <3>2. ASSUME NEW i \in DOMAIN tail', Records(b, i)' PROVE b # c /\ Publishes(b)
      <4>1. tail'[i].by = b /\ tail'[i].kind = "accepted" /\ b # None
        BY <3>2, NoneAssumption DEF Records
      <4> QED
        BY <1>5, <4>1 DEF Publishes, Records
    <3> QED
      BY <3>1, <3>2 DEF Publishes
  <2> QED
    BY <2>1 DEF DecisionInv, IntentOK, Recorded
<1>11. OneDecisionPerDelivery'
  <2> SUFFICES ASSUME NEW a \in decided', NEW b \in decided', a.delivery = b.delivery,
                      a.delivery \notin Unsettled
               PROVE  a.kind = b.kind
    BY DEF OneDecisionPerDelivery, Recorded, Unsettled
  <2> DEFINE new == [kind |-> kind, delivery |-> d]
  <2>1. a \in decided \cup {new} /\ b \in decided \cup {new} /\ new.delivery = d
    BY DEF Recorded
  <2>2. CASE a \in decided /\ b \in decided
    BY <2>2 DEF DecisionInv, OneDecisionPerDelivery
  <2>3. CASE a = new \/ b = new
    <3>1. a.delivery = d
      BY <2>1, <2>3
    <3>2. \A x \in decided : x.delivery # d
      BY <3>1 DEF Undecided, Unsettled, MayRecord
    <3> QED
      BY <2>1, <3>1, <3>2
  <2> QED
    BY <2>1, <2>2, <2>3
<1> QED
  BY <1>2, <1>3, <1>6, <1>7, <1>8, <1>9, <1>10, <1>11

\* What a call records was undecided, or contested.
LEMMA DueUndecided ==
    ASSUME Shapes, DecisionInv, NEW kind \in CallFacts \cup {"accepted"}, Due(kind)
    PROVE  tail # <<>> /\ MayRecord(Head(tail).by, Head(tail).delivery)
<1>0. tail # <<>>
  BY DueFacts
<1>1. CASE Head(tail).by # None
  BY <1>0, <1>1, DueCall DEF DecisionInv, PendingOK, MayRecord
<1>2. CASE Head(tail).by = None
  <2>1. /\ tail # <<>> /\ tail \in Seq(Entry) /\ Head(tail).kind = kind
        /\ kind \notin {"plan", "snapshot"}
    BY DueFacts DEF CallFacts
  <2>2. Head(tail) \in Entry /\ Head(tail) = tail[1] /\ 1 \in DOMAIN tail
    BY <2>1, HeadTail
  <2>3. kind = "accepted"
    BY <1>2, <2>1, <2>2, EntryFacts
  <2>4. phase = "starting"
    BY <1>2, <2>1, <2>2, <2>3 DEF DecisionInv, StartingOK, Recovers
  <2>5. Head(tail).delivery = offer /\ decision = None
    BY <2>2, <2>4 DEF DecisionInv, StartingOK
  <2>6. Pending = {}
    BY <2>4 DEF DecisionInv, StartingOK, Pending, Deciding
  <2>7. offer # None
    BY <2>1, <2>5, DueFacts, NoneAssumption
  <2>8. Undecided(offer) /\ offer \in seen
    BY <2>5, <2>7 DEF DecisionInv, OfferOpen, SeenOK
  <2> QED
    BY <1>0, <1>2, <2>5, <2>6, <2>8 DEF MayRecord
<1> QED
  BY <1>1, <1>2

\* The acceptance is recorded.
LEMMA SyncAcceptedDecision ==
    Shapes /\ DecisionInv /\ SyncAccepted => DecisionInv'
<1> SUFFICES ASSUME Shapes, DecisionInv, SyncAccepted PROVE DecisionInv'
  OBVIOUS
<1> DEFINE c == Head(tail).by
           d == Head(tail).delivery
<1>1. Due("accepted")
  BY DEF SyncAccepted
<1>2. tail # <<>> /\ MayRecord(c, d)
  BY <1>1, DueUndecided
<1>3. /\ c = None => phase' = "up" /\ calls' = calls
      /\ c # None => phase' = phase /\ calls' = [calls EXCEPT ![c] = Idle]
  BY DEF SyncAccepted
<1>4. c # None => phase = "up" /\ c \in Callers
  BY <1>1, DueCall
<1>5. /\ disk'.offer = d /\ disk'.decision = [kind |-> "accept", delivery |-> d]
      /\ disk'.intent = disk.intent /\ disk'.publication = disk.publication
  BY DEF SyncAccepted, Shapes, DiskOK, Disk
<1>6. /\ offer' = d /\ Decides("accept", d)
      /\ UNCHANGED <<seen, build, reoffered, contested>>
      /\ tail' = Append(Tail(tail), Snapshot(plan, evidence))
  BY DEF SyncAccepted, overlapVars
<1> HIDE DEF c, d
<1>8. \A b \in Callers : calls'[b] = IF b = c THEN Idle ELSE calls[b]
  BY <1>3, <1>4, NoneAssumption DEF Shapes, CallsOK
<1>9. Recorded("accept", c, d)
  BY <1>3, <1>4, <1>5, <1>6, <1>8 DEF Recorded, Decides
<1>10. /\ MemoryOK' /\ SeenOK' /\ FactsOK' /\ StartingOK' /\ OfferOpen' /\ ResultOpen'
       /\ CallsOpen' /\ PendingOK' /\ IntentOK' /\ OneDecisionPerDelivery'
       /\ Pending' = Pending \ {c}
  BY <1>2, <1>9, DecisionRecorded
<1>11. RecordedOK'
  BY <1>2, <1>6, <1>10 DEF RecordedOK, Unsettled, Decides, MayRecord
<1> QED
  BY <1>10, <1>11 DEF DecisionInv

\* The rework is recorded; no acceptance of that delivery is on its way.
LEMMA SyncReworkCreatedDecision ==
    Shapes /\ DecisionInv /\ SyncReworkCreated => DecisionInv'
<1> SUFFICES ASSUME Shapes, DecisionInv, SyncReworkCreated PROVE DecisionInv'
  OBVIOUS
<1> DEFINE c == Head(tail).by
           d == Head(tail).delivery
<1>1. Due("rework-created") /\ "rework-created" \in CallFacts
  BY DEF SyncReworkCreated, CallFacts
<1>2. tail # <<>> /\ MayRecord(c, d)
  BY <1>1, DueUndecided
<1>3. c # None /\ c \in Callers /\ c \in Pending /\ phase = "up"
      /\ 1 \in DOMAIN tail /\ tail[1].kind # "accepted"
  BY <1>1, DueFacts, DueCall
<1>4. /\ disk'.offer = disk.offer /\ disk'.decision = [kind |-> "rework", delivery |-> d]
      /\ disk'.intent = disk.intent /\ disk'.publication = disk.publication
  BY DEF SyncReworkCreated, Shapes, DiskOK, Disk
<1>5. /\ UNCHANGED <<offer, phase, seen, build, reoffered, contested>> /\ Decides("rework", d)
      /\ calls' = [calls EXCEPT ![c] = Idle]
      /\ tail' = Append(Tail(tail), Snapshot(plan, evidence))
  BY DEF SyncReworkCreated, overlapVars
<1> HIDE DEF c, d
<1>7. \A b \in Callers : calls'[b] = IF b = c THEN Idle ELSE calls[b]
  BY <1>5 DEF Shapes, CallsOK
<1>8. Recorded("rework", c, d)
  BY <1>3, <1>4, <1>5, <1>7 DEF Recorded, Decides, DecisionInv, MemoryOK
<1>9. /\ MemoryOK' /\ SeenOK' /\ FactsOK' /\ StartingOK' /\ OfferOpen' /\ ResultOpen'
      /\ CallsOpen' /\ PendingOK' /\ IntentOK' /\ OneDecisionPerDelivery'
  BY <1>2, <1>8, DecisionRecorded
<1>10. RecordedOK'
  <2> SUFFICES ASSUME offer \notin Unsettled \cup {None},
                      disk.publication = [state |-> "published", delivery |-> offer]
               PROVE  FALSE
    BY <1>4, <1>5 DEF RecordedOK, Unsettled
  <2>1. PICK b \in Callers : calls[b].delivery = offer /\ \E i \in DOMAIN tail : Records(b, i)
    BY <1>3 DEF DecisionInv, RecordedOK
  <2>2. PICK i \in DOMAIN tail : tail[i].kind = "accepted" /\ tail[i].by = b
    BY <2>1 DEF Records
  <2>3. b \in Pending
    BY <2>2, OwnersWait, NoneAssumption DEF Owners
  <2>4. Pending = {b}
    BY <2>1, <2>3 DEF DecisionInv, PendingOK, Unsettled
  <2>5. i = 1
    BY <1>2, <1>3, <2>2, <2>4 DEF MayRecord
  <2> QED
    BY <1>3, <2>2, <2>5
<1> QED
  BY <1>9, <1>10 DEF DecisionInv

\* A crash loses the calls, a restart finds what their writes left.
LEMMA RecoveryDecision == Shapes /\ DecisionInv /\ (Crash \/ Restart) => DecisionInv'
<1> SUFFICES ASSUME Shapes, DecisionInv, Crash \/ Restart PROVE DecisionInv'
  OBVIOUS
<1>1. CASE Crash
  <2>1. /\ UNCHANGED <<offer, decision, seen, disk, decided, reoffered, contested>>
        /\ phase' = "down" /\ tail' = <<>> /\ build' = None
        /\ \A c \in Callers : calls'[c] = Idle
    BY <1>1 DEF Crash, offerVars, histVars
  <2>2. MemoryOK' /\ OneDecisionPerDelivery' /\ OfferOpen'
    BY <2>1 DEF DecisionInv, MemoryOK, OneDecisionPerDelivery, OfferOpen, Undecided, Unsettled
  <2>3. SeenOK' /\ FactsOK' /\ StartingOK' /\ ResultOpen' /\ CallsOpen'
    BY <2>1 DEF DecisionInv, SeenOK, FactsOK, StartingOK, ResultOpen, CallsOpen, Idle
  <2>4. Pending' = {}
    BY <2>1 DEF Pending, Idle, Deciding
  <2>5. PendingOK' /\ IntentOK'
    BY <2>1, <2>4 DEF PendingOK, IntentOK, Publishes, Idle
  <2>6. RecordedOK'
    <3> SUFFICES ASSUME offer \notin Unsettled \cup {None},
                        disk.publication = [state |-> "published", delivery |-> offer]
                 PROVE  \/ decision = [kind |-> "accept", delivery |-> offer]
                        \/ decision = None /\ disk.intent = offer
      BY <2>1, <2>4 DEF RecordedOK, Unsettled
    <3>1. ASSUME NEW c \in Callers, calls[c].delivery = offer,
                 NEW i \in DOMAIN tail, Records(c, i)
          PROVE  decision = None /\ disk.intent = offer
      <4>1. c \in Pending
        BY <3>1, OwnersWait, NoneAssumption DEF Owners, Records
      <4>2. decision = None
        BY <3>1, <4>1 DEF DecisionInv, PendingOK, Unsettled
      <4>3. disk.intent = offer
        BY <3>1 DEF DecisionInv, IntentOK, Publishes, Unsettled
      <4> QED
        BY <4>2, <4>3
    <3> QED
      BY <3>1 DEF DecisionInv, RecordedOK
  <2> QED
    BY <2>2, <2>3, <2>5, <2>6 DEF DecisionInv
<1>2. CASE Restart
  <2>1. /\ UNCHANGED <<build, calls, disk, seen, decided, reoffered, contested>>
        /\ offer' = offer /\ decision' = decision /\ disk.offer = offer
        /\ disk.decision = decision
        /\ phase' = (IF MustReconcile THEN "starting" ELSE "up")
    BY <1>2 DEF Restart, histVars, DecisionInv, MemoryOK
  <2>2. /\ tail = <<>> /\ build = None
        /\ \A c \in Callers : calls[c].pc = "idle"
    BY <1>2 DEF Restart, DecisionInv, StartingOK
  <2> DEFINE a == Fact("accepted", None, disk.offer)
             e == PlanUpdated(plan')
  <2>3. /\ a.kind = "accepted" /\ a.by = None /\ a.delivery = offer
        /\ e.kind = "plan" /\ e.by = None
    BY <2>1 DEF Fact, PlanUpdated
  <2>4. IF MustReconcile THEN tail' = Append(<<a>>, e) ELSE tail' = <<e>>
    <3>1. tail' = (IF MustReconcile THEN <<a>> ELSE <<>>) \o <<e>>
      BY <1>2 DEF Restart
    <3> HIDE DEF a, e
    <3>2. <<a>> \o <<e>> = Append(<<a>>, e)
      BY TwoWrites
    <3>3. <<>> \o <<e>> = <<e>>
      OBVIOUS
    <3> QED
      BY <3>1, <3>2, <3>3
  <2> HIDE DEF a, e
  <2>5. MemoryOK' /\ SeenOK' /\ OfferOpen' /\ OneDecisionPerDelivery'
    BY <2>1 DEF DecisionInv, MemoryOK, SeenOK, OfferOpen, OneDecisionPerDelivery, Undecided,
       Unsettled
  <2>6. ResultOpen' /\ CallsOpen' /\ PendingOK'
    BY <2>1, <2>2 DEF ResultOpen, CallsOpen, PendingOK, Pending, Deciding
  <2>7. \A i \in DOMAIN tail' : /\ tail'[i].by = None
                                /\ tail'[i].kind = "accepted" => i = 1 /\ MustReconcile
    BY <2>3, <2>4
  <2>8. FactsOK'
    BY <2>7 DEF FactsOK
  <2>9. StartingOK'
    <3>1. MustReconcile => 1 \in DOMAIN tail' /\ tail'[1] = a /\ decision = None
      BY <2>1, <2>4 DEF MustReconcile
    <3> QED
      BY <2>1, <2>2, <2>3, <2>7, <3>1 DEF StartingOK, Recovers
  <2>10. IntentOK'
    BY <2>1, <2>2, <2>7, NoneAssumption DEF IntentOK, Publishes, Records
  <2>11. RecordedOK'
    <3> SUFFICES ASSUME offer \notin Unsettled \cup {None},
                        disk.publication = [state |-> "published", delivery |-> offer]
                 PROVE  \/ decision = [kind |-> "accept", delivery |-> offer] /\ Pending' = {}
                        \/ phase' # "up" /\ decision = None /\ disk.intent = offer
      BY <2>1 DEF RecordedOK, Unsettled
    <3>1. \/ decision = [kind |-> "accept", delivery |-> offer] /\ Pending = {}
          \/ decision = None /\ disk.intent = offer
      BY <2>2 DEF DecisionInv, RecordedOK
    <3>2. CASE decision = [kind |-> "accept", delivery |-> offer] /\ Pending = {}
      BY <2>1, <3>2 DEF Pending
    <3>3. CASE decision = None /\ disk.intent = offer
      BY <2>1, <3>3 DEF MustReconcile
    <3> QED
      BY <3>1, <3>2, <3>3
  <2> QED
    BY <2>5, <2>6, <2>8, <2>9, <2>10, <2>11 DEF DecisionInv
<1> QED
  BY <1>1, <1>2

\* Nothing is offered or decided at first.
LEMMA DecisionInit == Init => DecisionInv
<1> SUFFICES ASSUME Init PROVE DecisionInv
  OBVIOUS
<1>1. /\ offer = None /\ decision = None /\ disk.offer = None /\ disk.decision = None
      /\ disk.publication = None /\ build = None /\ tail = <<>> /\ phase = "up"
      /\ decided = {} /\ \A c \in Callers : calls[c] = Idle
  BY DEF Init
<1>2. Pending = {} /\ None \notin Publication
  BY <1>1, NoneAssumption DEF Pending, Idle, Deciding
<1> QED
  BY <1>1, <1>2 DEF DecisionInv, MemoryOK, SeenOK, FactsOK, StartingOK, OfferOpen, ResultOpen,
     CallsOpen, PendingOK, IntentOK, RecordedOK, OneDecisionPerDelivery, Publishes, Idle

\* Every step keeps the decision.
LEMMA DecisionStep == Shapes /\ DecisionInv /\ [Next]_vars => DecisionInv'
<1> SUFFICES ASSUME Shapes, DecisionInv, [Next]_vars PROVE DecisionInv'
  OBVIOUS
<1>1. Shapes'
  BY ShapesStep
<1>2. CASE SyncStep
  BY <1>1, <1>2, SyncPlanDecision, SyncReadyDecision, SyncIntentDecision,
     SyncPublicationDecision, SyncAcceptedDecision, SyncReworkDecision,
     SyncReworkCreatedDecision DEF SyncStep
<1>3. CASE BuildStep \/ Prepare \/ PlanStep \/ Crash \/ Restart
  BY <1>3, BuildDecision, PlanDecision, RecoveryDecision
<1>4. CASE \E c \in Callers :
             \/ CallStep(c)
             \/ \E kind \in {"accept", "rework"}, x \in seen : Call(c, kind, x)
  BY <1>4, CallDecision
<1>5. CASE UNCHANGED vars
  BY <1>5 DEF vars, DecisionInv, MemoryOK, SeenOK, FactsOK, StartingOK, OfferOpen, ResultOpen,
     CallsOpen, PendingOK, IntentOK, RecordedOK, OneDecisionPerDelivery, Publishes, Records,
     Recovers, Pending, Undecided, Unsettled
<1> QED
  BY <1>2, <1>3, <1>4, <1>5 DEF Next, UserStep

\* Memory and journal agree about the decision at any time the program is up, and a
\* completed publication of the delivery on offer is a recorded acceptance, for any
\* number of overlapping calls and crashes.
THEOREM DecisionKept == Spec => []DecisionSurvives
<1>1. Init => Shapes /\ DecisionInv
  BY ShapesInit, DecisionInit
<1>2. Shapes /\ DecisionInv /\ [Next]_vars => (Shapes /\ DecisionInv)'
  BY ShapesStep, DecisionStep
<1>3. Shapes /\ DecisionInv => DecisionSurvives
  <2> SUFFICES ASSUME Shapes, DecisionInv, phase = "up"
               PROVE  /\ offer = disk.offer /\ decision = disk.decision
                      /\ (/\ Pending = {}
                          /\ offer \notin Unsettled \cup {None}
                          /\ disk.publication = [state |-> "published", delivery |-> offer])
                            => decision = [kind |-> "accept", delivery |-> offer]
    BY DEF DecisionSurvives
  <2>1. Pending = {} => \A c \in Callers, i \in DOMAIN tail : ~Records(c, i)
    BY OwnersWait, NoneAssumption DEF Owners, Records
  <2> QED
    BY <2>1 DEF DecisionInv, MemoryOK, RecordedOK
<1> QED
  BY <1>1, <1>2, <1>3, PTL DEF Spec

\* No delivery is accepted and sent back for rework, unless the calls that decided it
\* overlapped or it was journaled as a new offer again, for any number of callers.
THEOREM OneDecision == Spec => []OneDecisionPerDelivery
<1>1. Init => Shapes /\ DecisionInv
  BY ShapesInit, DecisionInit
<1>2. Shapes /\ DecisionInv /\ [Next]_vars => (Shapes /\ DecisionInv)'
  BY ShapesStep, DecisionStep
<1>3. DecisionInv => OneDecisionPerDelivery
  BY DEF DecisionInv
<1> QED
  BY <1>1, <1>2, <1>3, PTL DEF Spec

=============================================================================
