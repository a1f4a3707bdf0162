------------------------ MODULE TaskPermissionsProofs ------------------------
(***************************************************************************)
(* Proofs about TaskPermissions, for any workers, targets and bounds: its  *)
(* type invariant, that every open request has a deadline, and that        *)
(* nothing is let through that was not granted or approved, with what is   *)
(* left of it where sessions name their requests alike.                    *)
(***************************************************************************)
EXTENDS TaskPermissions, TLAPS

-----------------------------------------------------------------------------
(* Shapes.                                                                 *)

DecisionBeingJournaled == [request : Requests, decision : {"allow", "deny", "ask"}]

\* TypeOK, with what its parts are made of.
FleetOK ==
    /\ live \subseteq Workers /\ failed \subseteq Workers /\ live \cap failed = {}
    /\ sessions \in [Workers -> Nat]
    /\ \A w \in live : sessions[w] # 0
    /\ asked \in [Workers -> 0 .. MaxRequests]
    /\ total \in 0 .. MaxTotal /\ faults \in 0 .. MaxFaults
RequestsOK ==
    /\ made \subseteq Requests /\ open \subseteq Requests /\ held \subseteq open
    /\ cards \subseteq Requests /\ remembered \subseteq Requests
    /\ dialogs \subseteq Requests \X Nat
    /\ allowed \subseteq Requests \X {"worker", "task-wide"}
DecidingOK == deciding \in Seq(DecisionBeingJournaled)
AsksOK ==
    /\ owners \subseteq Workers \X Ids /\ timers \subseteq owners
    /\ yielding \in [Workers -> Nat]
    /\ memory \in [Workers -> SUBSET Targets]
Shapes == FleetOK /\ RequestsOK /\ DecidingOK /\ AsksOK

\* The shapes are finer than the type invariant.
LEMMA ShapesType == Shapes => TypeOK
<1> SUFFICES ASSUME Shapes PROVE TypeOK
  OBVIOUS
<1>1. \A d \in dialogs : d[1] \in Requests
  BY DEF Shapes, RequestsOK
<1>2. \A i \in DOMAIN deciding : deciding[i].request \in Requests
  <2>1. \A i \in DOMAIN deciding : deciding[i] \in DecisionBeingJournaled
    BY DEF Shapes, DecidingOK
  <2> QED
    BY <2>1 DEF DecisionBeingJournaled
<1> QED
  BY <1>1, <1>2 DEF Shapes, FleetOK, RequestsOK, AsksOK, TypeOK

\* The bounds are numbers.
LEMMA Bounds ==
    /\ MaxRequests \in Nat /\ MaxTotal \in Nat /\ MaxFaults \in Nat
    /\ Workers \subseteq Nat
BY BoundsAssumption, WorkersAssumption

\* The decision in front of the queue is one, and the others move up.
LEMMA HeadTail ==
    ASSUME DecidingOK, deciding # <<>>
    PROVE  /\ Head(deciding) \in DecisionBeingJournaled
           /\ Head(deciding) = deciding[1] /\ 1 \in DOMAIN deciding
           /\ Tail(deciding) \in Seq(DecisionBeingJournaled)
           /\ \A i \in DOMAIN Tail(deciding) :
                 /\ i + 1 \in DOMAIN deciding
                 /\ Tail(deciding)[i] = deciding[i + 1]
           /\ \A i \in DOMAIN deciding :
                 \/ i = 1
                 \/ /\ i - 1 \in DOMAIN Tail(deciding)
                    /\ Tail(deciding)[i - 1] = deciding[i]
BY DEF DecidingOK

\* An answer closes requests, and a broker lets go of those it closes.
LEMMA AnswerShape ==
    ASSUME RequestsOK, NEW ws, NEW id, NEW decision, Answer(ws, id, decision)
    PROVE  /\ open' \subseteq open
           /\ held' \subseteq held /\ held' \subseteq open'
BY DEF RequestsOK, Answer, Answered

\* A request takes a name of its own.
LEMMA NewRequest ==
    ASSUME FleetOK, NEW w \in live, NEW t \in Targets, asked[w] < MaxRequests
    PROVE  /\ Request(w, Id(w, asked[w] + 1), t) \in Requests
           /\ asked[w] + 1 \in 1 .. MaxRequests /\ w \in Workers
           /\ sessions[w] \in Nat
<1>1. /\ w \in Workers /\ asked[w] + 1 \in 1 .. MaxRequests
      /\ sessions[w] \in Nat
  BY Bounds DEF FleetOK
<1>2. Id(w, asked[w] + 1) \in Ids
  BY <1>1 DEF Id, Ids
<1> QED
  BY <1>1, <1>2 DEF Request, Requests

\* The end of a session.
LEMMA EndedShape ==
    ASSUME Shapes, NEW w \in Workers, Ended(w)
    PROVE  /\ live' = live \ {w}
           /\ open' \subseteq open /\ held' \subseteq open'
           /\ owners' \subseteq owners /\ timers' \subseteq owners'
           /\ yielding' \in [Workers -> Nat]
BY DEF Shapes, RequestsOK, AsksOK, Ended

\* The answer to a card leaves well-formed counters, timers and memories.
LEMMA ResolvesShape ==
    ASSUME Shapes, NEW id, NEW decision, NEW scope, Resolves(id, decision, scope)
    PROVE  AsksOK' /\ remembered' \subseteq remembered
<1>1. timers' \subseteq owners' /\ owners' \subseteq owners
  BY DEF Shapes, AsksOK, Resolves, Affected, OwnersOf
<1>2. yielding' \in [Workers -> Nat]
  BY DEF Shapes, AsksOK, Resolves
<1>3. AskedUnder(id) \subseteq Requests /\ Shared(id) \subseteq Requests
  BY DEF Shapes, RequestsOK, AskedUnder, Shared
<1>4. \A w \in Workers : Learns(w, id, scope) \subseteq Targets
  BY <1>3 DEF Learns, Requests
<1>5. memory' \in [Workers -> SUBSET Targets]
  BY <1>4 DEF Shapes, AsksOK, Resolves
<1>6. remembered' \subseteq remembered
  BY DEF Resolves
<1> QED
  BY <1>1, <1>2, <1>5, <1>6 DEF Shapes, AsksOK

\* What is appended to the journal is a decision.
LEMMA DecidesShape ==
    ASSUME Shapes, NEW w \in live, NEW t \in Targets, asked[w] < MaxRequests,
           Decides(w, Id(w, asked[w] + 1), t)
    PROVE  DecidingOK'
<1>1. Decision(w, t) \in {"allow", "deny", "ask"}
  BY DEF Decision
<1>2. [request |-> Request(w, Id(w, asked[w] + 1), t), decision |-> Decision(w, t)]
          \in DecisionBeingJournaled
  BY <1>1, NewRequest DEF Shapes, DecisionBeingJournaled
<1> QED
  BY <1>2 DEF Decides, Shapes, DecidingOK

-----------------------------------------------------------------------------
\* The empty Meeting has these shapes.
LEMMA ShapesInit == Init => Shapes
BY Bounds DEF Init, Shapes, FleetOK, RequestsOK, DecidingOK, AsksOK

\* Every step keeps the shapes.
LEMMA ShapesStep == Shapes /\ [Next]_vars => Shapes'
<1> SUFFICES ASSUME Shapes, [Next]_vars
             PROVE  Shapes'
  OBVIOUS
<1> USE Bounds DEF Shapes
<1>1. ASSUME NEW w \in Workers, Launch(w)
      PROVE  Shapes'
  <2>1. FleetOK'
    BY <1>1 DEF Launch, FleetOK
  <2> QED
    BY <1>1, <2>1 DEF Launch, RequestsOK, DecidingOK, AsksOK, asks, history
<1>2. ASSUME NEW w \in Workers, Parks(w) \/ Restarts(w)
      PROVE  Shapes'
  <2>1. Ended(w)
    BY <1>2 DEF Parks, Restarts
  <2>2. FleetOK'
    BY <1>2, <2>1, EndedShape DEF Parks, Restarts, FleetOK, counters
  <2>3. RequestsOK' /\ DecidingOK'
    BY <1>2, <2>1, EndedShape DEF Parks, Restarts, RequestsOK, counters, DecidingOK, history
  <2>4. AsksOK'
    BY <1>2, <2>1, EndedShape DEF Parks, Restarts, AsksOK
  <2> QED
    BY <2>2, <2>3, <2>4
<1>3. ASSUME NEW w \in Workers, NEW t \in Targets, Asks(w, t)
      PROVE  Shapes'
  <2>1. /\ w \in live /\ asked[w] < MaxRequests
        /\ Decides(w, Id(w, asked[w] + 1), t)
    BY <1>3 DEF Asks
  <2>2. DecidingOK'
    BY <2>1, DecidesShape
  <2>3. FleetOK'
    BY <1>3, <2>1 DEF Asks, FleetOK, fleet
  <2>4. RequestsOK'
    BY <1>3, <2>1, NewRequest DEF Asks, RequestsOK, asks, history
  <2> QED
    BY <1>3, <2>2, <2>3, <2>4 DEF Asks, AsksOK, asks
<1>4. ASSUME NEW w \in Workers, NEW t \in Targets, Submits(w, t)
      PROVE  Shapes'
  <2>1. w \in live /\ asked[w] < MaxRequests
    BY <1>4 DEF Submits
  <2>2. DecidingOK'
    BY <1>4, <2>1, DecidesShape DEF Submits, DecidingOK
  <2>3. FleetOK'
    BY <1>4, <2>1 DEF Submits, FleetOK, fleet
  <2>4. sessions[w] \in Nat
    BY DEF FleetOK
  <2>5. RequestsOK'
    <3> DEFINE r == Request(w, Id(w, asked[w] + 1), t)
    <3>1. r \in Requests
      BY <2>1, NewRequest
    <3>2. /\ open' = open \cup {r} /\ held' = held \cup {r}
          /\ dialogs' \subseteq dialogs \cup {<<r, sessions[w]>>}
          /\ UNCHANGED <<made, cards, remembered, allowed>>
      BY <1>4 DEF Submits, asks, history
    <3> HIDE DEF r
    <3> QED
      BY <2>4, <3>1, <3>2 DEF RequestsOK
  <2> QED
    BY <1>4, <2>2, <2>3, <2>5 DEF Submits, AsksOK, asks
<1>5. ASSUME Decided
      PROVE  Shapes'
  <2> DEFINE d == Head(deciding)
             r == d.request
             w == r.worker
  <2>1. /\ DecidingOK' /\ r \in Requests /\ w \in Workers /\ r.id \in Ids
    BY <1>5, HeadTail DEF Decided, DecidingOK, DecisionBeingJournaled, Requests
  <2>2. CASE /\ Answer({w}, r.id, "allow") \/ Answer({w}, r.id, "deny")
             /\ UNCHANGED <<live, failed, cards, asks>>
    <3>1. FleetOK' /\ AsksOK'
      BY <1>5, <2>2 DEF Decided, FleetOK, AsksOK, counters, asks
    <3>2. RequestsOK'
      BY <1>5, <2>2, AnswerShape DEF Decided, RequestsOK, counters, asks
    <3> QED
      BY <2>1, <3>1, <3>2
  <2>3. CASE Shows(r) /\ NoAnswer /\ UNCHANGED <<live, failed>>
    <3>1. FleetOK'
      BY <1>5, <2>3 DEF Decided, FleetOK, counters
    <3>2. RequestsOK'
      BY <1>5, <2>1, <2>3 DEF Decided, RequestsOK, counters, Shows, NoAnswer
    <3>3. AsksOK'
      <4> HIDE DEF d, r, w
      <4>1. w = r.worker
        BY DEF w
      <4>2. <<r.worker, r.id>> \in Workers \X Ids
        BY <2>1, <4>1
      <4>3. owners' \subseteq Workers \X Ids /\ timers' \subseteq owners'
        BY <2>3, <4>2 DEF AsksOK, Shows
      <4>4. yielding' \in [Workers -> Nat]
        <5>1. /\ yielding' = [yielding EXCEPT ![r.worker] = @ + 1]
              /\ yielding \in [Workers -> Nat]
          BY <2>3 DEF AsksOK, Shows
        <5>2. \A v \in Workers : yielding[v] + 1 \in Nat
          BY <5>1
        <5> QED
          BY <5>1, <5>2
      <4> QED
        BY <2>3, <4>3, <4>4 DEF AsksOK, Shows
    <3> QED
      BY <2>1, <3>1, <3>2, <3>3
  <2>4. CASE /\ Ended(w) /\ failed' = failed \cup {w}
             /\ UNCHANGED <<cards, remembered, memory, done>>
    <3>1. FleetOK'
      BY <1>5, <2>1, <2>4, EndedShape DEF Decided, FleetOK, counters
    <3>2. RequestsOK'
      BY <1>5, <2>1, <2>4, EndedShape DEF Decided, RequestsOK, counters
    <3>3. AsksOK'
      BY <1>5, <2>1, <2>4, EndedShape DEF AsksOK
    <3> QED
      BY <2>1, <3>1, <3>2, <3>3
  <2> QED
    BY <1>5, <2>2, <2>3, <2>4 DEF Decided
<1>6. ASSUME NotJournaled
      PROVE  Shapes'
  <2>1. DecidingOK'
    BY <1>6, HeadTail DEF NotJournaled, DecidingOK
  <2>2. FleetOK' /\ AsksOK'
    BY <1>6 DEF NotJournaled, FleetOK, AsksOK, fleet, asks
  <2>3. RequestsOK'
    BY <1>6, AnswerShape DEF NotJournaled, RequestsOK, asks
  <2> QED
    BY <2>1, <2>2, <2>3
<1>7. ASSUME NEW card \in cards, NEW decision, NEW scope \in {"worker", "task-wide"},
             UserAnswers(card, decision, scope)
      PROVE  Shapes'
  <2>1. AsksOK' /\ remembered' \subseteq remembered
    BY <1>7, ResolvesShape DEF UserAnswers
  <2>2. Answer(Affected(card.id), card.id, decision)
    BY <1>7 DEF UserAnswers, Resolves
  <2>3. RequestsOK'
    BY <1>7, <2>1, <2>2, AnswerShape DEF UserAnswers, RequestsOK, counters
  <2> QED
    BY <1>7, <2>1, <2>3 DEF UserAnswers, FleetOK, DecidingOK, fleet, counters
<1>8. ASSUME NEW o \in timers, TimesOut(o[1], o[2])
      PROVE  Shapes'
  <2>1. FleetOK' /\ DecidingOK'
    BY <1>8 DEF TimesOut, FleetOK, DecidingOK, fleet, counters
  <2>2. AsksOK'
    BY <1>8 DEF TimesOut, AsksOK
  <2>3. RequestsOK'
    BY <1>8, AnswerShape DEF TimesOut, RequestsOK, counters, NoAnswer
  <2> QED
    BY <2>1, <2>2, <2>3
<1>9. ASSUME NEW r \in held, Withdrawn(r)
      PROVE  Shapes'
  BY <1>9 DEF Withdrawn, FleetOK, RequestsOK, DecidingOK, AsksOK, fleet, counters,
              history, asks
<1>10. ASSUME NEW d \in dialogs, NEW allow \in BOOLEAN, Confirms(d, allow)
       PROVE  Shapes'
  <2>1. FleetOK' /\ DecidingOK' /\ AsksOK'
    BY <1>10 DEF Confirms, FleetOK, DecidingOK, AsksOK, fleet, counters, asks
  <2>2. d[1] \in Requests
    BY DEF RequestsOK
  <2>3. RequestsOK'
    BY <1>10, <2>2, AnswerShape DEF Confirms, RequestsOK, counters, NoAnswer, asks
  <2> QED
    BY <2>1, <2>3
<1>11. ASSUME NEW d \in dialogs, ConfirmThrows(d)
       PROVE  Shapes'
  BY <1>11 DEF ConfirmThrows, FleetOK, RequestsOK, DecidingOK, AsksOK, fleet, asks
<1>12. CASE UNCHANGED vars
  BY <1>12 DEF FleetOK, RequestsOK, DecidingOK, AsksOK, vars, fleet, counters,
               history, asks
<1> QED
  BY <1>1, <1>2, <1>3, <1>4, <1>5, <1>6, <1>7, <1>8, <1>9, <1>10, <1>11, <1>12
  DEF Next, BrokerTimesOut, RepliedElsewhere

\* The type invariant holds, for any workers, targets, names and bounds.
THEOREM TypeCorrect == Spec => []TypeOK
<1>1. Spec => []Shapes
  BY ShapesInit, ShapesStep, PTL DEF Spec
<1> QED
  BY <1>1, ShapesType, PTL


-----------------------------------------------------------------------------
(* Every request has a deadline.                                           *)

InJournal(q) == \E i \in DOMAIN deciding : deciding[i].request = q

\* Only a live session has open requests; a broker tracks its own, and the others
\* are being journaled or have a timer.
Manned == \A q \in open : q.worker \in live
Tracked == \A q \in open : q.worker \in Brokered => q \in held \cup dropped
Awaited == \A q \in open : \/ q.worker \in Brokered
                           \/ InJournal(q)
                           \/ <<q.worker, q.id>> \in timers
Deadlines == Manned /\ Tracked /\ Awaited

\* What an answer leaves open is tracked as before, and is not its request.
LEMMA AnswerLeaves ==
    ASSUME RequestsOK, NEW ws, NEW id, NEW decision, Answer(ws, id, decision)
    PROVE  \A q \in open' :
              /\ q \in open /\ (q \in held => q \in held')
              /\ q.worker \in Brokered \/ q.worker \notin ws \/ q.id # id
BY DEF RequestsOK, Answer, Answered, Held

\* Only the request in front leaves the journal's queue.
LEMMA FrontLeaves ==
    ASSUME DecidingOK, deciding # <<>>, deciding' = Tail(deciding), NEW q, InJournal(q)
    PROVE  q = Head(deciding).request \/ InJournal(q)'
<1>1. PICK i \in DOMAIN deciding : deciding[i].request = q
  BY DEF InJournal
<1>2. CASE i = 1
  BY <1>1, <1>2, HeadTail
<1>3. CASE i # 1
  <2>1. i - 1 \in DOMAIN Tail(deciding) /\ Tail(deciding)[i - 1] = deciding[i]
    BY <1>3, HeadTail
  <2> QED
    BY <1>1, <2>1 DEF InJournal
<1> QED
  BY <1>2, <1>3

\* A decision joins those being journaled.
LEMMA Joins ==
    ASSUME DecidingOK, NEW d, deciding' = Append(deciding, d)
    PROVE  /\ \A i \in DOMAIN deciding : i \in DOMAIN deciding' /\ deciding'[i] = deciding[i]
           /\ \E i \in DOMAIN deciding' : deciding'[i] = d
           /\ \A i \in DOMAIN deciding' : \/ i \in DOMAIN deciding /\ deciding'[i] = deciding[i]
                                          \/ deciding'[i] = d
<1>1. /\ Len(deciding) \in Nat /\ DOMAIN deciding = 1 .. Len(deciding)
      /\ DOMAIN deciding' = 1 .. Len(deciding) + 1
      /\ \A i \in 1 .. Len(deciding) : deciding'[i] = deciding[i]
      /\ deciding'[Len(deciding) + 1] = d
  BY DEF DecidingOK
<1>2. Len(deciding) + 1 \in DOMAIN deciding'
  BY <1>1
<1>3. \A i \in DOMAIN deciding' : i \in DOMAIN deciding \/ i = Len(deciding) + 1
  BY <1>1
<1>4. DOMAIN deciding \subseteq DOMAIN deciding'
  BY <1>1
<1> QED
  BY <1>1, <1>2, <1>3, <1>4

\* Deadlines survive an answer and what else an action does to timers.
LEMMA AnswerKeepsDeadlines ==
    ASSUME RequestsOK, Deadlines, NEW ws, NEW id, NEW decision,
           Answer(ws, id, decision), UNCHANGED live, UNCHANGED dropped,
           \A q \in open : \/ q.worker \in Brokered \/ (q.worker \in ws /\ q.id = id)
                           \/ InJournal(q)' \/ <<q.worker, q.id>> \in timers'
    PROVE  Deadlines'
<1>1. Manned' /\ Tracked'
  BY AnswerLeaves DEF Deadlines, Manned, Tracked
<1>2. Awaited'
  BY AnswerLeaves DEF Awaited, InJournal
<1> QED
  BY <1>1, <1>2 DEF Deadlines

\* The requests of an ended session are closed, those of the others stay.
LEMMA EndedKeepsDeadlines ==
    ASSUME Deadlines, NEW w \in Workers, Ended(w), UNCHANGED dropped,
           \A q \in open : q.worker = w \/ InJournal(q)' \/ ~InJournal(q)
    PROVE  Deadlines'
<1>1. Manned' /\ Tracked'
  BY DEF Ended, Deadlines, Manned, Tracked
<1>2. ASSUME NEW q \in open', q.worker \notin Brokered
      PROVE  InJournal(q)' \/ <<q.worker, q.id>> \in timers'
  <2>1. q \in open /\ q.worker # w
    BY DEF Ended
  <2>2. InJournal(q) \/ <<q.worker, q.id>> \in timers
    BY <1>2, <2>1 DEF Deadlines, Awaited
  <2>3. <<q.worker, q.id>> \in timers => <<q.worker, q.id>> \in timers'
    BY <2>1 DEF Ended
  <2> QED
    BY <2>1, <2>2, <2>3
<1> QED
  BY <1>1, <1>2 DEF Deadlines, Awaited

\* Nothing is open at first.
LEMMA DeadlinesInit == Init => Deadlines
BY DEF Init, Deadlines, Manned, Tracked, Awaited

\* Every step keeps the deadlines.
LEMMA DeadlinesStep == Shapes /\ Deadlines /\ [Next]_vars => Deadlines'
<1> SUFFICES ASSUME Shapes, Deadlines, [Next]_vars
             PROVE  Deadlines'
  OBVIOUS
<1> USE DEF Shapes
<1>1. ASSUME NEW w \in Workers, Launch(w)
      PROVE  Deadlines'
  BY <1>1 DEF Launch, asks, history, Deadlines, Manned, Tracked, Awaited, InJournal
<1>2. ASSUME NEW w \in Workers, Parks(w) \/ Restarts(w)
      PROVE  Deadlines'
  <2>1. Ended(w) /\ UNCHANGED <<deciding, dropped>>
    BY <1>2 DEF Parks, Restarts, history
  <2>2. \A q \in open : InJournal(q) => InJournal(q)'
    BY <2>1 DEF InJournal
  <2> QED
    BY <2>1, <2>2, EndedKeepsDeadlines
<1>3. ASSUME NEW w \in Workers, NEW t \in Targets, Asks(w, t)
      PROVE  Deadlines'
  <2> DEFINE r == Request(w, Id(w, asked[w] + 1), t)
             d == [request |-> r, decision |-> Decision(w, t)]
  <2>1. /\ w \in live \ Brokered
        /\ open' = open \cup {r}
        /\ UNCHANGED <<live, held, dropped, timers>>
        /\ deciding' = Append(deciding, d)
    BY <1>3 DEF Asks, Decides, fleet, history, asks
  <2>2. r.worker = w /\ d.request = r
    BY DEF Request
  <2> HIDE DEF r, d
  <2>3. /\ \E i \in DOMAIN deciding' : deciding'[i].request = r
        /\ \A q : InJournal(q) => InJournal(q)'
    <3>1. /\ \A i \in DOMAIN deciding : i \in DOMAIN deciding' /\ deciding'[i] = deciding[i]
          /\ \E i \in DOMAIN deciding' : deciding'[i] = d
      BY <2>1, Joins
    <3> QED
      BY <2>2, <3>1 DEF InJournal
  <2>4. Manned' /\ Tracked'
    BY <2>1, <2>2 DEF Deadlines, Manned, Tracked
  <2>5. Awaited'
    BY <2>1, <2>3 DEF Deadlines, Awaited, InJournal
  <2> QED
    BY <2>4, <2>5 DEF Deadlines
<1>4. ASSUME NEW w \in Workers, NEW t \in Targets, Submits(w, t)
      PROVE  Deadlines'
  <2> DEFINE r == Request(w, Id(w, asked[w] + 1), t)
             d == [request |-> r, decision |-> Decision(w, t)]
  <2>1. /\ w \in live \cap Brokered
        /\ open' = open \cup {r} /\ held' = held \cup {r}
        /\ UNCHANGED <<live, dropped, timers>>
        /\ deciding' = Append(deciding, d) \/ UNCHANGED deciding
    BY <1>4 DEF Submits, Decides, fleet, history, asks
  <2>2. r.worker = w
    BY DEF Request
  <2> HIDE DEF r, d
  <2>3. \A q : InJournal(q) => InJournal(q)'
    <3>1. CASE UNCHANGED deciding
      BY <3>1 DEF InJournal
    <3>2. CASE deciding' = Append(deciding, d)
      <4>1. \A i \in DOMAIN deciding : i \in DOMAIN deciding' /\ deciding'[i] = deciding[i]
        BY <3>2, Joins
      <4> QED
        BY <4>1 DEF InJournal
    <3> QED
      BY <2>1, <3>1, <3>2
  <2>4. Manned' /\ Tracked'
    BY <2>1, <2>2 DEF Deadlines, Manned, Tracked
  <2>5. Awaited'
    BY <2>1, <2>2, <2>3 DEF Deadlines, Awaited
  <2> QED
    BY <2>4, <2>5 DEF Deadlines
<1>5. ASSUME Decided
      PROVE  Deadlines'
  <2> DEFINE r == Head(deciding).request
             w == r.worker
  <2>1. /\ w \in Workers /\ deciding # <<>> /\ deciding' = Tail(deciding)
        /\ UNCHANGED dropped
    BY <1>5, HeadTail DEF Decided, DecisionBeingJournaled, Requests
  <2>2. \A q : InJournal(q) => q = r \/ InJournal(q)'
    BY <2>1, FrontLeaves
  <2> HIDE DEF r
  <2>3. ASSUME NEW decision, Answer({w}, r.id, decision), UNCHANGED <<live, asks>>
        PROVE  Deadlines'
    <3>1. UNCHANGED timers
      BY <2>3 DEF asks
    <3>2. \A q \in open : \/ q.worker \in Brokered \/ (q.worker \in {w} /\ q.id = r.id)
                          \/ InJournal(q)' \/ <<q.worker, q.id>> \in timers'
      BY <2>2, <3>1 DEF Deadlines, Awaited
    <3> QED
      BY <2>1, <2>3, <3>2, AnswerKeepsDeadlines
  <2>4. CASE Shows(r) /\ NoAnswer /\ UNCHANGED <<live, failed>>
    <3>1. r.worker \notin Brokered => <<r.worker, r.id>> \in timers'
      BY <2>4 DEF Shows
    <3>2. timers \subseteq timers' /\ UNCHANGED <<open, held, live, dropped>>
      BY <2>1, <2>4 DEF Shows, NoAnswer
    <3> QED
      BY <2>2, <3>1, <3>2 DEF Deadlines, Manned, Tracked, Awaited
  <2>5. CASE Ended(w)
    <3>1. \A q \in open : q.worker = w \/ InJournal(q)' \/ ~InJournal(q)
      BY <2>2
    <3> QED
      BY <2>1, <2>5, <3>1, EndedKeepsDeadlines
  <2> QED
    BY <1>5, <2>3, <2>4, <2>5 DEF Decided, r
<1>6. ASSUME NotJournaled
      PROVE  Deadlines'
  <2> DEFINE r == Head(deciding).request
  <2>1. /\ deciding # <<>> /\ deciding' = Tail(deciding)
        /\ Answer({r.worker}, r.id, "deny") /\ UNCHANGED <<live, dropped, timers>>
    BY <1>6 DEF NotJournaled, fleet, asks
  <2>2. \A q : InJournal(q) => q = r \/ InJournal(q)'
    BY <2>1, FrontLeaves
  <2> HIDE DEF r
  <2>3. \A q \in open : \/ q.worker \in Brokered \/ (q.worker \in {r.worker} /\ q.id = r.id)
                        \/ InJournal(q)' \/ <<q.worker, q.id>> \in timers'
    BY <2>1, <2>2 DEF Deadlines, Awaited
  <2> QED
    BY <2>1, <2>3, AnswerKeepsDeadlines
<1>7. ASSUME NEW card \in cards, NEW decision, NEW scope,
             UserAnswers(card, decision, scope)
      PROVE  Deadlines'
  <2>1. /\ Answer(Affected(card.id), card.id, decision)
        /\ UNCHANGED <<live, dropped, deciding>>
        /\ timers' = {o \in timers : ~(o[2] = card.id /\ o[1] \in Affected(card.id))}
    BY <1>7 DEF UserAnswers, Resolves, fleet
  <2>2. ASSUME NEW q \in open, q.worker \notin Brokered,
               ~(q.worker \in Affected(card.id) /\ q.id = card.id)
        PROVE  InJournal(q)' \/ <<q.worker, q.id>> \in timers'
    <3>1. <<q.worker, q.id>> \in timers => <<q.worker, q.id>> \in timers'
      BY <2>1, <2>2
    <3>2. InJournal(q) => InJournal(q)'
      BY <2>1 DEF InJournal
    <3> QED
      BY <2>2, <3>1, <3>2 DEF Deadlines, Awaited
  <2> QED
    BY <2>1, <2>2, AnswerKeepsDeadlines
<1>8. ASSUME NEW o \in timers, TimesOut(o[1], o[2])
      PROVE  Deadlines'
  <2> DEFINE w == o[1]
             id == o[2]
  <2>1. timers' = timers \ {<<w, id>>} /\ UNCHANGED <<live, dropped, deciding>>
    BY <1>8 DEF TimesOut, fleet
  <2>2. \A q \in open : \/ q.worker \in Brokered \/ (q.worker \in {w} /\ q.id = id)
                        \/ InJournal(q)' \/ <<q.worker, q.id>> \in timers'
    BY <2>1 DEF Deadlines, Awaited, InJournal
  <2>3. CASE w \in live
    <3>1. Answer({w}, id, "deny")
      BY <1>8, <2>3 DEF TimesOut
    <3> QED
      BY <2>1, <2>2, <3>1, AnswerKeepsDeadlines
  <2>4. CASE w \notin live
    <3>1. UNCHANGED <<open, held>>
      BY <1>8, <2>4 DEF TimesOut, NoAnswer
    <3>2. \A q \in open : q.worker # w
      BY <2>4 DEF Deadlines, Manned
    <3>3. Awaited'
      BY <2>2, <3>1, <3>2 DEF Awaited
    <3> QED
      BY <2>1, <3>1, <3>3 DEF Deadlines, Manned, Tracked
  <2> QED
    BY <2>3, <2>4
<1>9. ASSUME NEW r \in held, Withdrawn(r)
      PROVE  Deadlines'
  BY <1>9 DEF Withdrawn, fleet, history, asks, Deadlines, Manned, Tracked, Awaited,
              InJournal
<1>10. ASSUME NEW d \in dialogs, NEW allow \in BOOLEAN, Confirms(d, allow)
       PROVE  Deadlines'
  <2> DEFINE r == d[1]
  <2>1. /\ UNCHANGED <<live, dropped, deciding, timers>>
        /\ \/ UNCHANGED <<open, held>>
           \/ Answer({r.worker}, r.id, IF allow THEN "allow" ELSE "deny")
    BY <1>10 DEF Confirms, NoAnswer, fleet, asks
  <2> HIDE DEF r
  <2>2. \A q \in open : \/ q.worker \in Brokered
                        \/ InJournal(q)' \/ <<q.worker, q.id>> \in timers'
    BY <2>1 DEF Deadlines, Awaited, InJournal
  <2>3. CASE UNCHANGED <<open, held>>
    BY <2>1, <2>2, <2>3 DEF Deadlines, Manned, Tracked, Awaited
  <2> QED
    BY <2>1, <2>2, <2>3, AnswerKeepsDeadlines
<1>11. ASSUME NEW d \in dialogs, ConfirmThrows(d)
       PROVE  Deadlines'
  BY <1>11 DEF ConfirmThrows, fleet, asks, Deadlines, Manned, Tracked, Awaited, InJournal
<1>12. CASE UNCHANGED vars
  BY <1>12 DEF vars, fleet, history, asks, Deadlines, Manned, Tracked, Awaited, InJournal
<1> QED
  BY <1>1, <1>2, <1>3, <1>4, <1>5, <1>6, <1>7, <1>8, <1>9, <1>10, <1>11, <1>12
  DEF Next, BrokerTimesOut, RepliedElsewhere

\* Deadlines say it of each kind of session.
LEMMA DeadlinesSuffice == Deadlines => EveryRequestHasADeadline
BY DEF Deadlines, Tracked, Awaited, InJournal, EveryRequestHasADeadline

\* No open request is ever forgotten: it is being decided, or it has a timer, of the
\* scheduler or of a broker, whatever sessions end, answers cross or writes fail.
THEOREM DeadlinesHold == Spec => []EveryRequestHasADeadline
<1>1. Init => Shapes /\ Deadlines
  BY ShapesInit, DeadlinesInit
<1>2. (Shapes /\ Deadlines) /\ [Next]_vars => (Shapes /\ Deadlines)'
  BY ShapesStep, DeadlinesStep
<1>3. Spec => [](Shapes /\ Deadlines)
  BY <1>1, <1>2, PTL DEF Spec
<1> QED
  BY <1>3, DeadlinesSuffice, PTL

-----------------------------------------------------------------------------
(* Nothing unapproved: which requests share a name.                        *)

\* The requests that are anywhere in the system.
Journaled == {deciding[i].request : i \in DOMAIN deciding}
Known == open \cup cards \cup remembered \cup Journaled
             \cup {d[1] : d \in dialogs} \cup {a[1] : a \in allowed}

\* A name holds its session and its number, and was given before now.
NameGiven(r, s, n) ==
    /\ r.id = [of |-> <<r.worker, s>>, n |-> n]
    /\ \/ s < sessions[r.worker]
       \/ s = sessions[r.worker] /\ n <= asked[r.worker]
\* The names of those who number their requests hold no session, but then the
\* request is among those made.
Named(r) == IF r.worker \in Numbered THEN r.id.of = <<>> /\ r \in made
            ELSE \E s, n \in Nat : NameGiven(r, s, n)
NamesGiven == \A r \in Known : Named(r)
NamesUnique == \A q, r \in Known : q.worker \notin Numbered /\ q.id = r.id => q = r

\* What is decided, remembered and learned was granted or approved.
AllowsAreApproved ==
    \A i \in DOMAIN deciding : deciding[i].decision = "allow" => Warranted(deciding[i].request)
MemoryIsApproved == \A w \in Workers : \A t \in memory[w] : Remembered(w, t)
RememberedMayBe == \A r \in remembered : r.target \in Memorable
Excused(r) == Approved(r) \/ <<r.worker, r.target>> \in NoReject
DoneIsApproved == \A r \in done : Excused(r)
Approvals == AllowsAreApproved /\ MemoryIsApproved /\ RememberedMayBe /\ DoneIsApproved

\* What is known are requests.
LEMMA KnownRequests == ASSUME Shapes PROVE Known \subseteq Requests
<1>1. Journaled \subseteq Requests
  <2>1. \A i \in DOMAIN deciding : deciding[i] \in DecisionBeingJournaled
    BY DEF Shapes, DecidingOK
  <2> QED
    BY <2>1 DEF DecisionBeingJournaled, Journaled
<1>2. {d[1] : d \in dialogs} \subseteq Requests
  BY DEF Shapes, RequestsOK
<1>3. {a[1] : a \in allowed} \subseteq Requests
  BY DEF Shapes, RequestsOK
<1> QED
  BY <1>1, <1>2, <1>3 DEF Shapes, RequestsOK, Known

\* What was approved stays approved.
LEMMA ApprovedStays ==
    ASSUME allowed \subseteq allowed', made \subseteq made'
    PROVE  /\ \A w, t : Remembered(w, t) => Remembered(w, t)'
           /\ \A r : Warranted(r) => Warranted(r)'
           /\ \A r : Approved(r) => Approved(r)'
           /\ \A r : Excused(r) => Excused(r)'
<1>1. \A r : \A q \in Meant(r) : q \in Meant(r)'
  BY DEF Meant
<1>2. \A w, t : Remembered(w, t) => Remembered(w, t)'
  BY <1>1 DEF Remembered
<1>3. \A r : Warranted(r) => Warranted(r)'
  BY <1>2 DEF Warranted
<1>4. \A r : Approved(r) => Approved(r)'
  BY <1>1, <1>3 DEF Approved
<1> QED
  BY <1>2, <1>3, <1>4 DEF Excused

\* The queue without its front.
LEMMA TailJournaled ==
    ASSUME DecidingOK, deciding # <<>>, deciding' = Tail(deciding)
    PROVE  /\ Journaled' \subseteq Journaled /\ Head(deciding).request \in Journaled
           /\ \A i \in DOMAIN deciding' : \E j \in DOMAIN deciding : deciding'[i] = deciding[j]
<1>1. \A i \in DOMAIN deciding' : i + 1 \in DOMAIN deciding /\ deciding'[i] = deciding[i + 1]
  BY HeadTail
<1>2. 1 \in DOMAIN deciding /\ Head(deciding) = deciding[1]
  BY HeadTail
<1> QED
  BY <1>1, <1>2 DEF Journaled

\* Only asking makes a request known, and only a launch or asking moves a name.
Asking == \E w \in Workers, t \in Targets : Asks(w, t) \/ Submits(w, t)
Launching == \E w \in Workers : Launch(w)

\* Every other step only forgets requests.
LEMMA KnownShrinks ==
    ASSUME Shapes, [Next]_vars, ~Asking, ~Launching
    PROVE  Known' \subseteq Known /\ UNCHANGED <<sessions, asked, made>>
<1> USE DEF Shapes
<1>1. ASSUME NEW w \in Workers, Parks(w) \/ Restarts(w)
      PROVE  Known' \subseteq Known /\ UNCHANGED <<sessions, asked, made>>
  BY <1>1 DEF Parks, Restarts, Ended, counters, history, Known, Journaled
<1>2. ASSUME Decided
      PROVE  Known' \subseteq Known /\ UNCHANGED <<sessions, asked, made>>
  <2> DEFINE r == Head(deciding).request
  <2>1. /\ deciding # <<>> /\ deciding' = Tail(deciding)
        /\ UNCHANGED <<sessions, asked, made, dialogs, allowed>>
    BY <1>2 DEF Decided, counters
  <2>2. Journaled' \subseteq Journaled /\ r \in Journaled
    BY <2>1, TailJournaled
  <2>3. /\ cards' \subseteq cards \cup {r} /\ remembered' \subseteq remembered \cup {r}
    BY <1>2 DEF Decided, asks, Shows
  <2>4. open' \subseteq open
    BY <1>2 DEF Decided, Answer, NoAnswer, Ended
  <2> HIDE DEF r
  <2> QED
    BY <2>1, <2>2, <2>3, <2>4 DEF Known
<1>3. ASSUME NotJournaled
      PROVE  Known' \subseteq Known /\ UNCHANGED <<sessions, asked, made>>
  <2>1. /\ deciding # <<>> /\ deciding' = Tail(deciding) /\ open' \subseteq open
        /\ UNCHANGED <<sessions, asked, made, dialogs, allowed, cards, remembered>>
    BY <1>3 DEF NotJournaled, fleet, asks, Answer
  <2>2. Journaled' \subseteq Journaled
    BY <2>1, TailJournaled
  <2> QED
    BY <2>1, <2>2 DEF Known
<1>4. ASSUME NEW card \in cards, NEW decision, NEW scope,
             UserAnswers(card, decision, scope)
      PROVE  Known' \subseteq Known /\ UNCHANGED <<sessions, asked, made>>
  <2>1. /\ open' \subseteq open /\ cards' \subseteq cards /\ remembered' \subseteq remembered
        /\ UNCHANGED <<sessions, asked, made, dialogs, deciding>>
        /\ allowed' \subseteq allowed \cup {<<card, scope>>}
    BY <1>4 DEF UserAnswers, Resolves, Answer, fleet, counters
  <2>2. {a[1] : a \in allowed'} \subseteq {a[1] : a \in allowed} \cup {card}
    BY <2>1
  <2> QED
    BY <2>1, <2>2 DEF Known, Journaled
<1>5. ASSUME NEW o \in timers, TimesOut(o[1], o[2])
      PROVE  Known' \subseteq Known /\ UNCHANGED <<sessions, asked, made>>
  <2>1. /\ open' \subseteq open /\ cards' \subseteq cards /\ remembered' \subseteq remembered
        /\ UNCHANGED <<sessions, asked, made, dialogs, deciding, allowed>>
    BY <1>5 DEF TimesOut, Answer, NoAnswer, fleet, counters
  <2> QED
    BY <2>1 DEF Known, Journaled
<1>6. ASSUME NEW r \in held, Withdrawn(r)
      PROVE  Known' \subseteq Known /\ UNCHANGED <<sessions, asked, made>>
  BY <1>6 DEF Withdrawn, fleet, counters, history, asks, Known, Journaled
<1>7. ASSUME NEW d \in dialogs, NEW allow \in BOOLEAN, Confirms(d, allow)
      PROVE  Known' \subseteq Known /\ UNCHANGED <<sessions, asked, made>>
  <2>1. /\ open' \subseteq open /\ dialogs' \subseteq dialogs
        /\ UNCHANGED <<sessions, asked, made, deciding, cards, remembered>>
        /\ allowed' \subseteq allowed \cup {<<d[1], "worker">>}
    BY <1>7 DEF Confirms, Answer, NoAnswer, fleet, counters, asks
  <2>2. {a[1] : a \in allowed'} \subseteq {a[1] : a \in allowed} \cup {d[1]}
    BY <2>1
  <2> QED
    BY <2>1, <2>2 DEF Known, Journaled
<1>8. ASSUME NEW d \in dialogs, ConfirmThrows(d)
      PROVE  Known' \subseteq Known /\ UNCHANGED <<sessions, asked, made>>
  BY <1>8 DEF ConfirmThrows, fleet, asks, Known, Journaled
<1>9. CASE UNCHANGED vars
  BY <1>9 DEF vars, fleet, counters, history, asks, Known, Journaled
<1> QED
  BY <1>1, <1>2, <1>3, <1>4, <1>5, <1>6, <1>7, <1>8, <1>9
  DEF Next, BrokerTimesOut, RepliedElsewhere, Asking, Launching

\* The session in a name tells it from a name without.
LEMMA PairsAreNotEmpty == \A a, b : <<a, b>> # <<>>
OBVIOUS

\* The request somebody makes now has a name nobody has, unless both number theirs.
LEMMA FreshName ==
    ASSUME Shapes, NamesGiven, NEW w \in live, NEW t \in Targets,
           asked[w] < MaxRequests, NEW q \in Known, w \notin Numbered \/ q.worker \notin Numbered
    PROVE  q.id # Id(w, asked[w] + 1)
<1> SUFFICES ASSUME q.id = Id(w, asked[w] + 1) PROVE FALSE
  OBVIOUS
<1>1. Named(q) /\ sessions[w] \in Nat /\ asked[w] \in Nat
  BY Bounds DEF NamesGiven, Shapes, FleetOK
<1>2. CASE w \in Numbered
  <2>1. PICK s, n \in Nat : NameGiven(q, s, n)
    BY <1>1, <1>2 DEF Named
  <2>2. q.id.of = <<q.worker, s>>
    BY <2>1 DEF NameGiven
  <2>3. q.id.of = <<>>
    BY <1>2 DEF Id
  <2> QED
    BY <2>2, <2>3, PairsAreNotEmpty
<1>3. CASE w \notin Numbered /\ q.worker \in Numbered
  <2>1. q.id.of = <<>> /\ q.id.of = <<w, sessions[w]>>
    BY <1>1, <1>3 DEF Named, Id
  <2> QED
    BY <2>1, PairsAreNotEmpty
<1>4. CASE w \notin Numbered /\ q.worker \notin Numbered
  <2>1. PICK s, n \in Nat : NameGiven(q, s, n)
    BY <1>1, <1>4 DEF Named
  <2>2. [of |-> <<q.worker, s>>, n |-> n] = [of |-> <<w, sessions[w]>>, n |-> asked[w] + 1]
    BY <1>4, <2>1 DEF NameGiven, Id
  <2>3. q.worker = w /\ s = sessions[w] /\ n = asked[w] + 1
    <3>1. <<q.worker, s>> = <<w, sessions[w]>> /\ n = asked[w] + 1
      BY <2>2
    <3> QED
      BY <3>1
  <2> QED
    BY <1>1, <2>1, <2>3 DEF NameGiven
<1> QED
  BY <1>2, <1>3, <1>4

\* What asking makes known.
LEMMA AskingAdds ==
    ASSUME Shapes, NEW w \in Workers, NEW t \in Targets, Asks(w, t) \/ Submits(w, t)
    PROVE  /\ w \in live /\ asked[w] < MaxRequests
           /\ asked' = [asked EXCEPT ![w] = @ + 1] /\ UNCHANGED sessions
           /\ Known' \subseteq Known \cup {Request(w, Id(w, asked[w] + 1), t)}
           /\ made \subseteq made'
           /\ w \in Numbered => Request(w, Id(w, asked[w] + 1), t) \in made'
<1> DEFINE r == Request(w, Id(w, asked[w] + 1), t)
           d == [request |-> r, decision |-> Decision(w, t)]
<1>1. /\ w \in live /\ asked[w] < MaxRequests
      /\ asked' = [asked EXCEPT ![w] = @ + 1]
      /\ UNCHANGED <<sessions, cards, remembered, allowed>>
      /\ open' = open \cup {r}
      /\ dialogs' \subseteq dialogs \cup {<<r, sessions[w]>>}
      /\ deciding' = Append(deciding, d) \/ UNCHANGED deciding
  BY DEF Asks, Submits, Decides, fleet, history, asks
<1>2. d.request = r
  OBVIOUS
<1> HIDE DEF r, d
<1>3. Journaled' \subseteq Journaled \cup {r}
  <2>1. CASE UNCHANGED deciding
    BY <2>1 DEF Journaled
  <2>2. CASE deciding' = Append(deciding, d)
    <3>1. \A i \in DOMAIN deciding' : \/ i \in DOMAIN deciding /\ deciding'[i] = deciding[i]
                                      \/ deciding'[i] = d
      BY <2>2, Joins DEF Shapes
    <3> QED
      BY <3>1, <1>2 DEF Journaled
  <2> QED
    BY <1>1, <2>1, <2>2
<1>4. {e[1] : e \in dialogs'} \subseteq {e[1] : e \in dialogs} \cup {r}
  BY <1>1
<1>5. Known' \subseteq Known \cup {r}
  BY <1>1, <1>3, <1>4 DEF Known
<1>6. made \subseteq made' /\ (w \in Numbered => r \in made')
  <2>1. CASE Asks(w, t)
    BY <2>1 DEF Asks, r
  <2>2. CASE Submits(w, t)
    BY <2>2, WorkersAssumption DEF Submits
  <2> QED
    BY <2>1, <2>2
<1> QED
  BY <1>1, <1>5, <1>6 DEF r

\* Every step keeps the names apart, and forgets nothing that was made.
LEMMA NamesStep ==
    ASSUME Shapes, NamesGiven, NamesUnique, [Next]_vars
    PROVE  NamesGiven' /\ NamesUnique' /\ made \subseteq made'
<1>0. \A q \in Known : q.worker \in Workers
  BY KnownRequests DEF Requests
<1>1. ASSUME ~Asking, ~Launching
      PROVE  NamesGiven' /\ NamesUnique' /\ made \subseteq made'
  BY <1>1, KnownShrinks DEF NamesGiven, NamesUnique, Named, NameGiven
<1>2. ASSUME NEW w \in Workers, Launch(w)
      PROVE  NamesGiven' /\ NamesUnique' /\ made \subseteq made'
  <2>1. Known' = Known /\ made' = made
    BY <1>2 DEF Launch, history, asks, Known, Journaled
  <2>2. /\ sessions' = [sessions EXCEPT ![w] = @ + 1]
        /\ asked' = [asked EXCEPT ![w] = 0]
        /\ sessions \in [Workers -> Nat]
    BY <1>2, Bounds DEF Launch, Shapes, FleetOK
  <2>3. ASSUME NEW q \in Known, NEW s \in Nat, NEW n \in Nat, NameGiven(q, s, n)
        PROVE  NameGiven(q, s, n)'
    <3>1. q.worker \in Workers
      BY <1>0
    <3>2. \/ s < sessions'[q.worker]
          \/ s = sessions'[q.worker] /\ n <= asked'[q.worker]
      BY <2>2, <2>3, <3>1 DEF NameGiven, Shapes, FleetOK
    <3> QED
      BY <2>3, <3>2 DEF NameGiven
  <2> QED
    BY <2>1, <2>3 DEF NamesGiven, NamesUnique, Named
<1>3. ASSUME NEW w \in Workers, NEW t \in Targets, Asks(w, t) \/ Submits(w, t)
      PROVE  NamesGiven' /\ NamesUnique' /\ made \subseteq made'
  <2>0. PICK r : r = Request(w, Id(w, asked[w] + 1), t)
    OBVIOUS
  <2>1. /\ w \in live /\ asked[w] < MaxRequests
        /\ asked' = [asked EXCEPT ![w] = @ + 1] /\ UNCHANGED sessions
        /\ Known' \subseteq Known \cup {r}
        /\ made \subseteq made' /\ (w \in Numbered => r \in made')
    BY <1>3, <2>0, AskingAdds
  <2>2. /\ asked \in [Workers -> Nat] /\ sessions[w] \in Nat
    BY Bounds DEF Shapes, FleetOK
  <2>3. /\ r.worker = w /\ r.id = Id(w, asked[w] + 1)
    BY <2>0 DEF Request
  <2>4. \A q \in Known : w \notin Numbered \/ q.worker \notin Numbered => q.id # r.id
    BY <2>1, <2>3, FreshName
  <2>5. NamesUnique'
    BY <2>1, <2>3, <2>4 DEF NamesUnique
  <2>6. ASSUME NEW q \in Known, NEW s \in Nat, NEW n \in Nat, NameGiven(q, s, n)
        PROVE  NameGiven(q, s, n)'
    <3>1. q.worker \in Workers
      BY <1>0
    <3>2. n <= asked[q.worker] => n <= asked'[q.worker]
      BY <2>1, <2>2, <3>1
    <3> QED
      BY <2>1, <2>6, <3>2 DEF NameGiven
  <2>7. Named(r)'
    <3>1. CASE w \in Numbered
      BY <2>1, <2>3, <3>1 DEF Named, Id
    <3>2. CASE w \notin Numbered
      <4>1. PICK s, n \in Nat : s = sessions[w] /\ n = asked[w] + 1
        BY <2>2
      <4>2. n <= asked'[w] /\ s = sessions'[w]
        BY <2>1, <2>2, <4>1
      <4>3. r.id = [of |-> <<w, s>>, n |-> n]
        BY <2>3, <3>2, <4>1 DEF Id
      <4>4. NameGiven(r, s, n)'
        BY <2>3, <4>2, <4>3 DEF NameGiven
      <4> QED
        BY <2>3, <3>2, <4>4 DEF Named
    <3> QED
      BY <3>1, <3>2
  <2>8. ASSUME NEW q \in Known
        PROVE  Named(q)'
    BY <2>1, <2>6 DEF NamesGiven, Named
  <2>9. NamesGiven'
    BY <2>1, <2>7, <2>8 DEF NamesGiven
  <2> QED
    BY <2>1, <2>5, <2>9
<1> QED
  BY <1>1, <1>2, <1>3 DEF Asking, Launching


-----------------------------------------------------------------------------
(* Nothing unapproved: what is granted was granted to that request.        *)

\* Requests of one name may be meant for one another.
LEMMA Namesakes ==
    ASSUME NamesGiven, NamesUnique, NEW q \in Known, NEW r \in Known, q.id = r.id
    PROVE  q \in Meant(r) /\ r \in Meant(q)
<1>1. CASE q.worker \in Numbered /\ r.worker \in Numbered
  BY <1>1 DEF NamesGiven, Named, Meant
<1>2. CASE q.worker \notin Numbered \/ r.worker \notin Numbered
  <2>1. q = r
    BY <1>2 DEF NamesUnique
  <2> QED
    BY <1>2, <2>1 DEF Meant
<1> QED
  BY <1>1, <1>2

\* An answer reaches the requests of its name, and allows them or cannot deny them.
Passes(decision, q) == decision = "allow" \/ <<q.worker, q.target>> \in NoReject
LEMMA NamesakesAnswered ==
    ASSUME NamesGiven, NamesUnique, RequestsOK, NEW ws, NEW r \in Known, NEW decision,
           Answer(ws, r.id, decision), NEW q \in done'
    PROVE  r \in Meant(q) /\ Passes(decision, q)
<1>1. q \in open /\ q.id = r.id /\ Passes(decision, q)
  BY DEF Answer, Answered, Passes
<1>2. q \in Known
  BY <1>1 DEF Known
<1>3. r \in Meant(q)
  BY <1>1, <1>2, Namesakes
<1> QED
  BY <1>1, <1>3

\* A step that decides and remembers nothing new keeps the approvals.
LEMMA ApprovalsKept ==
    ASSUME Approvals, allowed \subseteq allowed', made \subseteq made', UNCHANGED memory,
           remembered' \subseteq remembered,
           \A i \in DOMAIN deciding' : \E j \in DOMAIN deciding : deciding'[i] = deciding[j],
           \A q \in done' : q \in done \/ Excused(q)'
    PROVE  Approvals'
<1>1. AllowsAreApproved' /\ DoneIsApproved'
  BY ApprovedStays DEF Approvals, AllowsAreApproved, DoneIsApproved
<1>2. MemoryIsApproved' /\ RememberedMayBe'
  BY ApprovedStays DEF Approvals, MemoryIsApproved, RememberedMayBe
<1> QED
  BY <1>1, <1>2 DEF Approvals

\* What is allowed when a request arrives is granted, or was approved before.
LEMMA DecisionApproved ==
    ASSUME MemoryIsApproved, NEW w \in Workers, NEW id, NEW t, Decision(w, t) = "allow"
    PROVE  Warranted(Request(w, id, t))
<1>1. CASE t \in Granted
  BY <1>1 DEF Warranted, Request
<1>2. CASE t \in memory[w]
  <2>1. Remembered(w, t)
    BY <1>2 DEF MemoryIsApproved
  <2> QED
    BY <2>1 DEF Warranted, Request
<1> QED
  BY <1>1, <1>2 DEF Decision

\* Nothing is known, allowed or remembered at first.
LEMMA NamesInit == Init => NamesGiven /\ NamesUnique /\ Approvals
BY DEF Init, NamesGiven, NamesUnique, Known, Journaled, Approvals, AllowsAreApproved,
       MemoryIsApproved, RememberedMayBe, DoneIsApproved

\* Every step keeps the approvals.
LEMMA ApprovalsStep ==
    ASSUME Shapes, NamesGiven, NamesUnique, Approvals, [Next]_vars
    PROVE  Approvals'
<1> USE DEF Shapes
<1>0. made \subseteq made'
  BY NamesStep
<1>1. ASSUME NEW w \in Workers, Launch(w) \/ Parks(w) \/ Restarts(w)
      PROVE  Approvals'
  <2>1. UNCHANGED <<allowed, done, memory, deciding>> /\ remembered' \subseteq remembered
    BY <1>1 DEF Launch, Parks, Restarts, Ended, history, asks
  <2> QED
    BY <1>0, <2>1, ApprovalsKept
<1>2. ASSUME NEW w \in Workers, NEW t \in Targets, Asks(w, t) \/ Submits(w, t)
      PROVE  Approvals'
  <2> DEFINE r == Request(w, Id(w, asked[w] + 1), t)
             d == [request |-> r, decision |-> Decision(w, t)]
  <2>1. /\ UNCHANGED <<allowed, done, memory, remembered>>
        /\ deciding' = Append(deciding, d) \/ UNCHANGED deciding
    BY <1>2 DEF Asks, Submits, Decides, history, asks
  <2>2. d.decision = "allow" => Warranted(d.request)
    BY DecisionApproved DEF Approvals
  <2> HIDE DEF r, d
  <2>3. CASE UNCHANGED deciding
    BY <1>0, <2>1, <2>3, ApprovalsKept
  <2>4. CASE deciding' = Append(deciding, d)
    <3>1. \A i \in DOMAIN deciding' : \/ i \in DOMAIN deciding /\ deciding'[i] = deciding[i]
                                      \/ deciding'[i] = d
      BY <2>4, Joins
    <3>2. AllowsAreApproved'
      BY <1>0, <2>1, <2>2, <3>1, ApprovedStays DEF Approvals, AllowsAreApproved
    <3> QED
      BY <1>0, <2>1, <3>2, ApprovedStays
      DEF Approvals, MemoryIsApproved, RememberedMayBe, DoneIsApproved
  <2> QED
    BY <2>1, <2>3, <2>4
<1>3. ASSUME Decided
      PROVE  Approvals'
  <2> DEFINE d == Head(deciding)
             r == d.request
  <2>1. /\ deciding # <<>> /\ deciding' = Tail(deciding) /\ UNCHANGED <<allowed, memory>>
    BY <1>3 DEF Decided, asks, Shows
  <2>2. /\ r \in Known
        /\ \A i \in DOMAIN deciding' : \E j \in DOMAIN deciding : deciding'[i] = deciding[j]
    BY <2>1, TailJournaled DEF Known
  <2>3. d.decision = "allow" => Warranted(r)
    BY <2>1, HeadTail DEF Approvals, AllowsAreApproved
  <2>4. ASSUME NEW decision, Answer({r.worker}, r.id, decision),
               decision = "allow" => d.decision = "allow", UNCHANGED asks
        PROVE  Approvals'
    <3>1. ASSUME NEW q \in done'
          PROVE  Excused(q)
      <4>1. r \in Meant(q) /\ Passes(decision, q)
        BY <2>2, <2>4, NamesakesAnswered
      <4>2. q.worker = r.worker
        BY <2>4 DEF Answer, Answered
      <4> QED
        BY <2>3, <2>4, <4>1, <4>2 DEF Excused, Approved, Passes
    <3>2. \A q \in done' : Excused(q)'
      BY <1>0, <2>1, <3>1, ApprovedStays
    <3> QED
      BY <1>0, <2>1, <2>2, <2>4, <3>2, ApprovalsKept DEF asks
  <2>5. CASE Shows(r) /\ NoAnswer
    <3>1. UNCHANGED done /\ remembered' \subseteq remembered \cup {r}
      BY <2>5 DEF Shows, NoAnswer
    <3>2. RememberedMayBe'
      BY <2>5 DEF Shows, Approvals, RememberedMayBe
    <3>3. AllowsAreApproved'
      BY <1>0, <2>1, <2>2, ApprovedStays DEF Approvals, AllowsAreApproved
    <3> QED
      BY <1>0, <2>1, <3>1, <3>2, <3>3, ApprovedStays
      DEF Approvals, MemoryIsApproved, DoneIsApproved
  <2>6. CASE UNCHANGED <<remembered, done>>
    BY <1>0, <2>1, <2>2, <2>6, ApprovalsKept
  <2> QED
    BY <1>3, <2>4, <2>5, <2>6 DEF Decided
<1>4. ASSUME NotJournaled
      PROVE  Approvals'
  <2>1. /\ deciding # <<>> /\ deciding' = Tail(deciding)
        /\ UNCHANGED <<allowed, memory, remembered>>
    BY <1>4 DEF NotJournaled, asks
  <2>2. /\ \A i \in DOMAIN deciding' : \E j \in DOMAIN deciding : deciding'[i] = deciding[j]
        /\ \A q \in done' : Excused(q)'
    BY <1>4, <2>1, TailJournaled DEF NotJournaled, Answer, Excused
  <2> QED
    BY <1>0, <2>1, <2>2, ApprovalsKept
<1>5. ASSUME NEW card \in cards, NEW decision, NEW scope \in {"worker", "task-wide"},
             UserAnswers(card, decision, scope)
      PROVE  Approvals'
  <2> DEFINE id == card.id
  <2>1. /\ allowed' = IF decision = "allow" THEN allowed \cup {<<card, scope>>} ELSE allowed
        /\ memory' = IF decision = "allow"
                     THEN [w \in Workers |-> memory[w] \cup Learns(w, id, scope)] ELSE memory
        /\ remembered' \subseteq remembered
        /\ UNCHANGED deciding
        /\ Answer(Affected(id), id, decision)
    BY <1>5 DEF UserAnswers, Resolves
  <2>2. card \in Known
    BY DEF Known
  <2>3. \A q \in done' : card \in Meant(q) /\ Passes(decision, q)
    BY <2>1, <2>2, NamesakesAnswered
  <2>4. \A q \in AskedUnder(id) : q \in Meant(card) /\ q.target \in Memorable
    <3>1. \A q \in AskedUnder(id) : q \in Known /\ q.id = card.id
      BY DEF AskedUnder, Known
    <3>2. \A q \in AskedUnder(id) : q \in Meant(card)
      BY <2>2, <3>1, Namesakes
    <3> QED
      BY <3>2 DEF AskedUnder, Approvals, RememberedMayBe
  <2>5. allowed \subseteq allowed'
    BY <2>1
  <2>6. AllowsAreApproved'
    BY <1>0, <2>1, <2>5, ApprovedStays DEF Approvals, AllowsAreApproved
  <2>7. RememberedMayBe'
    BY <2>1 DEF Approvals, RememberedMayBe
  <2>8. DoneIsApproved'
    <3>1. \A q : card \in Meant(q) => card \in Meant(q)'
      BY <1>0 DEF Meant
    <3>2. decision = "allow" => <<card, scope>> \in allowed'
      BY <2>1
    <3> QED
      BY <2>3, <3>1, <3>2 DEF DoneIsApproved, Excused, Approved, Passes
  <2>9. MemoryIsApproved'
    <3>1. CASE decision # "allow"
      BY <1>0, <2>1, <2>5, <3>1, ApprovedStays DEF Approvals, MemoryIsApproved
    <3>2. CASE decision = "allow"
      <4>1. ASSUME NEW w \in Workers, NEW t \in Learns(w, id, scope)
            PROVE  Remembered(w, t)'
        <5>1. PICK q \in AskedUnder(id) : t = q.target /\ (q.worker = w \/ scope = "task-wide")
          BY <4>1 DEF Learns, Shared
        <5>2. <<card, scope>> \in allowed'
          BY <2>1, <3>2
        <5>3. q \in Meant(card)' /\ t \in Memorable
          BY <1>0, <2>4, <5>1 DEF Meant
        <5> QED
          BY <5>1, <5>2, <5>3 DEF Remembered
      <4>2. ASSUME NEW w \in Workers, NEW t \in memory[w]
            PROVE  Remembered(w, t)'
        BY <1>0, <2>5, <4>2, ApprovedStays DEF Approvals, MemoryIsApproved
      <4> QED
        BY <2>1, <3>2, <4>1, <4>2 DEF MemoryIsApproved
    <3> QED
      BY <3>1, <3>2
  <2> QED
    BY <2>6, <2>7, <2>8, <2>9 DEF Approvals
<1>6. ASSUME NEW o \in timers, TimesOut(o[1], o[2])
      PROVE  Approvals'
  <2>1. /\ UNCHANGED <<allowed, memory, deciding>> /\ remembered' \subseteq remembered
        /\ \A q \in done' : q \in done \/ Excused(q)'
    BY <1>6 DEF TimesOut, Answer, NoAnswer, Excused
  <2> QED
    BY <1>0, <2>1, ApprovalsKept
<1>7. ASSUME NEW r \in held, Withdrawn(r)
      PROVE  Approvals'
  <2>1. UNCHANGED <<allowed, memory, deciding, remembered, done>>
    BY <1>7 DEF Withdrawn, history, asks
  <2> QED
    BY <1>0, <2>1, ApprovalsKept
<1>8. ASSUME NEW d \in dialogs, NEW allow \in BOOLEAN, Confirms(d, allow)
      PROVE  Approvals'
  <2> DEFINE r == d[1]
  <2>1. /\ UNCHANGED <<memory, remembered, deciding>>
        /\ allowed' = IF allow THEN allowed \cup {<<r, "worker">>} ELSE allowed
        /\ \/ UNCHANGED done
           \/ Answer({r.worker}, r.id, IF allow THEN "allow" ELSE "deny")
    BY <1>8 DEF Confirms, NoAnswer, asks
  <2>2. r \in Known
    BY DEF Known
  <2> HIDE DEF r
  <2>3. ASSUME NEW q \in done', q \notin done
        PROVE  Excused(q)'
    <3> DEFINE decision == IF allow THEN "allow" ELSE "deny"
    <3>1. decision = "allow" => allow
      OBVIOUS
    <3>2. Answer({r.worker}, r.id, decision)
      BY <2>1, <2>3
    <3> HIDE DEF decision
    <3>3. r \in Meant(q) /\ Passes(decision, q)
      BY <2>2, <3>2, NamesakesAnswered
    <3>4. r \in Meant(q)'
      BY <1>0, <3>3 DEF Meant
    <3>5. allow => <<r, "worker">> \in allowed'
      BY <2>1
    <3> QED
      BY <3>1, <3>3, <3>4, <3>5 DEF Excused, Approved, Passes
  <2>4. allowed \subseteq allowed'
    BY <2>1
  <2> QED
    BY <1>0, <2>1, <2>3, <2>4, ApprovalsKept
<1>9. ASSUME NEW d \in dialogs, ConfirmThrows(d)
      PROVE  Approvals'
  <2>1. UNCHANGED <<allowed, memory, deciding, remembered, done>>
    BY <1>9 DEF ConfirmThrows, asks
  <2> QED
    BY <1>0, <2>1, ApprovalsKept
<1>10. CASE UNCHANGED vars
  BY <1>0, <1>10, ApprovalsKept DEF vars, history, asks
<1> QED
  BY <1>1, <1>2, <1>3, <1>4, <1>5, <1>6, <1>7, <1>8, <1>9, <1>10
  DEF Next, BrokerTimesOut, RepliedElsewhere

\* A call runs only when its grant covers it, or the user allowed it or one that is
\* remembered, or it is one Kimi cannot deny: no late decision, stale card or
\* confirmation of an ended session lets another call through, but for those of
\* Codex and Kimi under the same number.
THEOREM NothingUnapprovedHolds == Spec => []NothingUnapproved
<1> DEFINE IInv == Shapes /\ NamesGiven /\ NamesUnique /\ Approvals
<1>1. Init => IInv
  BY ShapesInit, NamesInit
<1>2. IInv /\ [Next]_vars => IInv'
  BY ShapesStep, NamesStep, ApprovalsStep
<1>3. IInv => NothingUnapproved
  BY ShapesType DEF Approvals, DoneIsApproved, Excused, NothingUnapproved
<1> HIDE DEF IInv
<1>4. Spec => []IInv
  BY <1>1, <1>2, PTL DEF Spec
<1> QED
  BY <1>3, <1>4, PTL
=============================================================================
