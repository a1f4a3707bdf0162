------------------------ MODULE TaskInspectorProofs ------------------------
(***************************************************************************)
(* Proofs about TaskInspector, for any components and bounds: what a       *)
(* projection shows is exactly the journal from its snapshot on, and what  *)
(* nobody shows is let go.                                                 *)
(***************************************************************************)
EXTENDS TaskInspector, FiniteSetTheorems, SequenceTheorems, WellFoundedInduction, TLAPS

-----------------------------------------------------------------------------
(* The inductive invariant.                                                *)

\* The journal publishes its events one by one.
JournalOK ==
    /\ Len(journal) \in 0 .. MaxEvents
    /\ Len(journal) <= published + 1

\* n is no event, or one of the task.
TaskSeq(n) == n \in 0 .. Len(journal) /\ (n # 0 => journal[n])

\* What is shown ends with an event of the task, and nothing of it is missing.
Exact(p) ==
    /\ TaskSeq(p.lastSeq)
    /\ p.from \in 0 .. p.lastSeq
    /\ p.activity = TaskSeqs(p.from, p.lastSeq)
    /\ ~p.needsRefresh
ProjectionOK == projection # NoProjection => Exact(projection)

\* The service has sent the task's events up to some point: once it forwards, up to
\* the last one published; before, what it misses is in the journal that it replays
\* or in what it has heard since.
SentOK(s, last) ==
    /\ TaskSeq(s.lastDeliveredSeq)
    /\ s.main \in {"listening", "replayed"} => s.heard <= last
    /\ s.main = "replayed" => s.heard <= s.read /\ s.read <= Len(journal)
    /\ s.main = "live" => TaskSeqs(s.lastDeliveredSeq, last) = {}

\* What is on its way follows what is shown.
WireOK(s) ==
    /\ Seqs(s.wire) = TaskSeqs(projection.lastSeq, s.lastDeliveredSeq)
    /\ projection.lastSeq <= s.lastDeliveredSeq
    /\ \A e \in s.wire : e.prev = LastTaskSeq(e.seq - 1)

\* Only the current subscription still hears, and it belongs to what is shown.
SubscriptionOK(g, s, last) ==
    /\ SentOK(s, last)
    /\ s.disposed => s.wire = {}
    /\ ~s.disposed => g = current /\ WireOK(s)
SubscriptionsOK == \A g \in DOMAIN subscriptions : SubscriptionOK(g, subscriptions[g], published)

\* What is subscribed is hydrated, and has a consumer.
CurrentOK ==
    /\ current # 0 => /\ current = generation
                      /\ projection # NoProjection /\ inFlight = NoHydration
    /\ current = 0 <=> refcount = 0

\* What a hydration has read, and what it goes on with.
HydrationOK ==
    /\ inFlight = NoHydration => \A c \in Consumers : view[c] # "loading"
    /\ inFlight # NoHydration =>
          /\ inFlight.read <= Len(journal) /\ inFlight.generation <= generation
          /\ inFlight.waiting > 0
          /\ inFlight.awaits = "page" /\ Valid => projection # NoProjection

\* The components that did not close, and those that were answered, or not yet.
In(views) == {c \in Consumers : view[c] \in views}
Opened == In({"loading", "shown", "failed"})

\* But for a refreshed command, each reference is that of a component, and a
\* projection without a subscription is that of one that did not close.
CountsOK ==
    /\ refcount <= opens
    /\ inFlight # NoHydration => inFlight.waiting <= opens
    /\ generation + Cardinality(Opened) <= 2 * opens
    /\ command # "refreshed" =>
          /\ refcount <= Cardinality(In({"shown"}))
          /\ inFlight # NoHydration /\ Valid =>
                inFlight.waiting <= Cardinality(In({"loading"}))
          /\ projection # NoProjection /\ current = 0 => Opened # {}

InspectorInv ==
    /\ TypeOK /\ JournalOK /\ ProjectionOK /\ SubscriptionsOK
    /\ CurrentOK /\ HydrationOK /\ CountsOK
-----------------------------------------------------------------------------
(* Numbers.                                                                *)

\* The bounds are numbers.
LEMMA Bounds ==
    /\ PageLimit \in Nat \ {0} /\ ReplayLimit \in Nat \ {0}
    /\ MaxEvents \in Nat \ {0} /\ MaxOpens \in Nat \ {0}
    /\ IsFiniteSet(Consumers) /\ MaxGenerations \in Nat /\ MaxGenerations = 2 * MaxOpens
BY InspectorAssumption DEF InspectorAssumption, MaxGenerations

\* A set of numbers with a bound has a greatest one.
LEMMA GreatestOf ==
    ASSUME NEW S \in SUBSET Nat, S # {}, NEW n \in Nat, \A x \in S : x <= n
    PROVE  Max(S) \in S /\ \A x \in S : x <= Max(S)
<1> DEFINE bounds == {b \in Nat : \A x \in S : x <= b}
<1>1. PICK b \in bounds : \A c \in bounds : ~(<<c, b>> \in OpToRel(<, Nat))
  <2>1. n \in bounds
    OBVIOUS
  <2> QED
    BY <2>1, NatLessThanWellFounded, WFMin
<1>2. \A c \in bounds : ~(c < b)
  BY <1>1 DEF OpToRel
<1>3. b \in S
  <2> SUFFICES ASSUME b \notin S PROVE FALSE
    OBVIOUS
  <2>1. PICK x \in S : TRUE
    OBVIOUS
  <2>2. b - 1 \in bounds
    BY <2>1
  <2> QED
    BY <1>2, <2>2
<1> QED
  BY <1>3 DEF Max

\* And a least one.
LEMMA LeastOf ==
    ASSUME NEW S \in SUBSET Nat, S # {}
    PROVE  \E m \in S : \A x \in S : m <= x
<1>1. PICK m \in S : \A x \in S : ~(<<x, m>> \in OpToRel(<, Nat))
  BY NatLessThanWellFounded, WFMin
<1>2. \A x \in S : ~(x < m)
  BY <1>1 DEF OpToRel
<1> QED
  BY <1>2

-----------------------------------------------------------------------------
(* The events of the task.                                                 *)

\* The last event of the task up to some number: nothing of the task comes after it.
LEMMA LastTask ==
    ASSUME journal \in Seq(BOOLEAN), NEW to \in 0 .. Len(journal)
    PROVE  /\ LastTaskSeq(to) \in 0 .. to /\ TaskSeq(LastTaskSeq(to))
           /\ TaskSeqs(LastTaskSeq(to), to) = {}
<1> DEFINE S == {0} \cup TaskSeqs(0, to)
           m == Max(S)
<1>1. /\ S \in SUBSET Nat /\ S # {} /\ to \in Nat /\ Len(journal) \in Nat
      /\ \A x \in S : x <= to /\ (x # 0 => journal[x])
      /\ \A x \in 1 .. to : journal[x] => x \in S
  BY DEF TaskSeqs
<1>2. m = LastTaskSeq(to)
  BY DEF LastTaskSeq
<1> HIDE DEF S
<1>3. m \in S /\ \A x \in S : x <= m
  BY <1>1, GreatestOf
<1> HIDE DEF m
<1>4. m \in 0 .. to /\ TaskSeq(m)
  BY <1>1, <1>3 DEF TaskSeq
<1>5. TaskSeqs(m, to) = {}
  BY <1>1, <1>3, <1>4 DEF TaskSeqs
<1> QED
  BY <1>2, <1>4, <1>5

\* There is no other like it.
LEMMA LastTaskUnique ==
    ASSUME journal \in Seq(BOOLEAN), NEW to \in 0 .. Len(journal),
           NEW n \in 0 .. to, TaskSeq(n), TaskSeqs(n, to) = {}
    PROVE  n = LastTaskSeq(to)
<1>1. /\ LastTaskSeq(to) \in 0 .. to /\ TaskSeq(LastTaskSeq(to))
      /\ TaskSeqs(LastTaskSeq(to), to) = {}
  BY LastTask
<1> QED
  BY <1>1 DEF TaskSeqs, TaskSeq

\* The journal grows, and what it had stays.
LEMMA JournalGrows ==
    ASSUME journal \in Seq(BOOLEAN), NEW shown \in BOOLEAN,
           journal' = Append(journal, shown)
    PROVE  /\ journal' \in Seq(BOOLEAN) /\ Len(journal') = Len(journal) + 1
           /\ \A n : TaskSeq(n) => TaskSeq(n)'
           /\ \A a \in Nat, b \in 0 .. Len(journal) : TaskSeqs(a, b)' = TaskSeqs(a, b)
           /\ \A n \in 0 .. Len(journal) : LastTaskSeq(n)' = LastTaskSeq(n)
<1>1. /\ journal' \in Seq(BOOLEAN) /\ Len(journal') = Len(journal) + 1
      /\ \A i \in 1 .. Len(journal) : journal'[i] = journal[i]
  OBVIOUS
<1>2. \A n : TaskSeq(n) => TaskSeq(n)'
  BY <1>1 DEF TaskSeq
<1>3. \A a \in Nat, b \in 0 .. Len(journal) : TaskSeqs(a, b)' = TaskSeqs(a, b)
  BY <1>1 DEF TaskSeqs
<1>4. \A n \in 0 .. Len(journal) : LastTaskSeq(n)' = LastTaskSeq(n)
  BY <1>3 DEF LastTaskSeq
<1> QED
  BY <1>1, <1>2, <1>3, <1>4
-----------------------------------------------------------------------------
(* The reducer.                                                            *)

\* The next events of the task after a, up to some point.
NextOf(a, events) ==
    /\ Seqs(events) \subseteq TaskSeqs(a, Len(journal))
    /\ \A i \in TaskSeqs(a, Len(journal)), n \in Seqs(events) : i <= n => i \in Seqs(events)
    /\ \A e \in events : e.prev = LastTaskSeq(e.seq - 1)

\* What a reduction makes of the next events.
Extended(p, events, q) ==
    /\ q \in Projection /\ Exact(q) /\ q.from = p.from
    /\ events = {} => q = p
    /\ events # {} => q.lastSeq \in Seqs(events)
    /\ \A n \in Seqs(events) : n <= q.lastSeq
    /\ p.lastSeq <= q.lastSeq

LEMMA ReduceExact ==
    ASSUME journal \in Seq(BOOLEAN), Len(journal) <= MaxEvents,
           NEW p \in Projection, Exact(p),
           NEW events \in SUBSET Event, NextOf(p.lastSeq, events)
    PROVE  Extended(p, events, Reduce(p, events))
<1> DEFINE new == {e \in events : e.seq > p.lastSeq}
           first == CHOOSE e \in new : \A f \in new : e.seq <= f.seq
           q == [p EXCEPT !.activity = @ \cup Seqs(new), !.lastSeq = Max(Seqs(new))]
<1>1. /\ p.lastSeq \in Nat /\ Len(journal) \in Nat /\ p.lastSeq <= Len(journal)
      /\ MaxEvents \in Nat
      /\ \A e \in events : e.seq \in Nat /\ e.seq > p.lastSeq /\ e.seq <= Len(journal)
                            /\ e.seq \in Seqs(events)
  BY Bounds DEF Exact, TaskSeq, NextOf, TaskSeqs, Seqs, Event
<1>2. new = events
  BY <1>1
<1>3. CASE events = {}
  <2>1. Reduce(p, events) = p
    BY <1>3 DEF Reduce
  <2> QED
    BY <2>1, <1>1, <1>3 DEF Extended, Seqs
<1>4. CASE events # {}
  <2>1. Seqs(events) \in SUBSET Nat /\ Seqs(events) # {}
    BY <1>1, <1>4 DEF Seqs
  <2>2. PICK n \in Seqs(events) : \A m \in Seqs(events) : n <= m
    BY <2>1, LeastOf
  <2>3. first \in events /\ \A f \in events : first.seq <= f.seq
    <3>1. PICK e \in events : e.seq = n
      BY <2>2 DEF Seqs
    <3>2. \A f \in events : e.seq <= f.seq
      BY <1>1, <2>2, <3>1
    <3> QED
      BY <1>2, <3>1, <3>2
  <2>4. Max(Seqs(events)) \in Seqs(events) /\ \A m \in Seqs(events) : m <= Max(Seqs(events))
    BY <1>1, <2>1, GreatestOf DEF Seqs
  <2> DEFINE last == Max(Seqs(events))
  <2> HIDE DEF first
  <2>5. first.prev = p.lastSeq
    <3>1. first.seq \in TaskSeqs(p.lastSeq, Len(journal)) /\ first.seq - 1 \in 0 .. Len(journal)
      BY <1>1, <2>3 DEF NextOf, TaskSeqs
    <3>2. p.lastSeq \in 0 .. first.seq - 1
      BY <1>1, <2>3, <3>1
    <3>3. TaskSeqs(p.lastSeq, first.seq - 1) = {}
      <4> SUFFICES ASSUME NEW i \in TaskSeqs(p.lastSeq, first.seq - 1) PROVE FALSE
        OBVIOUS
      <4>1. i \in TaskSeqs(p.lastSeq, Len(journal)) /\ i < first.seq /\ i <= first.seq
        BY <1>1, <2>3, <3>1 DEF TaskSeqs
      <4>2. i \in Seqs(events)
        BY <1>1, <2>3, <4>1 DEF NextOf
      <4> QED
        BY <1>1, <2>3, <4>1, <4>2 DEF Seqs
    <3>4. TaskSeq(p.lastSeq)
      BY DEF Exact
    <3> QED
      BY <2>3, <3>1, <3>2, <3>3, <3>4, LastTaskUnique DEF NextOf
  <2>6. Reduce(p, events) = q
    BY <1>2, <1>4, <2>5 DEF Reduce, first
  <2>7. q.from = p.from /\ q.activity = p.activity \cup Seqs(events) /\ q.lastSeq = last
        /\ q.needsRefresh = p.needsRefresh
    BY <1>2 DEF Projection
  <2>8. last \in Nat /\ last > p.lastSeq /\ last <= Len(journal) /\ journal[last]
    BY <1>1, <2>1, <2>4 DEF Seqs, NextOf, TaskSeqs
  <2>9. Seqs(events) = TaskSeqs(p.lastSeq, last)
    BY <1>1, <2>1, <2>4, <2>8 DEF NextOf, TaskSeqs
  <2>10. q.activity = TaskSeqs(p.from, last)
    BY <1>1, <2>7, <2>8, <2>9 DEF Exact, TaskSeqs, Projection
  <2>11. q \in Projection
    <3> DEFINE shown == p.activity \cup Seqs(events)
    <3>1. shown \in SUBSET (1 .. MaxEvents) /\ last \in 0 .. MaxEvents
      <4>1. Seqs(events) \in SUBSET (1 .. MaxEvents)
        BY DEF Seqs, Event
      <4>2. p.activity \in SUBSET (1 .. MaxEvents)
        BY DEF Projection
      <4> QED
        BY <1>1, <2>8, <4>1, <4>2
    <3>2. q = [p EXCEPT !.activity = shown, !.lastSeq = last]
      BY <1>2
    <3> HIDE DEF shown, last, q
    <3> QED
      BY <3>1, <3>2 DEF Projection
  <2> HIDE DEF q, last
  <2>12. Exact(q)
    <3>1. q.from \in 0 .. q.lastSeq
      BY <1>1, <2>7, <2>8 DEF Exact
    <3>2. TaskSeq(q.lastSeq)
      BY <1>1, <2>7, <2>8 DEF TaskSeq
    <3>3. q.activity = TaskSeqs(q.from, q.lastSeq)
      BY <2>7, <2>10
    <3> QED
      BY <2>7, <3>1, <3>2, <3>3 DEF Exact
  <2> QED
    BY <1>1, <1>4, <2>4, <2>6, <2>7, <2>8, <2>11, <2>12 DEF Extended, last
<1> QED
  BY <1>3, <1>4
\* The events the journal has for the task are its next ones.
LEMMA TaskEventsFacts ==
    ASSUME journal \in Seq(BOOLEAN), Len(journal) \in 0 .. MaxEvents,
           NEW a \in Nat, NEW to \in 0 .. Len(journal)
    PROVE  /\ TaskEvents(a, to) \in SUBSET Event
           /\ Seqs(TaskEvents(a, to)) = TaskSeqs(a, to)
           /\ \A e \in TaskEvents(a, to) : e.prev = LastTaskSeq(e.seq - 1)
           /\ IsFiniteSet(TaskEvents(a, to))
<1>1. \A i \in TaskSeqs(a, to) : i \in 1 .. MaxEvents /\ i - 1 \in 0 .. Len(journal)
  BY Bounds DEF TaskSeqs
<1>2. \A i \in TaskSeqs(a, to) : LastTaskSeq(i - 1) \in 0 .. MaxEvents
  <2> TAKE i \in TaskSeqs(a, to)
  <2>1. LastTaskSeq(i - 1) \in 0 .. (i - 1)
    BY <1>1, LastTask
  <2> QED
    BY <1>1, <2>1, Bounds
<1>3. TaskEvents(a, to) \in SUBSET Event
  BY <1>1, <1>2 DEF TaskEvents, Event
<1> DEFINE event(i) == [seq |-> i, prev |-> LastTaskSeq(i - 1)]
<1>4. /\ TaskEvents(a, to) = {event(i) : i \in TaskSeqs(a, to)}
      /\ \A i \in TaskSeqs(a, to) : event(i).seq = i /\ event(i).prev = LastTaskSeq(i - 1)
  BY DEF TaskEvents
<1> HIDE DEF event
<1>5. Seqs(TaskEvents(a, to)) = TaskSeqs(a, to)
  BY <1>4 DEF Seqs
<1>6. \A e \in TaskEvents(a, to) : e.prev = LastTaskSeq(e.seq - 1)
  BY <1>4
<1>7. IsFiniteSet(TaskEvents(a, to))
  <2>1. IsFiniteSet(a + 1 .. to)
    <3>1. a + 1 \in Int /\ to \in Int
      OBVIOUS
    <3> QED
      BY <3>1, FS_Interval
  <2>2. IsFiniteSet(TaskSeqs(a, to))
    <3>1. TaskSeqs(a, to) \subseteq a + 1 .. to
      BY DEF TaskSeqs
    <3> QED
      BY <2>1, <3>1, FS_Subset
  <2> DEFINE f == [i \in TaskSeqs(a, to) |-> event(i)]
  <2>4. f \in Surjection(TaskSeqs(a, to), TaskEvents(a, to))
    BY <1>4 DEF Surjection
  <2> HIDE DEF f
  <2> QED
    BY <2>2, <2>4, FS_Surjection
<1> QED
  BY <1>3, <1>5, <1>6, <1>7

\* A page is the first of them.
LEMMA PageFacts ==
    ASSUME journal \in Seq(BOOLEAN), Len(journal) \in 0 .. MaxEvents,
           projection.lastSeq \in Nat, inFlight.read \in 0 .. Len(journal)
    PROVE  Page \in SUBSET Event /\ NextOf(projection.lastSeq, Page)
<1>1. /\ Candidates \in SUBSET Event
      /\ Seqs(Candidates) = TaskSeqs(projection.lastSeq, inFlight.read)
      /\ \A e \in Candidates : e.prev = LastTaskSeq(e.seq - 1)
      /\ IsFiniteSet(Candidates)
  BY TaskEventsFacts DEF Candidates
<1> DEFINE below(n) == {f \in Candidates : f.seq < n}
<1>2. \A e \in Candidates : e.seq \in Nat /\ e.seq <= inFlight.read
  BY <1>1 DEF Event, Seqs, TaskSeqs
<1>3. \A m, n \in Nat : m <= n => Cardinality(below(m)) <= Cardinality(below(n))
  <2> SUFFICES ASSUME NEW m \in Nat, NEW n \in Nat, m <= n
               PROVE  Cardinality(below(m)) <= Cardinality(below(n))
    OBVIOUS
  <2>1. below(m) \subseteq below(n)
    BY <1>2
  <2>2. IsFiniteSet(below(n))
    BY <1>1, FS_Subset
  <2> HIDE DEF below
  <2> QED
    BY <2>1, <2>2, FS_Subset
<1>4. \A m \in Nat : Cardinality(below(m)) \in Nat
  <2> TAKE m \in Nat
  <2>1. IsFiniteSet(below(m))
    BY <1>1, FS_Subset
  <2> QED
    BY <2>1, FS_CardinalityType
<1>5. Page = {e \in Candidates : Cardinality(below(e.seq)) < PageLimit}
  BY DEF Page
<1> HIDE DEF below
<1>6. \A i \in TaskSeqs(projection.lastSeq, Len(journal)), n \in Seqs(Page) :
          i <= n => i \in Seqs(Page)
  <2> SUFFICES ASSUME NEW i \in TaskSeqs(projection.lastSeq, Len(journal)),
                      NEW e \in Page, i <= e.seq
               PROVE  i \in Seqs(Page)
    BY DEF Seqs
  <2>1. e \in Candidates /\ Cardinality(below(e.seq)) < PageLimit /\ e.seq \in Nat
    BY <1>2, <1>5
  <2>2. i \in TaskSeqs(projection.lastSeq, inFlight.read) /\ i \in Nat
    BY <1>2, <2>1 DEF TaskSeqs
  <2>3. PICK f \in Candidates : f.seq = i
    BY <1>1, <2>2 DEF Seqs
  <2>4. Cardinality(below(f.seq)) < PageLimit
    <3>1. Cardinality(below(f.seq)) <= Cardinality(below(e.seq)) /\ f.seq \in Nat
      BY <1>3, <2>1, <2>2, <2>3
    <3>2. Cardinality(below(f.seq)) \in Nat /\ Cardinality(below(e.seq)) \in Nat
      BY <1>4, <2>1, <3>1
    <3> QED
      BY <2>1, <3>1, <3>2, Bounds
  <2> QED
    BY <1>5, <2>3, <2>4 DEF Seqs
<1>7. Seqs(Page) \subseteq TaskSeqs(projection.lastSeq, Len(journal))
  <2>1. Seqs(Page) \subseteq Seqs(Candidates)
    BY <1>5 DEF Seqs
  <2>2. TaskSeqs(projection.lastSeq, inFlight.read) \subseteq TaskSeqs(projection.lastSeq, Len(journal))
    BY DEF TaskSeqs
  <2> QED
    BY <1>1, <2>1, <2>2
<1> QED
  BY <1>1, <1>5, <1>6, <1>7 DEF NextOf
-----------------------------------------------------------------------------
(* The service.                                                            *)

\* Subscription s has sent what follows, up to number `to`, and is r.
Sends(s, r, to) ==
    /\ r \in Subscription
    /\ r.main = s.main /\ r.disposed = s.disposed /\ r.heard = s.heard /\ r.read = s.read
    /\ TaskSeq(r.lastDeliveredSeq)
    /\ TaskSeqs(r.lastDeliveredSeq, to) = {}
    /\ r.disposed => r.wire = {}
    /\ ~s.disposed /\ WireOK(s) => WireOK(r)

\* A subscription is the record of its fields.
LEMMA SubscriptionFields ==
    ASSUME NEW s \in Subscription
    PROVE  /\ s.main \in {"requested", "listening", "replayed", "live", "refused"}
           /\ s.disposed \in BOOLEAN /\ s.cancelled \in BOOLEAN
           /\ s.lastDeliveredSeq \in 0 .. MaxEvents /\ s.heard \in 0 .. MaxEvents
           /\ s.read \in 0 .. MaxEvents /\ s.wire \in SUBSET Event
BY DEF Subscription

\* What is sent joins what is on its way.
LEMMA WireGrows ==
    ASSUME journal \in Seq(BOOLEAN), projection.lastSeq \in Nat,
           NEW l \in Nat, NEW m \in Nat, projection.lastSeq <= l, l <= m,
           NEW wire \in SUBSET Event, Seqs(wire) = TaskSeqs(projection.lastSeq, l),
           NEW events \in SUBSET Event, Seqs(events) = TaskSeqs(l, m)
    PROVE  Seqs(wire \cup events) = TaskSeqs(projection.lastSeq, m)
<1>1. Seqs(wire \cup events) = Seqs(wire) \cup Seqs(events)
  BY DEF Seqs
<1>2. TaskSeqs(projection.lastSeq, m) = TaskSeqs(projection.lastSeq, l) \cup TaskSeqs(l, m)
  BY DEF TaskSeqs
<1> QED
  BY <1>1, <1>2

LEMMA DeliverSends ==
    ASSUME journal \in Seq(BOOLEAN), Len(journal) \in 0 .. MaxEvents,
           projection.lastSeq \in Nat,
           NEW s \in Subscription, TaskSeq(s.lastDeliveredSeq),
           NEW to \in 0 .. Len(journal),
           NEW events \in SUBSET Event, Seqs(events) = TaskSeqs(s.lastDeliveredSeq, to),
           \A e \in events : e.prev = LastTaskSeq(e.seq - 1)
    PROVE  Sends(s, Deliver(s, events), to)
<1> DEFINE l == s.lastDeliveredSeq
           S == {l} \cup Seqs(events)
           m == Max(S)
           w == IF s.disposed THEN {} ELSE s.wire \cup events
           r == Deliver(s, events)
<1>1. /\ l \in Nat /\ l <= Len(journal) /\ Len(journal) \in Nat /\ MaxEvents \in Nat
      /\ Len(journal) <= MaxEvents
  BY Bounds DEF TaskSeq
<1>2. S \in SUBSET Nat /\ S # {} /\ \A x \in S : x <= Len(journal)
  BY <1>1 DEF TaskSeqs
<1>3. m \in S /\ \A x \in S : x <= m
  BY <1>1, <1>2, GreatestOf
<1> HIDE DEF m
<1>4. m \in Nat /\ l <= m /\ m <= Len(journal)
  BY <1>2, <1>3
<1>5. TaskSeq(m)
  BY <1>1, <1>3, <1>4 DEF TaskSeq, TaskSeqs
<1>6. TaskSeqs(m, to) = {}
  <2> SUFFICES ASSUME NEW i \in TaskSeqs(m, to) PROVE FALSE
    OBVIOUS
  <2>1. i \in TaskSeqs(l, to) /\ i > m
    BY <1>1, <1>4 DEF TaskSeqs
  <2> QED
    BY <1>1, <1>3, <1>4, <2>1 DEF TaskSeqs
<1>7. TaskSeqs(l, m) = Seqs(events)
  <2>1. \A i \in TaskSeqs(l, m) : i \in TaskSeqs(l, to) \/ i \in TaskSeqs(to, m)
    BY <1>1, <1>4 DEF TaskSeqs
  <2>2. m = l \/ m <= to
    BY <1>1, <1>3 DEF TaskSeqs
  <2>3. TaskSeqs(l, m) \subseteq TaskSeqs(l, to)
    BY <1>1, <1>4, <2>2 DEF TaskSeqs
  <2>4. TaskSeqs(l, to) \subseteq TaskSeqs(l, m)
    BY <1>1, <1>3, <1>4 DEF TaskSeqs
  <2> QED
    BY <2>3, <2>4
<1>8. w \in SUBSET Event
  BY SubscriptionFields
<1>9. r = [s EXCEPT !.lastDeliveredSeq = m, !.wire = w]
  BY DEF Deliver, m
<1> HIDE DEF w, r, S, l
<1>10. /\ r \in Subscription
       /\ r.main = s.main /\ r.disposed = s.disposed /\ r.heard = s.heard /\ r.read = s.read
       /\ r.lastDeliveredSeq = m /\ r.wire = w
  <2>1. m \in 0 .. MaxEvents
    BY <1>1, <1>4
  <2> QED
    BY <2>1, <1>8, <1>9 DEF Subscription
<1>11. ASSUME ~s.disposed, WireOK(s) PROVE WireOK(r)
  <2>1. w = s.wire \cup events
    BY <1>11 DEF w
  <2>2. Seqs(s.wire) = TaskSeqs(projection.lastSeq, l) /\ projection.lastSeq <= l
    BY <1>11 DEF WireOK, l
  <2>3. Seqs(w) = TaskSeqs(projection.lastSeq, m)
    BY <1>1, <1>4, <1>7, <2>1, <2>2, SubscriptionFields, WireGrows
  <2>4. \A e \in w : e.prev = LastTaskSeq(e.seq - 1)
    BY <1>11, <2>1 DEF WireOK
  <2> QED
    BY <1>1, <1>4, <1>10, <2>2, <2>3, <2>4 DEF WireOK
<1> QED
  BY <1>5, <1>6, <1>10, <1>11 DEF Sends, w, r

\* The listener sends what is new of these numbers, which are all there are of the task.
LEMMA ForwardedSends ==
    ASSUME journal \in Seq(BOOLEAN), Len(journal) \in 0 .. MaxEvents,
           projection.lastSeq \in Nat,
           NEW s \in Subscription, TaskSeq(s.lastDeliveredSeq), s.main = "live",
           NEW to \in 0 .. Len(journal), NEW seqs,
           {n \in seqs : n > s.lastDeliveredSeq /\ journal[n]}
              = TaskSeqs(s.lastDeliveredSeq, to)
    PROVE  Sends(s, Forwarded(s, seqs), to)
<1> DEFINE l == s.lastDeliveredSeq
           new == TaskSeqs(l, to)
           prev(n) == Max({l} \cup {m \in new : m < n})
           event(n) == [seq |-> n, prev |-> prev(n)]
           events == {event(n) : n \in new}
<1>1. Forwarded(s, seqs) = Deliver(s, events)
  BY DEF Forwarded
<1>2. /\ l \in Nat /\ l <= Len(journal) /\ Len(journal) \in Nat /\ MaxEvents \in Nat
      /\ Len(journal) <= MaxEvents
      /\ \A n \in new : n \in Nat /\ n > l /\ n <= to /\ journal[n] /\ n \in 1 .. MaxEvents
  BY Bounds DEF TaskSeq, TaskSeqs
<1>3. \A n \in new : prev(n) = LastTaskSeq(n - 1) /\ prev(n) \in 0 .. MaxEvents
  <2> TAKE n \in new
  <2> DEFINE S == {l} \cup {m \in new : m < n}
  <2>1. S \in SUBSET Nat /\ S # {} /\ \A x \in S : x <= n - 1
    BY <1>2
  <2>2. Max(S) \in S /\ \A x \in S : x <= Max(S)
    <3>1. n - 1 \in Nat
      BY <1>2
    <3> HIDE DEF S
    <3> QED
      BY <2>1, <3>1, GreatestOf
  <2> DEFINE k == Max(S)
  <2> HIDE DEF k, new
  <2>3. k \in 0 .. n - 1 /\ n - 1 \in 0 .. Len(journal)
    BY <1>2, <2>1, <2>2 DEF k
  <2>4. TaskSeq(k)
    BY <1>2, <2>2, <2>3 DEF k, TaskSeq
  <2>5. TaskSeqs(k, n - 1) = {}
    <3> SUFFICES ASSUME NEW i \in TaskSeqs(k, n - 1) PROVE FALSE
      OBVIOUS
    <3>1. i \in Nat /\ i > k /\ i < n /\ i <= to /\ journal[i]
      BY <1>2, <2>3 DEF TaskSeqs
    <3>2. l <= k
      BY <2>2 DEF k
    <3>3. i \in TaskSeqs(l, to)
      BY <1>2, <2>3, <3>1, <3>2 DEF TaskSeqs
    <3>4. i <= k
      BY <2>2, <3>1, <3>3 DEF k, new
    <3> QED
      BY <2>3, <3>1, <3>4
  <2>6. k = LastTaskSeq(n - 1)
    BY <2>3, <2>4, <2>5, LastTaskUnique
  <2> QED
    BY <1>2, <2>3, <2>6 DEF k
<1> HIDE DEF prev, new
<1>4. events \in SUBSET Event
  BY <1>2, <1>3 DEF Event
<1>5. \A n \in new : event(n).seq = n /\ event(n).prev = prev(n)
  OBVIOUS
<1> HIDE DEF event
<1>6. Seqs(events) = new /\ \A e \in events : e.prev = LastTaskSeq(e.seq - 1)
  BY <1>3, <1>5 DEF Seqs
<1> HIDE DEF events
<1> QED
  BY <1>1, <1>4, <1>6, DeliverSends DEF new
-----------------------------------------------------------------------------
(* Steps of the service.                                                   *)

\* What the types say of the journal, the shown events and the subscriptions.
LEMMA Types ==
    ASSUME InspectorInv
    PROVE  /\ journal \in Seq(BOOLEAN) /\ Len(journal) \in 0 .. MaxEvents
           /\ published \in 0 .. Len(journal)
           /\ projection.lastSeq \in Nat
           /\ \A g \in DOMAIN subscriptions :
                 /\ subscriptions[g] \in Subscription /\ g \in Nat \ {0}
                 /\ SubscriptionOK(g, subscriptions[g], published)
<1>1. /\ journal \in Seq(BOOLEAN) /\ Len(journal) \in 0 .. MaxEvents
      /\ published \in 0 .. Len(journal)
  BY DEF InspectorInv, TypeOK, JournalOK
<1>2. projection.lastSeq \in Nat
  <2>1. projection = NoProjection \/ projection \in Projection
    BY DEF InspectorInv, TypeOK
  <2> QED
    BY <2>1 DEF NoProjection, Projection
<1>3. \A g \in DOMAIN subscriptions :
          /\ subscriptions[g] \in Subscription /\ g \in Nat \ {0}
          /\ SubscriptionOK(g, subscriptions[g], published)
  BY DEF InspectorInv, TypeOK, SubscriptionsOK
<1> QED
  BY <1>1, <1>2, <1>3

\* A step that only changes subscriptions, and keeps each of them.
LEMMA ServiceKeeps ==
    ASSUME InspectorInv, UNCHANGED <<journal, published, view, command, opens, store>>,
           DOMAIN subscriptions' \subseteq DOMAIN subscriptions,
           \A g \in DOMAIN subscriptions' :
               subscriptions'[g] \in Subscription /\ SubscriptionOK(g, subscriptions'[g], published)
    PROVE  InspectorInv'
<1> USE DEF store
<1>1. TypeOK'
  BY DEF InspectorInv, TypeOK
<1>2. JournalOK' /\ ProjectionOK'
  BY DEF InspectorInv, JournalOK, ProjectionOK, Exact, TaskSeq, TaskSeqs
<1>3. SubscriptionsOK'
  BY DEF SubscriptionsOK, SubscriptionOK, SentOK, WireOK, TaskSeq, TaskSeqs, LastTaskSeq
<1>4. CurrentOK' /\ HydrationOK' /\ CountsOK'
  BY DEF InspectorInv, CurrentOK, HydrationOK, CountsOK, In, Opened, Valid
<1> QED
  BY <1>1, <1>2, <1>3, <1>4 DEF InspectorInv

\* One subscription changes.
LEMMA OneChanges ==
    ASSUME InspectorInv, UNCHANGED <<journal, published, view, command, opens, store>>,
           NEW g \in DOMAIN subscriptions, NEW r \in Subscription, SubscriptionOK(g, r, published),
           subscriptions' = [subscriptions EXCEPT ![g] = r]
    PROVE  InspectorInv'
<1>1. /\ DOMAIN subscriptions' = DOMAIN subscriptions
      /\ \A h \in DOMAIN subscriptions :
            subscriptions'[h] = IF h = g THEN r ELSE subscriptions[h]
  OBVIOUS
<1> QED
  BY <1>1, Types, ServiceKeeps

LEMMA ListenKeeps ==
    ASSUME InspectorInv, NEW g \in DOMAIN subscriptions, Listen(g) PROVE InspectorInv'
<1> DEFINE s == subscriptions[g]
           r == [s EXCEPT !.main = "listening", !.heard = published]
<1>1. s \in Subscription /\ SubscriptionOK(g, s, published)
  BY Types
<1>5. published \in 0 .. MaxEvents
  <2>1. published \in 0 .. Len(journal) /\ Len(journal) \in 0 .. MaxEvents
    BY Types
  <2> QED
    BY <2>1, Bounds
<1>2. subscriptions' = [subscriptions EXCEPT ![g] = r]
  BY DEF Listen
<1>3. r \in Subscription /\ r.main = "listening" /\ r.heard = published
      /\ r.lastDeliveredSeq = s.lastDeliveredSeq /\ r.wire = s.wire /\ r.disposed = s.disposed
  BY <1>1, <1>5 DEF Subscription
<1> HIDE DEF r
<1>4. SubscriptionOK(g, r, published)
  BY <1>1, <1>3, <1>5 DEF SubscriptionOK, SentOK, WireOK
<1> QED
  BY <1>2, <1>3, <1>4, OneChanges DEF Listen

LEMMA ReplayKeeps ==
    ASSUME InspectorInv, NEW g \in DOMAIN subscriptions, Replay(g) PROVE InspectorInv'
<1> DEFINE s == subscriptions[g]
           r == [s EXCEPT !.main = "replayed", !.read = Len(journal)]
<1>1. /\ s \in Subscription /\ SubscriptionOK(g, s, published) /\ published \in 0 .. Len(journal)
      /\ Len(journal) \in 0 .. MaxEvents
  BY Types
<1>2. subscriptions' = [subscriptions EXCEPT ![g] = r] /\ s.main = "listening"
  BY DEF Replay
<1>3. r \in Subscription /\ r.main = "replayed" /\ r.read = Len(journal) /\ r.heard = s.heard
      /\ r.lastDeliveredSeq = s.lastDeliveredSeq /\ r.wire = s.wire /\ r.disposed = s.disposed
  <2> DEFINE n == Len(journal)
  <2>1. n \in 0 .. MaxEvents
    BY <1>1
  <2> HIDE DEF n, s
  <2>2. r = [s EXCEPT !.main = "replayed", !.read = n]
    BY DEF n
  <2> QED
    BY <1>1, <2>1, <2>2 DEF Subscription, n
<1>5. s.heard \in Nat
  BY <1>1, SubscriptionFields, Bounds
<1> HIDE DEF r, s
<1>4. SubscriptionOK(g, r, published)
  BY <1>1, <1>2, <1>3, <1>5, Bounds DEF SubscriptionOK, SentOK, WireOK
<1> QED
  BY <1>2, <1>3, <1>4, OneChanges DEF Replay, s

LEMMA CancelKeeps ==
    ASSUME InspectorInv, NEW g \in DOMAIN subscriptions, Cancel(g) PROVE InspectorInv'
<1> DEFINE s == subscriptions[g]
           r == [s EXCEPT !.cancelled = TRUE]
<1>1. s \in Subscription /\ SubscriptionOK(g, s, published)
  BY Types
<1>2. r \in Subscription /\ r.main = s.main /\ r.read = s.read /\ r.heard = s.heard
      /\ r.lastDeliveredSeq = s.lastDeliveredSeq /\ r.wire = s.wire /\ r.disposed = s.disposed
  BY <1>1 DEF Subscription
<1>3. CASE subscriptions' = [subscriptions EXCEPT ![g] = r]
  <2> HIDE DEF r
  <2>1. SubscriptionOK(g, r, published)
    BY <1>1, <1>2 DEF SubscriptionOK, SentOK, WireOK
  <2> QED
    BY <1>2, <1>3, <2>1, OneChanges DEF Cancel
<1>4. CASE subscriptions' = [h \in DOMAIN subscriptions \ {g} |-> subscriptions[h]]
  BY <1>4, Types, ServiceKeeps DEF Cancel
<1> QED
  BY <1>3, <1>4 DEF Cancel

\* No event falls between the replay and what the listener heard meanwhile: it listens
\* before the journal is read.
LEMMA GoLiveKeeps ==
    ASSUME InspectorInv, NEW g \in DOMAIN subscriptions, GoLive(g) PROVE InspectorInv'
<1> DEFINE s == subscriptions[g]
           persisted == TaskEvents(s.lastDeliveredSeq, s.read)
           d == Deliver(s, persisted)
           replayed == [d EXCEPT !.main = "live"]
           live == Forwarded(replayed, Buffered(s))
           r == IF Cardinality(persisted) > ReplayLimit THEN [s EXCEPT !.main = "refused"]
                ELSE [live EXCEPT !.heard = 0, !.read = 0]
<1>1. /\ s \in Subscription /\ SubscriptionOK(g, s, published) /\ s.main = "replayed"
      /\ journal \in Seq(BOOLEAN) /\ Len(journal) \in 0 .. MaxEvents
      /\ published \in 0 .. Len(journal) /\ projection.lastSeq \in Nat
  BY Types DEF GoLive
<1>2. subscriptions' = [subscriptions EXCEPT ![g] = r]
  BY DEF GoLive
<1> HIDE DEF s
<1>3. /\ s.lastDeliveredSeq \in Nat /\ s.heard \in Nat /\ s.read \in 0 .. Len(journal)
      /\ s.heard <= s.read /\ s.heard <= published /\ TaskSeq(s.lastDeliveredSeq)
  BY <1>1, SubscriptionFields, Bounds DEF SubscriptionOK, SentOK
<1>4. Sends(s, d, s.read)
  <2>1. /\ persisted \in SUBSET Event
        /\ Seqs(persisted) = TaskSeqs(s.lastDeliveredSeq, s.read)
        /\ \A e \in persisted : e.prev = LastTaskSeq(e.seq - 1)
    BY <1>1, <1>3, TaskEventsFacts
  <2> HIDE DEF persisted
  <2> QED
    BY <1>1, <1>3, <2>1, DeliverSends
<1> HIDE DEF d
<1>5. /\ replayed \in Subscription /\ replayed.main = "live"
      /\ replayed.disposed = s.disposed /\ replayed.lastDeliveredSeq = d.lastDeliveredSeq
      /\ replayed.wire = d.wire
  BY <1>4 DEF Sends, Subscription
<1> HIDE DEF replayed
<1>6. Sends(replayed, live, published)
  <2> DEFINE l == replayed.lastDeliveredSeq
  <2>1. TaskSeq(l) /\ TaskSeqs(l, s.read) = {}
    BY <1>4, <1>5 DEF Sends
  <2>2. {n \in Buffered(s) : n > l /\ journal[n]} = TaskSeqs(l, published)
    <3>1. l \in Nat
      BY <2>1 DEF TaskSeq
    <3> HIDE DEF l
    <3>2. ASSUME NEW i \in TaskSeqs(l, published)
          PROVE  i \in Buffered(s) /\ i > l /\ journal[i]
      <4>1. i \in Nat /\ i > l /\ i <= published /\ journal[i]
        BY <1>1, <3>1 DEF TaskSeqs
      <4>2. i \notin TaskSeqs(l, s.read)
        BY <2>1
      <4>3. i > s.read
        BY <1>1, <1>3, <3>1, <4>1, <4>2 DEF TaskSeqs
      <4> QED
        BY <1>1, <1>3, <4>1, <4>3 DEF Buffered
    <3>3. ASSUME NEW i \in Buffered(s), i > l, journal[i]
          PROVE  i \in TaskSeqs(l, published)
      BY <1>1, <1>3, <3>1, <3>3 DEF Buffered, TaskSeqs
    <3> QED
      BY <3>2, <3>3
  <2> QED
    BY <1>1, <1>5, <2>1, <2>2, ForwardedSends
<1> HIDE DEF live
<1>7. CASE Cardinality(persisted) > ReplayLimit
  <2>1. r = [s EXCEPT !.main = "refused"]
    BY <1>7
  <2> HIDE DEF r
  <2>2. r \in Subscription /\ r.main = "refused" /\ r.lastDeliveredSeq = s.lastDeliveredSeq
        /\ r.wire = s.wire /\ r.disposed = s.disposed
    BY <1>1, <2>1 DEF Subscription
  <2>3. SubscriptionOK(g, r, published)
    BY <1>1, <2>2 DEF SubscriptionOK, SentOK, WireOK
  <2> QED
    BY <1>2, <2>2, <2>3, OneChanges DEF GoLive
<1>8. CASE ~(Cardinality(persisted) > ReplayLimit)
  <2>1. r = [live EXCEPT !.heard = 0, !.read = 0]
    BY <1>8
  <2> HIDE DEF r
  <2>2. r \in Subscription /\ r.main = "live" /\ r.lastDeliveredSeq = live.lastDeliveredSeq
        /\ r.wire = live.wire /\ r.disposed = live.disposed
    <3>1. live \in Subscription /\ live.main = "live" /\ 0 \in 0 .. MaxEvents
      BY <1>5, <1>6, Bounds DEF Sends
    <3> QED
      BY <2>1, <3>1 DEF Subscription
  <2>3. SentOK(r, published)
    BY <1>6, <2>2 DEF SentOK, Sends
  <2>4. ASSUME ~s.disposed PROVE g = current /\ WireOK(r)
    <3>1. g = current /\ WireOK(s)
      BY <1>1, <2>4 DEF SubscriptionOK
    <3>2. WireOK(d)
      BY <1>4, <2>4, <3>1 DEF Sends
    <3>3. WireOK(replayed)
      BY <1>5, <3>2 DEF WireOK
    <3>4. WireOK(live)
      BY <1>5, <1>6, <2>4, <3>3 DEF Sends
    <3> QED
      BY <2>2, <3>1, <3>4 DEF WireOK
  <2>5. r.disposed = s.disposed
    BY <1>5, <1>6, <2>2 DEF Sends
  <2>6. SubscriptionOK(g, r, published)
    BY <1>6, <2>2, <2>3, <2>4, <2>5 DEF SubscriptionOK, Sends
  <2> QED
    BY <1>2, <2>2, <2>6, OneChanges DEF GoLive
<1> QED
  BY <1>7, <1>8

\* The listener of a live subscription hears of the one event that is new.
LEMMA PublishKeeps ==
    ASSUME InspectorInv, Publish PROVE InspectorInv'
<1>1. /\ journal \in Seq(BOOLEAN) /\ Len(journal) \in 0 .. MaxEvents
      /\ published \in 0 .. Len(journal) /\ projection.lastSeq \in Nat
      /\ Len(journal) = published + 1 /\ published' = Len(journal) /\ journal' = journal
      /\ UNCHANGED <<view, command, opens, store>>
  BY Types DEF Publish, InspectorInv, JournalOK
<1>2. /\ DOMAIN subscriptions' = DOMAIN subscriptions
      /\ \A g \in DOMAIN subscriptions :
            subscriptions'[g] = Forwarded(subscriptions[g], {Len(journal)})
  BY <1>1 DEF Publish
<1>3. ASSUME NEW g \in DOMAIN subscriptions
      PROVE  /\ subscriptions'[g] \in Subscription
             /\ SubscriptionOK(g, subscriptions'[g], Len(journal))
  <2> DEFINE s == subscriptions[g]
             r == Forwarded(s, {Len(journal)})
  <2>1. /\ s \in Subscription /\ SubscriptionOK(g, s, published)
        /\ TaskSeq(s.lastDeliveredSeq)
    BY Types DEF SubscriptionOK, SentOK
  <2>2. subscriptions'[g] = r
    BY <1>2
  <2> HIDE DEF s
  <2>3. ASSUME s.main = "live"
        PROVE  r \in Subscription /\ SubscriptionOK(g, r, Len(journal))
    <3>1. TaskSeqs(s.lastDeliveredSeq, published) = {}
      BY <2>1, <2>3 DEF SubscriptionOK, SentOK
    <3>2. {n \in {Len(journal)} : n > s.lastDeliveredSeq /\ journal[n]}
             = TaskSeqs(s.lastDeliveredSeq, Len(journal))
      <4> DEFINE l == s.lastDeliveredSeq
      <4>1. l \in Nat
        BY <2>1 DEF TaskSeq
      <4> HIDE DEF l
      <4>2. TaskSeqs(l, published) = {}
        BY <3>1 DEF l
      <4>3. ASSUME NEW i \in TaskSeqs(l, Len(journal)) PROVE i = Len(journal) /\ i > l /\ journal[i]
        <5>1. i \in Nat /\ i > l /\ i <= Len(journal) /\ journal[i]
          BY <1>1, <4>1 DEF TaskSeqs
        <5>2. ~(i <= published)
          BY <1>1, <4>1, <4>2, <5>1 DEF TaskSeqs
        <5> QED
          BY <1>1, <5>1, <5>2
      <4>4. ASSUME Len(journal) > l, journal[Len(journal)]
            PROVE  Len(journal) \in TaskSeqs(l, Len(journal))
        BY <1>1, <4>1, <4>4 DEF TaskSeqs
      <4> QED
        BY <1>1, <4>3, <4>4 DEF l
    <3>3. Sends(s, r, Len(journal))
      <4>1. Len(journal) \in 0 .. Len(journal)
        BY <1>1
      <4> QED
        BY <1>1, <2>1, <2>3, <3>2, <4>1, ForwardedSends
    <3> HIDE DEF r
    <3>4. SentOK(r, Len(journal))
      BY <1>1, <2>3, <3>3 DEF Sends, SentOK
    <3>5. ASSUME ~s.disposed PROVE g = current /\ WireOK(r)
      BY <2>1, <3>3, <3>5 DEF Sends, SubscriptionOK
    <3> QED
      BY <3>3, <3>4, <3>5 DEF Sends, SubscriptionOK
  <2>4. ASSUME s.main # "live"
        PROVE  r \in Subscription /\ SubscriptionOK(g, r, Len(journal))
    <3>1. r = s
      BY <2>4 DEF Forwarded
    <3> HIDE DEF r
    <3>2. s.heard \in Nat
      BY <2>1, SubscriptionFields, Bounds
    <3>3. SentOK(s, Len(journal))
      BY <1>1, <2>1, <2>4, <3>2 DEF SubscriptionOK, SentOK
    <3> QED
      BY <2>1, <3>1, <3>3 DEF SubscriptionOK
  <2> HIDE DEF r
  <2> QED
    BY <2>2, <2>3, <2>4
<1>4. TypeOK'
  BY <1>1, <1>2, <1>3 DEF InspectorInv, TypeOK, store
<1>5. JournalOK' /\ ProjectionOK'
  BY <1>1 DEF InspectorInv, JournalOK, ProjectionOK, Exact, TaskSeq, TaskSeqs, store
<1>6. SubscriptionsOK'
  BY <1>1, <1>2, <1>3
     DEF SubscriptionsOK, SubscriptionOK, SentOK, WireOK, TaskSeq, TaskSeqs, LastTaskSeq, store
<1>7. CurrentOK' /\ HydrationOK' /\ CountsOK'
  BY <1>1 DEF InspectorInv, CurrentOK, HydrationOK, CountsOK, In, Opened, Valid, store
<1> QED
  BY <1>4, <1>5, <1>6, <1>7 DEF InspectorInv

\* What was sent and shown of the journal stays as the journal grows.
LEMMA WriteKeeps ==
    ASSUME InspectorInv, NEW shown \in BOOLEAN, Write(shown) PROVE InspectorInv'
<1>1. /\ journal \in Seq(BOOLEAN) /\ Len(journal) \in 0 .. MaxEvents
      /\ published = Len(journal) /\ Len(journal) < MaxEvents
      /\ journal' = Append(journal, shown) /\ projection.lastSeq \in Nat
      /\ UNCHANGED <<published, view, command, opens, store, subscriptions>>
  BY Types DEF Write
<1>2. /\ journal' \in Seq(BOOLEAN) /\ Len(journal') = Len(journal) + 1
      /\ \A n : TaskSeq(n) => TaskSeq(n)'
      /\ \A a \in Nat, b \in 0 .. Len(journal) : TaskSeqs(a, b)' = TaskSeqs(a, b)
      /\ \A n \in 0 .. Len(journal) : LastTaskSeq(n)' = LastTaskSeq(n)
  BY <1>1, JournalGrows
<1>3. TypeOK'
  BY <1>1, <1>2 DEF InspectorInv, TypeOK, store
<1>4. JournalOK'
  BY <1>1, <1>2, Bounds DEF InspectorInv, JournalOK
<1>5. ProjectionOK'
  <2> SUFFICES ASSUME projection # NoProjection PROVE Exact(projection)'
    BY <1>1 DEF ProjectionOK, store
  <2>1. Exact(projection) /\ projection.from \in Nat /\ projection.lastSeq \in 0 .. Len(journal)
    BY <1>1 DEF InspectorInv, ProjectionOK, Exact, TaskSeq
  <2>2. projection' = projection
    BY <1>1 DEF store
  <2>3. TaskSeq(projection.lastSeq)'
    BY <1>2, <2>1, <2>2 DEF Exact, TaskSeq
  <2>4. TaskSeqs(projection.from, projection.lastSeq)' = TaskSeqs(projection.from, projection.lastSeq)
    BY <1>2, <2>1, <2>2 DEF TaskSeqs
  <2> QED
    BY <2>1, <2>2, <2>3, <2>4 DEF Exact
<1>6. SubscriptionsOK'
  <2> SUFFICES ASSUME NEW g \in DOMAIN subscriptions
               PROVE  SubscriptionOK(g, subscriptions[g], published)'
    BY <1>1 DEF SubscriptionsOK
  <2> DEFINE s == subscriptions[g]
  <2>1. s \in Subscription /\ SubscriptionOK(g, s, published) /\ s' = s
    BY <1>1, Types
  <2>2. /\ s.lastDeliveredSeq \in 0 .. Len(journal) /\ s.lastDeliveredSeq \in Nat
        /\ s.heard \in Nat /\ s.read \in Nat
    BY <2>1, SubscriptionFields, Bounds DEF SubscriptionOK, SentOK, TaskSeq
  <2>3. SentOK(s, published)'
    <3>1. TaskSeq(s.lastDeliveredSeq)'
      BY <1>2, <2>1 DEF TaskSeq, SubscriptionOK, SentOK
    <3>2. TaskSeqs(s.lastDeliveredSeq, published)' = TaskSeqs(s.lastDeliveredSeq, published)
      BY <1>1, <1>2, <2>1, <2>2 DEF TaskSeqs
    <3> QED
      BY <1>1, <1>2, <2>1, <2>2, <3>1, <3>2 DEF SubscriptionOK, SentOK
  <2>4. ASSUME ~s.disposed PROVE g = current /\ WireOK(s)'
    <3>1. g = current /\ WireOK(s) /\ projection' = projection
      BY <1>1, <2>1, <2>4 DEF SubscriptionOK, store
    <3>2. TaskSeqs(projection.lastSeq, s.lastDeliveredSeq)' = TaskSeqs(projection.lastSeq, s.lastDeliveredSeq)
      BY <1>1, <1>2, <2>1, <2>2, <3>1 DEF TaskSeqs
    <3>3. \A e \in s.wire : e.prev = LastTaskSeq(e.seq - 1)'
      <4> TAKE e \in s.wire
      <4>1. e \in Event /\ e.seq \in Seqs(s.wire)
        BY <2>1, SubscriptionFields DEF Seqs
      <4>2. e.seq - 1 \in 0 .. Len(journal)
        BY <1>1, <2>2, <3>1, <4>1 DEF WireOK, TaskSeqs
      <4>3. LastTaskSeq(e.seq - 1)' = LastTaskSeq(e.seq - 1)
        BY <1>2, <4>2 DEF LastTaskSeq, TaskSeqs
      <4> QED
        BY <3>1, <4>3 DEF WireOK
    <3> QED
      BY <2>1, <3>1, <3>2, <3>3 DEF WireOK, Seqs
  <2> QED
    BY <1>1, <2>1, <2>3, <2>4 DEF SubscriptionOK, store
<1>7. CurrentOK' /\ CountsOK'
  BY <1>1 DEF InspectorInv, CurrentOK, CountsOK, In, Opened, Valid, store
<1>8. HydrationOK'
  <2>1. inFlight # NoHydration => inFlight \in Hydration
    BY DEF InspectorInv, TypeOK
  <2>2. inFlight # NoHydration => inFlight.read \in Nat
    BY <2>1, Bounds DEF Hydration
  <2> QED
    BY <1>1, <1>2, <2>2 DEF InspectorInv, HydrationOK, Valid, store
<1> QED
  BY <1>3, <1>4, <1>5, <1>6, <1>7, <1>8 DEF InspectorInv

-----------------------------------------------------------------------------
(* Events arrive.                                                          *)

\* A projection is the record of its fields, and not that of no projection.
LEMMA ProjectionFields ==
    ASSUME NEW p \in Projection
    PROVE  /\ p # NoProjection /\ p.from \in 0 .. MaxEvents /\ p.lastSeq \in 0 .. MaxEvents
           /\ p.activity \in SUBSET (1 .. MaxEvents) /\ p.needsRefresh \in BOOLEAN
<1>1. DOMAIN p = {"from", "activity", "lastSeq", "needsRefresh"}
  BY DEF Projection
<1>2. DOMAIN NoProjection = {"lastSeq"}
  BY DEF NoProjection
<1> QED
  BY <1>1, <1>2 DEF Projection

\* The first of the events on their way is the next one of what is shown.
LEMMA ReceiveKeeps ==
    ASSUME InspectorInv, NEW g \in DOMAIN subscriptions, Receive(g) PROVE InspectorInv'
<1> DEFINE s == subscriptions[g]
<1>1. /\ journal \in Seq(BOOLEAN) /\ Len(journal) \in 0 .. MaxEvents
      /\ published \in 0 .. Len(journal) /\ projection.lastSeq \in Nat
      /\ s \in Subscription /\ g \in Nat \ {0} /\ SubscriptionOK(g, s, published)
      /\ ~s.disposed
  BY Types DEF Receive
<1>2. /\ g = current /\ WireOK(s) /\ current = generation /\ inFlight = NoHydration
      /\ projection # NoProjection /\ Exact(projection) /\ projection \in Projection
  BY <1>1 DEF SubscriptionOK, InspectorInv, CurrentOK, ProjectionOK, TypeOK
<1>3. PICK e \in s.wire :
          /\ \A f \in s.wire : e.seq <= f.seq
          /\ projection' = Reduce(projection, {e})
          /\ subscriptions' = [subscriptions EXCEPT ![g].wire = s.wire \ {e}]
  BY <1>2 DEF Receive
<1> DEFINE q == Reduce(projection, {e})
           r == [s EXCEPT !.wire = s.wire \ {e}]
<1>4. /\ UNCHANGED <<journal, published, view, command, opens, refcount,
                     generation, inFlight, current>>
      /\ projection' = q
      /\ DOMAIN subscriptions' = DOMAIN subscriptions
      /\ \A h \in DOMAIN subscriptions :
            subscriptions'[h] = IF h = g THEN r ELSE subscriptions[h]
  BY <1>3 DEF Receive
<1> HIDE DEF s
<1>5. /\ s.wire \in SUBSET Event /\ s.lastDeliveredSeq \in Nat
      /\ s.lastDeliveredSeq <= Len(journal)
      /\ Seqs(s.wire) = TaskSeqs(projection.lastSeq, s.lastDeliveredSeq)
  BY <1>1, <1>2, SubscriptionFields, Bounds DEF SubscriptionOK, SentOK, TaskSeq, WireOK
<1>6. \A f \in s.wire : /\ f.seq \in TaskSeqs(projection.lastSeq, s.lastDeliveredSeq)
                        /\ f.seq \in Nat /\ f.seq > projection.lastSeq
                        /\ f \in Event /\ f.prev = LastTaskSeq(f.seq - 1)
  <2> TAKE f \in s.wire
  <2>1. f.seq \in TaskSeqs(projection.lastSeq, s.lastDeliveredSeq) /\ f \in Event
    BY <1>5 DEF Seqs
  <2>2. f.seq \in Nat /\ f.seq > projection.lastSeq
    BY <1>1, <1>5, <2>1 DEF TaskSeqs
  <2> QED
    BY <1>2, <2>1, <2>2 DEF WireOK
<1>7. Seqs({e}) = {e.seq} /\ {e} \in SUBSET Event
  BY <1>3, <1>6 DEF Seqs
<1>8. NextOf(projection.lastSeq, {e})
  <2>1. e.seq \in TaskSeqs(projection.lastSeq, Len(journal))
    BY <1>1, <1>3, <1>5, <1>6 DEF TaskSeqs
  <2>2. ASSUME NEW i \in TaskSeqs(projection.lastSeq, Len(journal)), i <= e.seq
        PROVE  i = e.seq
    <3>1. i \in TaskSeqs(projection.lastSeq, s.lastDeliveredSeq) /\ i \in Nat
      BY <1>1, <1>3, <1>5, <1>6, <2>2 DEF TaskSeqs
    <3>2. PICK f \in s.wire : f.seq = i
      BY <1>5, <3>1 DEF Seqs
    <3> QED
      BY <1>3, <1>6, <2>2, <3>1, <3>2
  <2> QED
    BY <1>3, <1>6, <1>7, <2>1, <2>2 DEF NextOf
<1>9. Extended(projection, {e}, q)
  BY <1>1, <1>2, <1>7, <1>8, ReduceExact
<1> HIDE DEF q
<1>10. q \in Projection /\ Exact(q) /\ q.lastSeq = e.seq /\ q # NoProjection
  BY <1>7, <1>9, ProjectionFields DEF Extended
<1>11. Seqs(s.wire \ {e}) = TaskSeqs(e.seq, s.lastDeliveredSeq)
  <2>1. ASSUME NEW f \in s.wire, f # e PROVE f.seq \in TaskSeqs(e.seq, s.lastDeliveredSeq)
    <3>1. f.seq # e.seq
      BY <1>3, <1>6, <2>1 DEF Event
    <3> QED
      BY <1>3, <1>5, <1>6, <3>1 DEF TaskSeqs
  <2>2. ASSUME NEW i \in TaskSeqs(e.seq, s.lastDeliveredSeq)
        PROVE  i \in Seqs(s.wire \ {e})
    <3>1. i \in TaskSeqs(projection.lastSeq, s.lastDeliveredSeq) /\ i # e.seq
      BY <1>1, <1>3, <1>5, <1>6 DEF TaskSeqs
    <3>2. PICK f \in s.wire : f.seq = i
      BY <1>5, <3>1 DEF Seqs
    <3> QED
      BY <3>1, <3>2 DEF Seqs
  <2> QED
    BY <2>1, <2>2 DEF Seqs
<1>12. /\ r \in Subscription /\ r.wire = s.wire \ {e} /\ r.disposed = s.disposed
       /\ r.main = s.main /\ r.heard = s.heard /\ r.read = s.read
       /\ r.lastDeliveredSeq = s.lastDeliveredSeq
  <2>1. s.wire \ {e} \in SUBSET Event
    BY <1>5
  <2> QED
    BY <1>1, <2>1 DEF Subscription
<1> HIDE DEF r
<1>13. /\ SentOK(r, published) /\ e.seq <= r.lastDeliveredSeq /\ ~r.disposed
       /\ Seqs(r.wire) = TaskSeqs(e.seq, r.lastDeliveredSeq)
       /\ \A f \in r.wire : f.prev = LastTaskSeq(f.seq - 1)
  <2>1. SentOK(r, published)
    BY <1>1, <1>12 DEF SubscriptionOK, SentOK
  <2>2. e.seq <= s.lastDeliveredSeq
    BY <1>3, <1>5, <1>6 DEF TaskSeqs
  <2>3. ~s.disposed
    BY <1>1 DEF s
  <2> QED
    BY <1>6, <1>11, <1>12, <2>1, <2>2, <2>3
<1>14. \A h \in DOMAIN subscriptions :
           h # g => subscriptions[h].disposed /\ SubscriptionOK(h, subscriptions[h], published)
  BY <1>2, Types DEF SubscriptionOK
<1>15. SubscriptionsOK'
  <2>1. \A h \in DOMAIN subscriptions' : SentOK(subscriptions'[h], published)
    BY <1>4, <1>13, <1>14 DEF SubscriptionOK
  <2>2. \A h \in DOMAIN subscriptions' :
            subscriptions'[h].disposed => subscriptions'[h].wire = {}
    BY <1>4, <1>13, <1>14 DEF SubscriptionOK
  <2>3. \A h \in DOMAIN subscriptions' : ~subscriptions'[h].disposed =>
            /\ h = current' /\ projection'.lastSeq <= subscriptions'[h].lastDeliveredSeq
            /\ Seqs(subscriptions'[h].wire)
                  = TaskSeqs(projection'.lastSeq, subscriptions'[h].lastDeliveredSeq)
            /\ \A f \in subscriptions'[h].wire : f.prev = LastTaskSeq(f.seq - 1)
    BY <1>2, <1>4, <1>10, <1>13, <1>14
  <2> QED
    BY <1>4, <2>1, <2>2, <2>3
       DEF SubscriptionsOK, SubscriptionOK, SentOK, WireOK, TaskSeq, TaskSeqs, LastTaskSeq, Seqs
<1>16. TypeOK'
  BY <1>4, <1>10, <1>12 DEF InspectorInv, TypeOK
<1>17. JournalOK' /\ ProjectionOK'
  BY <1>4, <1>10 DEF InspectorInv, JournalOK, ProjectionOK, Exact, TaskSeq, TaskSeqs
<1>18. CurrentOK' /\ HydrationOK' /\ CountsOK'
  BY <1>2, <1>4, <1>10
     DEF InspectorInv, CurrentOK, HydrationOK, CountsOK, In, Opened, Valid
<1> QED
  BY <1>15, <1>16, <1>17, <1>18 DEF InspectorInv

-----------------------------------------------------------------------------
(* Steps of the store.                                                     *)

\* Nothing of the journal, of what is shown and of the subscriptions changes.
LEMMA ShownStays ==
    ASSUME InspectorInv, UNCHANGED <<journal, published, projection, current, subscriptions>>
    PROVE  JournalOK' /\ ProjectionOK' /\ SubscriptionsOK'
<1>1. JournalOK' /\ ProjectionOK'
  BY DEF InspectorInv, JournalOK, ProjectionOK, Exact, TaskSeq, TaskSeqs
<1>2. SubscriptionsOK'
  BY DEF InspectorInv, SubscriptionsOK, SubscriptionOK, SentOK, WireOK, TaskSeq, TaskSeqs,
         LastTaskSeq
<1> QED
  BY <1>1, <1>2

\* A subscription that the window let go of hears nothing more.
LetGo(s) ==
    /\ s \in Subscription /\ SentOK(s, published)
    /\ s.disposed /\ s.wire = {}

\* Every subscription is one: whatever is shown then, they are not about it.
LEMMA AllLetGo ==
    ASSUME InspectorInv, UNCHANGED <<journal, published>>,
           \A g \in DOMAIN subscriptions' : LetGo(subscriptions'[g])
    PROVE  SubscriptionsOK'
BY DEF SubscriptionsOK, SubscriptionOK, LetGo, SentOK, TaskSeq, TaskSeqs

LEMMA WithoutCurrent ==
    ASSUME InspectorInv, current = 0
    PROVE  \A g \in DOMAIN subscriptions : LetGo(subscriptions[g])
BY Types, SubscriptionFields DEF SubscriptionOK, LetGo

LEMMA DisposedLetGo ==
    ASSUME InspectorInv
    PROVE  /\ DOMAIN Disposed(current) = DOMAIN subscriptions
           /\ \A g \in DOMAIN subscriptions : LetGo(Disposed(current)[g])
<1>1. ASSUME NEW g \in DOMAIN subscriptions PROVE LetGo(Disposed(current)[g])
  <2> DEFINE s == subscriptions[g]
             r == [s EXCEPT !.disposed = TRUE, !.wire = {}]
  <2>1. s \in Subscription /\ SubscriptionOK(g, s, published)
    BY Types
  <2>2. Disposed(current)[g] = IF g = current THEN r ELSE s
    BY DEF Disposed
  <2>3. CASE g = current
    <3> HIDE DEF s
    <3>1. {} \in SUBSET Event /\ TRUE \in BOOLEAN
      OBVIOUS
    <3>2. /\ r \in Subscription /\ r.main = s.main /\ r.heard = s.heard /\ r.read = s.read
          /\ r.lastDeliveredSeq = s.lastDeliveredSeq /\ r.disposed /\ r.wire = {}
      BY <2>1, <3>1 DEF Subscription
    <3> HIDE DEF r
    <3>3. SentOK(r, published)
      BY <2>1, <3>2 DEF SubscriptionOK, SentOK
    <3> QED
      BY <2>2, <2>3, <3>2, <3>3 DEF LetGo
  <2>4. CASE g # current
    <3> HIDE DEF s
    <3> QED
      BY <2>1, <2>2, <2>4, SubscriptionFields DEF SubscriptionOK, LetGo
  <2> QED
    BY <2>3, <2>4
<1> QED
  BY <1>1 DEF Disposed

\* What a component shows from now on changes the views by one.
LEMMA ViewChanges ==
    ASSUME InspectorInv, NEW c \in Consumers, NEW v, view' = [view EXCEPT ![c] = v], NEW V
    PROVE  /\ IsFiniteSet(In(V)) /\ Cardinality(In(V)) \in Nat /\ Cardinality(In(V)') \in Nat
           /\ v \in V /\ view[c] \notin V => Cardinality(In(V)') = Cardinality(In(V)) + 1
           /\ v \notin V /\ view[c] \in V => Cardinality(In(V)') = Cardinality(In(V)) - 1
           /\ (v \in V <=> view[c] \in V) => In(V)' = In(V)
<1>1. view \in [Consumers -> {"closed", "loading", "shown", "failed"}] /\ IsFiniteSet(Consumers)
  BY Bounds DEF InspectorInv, TypeOK
<1>2. In(V)' = IF v \in V THEN In(V) \cup {c} ELSE In(V) \ {c}
  BY <1>1 DEF In
<1>3. IsFiniteSet(In(V)) /\ (c \in In(V) <=> view[c] \in V)
  <2>1. In(V) \subseteq Consumers
    BY DEF In
  <2> QED
    BY <1>1, <2>1, FS_Subset DEF In
<1> DEFINE S == In(V)
           T == In(V)'
<1>4. IsFiniteSet(S) /\ T = IF v \in V THEN S \cup {c} ELSE S \ {c}
  BY <1>2, <1>3
<1>5. c \in S <=> view[c] \in V
  BY <1>3
<1> HIDE DEF S, T
<1>6. IsFiniteSet(T) /\ Cardinality(S) \in Nat
  BY <1>4, FS_AddElement, FS_RemoveElement, FS_CardinalityType
<1>7. Cardinality(T) \in Nat
  BY <1>6, FS_CardinalityType
<1>8. c \notin S => Cardinality(S \cup {c}) = Cardinality(S) + 1
  BY <1>4, FS_AddElement
<1>9. c \in S => Cardinality(S \ {c}) = Cardinality(S) - 1
  BY <1>4, FS_RemoveElement
<1>10. /\ v \in V /\ view[c] \notin V => Cardinality(T) = Cardinality(S) + 1
       /\ v \notin V /\ view[c] \in V => Cardinality(T) = Cardinality(S) - 1
  BY <1>4, <1>5, <1>8, <1>9
<1>11. (v \in V <=> view[c] \in V) => T = S
  BY <1>4, <1>5
<1> QED
  BY <1>4, <1>6, <1>7, <1>10, <1>11 DEF S, T

-----------------------------------------------------------------------------
(* Hydration.                                                              *)

\* A hydration is the record of its fields; nothing is subscribed while it runs.
LEMMA HydrationFacts ==
    ASSUME InspectorInv, inFlight # NoHydration
    PROVE  /\ inFlight \in Hydration /\ inFlight.awaits \in {"snapshot", "page"}
           /\ inFlight.read \in 0 .. Len(journal) /\ inFlight.answered \in BOOLEAN
           /\ inFlight.generation \in Nat \ {0} /\ inFlight.generation <= generation
           /\ inFlight.waiting \in Nat \ {0} /\ inFlight.waiting <= opens
           /\ current = 0 /\ refcount = 0
           /\ \A h \in Hydration : h # NoHydration
<1>1. inFlight \in Hydration
  BY DEF InspectorInv, TypeOK
<1>2. \A h \in Hydration : h # NoHydration
  BY DEF Hydration, NoHydration
<1>3. /\ inFlight.awaits \in {"snapshot", "page"} /\ inFlight.read \in Nat
      /\ inFlight.answered \in BOOLEAN
      /\ inFlight.generation \in Nat \ {0} /\ inFlight.waiting \in Nat
  BY <1>1, Bounds DEF Hydration
<1>4. /\ inFlight.read <= Len(journal) /\ inFlight.generation <= generation
      /\ inFlight.waiting > 0 /\ inFlight.waiting <= opens /\ current = 0 /\ refcount = 0
  BY DEF InspectorInv, HydrationOK, CountsOK, CurrentOK
<1> QED
  BY <1>1, <1>2, <1>3, <1>4, Types

\* Only what the hydration has read, and awaits, changes.
LEMMA AnswerKeeps ==
    ASSUME InspectorInv, inFlight # NoHydration,
           UNCHANGED <<journal, published, view, command, opens, refcount,
                       generation, current, subscriptions>>,
           inFlight' \in Hydration, inFlight'.read <= Len(journal),
           inFlight'.generation = inFlight.generation, inFlight'.waiting = inFlight.waiting,
           \/ projection' = projection /\ inFlight'.awaits = inFlight.awaits
           \/ projection' \in Projection /\ Exact(projection') /\ inFlight'.awaits = "page" /\ Valid
    PROVE  InspectorInv'
<1>1. inFlight' # NoHydration /\ current = 0 /\ refcount = 0
  BY HydrationFacts
<1>2. SubscriptionsOK'
  BY <1>1, WithoutCurrent, AllLetGo
<1>3. TypeOK'
  BY DEF InspectorInv, TypeOK
<1>4. JournalOK'
  BY DEF InspectorInv, JournalOK
<1>5. ProjectionOK'
  BY DEF InspectorInv, ProjectionOK, Exact, TaskSeq, TaskSeqs
<1>6. \/ projection' = projection /\ inFlight'.awaits = inFlight.awaits
      \/ projection' # NoProjection /\ inFlight'.awaits = "page" /\ Valid'
  BY ProjectionFields DEF Valid
<1>7. CurrentOK'
  BY <1>1, <1>6 DEF InspectorInv, CurrentOK, Valid
<1>8. HydrationOK'
  <2>1. inFlight'.awaits = "page" /\ Valid' => projection' # NoProjection
    BY <1>6 DEF InspectorInv, HydrationOK, Valid
  <2>2. inFlight'.generation <= generation' /\ inFlight'.waiting > 0
    BY HydrationFacts
  <2> QED
    BY <1>1, <2>1, <2>2 DEF HydrationOK
<1>9. CountsOK'
  <2>1. /\ refcount' <= opens' /\ generation' + Cardinality(Opened') <= 2 * opens'
        /\ inFlight'.waiting <= opens'
        /\ command' # "refreshed" =>
              /\ refcount' <= Cardinality(In({"shown"})')
              /\ Valid' => inFlight'.waiting <= Cardinality(In({"loading"})')
    BY DEF InspectorInv, CountsOK, In, Opened, Valid
  <2>2. ASSUME command # "refreshed", projection' # NoProjection
        PROVE  Opened # {}
    <3>1. CASE projection # NoProjection
      BY <1>1, <2>2, <3>1 DEF InspectorInv, CountsOK
    <3>2. CASE projection = NoProjection
      <4>1. Valid /\ inFlight.waiting <= Cardinality(In({"loading"}))
        BY <2>2, <3>2 DEF InspectorInv, CountsOK
      <4>2. inFlight.waiting \in Nat \ {0}
        BY HydrationFacts
      <4>3. In({"loading"}) = {} => Cardinality(In({"loading"})) = 0
        BY FS_EmptySet
      <4>4. In({"loading"}) # {}
        BY <4>1, <4>2, <4>3
      <4> QED
        BY <4>4 DEF In, Opened
    <3> QED
      BY <3>1, <3>2
  <2>3. Opened' = Opened
    BY DEF In, Opened
  <2> QED
    BY <2>1, <2>2, <2>3 DEF CountsOK
<1> QED
  BY <1>2, <1>3, <1>4, <1>5, <1>7, <1>8, <1>9 DEF InspectorInv

LEMMA ReadJournalKeeps == ASSUME InspectorInv, ReadJournal PROVE InspectorInv'
<1> DEFINE n == Len(journal)
           h == [inFlight EXCEPT !.read = n, !.answered = TRUE]
<1>1. inFlight # NoHydration /\ inFlight' = h
  BY DEF ReadJournal
<1>2. n \in 0 .. MaxEvents
  BY Types
<1> HIDE DEF n
<1>3. /\ h \in Hydration /\ h.read = n /\ h.awaits = inFlight.awaits
      /\ h.generation = inFlight.generation /\ h.waiting = inFlight.waiting
  BY <1>1, <1>2, HydrationFacts DEF Hydration
<1> HIDE DEF h
<1>4. n <= Len(journal)
  BY Types DEF n
<1> QED
  BY <1>1, <1>3, <1>4, AnswerKeeps DEF ReadJournal

\* The page that is asked for next.
LEMMA NextPageFacts ==
    ASSUME InspectorInv, inFlight # NoHydration
    PROVE  /\ NextPage \in Hydration /\ NextPage.read = 0 /\ NextPage.awaits = "page"
           /\ NextPage.generation = inFlight.generation /\ NextPage.waiting = inFlight.waiting
<1>1. 0 \in 0 .. MaxEvents
  BY Bounds
<1> QED
  BY <1>1, HydrationFacts DEF Hydration, NextPage

\* A snapshot shows the task as it is, with nothing after it.
LEMMA SnapshotArrivesKeeps == ASSUME InspectorInv, SnapshotArrives PROVE InspectorInv'
<1>1. inFlight # NoHydration /\ Valid /\ inFlight' = NextPage /\ projection' = Hydrated(inFlight.read)
  BY DEF SnapshotArrives, Answered
<1> DEFINE l == LastTaskSeq(inFlight.read)
<1>2. l \in 0 .. inFlight.read /\ TaskSeq(l) /\ inFlight.read \in 0 .. Len(journal)
  BY <1>1, Types, HydrationFacts, LastTask
<1>3. l \in 0 .. MaxEvents /\ l \in 0 .. l
  BY <1>2, Types, Bounds
<1>4. /\ Hydrated(inFlight.read).from = l /\ Hydrated(inFlight.read).lastSeq = l
      /\ Hydrated(inFlight.read).activity = {} /\ ~Hydrated(inFlight.read).needsRefresh
  BY DEF Hydrated
<1>5. Hydrated(inFlight.read) \in Projection
  BY <1>3 DEF Hydrated, Projection
<1> HIDE DEF l
<1>6. TaskSeqs(l, l) = {}
  BY <1>3 DEF TaskSeqs
<1>7. Exact(Hydrated(inFlight.read))
  BY <1>2, <1>3, <1>4, <1>6 DEF Exact
<1>8. 0 <= Len(journal)
  BY Types
<1> QED
  BY <1>1, <1>5, <1>7, <1>8, NextPageFacts, AnswerKeeps DEF SnapshotArrives

\* A page continues what the snapshot and the pages before showed.
LEMMA PageShown ==
    ASSUME InspectorInv, Answered("page"), Valid
    PROVE  /\ Reduce(projection, Page) \in Projection /\ Exact(Reduce(projection, Page))
<1>1. projection # NoProjection /\ inFlight # NoHydration
  BY DEF InspectorInv, HydrationOK, Answered
<1>2. projection \in Projection /\ Exact(projection)
  BY <1>1 DEF InspectorInv, TypeOK, ProjectionOK
<1>3. Page \in SUBSET Event /\ NextOf(projection.lastSeq, Page)
  BY <1>1, Types, HydrationFacts, PageFacts
<1>4. journal \in Seq(BOOLEAN) /\ Len(journal) <= MaxEvents
  BY Types
<1> QED
  BY <1>2, <1>3, <1>4, ReduceExact DEF Extended

LEMMA PageArrivesKeeps == ASSUME InspectorInv, PageArrives PROVE InspectorInv'
<1>1. 0 <= Len(journal)
  BY Types
<1> QED
  BY <1>1, PageShown, NextPageFacts, AnswerKeeps DEF PageArrives, Answered

LEMMA HydrationFailsKeeps ==
    ASSUME InspectorInv, HydrationFails PROVE InspectorInv'
<1>1. /\ inFlight # NoHydration
      /\ inFlight' = NoHydration /\ refcount' = refcount
      /\ view' = [c \in Consumers |-> IF view[c] # "loading" THEN view[c] ELSE "failed"]
      /\ UNCHANGED <<journal, published, command, opens, generation, projection,
                     current, subscriptions>>
  BY DEF HydrationFails, Answered, Settle
<1>2. current = 0 /\ refcount = 0
  BY <1>1, HydrationFacts
<1>3. /\ view \in [Consumers -> {"closed", "loading", "shown", "failed"}]
      /\ view' \in [Consumers -> {"closed", "loading", "shown", "failed"}]
      /\ \A c \in Consumers : view'[c] # "loading" /\ (view'[c] = "closed" <=> view[c] = "closed")
  BY <1>1 DEF InspectorInv, TypeOK
<1>4. TypeOK'
  BY <1>1, <1>3 DEF InspectorInv, TypeOK
<1>5. JournalOK' /\ ProjectionOK' /\ SubscriptionsOK'
  BY <1>1, ShownStays
<1>6. CurrentOK' /\ HydrationOK'
  BY <1>1, <1>2, <1>3 DEF InspectorInv, CurrentOK, HydrationOK, Valid
<1>7. CountsOK'
  <2>1. Opened' = Opened
    BY <1>3 DEF Opened, In
  <2>2. refcount' <= opens' /\ refcount' = 0
    BY <1>1, <1>2 DEF InspectorInv, CountsOK
  <2>3. Cardinality(In({"shown"})') \in Nat
    <3>1. In({"shown"})' \subseteq Consumers
      BY DEF In
    <3> QED
      BY <3>1, Bounds, FS_Subset, FS_CardinalityType
  <2>4. 0 <= Cardinality(In({"shown"})')
    BY <2>3
  <2>5. generation' + Cardinality(Opened') <= 2 * opens'
    BY <1>1, <2>1 DEF InspectorInv, CountsOK
  <2>6. command' # "refreshed" => (projection' # NoProjection => Opened' # {})
    BY <1>1, <1>2, <2>1 DEF InspectorInv, CountsOK
  <2> QED
    BY <1>1, <2>2, <2>4, <2>5, <2>6 DEF CountsOK
<1> QED
  BY <1>4, <1>5, <1>6, <1>7 DEF InspectorInv

\* The subscription starts where the pages ended.
LEMMA LastPageArrivesKeeps == ASSUME InspectorInv, LastPageArrives PROVE InspectorInv'
<1> DEFINE q == Reduce(projection, Page)
           r == Subscribe(q.lastSeq)
<1>1. /\ Answered("page") /\ Valid /\ inFlight # NoHydration
      /\ projection' = q /\ current' = generation
      /\ DOMAIN subscriptions' = DOMAIN subscriptions \cup {generation}
      /\ \A g \in DOMAIN subscriptions' :
            subscriptions'[g] = IF g = generation THEN r ELSE subscriptions[g]
      /\ inFlight' = NoHydration /\ refcount' = inFlight.waiting
      /\ view' = [c \in Consumers |-> IF view[c] # "loading" THEN view[c] ELSE "shown"]
      /\ UNCHANGED <<journal, published, command, opens, generation>>
  BY DEF LastPageArrives, Answered, Settle
<1>2. q \in Projection /\ Exact(q) /\ q # NoProjection /\ q.lastSeq \in 0 .. MaxEvents
  BY <1>1, PageShown, ProjectionFields
<1> HIDE DEF q
<1>3. /\ current = 0 /\ inFlight.waiting \in Nat \ {0} /\ inFlight.waiting <= opens
      /\ generation \in Nat \ {0}
  BY <1>1, HydrationFacts DEF Valid
<1>4. /\ r \in Subscription /\ r.main = "requested" /\ ~r.disposed
      /\ r.lastDeliveredSeq = q.lastSeq /\ r.wire = {}
  <2>1. 0 \in 0 .. MaxEvents /\ {} \in SUBSET Event
    BY Bounds
  <2> QED
    BY <1>2, <2>1 DEF Subscribe, Subscription
<1> HIDE DEF r
<1>5. SentOK(r, published)
  BY <1>2, <1>4 DEF SentOK, Exact
<1>6. TaskSeqs(q.lastSeq, q.lastSeq) = {} /\ q.lastSeq <= q.lastSeq
  BY <1>2, Bounds DEF TaskSeqs
<1>7. SubscriptionsOK'
  <2>1. \A g \in DOMAIN subscriptions : LetGo(subscriptions[g])
    BY <1>3, WithoutCurrent
  <2>2. \A g \in DOMAIN subscriptions' :
            /\ SentOK(subscriptions'[g], published)
            /\ subscriptions'[g].disposed => subscriptions'[g].wire = {}
            /\ ~subscriptions'[g].disposed =>
                  /\ g = current' /\ subscriptions'[g].wire = {}
                  /\ subscriptions'[g].lastDeliveredSeq = projection'.lastSeq
    BY <1>1, <1>4, <1>5, <2>1 DEF LetGo
  <2>3. Seqs({}) = {}
    BY DEF Seqs
  <2> QED
    BY <1>1, <1>6, <2>2, <2>3
       DEF SubscriptionsOK, SubscriptionOK, SentOK, WireOK, TaskSeq, TaskSeqs
<1>8. /\ view \in [Consumers -> {"closed", "loading", "shown", "failed"}]
      /\ view' \in [Consumers -> {"closed", "loading", "shown", "failed"}]
      /\ \A c \in Consumers : view'[c] # "loading" /\ (view'[c] = "closed" <=> view[c] = "closed")
      /\ \A c \in Consumers : view[c] = "loading" => view'[c] = "shown"
  BY <1>1 DEF InspectorInv, TypeOK
<1>9. TypeOK'
  <2>1. refcount' \in 0 .. MaxOpens
    BY <1>1, <1>3, Bounds DEF InspectorInv, TypeOK
  <2>2. DOMAIN subscriptions' \subseteq 1 .. generation
    BY <1>1, <1>3 DEF InspectorInv, TypeOK
  <2>3. \A g \in DOMAIN subscriptions' : subscriptions'[g] \in Subscription
    BY <1>1, <1>4, Types
  <2>4. current' \in 0 .. generation
    BY <1>1, <1>3
  <2> QED
    BY <1>1, <1>2, <1>8, <2>1, <2>2, <2>3, <2>4 DEF InspectorInv, TypeOK
<1>10. JournalOK' /\ ProjectionOK'
  BY <1>1, <1>2 DEF InspectorInv, JournalOK, ProjectionOK, Exact, TaskSeq, TaskSeqs
<1>11. CurrentOK' /\ HydrationOK'
  BY <1>1, <1>2, <1>3, <1>8 DEF CurrentOK, HydrationOK
<1>12. CountsOK'
  <2>1. Opened' = Opened
    BY <1>8 DEF Opened, In
  <2>2. Cardinality(In({"loading"})) <= Cardinality(In({"shown"})')
    <3>1. In({"loading"}) \subseteq In({"shown"})'
      BY <1>8 DEF In
    <3>2. In({"shown"})' \subseteq Consumers
      BY DEF In
    <3> QED
      BY <3>1, <3>2, Bounds, FS_Subset
  <2>3. Cardinality(In({"loading"})) \in Nat /\ Cardinality(In({"shown"})') \in Nat
    <3>1. In({"loading"}) \subseteq Consumers /\ In({"shown"})' \subseteq Consumers
      BY DEF In
    <3>2. IsFiniteSet(In({"loading"})) /\ IsFiniteSet(In({"shown"})')
      BY <3>1, Bounds, FS_Subset
    <3> QED
      BY <3>2, FS_CardinalityType
  <2>4. command' # "refreshed" => refcount' <= Cardinality(In({"shown"})')
    <3> SUFFICES ASSUME command # "refreshed"
                 PROVE  inFlight.waiting <= Cardinality(In({"shown"})')
      BY <1>1
    <3>1. inFlight.waiting <= Cardinality(In({"loading"}))
      BY <1>1 DEF InspectorInv, CountsOK
    <3> QED
      BY <1>3, <2>2, <2>3, <3>1
  <2>5. generation' + Cardinality(Opened') <= 2 * opens'
    BY <1>1, <2>1 DEF InspectorInv, CountsOK
  <2> QED
    BY <1>1, <1>3, <2>4, <2>5 DEF CountsOK
<1> QED
  BY <1>7, <1>9, <1>10, <1>11, <1>12 DEF InspectorInv

-----------------------------------------------------------------------------
(* Open and close.                                                         *)

\* The three ways in which the store opens the inspector.
Attached ==
    /\ Live /\ inFlight = NoHydration /\ inFlight' = inFlight
    /\ refcount' = refcount + 1 /\ generation' = generation
Joined ==
    /\ ~Live /\ inFlight # NoHydration /\ inFlight' \in Hydration
    /\ inFlight'.waiting = inFlight.waiting + 1
    /\ (Valid' <=> Valid) /\ refcount' = refcount /\ generation' = generation
Hydrating ==
    /\ ~Live /\ inFlight = NoHydration /\ inFlight' \in Hydration
    /\ inFlight'.waiting = 1
    /\ refcount' = refcount /\ generation' = generation + 1

\* What an open does to the store, whichever component called it.
Opens ==
    /\ projection' = projection /\ current' \in 0 .. generation'
    /\ DOMAIN subscriptions' = DOMAIN subscriptions
    /\ \A g \in DOMAIN subscriptions' : subscriptions'[g] \in Subscription
    /\ inFlight' # NoHydration =>
          /\ inFlight'.read <= Len(journal) /\ inFlight'.generation <= generation'
          /\ inFlight'.waiting > 0 /\ inFlight'.waiting <= opens'
          /\ inFlight'.awaits = "page" /\ Valid' => projection' # NoProjection
    /\ Attached \/ Joined \/ Hydrating

LEMMA StoreNumbers ==
    ASSUME InspectorInv
    PROVE  /\ refcount \in Nat /\ refcount <= opens /\ opens \in Nat /\ opens <= MaxOpens
           /\ generation \in Nat /\ generation <= 2 * opens /\ current \in 0 .. generation
           /\ \A V : IsFiniteSet(In(V)) /\ Cardinality(In(V)) \in Nat
<1>1. \A V : IsFiniteSet(In(V)) /\ Cardinality(In(V)) \in Nat
  <2> TAKE V
  <2>1. In(V) \subseteq Consumers
    BY DEF In
  <2> QED
    BY <2>1, Bounds, FS_Subset, FS_CardinalityType
<1>2. /\ refcount \in Nat /\ opens \in Nat /\ opens <= MaxOpens
      /\ generation \in Nat /\ current \in 0 .. generation
  BY Bounds DEF InspectorInv, TypeOK
<1>3. Cardinality(Opened) \in Nat
  BY <1>1 DEF Opened
<1>4. generation <= 2 * opens
  BY <1>2, <1>3 DEF InspectorInv, CountsOK
<1> QED
  BY <1>1, <1>2, <1>4 DEF InspectorInv, CountsOK

LEMMA OpenFacts ==
    ASSUME InspectorInv, OpenTaskInspector, UNCHANGED <<journal, published>>
    PROVE  Opens /\ JournalOK' /\ ProjectionOK' /\ SubscriptionsOK' /\ CurrentOK'
<1>1. opens < MaxOpens /\ opens' = opens + 1 /\ opens' \in Nat
  BY StoreNumbers DEF OpenTaskInspector
<1>2. CASE Live /\ Attach
  <2>1. /\ current # 0 /\ inFlight = NoHydration /\ projection # NoProjection
        /\ refcount' = refcount + 1 /\ refcount' # 0
        /\ UNCHANGED <<generation, inFlight, projection, current, subscriptions>>
    BY <1>2, StoreNumbers DEF Live, Attach, InspectorInv, CurrentOK
  <2>2. JournalOK' /\ ProjectionOK' /\ SubscriptionsOK'
    BY <2>1, ShownStays
  <2>3. CurrentOK'
    BY <2>1 DEF InspectorInv, CurrentOK
  <2>4. Opens
    BY <1>2, <2>1, Types, StoreNumbers DEF Opens, Attached
  <2> QED
    BY <2>2, <2>3, <2>4
<1>3. CASE ~Live /\ inFlight # NoHydration /\ Join
  <2> DEFINE w == inFlight.waiting + 1
             h == [inFlight EXCEPT !.waiting = w]
  <2>1. /\ inFlight' = h
        /\ UNCHANGED <<refcount, generation, projection, current, subscriptions>>
    BY <1>3 DEF Join
  <2>2. w \in 0 .. MaxOpens /\ w > 0 /\ w <= opens'
    BY <1>1, <1>3, StoreNumbers, HydrationFacts, Bounds
  <2> HIDE DEF w
  <2>3. /\ h \in Hydration /\ h.read = inFlight.read /\ h.awaits = inFlight.awaits
        /\ h.generation = inFlight.generation /\ h.waiting = w
    BY <1>3, <2>2, HydrationFacts DEF Hydration
  <2> HIDE DEF h
  <2>4. JournalOK' /\ ProjectionOK' /\ SubscriptionsOK'
    BY <2>1, ShownStays
  <2>5. inFlight' # NoHydration /\ (Valid' <=> Valid)
    BY <1>3, <2>1, <2>3, HydrationFacts DEF Valid
  <2>6. CurrentOK'
    BY <1>3, <2>1, <2>3, <2>5, HydrationFacts DEF InspectorInv, CurrentOK
  <2>7. /\ inFlight'.read <= Len(journal) /\ inFlight'.generation <= generation'
        /\ inFlight'.awaits = "page" /\ Valid' => projection' # NoProjection
    BY <1>3, <2>1, <2>3, <2>5, HydrationFacts DEF InspectorInv, HydrationOK
  <2>8. Joined
    BY <1>3, <2>1, <2>3, <2>5 DEF Joined, w
  <2> QED
    BY <2>1, <2>2, <2>3, <2>4, <2>6, <2>7, <2>8, Types, StoreNumbers DEF Opens
<1>4. CASE ~Live /\ inFlight = NoHydration /\ Hydrate
  <2>1. current = 0 /\ refcount = 0
    BY <1>4 DEF Live, InspectorInv, CurrentOK
  <2>2. /\ generation' = generation + 1 /\ current' = 0
        /\ inFlight' = [awaits |-> "snapshot", read |-> 0, answered |-> FALSE,
                        generation |-> generation + 1, waiting |-> 1]
        /\ subscriptions' = Disposed(current) /\ UNCHANGED <<refcount, projection>>
    BY <1>4 DEF Hydrate
  <2>3. inFlight' \in Hydration
    <3>1. generation + 1 \in 1 .. MaxGenerations /\ 1 \in 0 .. MaxOpens /\ 0 \in 0 .. MaxEvents
      BY <1>1, StoreNumbers, Bounds
    <3> QED
      BY <2>2, <3>1 DEF Hydration
  <2>4. /\ DOMAIN subscriptions' = DOMAIN subscriptions
        /\ \A g \in DOMAIN subscriptions' : LetGo(subscriptions'[g])
    BY <2>2, DisposedLetGo
  <2>5. SubscriptionsOK'
    BY <2>4, AllLetGo
  <2>6. JournalOK' /\ ProjectionOK'
    BY <2>1, <2>2 DEF InspectorInv, JournalOK, ProjectionOK, Exact, TaskSeq, TaskSeqs
  <2>7. CurrentOK'
    BY <2>1, <2>2 DEF CurrentOK
  <2>8. /\ inFlight'.read <= Len(journal) /\ inFlight'.generation <= generation'
        /\ inFlight'.waiting > 0 /\ inFlight'.waiting <= opens'
        /\ inFlight'.awaits = "snapshot" /\ inFlight'.waiting = 1
    BY <1>1, <2>2, Types, StoreNumbers
  <2>9. Hydrating
    BY <1>4, <2>2, <2>3, <2>8 DEF Hydrating
  <2> QED
    BY <2>2, <2>4, <2>5, <2>6, <2>7, <2>8, <2>9, StoreNumbers DEF Opens, LetGo
<1> QED
  BY <1>2, <1>3, <1>4 DEF OpenTaskInspector

\* The store is as its types say after an open.
LEMMA OpenTypes ==
    ASSUME InspectorInv, OpenTaskInspector, Opens, UNCHANGED <<journal, published>>,
           view' \in [Consumers -> {"closed", "loading", "shown", "failed"}],
           command' \in {"none", "issued", "refreshed"}
    PROVE  TypeOK'
<1>1. /\ opens < MaxOpens /\ opens' = opens + 1 /\ opens' \in 0 .. MaxOpens
  BY StoreNumbers, Bounds DEF OpenTaskInspector
<1>2. /\ refcount' \in 0 .. MaxOpens /\ generation' \in 0 .. MaxGenerations
      /\ generation <= generation'
  BY <1>1, StoreNumbers, Bounds DEF Opens, Attached, Joined, Hydrating
<1>3. inFlight' = NoHydration \/ inFlight' \in Hydration
  BY DEF Opens, Attached, Joined, Hydrating
<1>4. DOMAIN subscriptions' \subseteq 1 .. generation'
  BY <1>2, StoreNumbers DEF Opens, InspectorInv, TypeOK
<1> QED
  BY <1>1, <1>2, <1>3, <1>4 DEF Opens, InspectorInv, TypeOK

LEMMA MountKeeps == ASSUME InspectorInv, NEW c \in Consumers, Mount(c) PROVE InspectorInv'
<1> DEFINE v == IF Live THEN "shown" ELSE "loading"
<1>1. /\ view[c] = "closed" /\ view' = [view EXCEPT ![c] = v]
      /\ OpenTaskInspector /\ opens' = opens + 1
      /\ UNCHANGED <<journal, published, command>>
  BY DEF Mount, OpenTaskInspector
<1>2. /\ Opens /\ JournalOK' /\ ProjectionOK' /\ SubscriptionsOK' /\ CurrentOK'
  BY <1>1, OpenFacts
<1>3. v \in {"shown", "loading"} /\ (Live <=> v = "shown")
  OBVIOUS
<1> HIDE DEF v
<1>4. /\ view \in [Consumers -> {"closed", "loading", "shown", "failed"}]
      /\ view' \in [Consumers -> {"closed", "loading", "shown", "failed"}]
      /\ \A b \in Consumers : view'[b] = IF b = c THEN v ELSE view[b]
  BY <1>1, <1>3 DEF InspectorInv, TypeOK
<1>5. TypeOK'
  BY <1>1, <1>2, <1>4, OpenTypes DEF InspectorInv, TypeOK
<1>6. HydrationOK'
  <2>1. inFlight' = NoHydration => \A b \in Consumers : view'[b] # "loading"
    <3>1. inFlight' \in Hydration => inFlight' # NoHydration
      BY DEF Hydration, NoHydration
    <3>2. inFlight' = NoHydration => inFlight = NoHydration /\ v = "shown"
      BY <1>2, <1>3, <3>1 DEF Opens, Attached, Joined, Hydrating
    <3>3. inFlight = NoHydration => \A b \in Consumers : view[b] # "loading"
      BY DEF InspectorInv, HydrationOK
    <3> QED
      BY <1>4, <3>2, <3>3
  <2> QED
    BY <1>1, <1>2, <2>1 DEF HydrationOK, Opens
<1>7. CountsOK'
  <2>1. refcount' <= opens'
    BY <1>1, <1>2, StoreNumbers DEF Opens, Attached, Joined, Hydrating
  <2>2. Cardinality(Opened') = Cardinality(Opened) + 1 /\ Cardinality(Opened) \in Nat
    BY <1>1, <1>3, ViewChanges DEF Opened
  <2>3. generation' + Cardinality(Opened') <= 2 * opens'
    <3>1. generation + Cardinality(Opened) <= 2 * opens
      BY DEF InspectorInv, CountsOK
    <3>2. generation' = generation \/ generation' = generation + 1
      BY <1>2 DEF Opens, Attached, Joined, Hydrating
    <3> QED
      BY <1>1, <2>2, <3>1, <3>2, StoreNumbers
  <2>4. ASSUME command' # "refreshed"
        PROVE  /\ refcount' <= Cardinality(In({"shown"})')
               /\ inFlight' # NoHydration /\ Valid' =>
                     inFlight'.waiting <= Cardinality(In({"loading"})')
    <3>1. /\ refcount <= Cardinality(In({"shown"}))
          /\ inFlight # NoHydration /\ Valid =>
                inFlight.waiting <= Cardinality(In({"loading"}))
      BY <1>1, <2>4 DEF InspectorInv, CountsOK
    <3>2. /\ Cardinality(In({"shown"})) \in Nat /\ Cardinality(In({"loading"})) \in Nat
          /\ v = "shown" => Cardinality(In({"shown"})') = Cardinality(In({"shown"})) + 1
          /\ v # "shown" => In({"shown"})' = In({"shown"})
          /\ v = "loading" => Cardinality(In({"loading"})') = Cardinality(In({"loading"})) + 1
          /\ v # "loading" => In({"loading"})' = In({"loading"})
      BY <1>1, ViewChanges
    <3>3. CASE Attached
      BY <1>3, <3>1, <3>2, <3>3, StoreNumbers DEF Attached
    <3>4. CASE Joined
      <4>1. inFlight.waiting \in Nat
        BY <3>4, HydrationFacts DEF Joined
      <4> QED
        BY <1>3, <3>1, <3>2, <3>4, <4>1, StoreNumbers DEF Joined
    <3>5. CASE Hydrating
      BY <1>3, <3>1, <3>2, <3>5, StoreNumbers DEF Hydrating
    <3> QED
      BY <1>2, <3>3, <3>4, <3>5 DEF Opens
  <2>5. inFlight' # NoHydration => inFlight'.waiting <= opens'
    BY <1>2 DEF Opens
  <2>6. Opened' # {}
    BY <1>3, <1>4 DEF Opened, In
  <2> QED
    BY <2>1, <2>3, <2>4, <2>5, <2>6 DEF CountsOK
<1> QED
  BY <1>2, <1>5, <1>6, <1>7 DEF InspectorInv

LEMMA RefreshKeeps == ASSUME InspectorInv, Refresh PROVE InspectorInv'
<1>1. /\ OpenTaskInspector /\ opens' = opens + 1 /\ command' = "refreshed"
      /\ UNCHANGED <<journal, published, view>>
  BY DEF Refresh, OpenTaskInspector
<1>2. /\ Opens /\ JournalOK' /\ ProjectionOK' /\ SubscriptionsOK' /\ CurrentOK'
  BY <1>1, OpenFacts
<1>3. TypeOK'
  BY <1>1, <1>2, OpenTypes DEF InspectorInv, TypeOK
<1>4. HydrationOK'
  <2>1. inFlight' = NoHydration => inFlight = NoHydration
    <3>1. inFlight' \in Hydration => inFlight' # NoHydration
      BY DEF Hydration, NoHydration
    <3> QED
      BY <1>2, <3>1 DEF Opens, Attached, Joined, Hydrating
  <2>2. inFlight = NoHydration => \A b \in Consumers : view[b] # "loading"
    BY DEF InspectorInv, HydrationOK
  <2> QED
    BY <1>1, <1>2, <2>1, <2>2 DEF HydrationOK, Opens
<1>5. CountsOK'
  <2>1. refcount' <= opens'
    BY <1>1, <1>2, StoreNumbers DEF Opens, Attached, Joined, Hydrating
  <2>2. Opened' = Opened /\ Cardinality(Opened) \in Nat
    BY <1>1, StoreNumbers DEF Opened, In
  <2>3. generation' + Cardinality(Opened') <= 2 * opens'
    <3>1. generation + Cardinality(Opened) <= 2 * opens
      BY DEF InspectorInv, CountsOK
    <3>2. generation' = generation \/ generation' = generation + 1
      BY <1>2 DEF Opens, Attached, Joined, Hydrating
    <3> QED
      BY <1>1, <2>2, <3>1, <3>2, StoreNumbers
  <2>4. inFlight' # NoHydration => inFlight'.waiting <= opens'
    BY <1>2 DEF Opens
  <2> QED
    BY <1>1, <2>1, <2>3, <2>4 DEF CountsOK
<1> QED
  BY <1>2, <1>3, <1>4, <1>5 DEF InspectorInv

LEMMA IssueKeeps == ASSUME InspectorInv, Issue PROVE InspectorInv'
<1>1. /\ command' = "issued" /\ command = "none"
      /\ UNCHANGED <<journal, published, view, opens, refcount, generation, inFlight,
                     projection, current, subscriptions>>
  BY DEF Issue, store
<1>2. JournalOK' /\ ProjectionOK' /\ SubscriptionsOK'
  BY <1>1, ShownStays
<1>3. TypeOK'
  BY <1>1 DEF InspectorInv, TypeOK
<1>4. CurrentOK' /\ HydrationOK' /\ CountsOK'
  BY <1>1 DEF InspectorInv, CurrentOK, HydrationOK, CountsOK, In, Opened, Valid
<1> QED
  BY <1>2, <1>3, <1>4 DEF InspectorInv

\* The last component takes everything down; a hydration under way is void.
LEMMA UnmountKeeps == ASSUME InspectorInv, NEW c \in Consumers, Unmount(c) PROVE InspectorInv'
<1>1. /\ view[c] # "closed" /\ view' = [view EXCEPT ![c] = "closed"]
      /\ UNCHANGED <<journal, published, command, opens>>
  BY DEF Unmount
<1>2. /\ view \in [Consumers -> {"closed", "loading", "shown", "failed"}]
      /\ view' \in [Consumers -> {"closed", "loading", "shown", "failed"}]
      /\ \A b \in Consumers : view'[b] = "loading" => view[b] = "loading"
      /\ view[c] \in {"loading", "shown", "failed"}
  BY <1>1 DEF InspectorInv, TypeOK
<1>3. Cardinality(Opened') = Cardinality(Opened) - 1 /\ Cardinality(Opened) \in Nat
      /\ Cardinality(Opened') \in Nat
  BY <1>1, <1>2, ViewChanges DEF Opened
<1>4. generation + Cardinality(Opened) <= 2 * opens
  BY DEF InspectorInv, CountsOK
<1>5. CASE refcount > 1 /\ Release
  <2>1. /\ refcount' = refcount - 1 /\ refcount' \in Nat /\ refcount' # 0
        /\ refcount' <= opens' /\ refcount \in Nat /\ refcount # 0
        /\ UNCHANGED <<generation, inFlight, projection, current, subscriptions>>
    BY <1>1, <1>5, StoreNumbers DEF Release
  <2>2. current # 0 /\ inFlight = NoHydration
    BY <2>1 DEF InspectorInv, CurrentOK
  <2>3. JournalOK' /\ ProjectionOK' /\ SubscriptionsOK'
    BY <1>1, <2>1, ShownStays
  <2>4. TypeOK'
    <3>1. refcount' \in 0 .. MaxOpens
      BY <1>1, <2>1, StoreNumbers, Bounds
    <3> QED
      BY <1>1, <1>2, <2>1, <3>1 DEF InspectorInv, TypeOK
  <2>5. CurrentOK' /\ HydrationOK'
    BY <1>2, <2>1, <2>2 DEF InspectorInv, CurrentOK, HydrationOK
  <2>6. CountsOK'
    <3>1. generation' + Cardinality(Opened') <= 2 * opens'
      BY <1>1, <1>3, <1>4, <2>1, StoreNumbers
    <3>2. command' # "refreshed" => refcount' <= Cardinality(In({"shown"})')
      <4>1. command # "refreshed" => refcount <= Cardinality(In({"shown"}))
        BY DEF InspectorInv, CountsOK
      <4>2. /\ Cardinality(In({"shown"})) \in Nat
            /\ view[c] = "shown" =>
                  Cardinality(In({"shown"})') = Cardinality(In({"shown"})) - 1
            /\ view[c] # "shown" => In({"shown"})' = In({"shown"})
        <5>1. "closed" \notin {"shown"} /\ (view[c] \in {"shown"} <=> view[c] = "shown")
          OBVIOUS
        <5> QED
          BY <1>1, <5>1, ViewChanges
      <4> QED
        BY <1>1, <2>1, <4>1, <4>2
    <3> QED
      BY <2>1, <2>2, <3>1, <3>2 DEF CountsOK
  <2> QED
    BY <2>3, <2>4, <2>5, <2>6 DEF InspectorInv
<1>6. CASE TearDown
  <2>1. /\ refcount' = 0 /\ generation' = generation + 1 /\ current' = 0
        /\ projection' = NoProjection /\ inFlight' = inFlight
        /\ subscriptions' = Disposed(current)
    BY <1>6 DEF TearDown, Invalidated
  <2>2. /\ DOMAIN subscriptions' = DOMAIN subscriptions
        /\ \A g \in DOMAIN subscriptions' : LetGo(subscriptions'[g])
    BY <2>1, DisposedLetGo
  <2>3. SubscriptionsOK'
    BY <1>1, <2>2, AllLetGo
  <2>4. generation' + Cardinality(Opened') <= 2 * opens'
    BY <1>1, <1>3, <1>4, <2>1, StoreNumbers
  <2>5. generation' \in 0 .. MaxGenerations
    BY <1>1, <1>3, <2>1, <2>4, StoreNumbers, Bounds
  <2>6. TypeOK'
    <3>1. DOMAIN subscriptions' \subseteq 1 .. generation'
      BY <2>1, <2>2, StoreNumbers DEF InspectorInv, TypeOK
    <3>2. 0 \in 0 .. MaxOpens /\ 0 \in 0 .. generation'
      BY <2>5, Bounds
    <3>3. \A g \in DOMAIN subscriptions' : subscriptions'[g] \in Subscription
      BY <2>2 DEF LetGo
    <3> QED
      BY <1>1, <1>2, <2>1, <2>5, <3>1, <3>2, <3>3 DEF InspectorInv, TypeOK
  <2>7. JournalOK' /\ ProjectionOK'
    BY <1>1, <2>1 DEF InspectorInv, JournalOK, ProjectionOK
  <2>8. ~Valid' \/ inFlight' = NoHydration
    BY <2>1, StoreNumbers, HydrationFacts DEF Valid
  <2>9. CurrentOK' /\ HydrationOK'
    <3>1. CurrentOK'
      BY <2>1 DEF CurrentOK
    <3>2. inFlight' = NoHydration => \A b \in Consumers : view'[b] # "loading"
      BY <1>2, <2>1 DEF InspectorInv, HydrationOK
    <3>3. inFlight' # NoHydration =>
             /\ inFlight'.read <= Len(journal') /\ inFlight'.generation <= generation'
             /\ inFlight'.waiting > 0
      BY <1>1, <2>1, StoreNumbers, HydrationFacts
    <3> QED
      BY <2>8, <3>1, <3>2, <3>3 DEF HydrationOK
  <2>10. CountsOK'
    <3>1. In({"shown"})' \subseteq Consumers
      BY DEF In
    <3>2. Cardinality(In({"shown"})') \in Nat
      BY <3>1, Bounds, FS_Subset, FS_CardinalityType
    <3>3. 0 <= Cardinality(In({"shown"})') /\ 0 <= opens
      BY <3>2, StoreNumbers
    <3>4. inFlight' # NoHydration => inFlight'.waiting <= opens'
      BY <1>1, <2>1, HydrationFacts
    <3> QED
      BY <1>1, <2>1, <2>4, <2>8, <3>3, <3>4 DEF CountsOK
  <2> QED
    BY <2>3, <2>6, <2>7, <2>9, <2>10 DEF InspectorInv
<1> QED
  BY <1>5, <1>6 DEF Unmount

-----------------------------------------------------------------------------
(* The theorems.                                                           *)

LEMMA InspectorInit == Init => InspectorInv
<1> SUFFICES ASSUME Init PROVE InspectorInv
  OBVIOUS
<1>1. /\ journal = << >> /\ Len(journal) = 0 /\ published = 0 /\ opens = 0 /\ refcount = 0
      /\ generation = 0 /\ current = 0 /\ inFlight = NoHydration /\ projection = NoProjection
      /\ subscriptions = << >> /\ command = "none"
      /\ view = [c \in Consumers |-> "closed"]
  BY DEF Init
<1>2. DOMAIN subscriptions = {}
  BY <1>1
<1>3. TypeOK
  BY <1>1, <1>2, Bounds DEF TypeOK
<1>4. JournalOK /\ ProjectionOK /\ SubscriptionsOK
  BY <1>1, <1>2, Bounds DEF JournalOK, ProjectionOK, SubscriptionsOK
<1>5. CurrentOK /\ HydrationOK
  BY <1>1 DEF CurrentOK, HydrationOK
<1>6. CountsOK
  <2>1. Opened = {} /\ In({"shown"}) = {}
    BY <1>1 DEF Opened, In
  <2> QED
    BY <1>1, <2>1, FS_EmptySet DEF CountsOK
<1> QED
  BY <1>3, <1>4, <1>5, <1>6 DEF InspectorInv

LEMMA InspectorStep == InspectorInv /\ [Next]_vars => InspectorInv'
<1> SUFFICES ASSUME InspectorInv, [Next]_vars PROVE InspectorInv'
  OBVIOUS
<1>1. CASE ServiceStep
  BY <1>1, PublishKeeps, ListenKeeps, ReplayKeeps, GoLiveKeeps, CancelKeeps, ReceiveKeeps,
     ReadJournalKeeps, HydrationFailsKeeps, SnapshotArrivesKeeps, PageArrivesKeeps,
     LastPageArrivesKeeps DEF ServiceStep
<1>2. CASE \E shown \in BOOLEAN : Write(shown)
  BY <1>2, WriteKeeps
<1>3. CASE \E c \in Consumers : Mount(c) \/ Unmount(c)
  BY <1>3, MountKeeps, UnmountKeeps
<1>4. CASE Issue \/ Refresh
  BY <1>4, IssueKeeps, RefreshKeeps
<1>5. CASE UNCHANGED vars
  <2>1. UNCHANGED <<journal, published, view, command, opens, refcount, generation,
                    inFlight, projection, current, subscriptions>>
    BY <1>5 DEF vars, store
  <2>2. JournalOK' /\ ProjectionOK' /\ SubscriptionsOK'
    BY <2>1, ShownStays
  <2>3. TypeOK'
    BY <2>1 DEF InspectorInv, TypeOK
  <2>4. CurrentOK' /\ HydrationOK' /\ CountsOK'
    BY <2>1 DEF InspectorInv, CurrentOK, HydrationOK, CountsOK, In, Opened, Valid
  <2> QED
    BY <2>2, <2>3, <2>4 DEF InspectorInv
<1> QED
  BY <1>1, <1>2, <1>3, <1>4, <1>5 DEF Next

\* Whatever the interleaving of the journal, the service and the components, the
\* invariant holds.
THEOREM InspectorInvariant == Spec => []InspectorInv
<1>1. InspectorInv /\ [Next]_vars => InspectorInv'
  BY InspectorStep
<1> QED
  BY InspectorInit, <1>1, PTL DEF Spec

\* A projection shows every event of the task from its snapshot on, each once, and
\* never finds a gap (hydrateTaskInspector(), subscribe(), reduceTaskEvent()).
THEOREM ExactlyShown == Spec => []ProjectionIsExact
<1>1. InspectorInv => ProjectionIsExact
  BY DEF InspectorInv, ProjectionOK, Exact, ProjectionIsExact
<1> QED
  BY InspectorInvariant, <1>1, PTL

\* Nothing is kept of a task that no component shows (closeTaskInspector()).
THEOREM NothingKept == Spec => []NothingKeptUnwatched
<1>1. InspectorInv => NothingKeptUnwatched
  <2> SUFFICES ASSUME InspectorInv, command # "refreshed",
                      \A c \in Consumers : view[c] = "closed"
               PROVE  /\ projection = NoProjection /\ current = 0
                      /\ \A g \in DOMAIN subscriptions : subscriptions[g].disposed
    BY DEF NothingKeptUnwatched
  <2>1. In({"shown"}) = {} /\ In({"loading"}) = {}
    BY DEF In
  <2>2. Cardinality(In({"shown"})) = 0 /\ Cardinality(In({"loading"})) = 0
    BY <2>1, FS_EmptySet
  <2>3. refcount = 0
    BY <2>2, StoreNumbers DEF InspectorInv, CountsOK
  <2>4. current = 0
    BY <2>3 DEF InspectorInv, CurrentOK
  <2>5. projection = NoProjection
    <3>1. Opened = {}
      BY DEF Opened, In
    <3> QED
      BY <2>4, <3>1 DEF InspectorInv, CountsOK
  <2> QED
    BY <2>4, <2>5, WithoutCurrent DEF LetGo
<1> QED
  BY InspectorInvariant, <1>1, PTL
=============================================================================
