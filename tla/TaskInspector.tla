--------------------------- MODULE TaskInspector ---------------------------
(***************************************************************************)
(* What a window shows of one task: the projection that                    *)
(* src/lib/meeting-store.ts keeps for the components that inspect the task *)
(* (TaskInspector, WorkerWorkbench), the reducer that folds events into it *)
(* (src/lib/task-event-reducer.ts), the bridge (electron/preload.cjs) and  *)
(* the service of the main process (electron/ipc/tasks.ts), which reads    *)
(* the Meeting's journal and follows it.                                   *)
(*                                                                         *)
(* The store asks for a snapshot, then for pages of later events, then     *)
(* subscribes from where the pages ended, each a round trip during which   *)
(* the journal grows and components come and go.  The service in turn      *)
(* listens first, replays the journal second and only then forwards.       *)
(* Event data, and the caps on how much of it is kept, are left out.  A list *)
(* of events in the order of their numbers is the set of these events.     *)
(***************************************************************************)
EXTENDS Integers, Sequences, FiniteSets, FiniteSetsExt

CONSTANTS
    Consumers,     \* the components that may inspect the task
    PageLimit,     \* MAX_PAGE_EVENTS
    ReplayLimit,   \* MAX_SUBSCRIPTION_REPLAY_EVENTS
    MaxEvents,     \* bound: events of the journal
    MaxOpens       \* bound: calls of openTaskInspector()

ASSUME InspectorAssumption ==
    /\ IsFiniteSet(Consumers)
    /\ {PageLimit, ReplayLimit, MaxEvents, MaxOpens} \subseteq Nat \ {0}

-----------------------------------------------------------------------------
(* Data.  A sequence number is an index into the journal.                  *)

\* projectSingleTaskEvent(): an event of the task, and the one before it.
Event == [seq : 1..MaxEvents, prev : 0..MaxEvents]
\* The snapshot it started from, the events applied since, the last of both.
Projection == [from : 0..MaxEvents, activity : SUBSET (1..MaxEvents),
               lastSeq : 0..MaxEvents, needsRefresh : BOOLEAN]
NoProjection == [lastSeq |-> 0]

\* Every open may hydrate, and every close tear down.
MaxGenerations == 2 * MaxOpens

\* A hydration in flight: the answer it awaits, how much of the journal the
\* main process read for it, and how many calls of open await its result.
Hydration == [awaits : {"snapshot", "page"}, read : 0..MaxEvents, answered : BOOLEAN,
              generation : 1..MaxGenerations, waiting : 0..MaxOpens]
NoHydration == [awaits |-> "nothing"]

\* A subscription, made by the hydration of the same generation.  heard is the
\* last event published before the main process listened to the journal, and
\* read the last event of its replay.
Subscription == [main : {"requested", "listening", "replayed", "live", "refused"},
                 disposed : BOOLEAN, cancelled : BOOLEAN,
                 lastDeliveredSeq : 0..MaxEvents, heard : 0..MaxEvents,
                 read : 0..MaxEvents, wire : SUBSET Event]

VARIABLES
    journal,       \* for each event on disk, whether the projector shows it for the task
    published,     \* events the journal has passed to its subscribers
    view,          \* what each component shows
    command,       \* a command of the inspector that refreshes when it returns
    opens,         \* calls of openTaskInspector() so far
    refcount,      \* taskInspectorRefcounts
    generation,    \* taskInspectorGenerations
    inFlight,      \* taskInspectorInFlight
    projection,    \* taskInspectorProjections
    current,       \* taskInspectorSubscriptions: a generation, or 0
    subscriptions  \* subscriptions that are not over, by generation

store == <<refcount, generation, inFlight, projection, current>>
vars == <<journal, published, view, command, opens, store, subscriptions>>

Init ==
    /\ journal = << >> /\ published = 0
    /\ view = [c \in Consumers |-> "closed"]
    /\ command = "none"
    /\ opens = 0
    /\ refcount = 0 /\ generation = 0
    /\ inFlight = NoHydration
    /\ projection = NoProjection
    /\ current = 0
    /\ subscriptions = << >>

-----------------------------------------------------------------------------
(* The journal, as the main process projects it for the task.              *)

\* The task's events of journal[1..to] after `after`.
TaskSeqs(after, to) == {i \in after + 1 .. to : journal[i]}
LastTaskSeq(to) == Max({0} \cup TaskSeqs(0, to))

\* projectRendererTaskEvents(): each with the one before it.
TaskEvents(after, to) == {[seq |-> i, prev |-> LastTaskSeq(i - 1)] : i \in TaskSeqs(after, to)}

Seqs(events) == {e.seq : e \in events}

\* One event is written at a time; subscribers hear of it once it is on disk.
Write(shown) ==
    /\ Len(journal) < MaxEvents
    /\ published = Len(journal)
    /\ journal' = Append(journal, shown)
    /\ UNCHANGED <<published, view, command, opens, store, subscriptions>>

-----------------------------------------------------------------------------
(* The reducer.                                                            *)

Hydrated(to) ==
    [from |-> LastTaskSeq(to), activity |-> {},
     lastSeq |-> LastTaskSeq(to), needsRefresh |-> FALSE]

\* reduceTaskEvent() of one event after the other, each of which follows the one
\* before: those that are older are skipped, and the first that is not has to follow
\* what was reduced so far.
Reduce(p, events) ==
    LET new == {e \in events : e.seq > p.lastSeq}
        first == CHOOSE e \in new : \A f \in new : e.seq <= f.seq
    IN  IF new = {} THEN p
        ELSE IF first.prev # p.lastSeq THEN [p EXCEPT !.needsRefresh = TRUE]
        ELSE [p EXCEPT !.activity = @ \cup Seqs(new), !.lastSeq = Max(Seqs(new))]

-----------------------------------------------------------------------------
(* The main process: a subscription follows the journal.                   *)

\* Events after the last that was delivered are sent.
Deliver(s, events) ==
    [s EXCEPT !.lastDeliveredSeq = Max({@} \cup Seqs(events)),
              !.wire = IF s.disposed THEN {} ELSE @ \cup events]

\* The listener of subscribe(), once it replayed: each of these numbers that is new
\* and the task's is sent, as the next one after the last.
Forwarded(s, seqs) ==
    LET new == {n \in seqs : n > s.lastDeliveredSeq /\ journal[n]}
        prev(n) == Max({s.lastDeliveredSeq} \cup {m \in new : m < n})
    IN  IF s.main = "live"
        THEN Deliver(s, {[seq |-> n, prev |-> prev(n)] : n \in new})
        ELSE s

Publish ==
    /\ published < Len(journal)
    /\ published' = Len(journal)
    /\ subscriptions' = [g \in DOMAIN subscriptions |->
                            Forwarded(subscriptions[g], {published'})]
    /\ UNCHANGED <<journal, view, command, opens, store>>

\* subscribe() found the task, and listens to the journal before it replays it.
Listen(g) ==
    /\ subscriptions[g].main = "requested"
    /\ subscriptions' = [subscriptions EXCEPT ![g].main = "listening",
                                              ![g].heard = published]
    /\ UNCHANGED <<journal, published, view, command, opens, store>>

Replay(g) ==
    /\ subscriptions[g].main = "listening"
    /\ subscriptions' = [subscriptions EXCEPT ![g].main = "replayed",
                                              ![g].read = Len(journal)]
    /\ UNCHANGED <<journal, published, view, command, opens, store>>

\* Mutant: what arrives while the journal is replayed is lost.
BufferedNever(s) == {}
\* What the listener buffered since it was added.
Buffered(s) == s.heard + 1 .. published

\* The replay is sent, then the buffer: or there is too much to replay.
GoLive(g) ==
    LET s == subscriptions[g]
        persisted == TaskEvents(s.lastDeliveredSeq, s.read)
        replayed == [Deliver(s, persisted) EXCEPT !.main = "live"]
        live == Forwarded(replayed, Buffered(s))
    IN  /\ s.main = "replayed"
        /\ subscriptions' = [subscriptions EXCEPT ![g] =
               IF Cardinality(persisted) > ReplayLimit
               THEN [s EXCEPT !.main = "refused"]
               ELSE [live EXCEPT !.heard = 0, !.read = 0]]
        /\ UNCHANGED <<journal, published, view, command, opens, store>>

\* Mutant: the bridge cancels at once.
SettledOrNot(s) == TRUE
\* The bridge cancels a subscription only once subscribe() has settled.
SubscribeSettled(s) == s.main \in {"live", "refused"}

\* unsubscribe(): before subscribe() listens there is nothing to remove.
Cancel(g) ==
    LET s == subscriptions[g]
    IN  /\ s.disposed /\ ~s.cancelled
        /\ SubscribeSettled(s)
        /\ subscriptions' =
               IF s.main = "requested" THEN [subscriptions EXCEPT ![g].cancelled = TRUE]
               ELSE [h \in DOMAIN subscriptions \ {g} |-> subscriptions[h]]
        /\ UNCHANGED <<journal, published, view, command, opens, store>>

-----------------------------------------------------------------------------
(* The store.                                                              *)

Live == projection # NoProjection /\ current # 0

\* The unsubscribe function of onEvent(): the listener is gone at once.
Disposed(g) ==
    [h \in DOMAIN subscriptions |->
        IF h = g THEN [subscriptions[h] EXCEPT !.disposed = TRUE, !.wire = {}]
                 ELSE subscriptions[h]]

\* A fresh hydration, or the in-flight one, or the live projection.
Hydrate ==
    /\ generation' = generation + 1
    /\ inFlight' = [awaits |-> "snapshot", read |-> 0, answered |-> FALSE,
                    generation |-> generation', waiting |-> 1]
    /\ subscriptions' = Disposed(current)
    /\ current' = 0
    /\ UNCHANGED <<refcount, projection>>
Join ==
    /\ inFlight' = [inFlight EXCEPT !.waiting = @ + 1]
    /\ UNCHANGED <<refcount, generation, projection, current, subscriptions>>
Attach ==
    /\ refcount' = refcount + 1
    /\ UNCHANGED <<generation, inFlight, projection, current, subscriptions>>

OpenTaskInspector ==
    /\ opens < MaxOpens
    /\ opens' = opens + 1
    /\ \/ Live /\ Attach
       \/ ~Live /\ inFlight # NoHydration /\ Join
       \/ ~Live /\ inFlight = NoHydration /\ Hydrate

\* The mount effect of a component.
Mount(c) ==
    /\ view[c] = "closed"
    /\ view' = [view EXCEPT ![c] = IF Live THEN "shown" ELSE "loading"]
    /\ OpenTaskInspector
    /\ UNCHANGED <<journal, published, command>>

\* A command of a component that shows the task calls open again when it
\* returns, whether or not the component is still there, and never close.
Issue ==
    /\ command = "none"
    /\ "shown" \in {view[c] : c \in Consumers} /\ projection # NoProjection
    /\ command' = "issued"
    /\ UNCHANGED <<journal, published, view, opens, store, subscriptions>>
Refresh ==
    /\ command = "issued"
    /\ command' = "refreshed"
    /\ OpenTaskInspector
    /\ UNCHANGED <<journal, published, view>>

\* Mutant: a hydration under way is not invalidated.
HydrationStaysValid == generation
\* closeTaskInspector(): the last consumer takes the projection down, and a
\* hydration under way is void.
Invalidated == generation + 1
TearDown ==
    /\ refcount' = 0
    /\ generation' = Invalidated
    /\ subscriptions' = Disposed(current)
    /\ current' = 0
    /\ projection' = NoProjection
    /\ UNCHANGED inFlight
Release ==
    /\ refcount' = refcount - 1
    /\ UNCHANGED <<generation, inFlight, projection, current, subscriptions>>

Unmount(c) ==
    /\ view[c] # "closed"
    /\ view' = [view EXCEPT ![c] = "closed"]
    /\ IF refcount > 1 THEN Release ELSE TearDown
    /\ UNCHANGED <<journal, published, command, opens>>

-----------------------------------------------------------------------------
(* Hydration.                                                              *)

\* getTaskInspectorSource(): the answer holds what the journal has by now.
ReadJournal ==
    /\ inFlight # NoHydration /\ ~inFlight.answered
    /\ inFlight' = [inFlight EXCEPT !.read = Len(journal), !.answered = TRUE]
    /\ UNCHANGED <<journal, published, view, command, opens, refcount,
                   generation, projection, current, subscriptions>>

Answered(awaits) ==
    inFlight # NoHydration /\ inFlight.awaits = awaits /\ inFlight.answered
Valid == inFlight.generation = generation

\* openTaskInspector() and the calls that joined it go on with the result.
Settle(ok) ==
    /\ inFlight' = NoHydration
    /\ refcount' = IF ok THEN inFlight.waiting ELSE refcount
    /\ view' = [c \in Consumers |->
                   IF view[c] # "loading" THEN view[c]
                   ELSE IF ok THEN "shown" ELSE "failed"]

\* The hydration was superseded, or the service refused the snapshot or the page:
\* what was hydrated so far stays, without a subscription.
HydrationFails ==
    /\ Answered("snapshot") \/ Answered("page")
    /\ Settle(FALSE)
    /\ UNCHANGED <<journal, published, command, opens, generation, projection,
                   current, subscriptions>>

NextPage == [inFlight EXCEPT !.awaits = "page", !.answered = FALSE, !.read = 0]

SnapshotArrives ==
    /\ Answered("snapshot") /\ Valid
    /\ projection' = Hydrated(inFlight.read)
    /\ inFlight' = NextPage
    /\ UNCHANGED <<journal, published, view, command, opens, refcount,
                   generation, current, subscriptions>>

\* The events of the page, and whether getEvents() has more.
Candidates == TaskEvents(projection.lastSeq, inFlight.read)
Page == {e \in Candidates : Cardinality({f \in Candidates : f.seq < e.seq}) < PageLimit}
HasMore == Cardinality(Candidates) > PageLimit

PageArrives ==
    /\ Answered("page") /\ Valid
    /\ HasMore
    /\ projection' = Reduce(projection, Page)
    /\ inFlight' = NextPage
    /\ UNCHANGED <<journal, published, view, command, opens, refcount,
                   generation, current, subscriptions>>

\* onEvent(): the bridge listens and asks the main process to subscribe.
Subscribe(afterSeq) ==
    [main |-> "requested", disposed |-> FALSE, cancelled |-> FALSE,
     lastDeliveredSeq |-> afterSeq, heard |-> 0, read |-> 0, wire |-> {}]

LastPageArrives ==
    /\ Answered("page") /\ Valid
    /\ ~HasMore
    /\ projection' = Reduce(projection, Page)
    /\ current' = generation
    /\ subscriptions' = [g \in DOMAIN subscriptions \cup {generation} |->
                             IF g = generation THEN Subscribe(projection'.lastSeq)
                                               ELSE subscriptions[g]]
    /\ Settle(TRUE)
    /\ UNCHANGED <<journal, published, command, opens, generation>>

\* The callback of onEvent().  On a gap the store lets go of the subscription
\* and hydrates anew (refreshTaskInspector()): ProjectionIsExact shows that
\* there never is one, so the recovery itself is not here.
Receive(g) ==
    LET s == subscriptions[g]
    IN  /\ ~s.disposed
        /\ \E e \in s.wire :
              /\ \A f \in s.wire : e.seq <= f.seq
              /\ projection' = IF g = generation /\ projection # NoProjection
                               THEN Reduce(projection, {e}) ELSE projection
              /\ subscriptions' = [subscriptions EXCEPT ![g].wire = @ \ {e}]
        /\ UNCHANGED <<journal, published, view, command, opens, refcount,
                       generation, inFlight, current>>

-----------------------------------------------------------------------------
ServiceStep ==
    \/ Publish
    \/ \E g \in DOMAIN subscriptions :
           Listen(g) \/ Replay(g) \/ GoLive(g) \/ Cancel(g) \/ Receive(g)
    \/ ReadJournal \/ HydrationFails
    \/ SnapshotArrives \/ PageArrives \/ LastPageArrives

Next ==
    \/ \E shown \in BOOLEAN : Write(shown)
    \/ \E c \in Consumers : Mount(c) \/ Unmount(c)
    \/ Issue \/ Refresh
    \/ ServiceStep

Spec == Init /\ [][Next]_vars

\* Calls between the two processes are answered, what is written is published,
\* and the window's event loop handles what arrives.  Nobody has to open, to
\* close or to write.
FairSpec == Spec /\ WF_vars(ServiceStep)

-----------------------------------------------------------------------------
TypeOK ==
    /\ journal \in Seq(BOOLEAN) /\ published \in 0..Len(journal)
    /\ view \in [Consumers -> {"closed", "loading", "shown", "failed"}]
    /\ command \in {"none", "issued", "refreshed"}
    /\ opens \in 0..MaxOpens /\ refcount \in 0..MaxOpens
    /\ generation \in 0..MaxGenerations /\ current \in 0..generation
    /\ inFlight = NoHydration \/ inFlight \in Hydration
    /\ projection = NoProjection \/ projection \in Projection
    /\ DOMAIN subscriptions \subseteq 1..generation
    /\ \A g \in DOMAIN subscriptions : subscriptions[g] \in Subscription

\* A projection shows its snapshot and every later event of the task up to its
\* last one: no event falls between the snapshot, the pages, the replay, the
\* buffer and the live stream, none is shown again, and no gap is reported
\* (hydrateTaskInspector(), subscribe(), reduceTaskEvent()).
ProjectionIsExact ==
    /\ TypeOK
    /\ projection # NoProjection =>
           /\ projection.activity = TaskSeqs(projection.from, projection.lastSeq)
           /\ ~projection.needsRefresh

\* Once no component shows the task, nothing of it is kept: an answer that
\* comes late does not bring the projection back, and no listener stays behind
\* (closeTaskInspector()).  A refreshed command is the exception: its open is
\* never closed.
NothingKeptUnwatched ==
    command # "refreshed" /\ (\A c \in Consumers : view[c] = "closed") =>
        /\ projection = NoProjection /\ current = 0
        /\ \A g \in DOMAIN subscriptions : subscriptions[g].disposed

\* Once nothing moves any more: every component that opened the task was
\* answered; the main process let go of every subscription the window disposed
\* of, also while subscribe() still ran; and a projection that is subscribed
\* shows the last event of the task, unless the service refused the
\* subscription, which the bridge only logs (openTaskInspector(), onEvent() of
\* the bridge, subscribe(), unsubscribe()).
ComesToRest ==
    <>[](/\ \A c \in Consumers : view[c] # "loading"
         /\ \A g \in DOMAIN subscriptions : ~subscriptions[g].disposed
         /\ \/ current = 0
            \/ subscriptions[current].main = "refused"
            \/ projection.lastSeq = LastTaskSeq(Len(journal)))
=============================================================================
