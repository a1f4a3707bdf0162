----------------------------- MODULE HostGroups -----------------------------
(***************************************************************************)
(* The hosts of a Meeting: electron/host-group.ts, the bus between them    *)
(* (electron/cross-host-bus.ts) and what electron/orchestrator.ts does     *)
(* with both, over the Claude and Codex sessions of the backends.          *)
(*                                                                         *)
(* A HostGroup object starts its talker session in HostGroup.start(),      *)
(* which awaits the memory and then the session's handshake.  Meanwhile    *)
(* the host may be removed and added again under its id, restarted, or     *)
(* made the coordinator; its session may end, be refused by the backend,   *)
(* or go on talking for a group that has let go of it; and the other hosts *)
(* send it messages, which wait until it is ready.  Every question of the  *)
(* coordinator arms a timer.  A start and a group are therefore numbered   *)
(* objects: the id of a host names its current group only.                 *)
(***************************************************************************)
EXTENDS Naturals, Sequences, FiniteSets, Functions

CONSTANTS
    Hosts,         \* host ids
    Default,       \* DEFAULT_HOST_ID: the group that owns the scheduler
    Codex,         \* hosts whose backend is Codex; the others run Claude
    Coordinators,  \* hosts whose backend has the capability "coordinate"
    MaxHosts,      \* MAX_HOSTS
    QueueLimit,    \* messages that wait for one host, 100 in the code
    MaxGroups,     \* bound: HostGroup objects
    MaxHostStarts, \* bound: calls of HostGroup.start()
    MaxMessages    \* bound: messages on the bus

ASSUME HostsAssumption ==
    /\ Default \in Hosts
    /\ Codex \subseteq Hosts
    /\ Default \in Coordinators /\ Coordinators \subseteq Hosts
ASSUME BoundsAssumption ==
    {MaxHosts, QueueLimit, MaxGroups, MaxHostStarts, MaxMessages} \subseteq Nat \ {0}

-----------------------------------------------------------------------------
(* Data.                                                                   *)

\* A HostGroup; its host is the start that made the session it holds, or 0.
Group == [id : Hosts, host : 0..MaxHostStarts, ready : BOOLEAN, suppress : BOOLEAN]

\* How far start() is: in selectRelevant(), in the handshake, in the
\* continuation of a handshake that succeeded, or over.
Pc == {"memory", "handshake", "settled", "returned", "failed"}
\* The session of a start.  A "closing" Claude session was told to end and has
\* yet to say "ended"; a "broken" Codex one lost its transport or its login and
\* says nothing until it is told to end.
Phase == {"none", "starting", "live", "closing", "broken", "dead"}
\* Who awaits the start, and flushes the messages that waited.
Caller == {"start", "addHost", "restartHost"}
Start == [group : 1..MaxGroups, by : Caller, pc : Pc, phase : Phase,
          alone : BOOLEAN,  \* history: no other start or session of the group was there
          late : BOOLEAN]   \* history: the group was ended before the session was made

\* A message addressed to a group.  All but `to` is history.
Message == [to : 1..MaxGroups, heard : Seq(1..MaxHostStarts), asked : BOOLEAN,
            answered : BOOLEAN, alarmed : BOOLEAN]

VARIABLES
    groups,       \* every HostGroup so far
    starts,       \* every start so far
    messages,     \* every message so far
    registered,   \* hostGroups: the group of each id, or 0
    pending,      \* pendingCrossHostMessages
    asks,         \* pendingHostAsks: the question each host owes an answer to, or 0
    timers,       \* the questions whose timeout is armed
    coordinator,  \* coordinatorHostId
    closed,       \* the Meeting has ended
    booted        \* Orchestrator.start() has called HostGroup.start()

hostVars == <<groups, starts, messages, registered, pending, asks, timers, coordinator,
              closed, booted>>

\* What one synchronous stretch of the orchestrator changes.
Now == [groups |-> groups, starts |-> starts, messages |-> messages,
        registered |-> registered, pending |-> pending, asks |-> asks, timers |-> timers,
        coordinator |-> coordinator, closed |-> closed, booted |-> booted]
Becomes(s) ==
    /\ groups' = s.groups /\ starts' = s.starts /\ messages' = s.messages
    /\ registered' = s.registered /\ pending' = s.pending
    /\ asks' = s.asks /\ timers' = s.timers
    /\ coordinator' = s.coordinator /\ closed' = s.closed /\ booted' = s.booted

NewGroup(h) == [id |-> h, host |-> 0, ready |-> FALSE, suppress |-> FALSE]
IsCodex(s, n) == s.groups[s.starts[n].group].id \in Codex
Holds(s, g) == s.groups[g].host
\* isReady().
IsReady(g) == groups[g].ready /\ groups[g].host # 0

-----------------------------------------------------------------------------
(* The bus.                                                                *)

\* sendUserText() of a session: Claude buffers before the handshake is over,
\* Codex drops what comes before there is a thread.
Takes(s, n) ==
    s.starts[n].phase \in IF IsCodex(s, n) THEN {"live"} ELSE {"starting", "live"}
Heard(s, n, ms) ==
    IF Takes(s, n)
    THEN [s EXCEPT !.messages =
            [m \in DOMAIN s.messages |->
                IF m \in ms THEN [s.messages[m] EXCEPT !.heard = Append(@, n)]
                ELSE s.messages[m]]]
    ELSE s

\* The messages that wait, at most QueueLimit: the oldest gives way.
Queued(q, m) == IF Len(q) < QueueLimit THEN Append(q, m) ELSE Append(Tail(q), m)

\* deliverCrossHostMessage() of message m: the session of the host is sent it, or it
\* waits for one.
Sent(s, h) ==
    LET n == Holds(s, s.registered[h]) IN
    [to |-> s.registered[h], heard |-> IF n # 0 /\ Takes(s, n) THEN <<n>> ELSE <<>>,
     asked |-> FALSE, answered |-> FALSE, alarmed |-> FALSE]
Delivered(s, h, m) ==
    IF Holds(s, s.registered[h]) # 0 THEN s.pending[h] ELSE Queued(s.pending[h], m)

\* publish(): each of the hosts `to`, in that order, is delivered its message.
PublishedTo(s, to) ==
    [s EXCEPT
        !.messages = @ \o [i \in DOMAIN to |-> Sent(s, to[i])],
        !.pending = [h \in Hosts |->
            IF \E i \in DOMAIN to : to[i] = h
            THEN Delivered(s, h, Len(s.messages) + CHOOSE i \in DOMAIN to : to[i] = h)
            ELSE s.pending[h]]]

\* publish() to one host; the bus of an ended Meeting has no handlers.
Published(s, h) ==
    IF s.closed \/ Len(s.messages) = MaxMessages THEN s ELSE PublishedTo(s, <<h>>)

Waiting(s, h) == {s.pending[h][i] : i \in DOMAIN s.pending[h]}

\* flushPendingCrossHostMessages(): what waits is taken before the host is
\* looked at.
\* Mutant: what waits is left to the next message.
FlushedLater(s, h) == s
Flushed(s, h) ==
    LET g == s.registered[h]
        t == [s EXCEPT !.pending[h] = <<>>]
    IN  IF g = 0 \/ Holds(s, g) = 0 THEN t ELSE Heard(t, Holds(s, g), Waiting(s, h))

-----------------------------------------------------------------------------
(* The watchdog of a question.                                             *)

\* trackHostAsk(): the latest question replaces the one before.
\* Mutant: its timer is not stopped.
TrackedTwice(s, h, m) == [s EXCEPT !.timers = @ \cup {m}, !.asks[h] = m,
                                   !.messages[m].asked = TRUE]
Tracked(s, h, m) == [s EXCEPT !.timers = (@ \ {s.asks[h]}) \cup {m}, !.asks[h] = m,
                              !.messages[m].asked = TRUE]

\* clearHostAsk().
Cleared(s, h) == [s EXCEPT !.timers = @ \ {s.asks[h]}, !.asks[h] = 0]

\* History: the questions put to an id are answered by whatever it says.
Answered(s, h) ==
    LET put(m) == s.messages[m].asked /\ s.groups[s.messages[m].to].id = h IN
    [s EXCEPT !.messages = [m \in DOMAIN s.messages |->
                               [s.messages[m] EXCEPT !.answered = @ \/ put(m)]]]

\* onHostGroupEvent() of a talker's message: an expert answers its question, and
\* what it says is forwarded to the coordinator.
Spoken(s, h) ==
    LET t == Cleared(Answered(s, h), h) IN
    IF h = s.coordinator THEN s
    ELSE IF s.registered[h] = 0 THEN t
    ELSE Published(t, s.coordinator)

-----------------------------------------------------------------------------
(* Sessions and their groups.                                              *)

\* onHostEvent() of "ended": whichever session says it, the group lets go of the
\* one it holds.  An end nobody expected is told in the group's name.
Ended(s, g) ==
    LET t == [s EXCEPT !.groups[g].host = 0, !.groups[g].ready = FALSE] IN
    IF t.groups[g].suppress THEN [t EXCEPT !.groups[g].suppress = FALSE]
    ELSE IF t.closed THEN t
    ELSE Spoken(t, t.groups[g].id)

\* host.end(): Codex says "ended" at once, unless it has, Claude when its stream
\* is over.
ToldToEnd(s, n) ==
    LET open == s.starts[n].phase \in {"starting", "live", "broken"} IN
    IF ~open THEN s
    ELSE IF IsCodex(s, n) THEN Ended([s EXCEPT !.starts[n].phase = "dead"], s.starts[n].group)
    ELSE [s EXCEPT !.starts[n].phase = "closing"]

\* The host of a group is ended and forgotten.
\* Mutant: it is forgotten only.
ForgetHost(s, g) == [s EXCEPT !.groups[g].host = 0]
DropHost(s, g) ==
    LET t == IF Holds(s, g) = 0 THEN s ELSE ToldToEnd(s, Holds(s, g)) IN
    [t EXCEPT !.groups[g].host = 0]

\* HostGroup.end().
EndGroup(s, g) == [DropHost(s, g) EXCEPT !.groups[g].ready = FALSE]

\* Orchestrator.end(): closed first, so that no end is told as unexpected.  Each
\* group of hostGroups is ended, which then changes nothing beyond it and its starts.
\* A second call ends nothing.
Ending(s) ==
    LET t == [s EXCEPT !.closed = TRUE, !.timers = {}, !.asks = [h \in Hosts |-> 0]]
        current(g) == \E h \in Hosts : t.registered[h] = g
    IN  [t EXCEPT
            !.groups = [g \in DOMAIN t.groups |->
                IF current(g) THEN EndGroup(t, g).groups[g] ELSE t.groups[g]],
            !.starts = [n \in DOMAIN t.starts |->
                IF current(t.starts[n].group)
                THEN EndGroup(t, t.starts[n].group).starts[n] ELSE t.starts[n]]]
EndMeeting(s) == IF s.closed THEN s ELSE Ending(s)

\* The starts of a group that are not over.
InFlight(s, g) ==
    {n \in DOMAIN s.starts : s.starts[n].group = g
                             /\ s.starts[n].pc \in {"memory", "handshake", "settled"}}

\* HostGroup.start() up to its first await.
Began(s, g, caller) ==
    [s EXCEPT !.groups[g].ready = FALSE,
              !.starts = Append(@, [group |-> g, by |-> caller, pc |-> "memory",
                                    phase |-> "none", late |-> FALSE,
                                    alone |-> InFlight(s, g) = {} /\ Holds(s, g) = 0])]

-----------------------------------------------------------------------------
HostsInit ==
    /\ groups = <<NewGroup(Default)>>
    /\ starts = <<>>
    /\ messages = <<>>
    /\ registered = [h \in Hosts |-> IF h = Default THEN 1 ELSE 0]
    /\ pending = [h \in Hosts |-> <<>>]
    /\ asks = [h \in Hosts |-> 0]
    /\ timers = {}
    /\ coordinator = Default
    /\ closed = FALSE
    /\ booted = FALSE

\* Orchestrator.start(), once the journal is restored: it starts whichever host
\* is the coordinator by then, also in a Meeting that has ended.
Boots ==
    /\ ~booted
    /\ Len(starts) < MaxHostStarts
    /\ Becomes([Began(Now, registered[coordinator], "start") EXCEPT !.booted = TRUE])

\* addHost().
AddHost(h) ==
    /\ ~closed
    /\ registered[h] = 0
    /\ Cardinality({k \in Hosts : registered[k] # 0}) < MaxHosts
    /\ Len(groups) < MaxGroups /\ Len(starts) < MaxHostStarts
    /\ LET g == Len(groups) + 1 IN
       Becomes(Began([Now EXCEPT !.groups = Append(@, NewGroup(h)), !.registered[h] = g],
                     g, "addHost"))

\* restartHost(): a start that has made no session yet does not hold it up.
RestartHost(h) ==
    /\ registered[h] # 0
    /\ Holds(Now, registered[h]) = 0
    /\ Len(starts) < MaxHostStarts
    /\ Becomes(Began(Now, registered[h], "restartHost"))

\* The memory was read: start() makes the session, whatever became of the group.
Opens(n) ==
    /\ starts[n].pc = "memory"
    /\ LET g == starts[n].group IN
       Becomes([Now EXCEPT !.groups[g].host = n,
                           !.starts[n].pc = "handshake", !.starts[n].phase = "starting",
                           !.starts[n].late = closed \/ registered[groups[g].id] # g])

\* The backend is ready.
HandshakeDone(n) ==
    /\ starts[n].pc = "handshake" /\ starts[n].phase = "starting"
    /\ Becomes([Now EXCEPT !.starts[n].pc = "settled", !.starts[n].phase = "live"])

\* The session's start() throws: Codex closes its transport and stays the host.
HandshakeFails(n) ==
    /\ starts[n].pc = "handshake"
    /\ LET t == [Now EXCEPT !.starts[n].pc = "failed",
                            !.starts[n].phase =
                                IF starts[n].phase = "starting" /\ IsCodex(Now, n)
                                THEN "broken" ELSE starts[n].phase]
       IN  Becomes(IF starts[n].by = "start" THEN EndMeeting(t) ELSE t)

\* start() goes on after the handshake, and its caller after start(): a host torn
\* down meanwhile fails it.  Orchestrator.start() flushes the messages of the
\* coordinator, the others those of the host they started.
Returned(s, n) ==
    LET g == s.starts[n].group
        t == [s EXCEPT !.groups[g].ready = TRUE, !.starts[n].pc = "returned"]
        failed == [s EXCEPT !.starts[n].pc = "failed"]
    IN  IF Holds(s, g) = 0
        THEN IF s.starts[n].by = "start" THEN EndMeeting(failed) ELSE failed
        ELSE CASE s.starts[n].by = "start" -> Flushed(t, s.coordinator)
               [] s.starts[n].by = "addHost" /\ s.closed -> t
               [] OTHER -> Flushed(t, s.groups[g].id)
Returns(n) ==
    /\ starts[n].pc = "settled"
    /\ Becomes(Returned(Now, n))

\* The session's process or stream ends of itself, or after it was told to.
SessionEnds(n) ==
    /\ starts[n].phase \in {"starting", "live", "closing"}
    /\ Becomes(Ended([Now EXCEPT !.starts[n].phase = "dead"], starts[n].group))

\* The backend refuses the login: the group ends the session it holds and keeps
\* quiet about the end that follows.
AuthRequired(n) ==
    /\ starts[n].phase \in {"starting", "live"}
    /\ LET g == starts[n].group
           t == [Now EXCEPT !.groups[g].suppress = TRUE]
           orphan == [t EXCEPT !.starts[n].phase = IF IsCodex(t, n) THEN "broken" ELSE "closing"]
       IN  Becomes(DropHost(IF Holds(t, g) = n THEN t ELSE orphan, g))

\* The talker says something, for its id: also a session its group let go of.
Speaks(n) ==
    /\ starts[n].phase = "live"
    /\ Becomes(Spoken(Now, groups[starts[n].group].id))

\* Some session of host h can call a tool.
Talks(h) == \E n \in DOMAIN starts : groups[starts[n].group].id = h /\ starts[n].phase = "live"

\* sendHostMessage() from the coordinator to an expert.
Ask(h) ==
    /\ Talks(coordinator)
    /\ h # coordinator /\ registered[h] # 0
    /\ ~closed /\ Len(messages) < MaxMessages
    /\ Becomes(Tracked(Published(Now, h), h, Len(messages) + 1))

\* sendHostMessage() between other hosts.
Tell(h, k) ==
    /\ Talks(h)
    /\ h # k /\ h # coordinator
    /\ registered[h] # 0 /\ registered[k] # 0
    /\ ~closed /\ Len(messages) < MaxMessages
    /\ Becomes(Published(Now, k))

\* onDecisionResolved(): every host but the default one is told, in some order.
DecisionResolved ==
    LET others == {h \in Hosts \ {Default} : registered[h] # 0} IN
    /\ ~closed
    /\ \E told \in 1 .. MaxMessages :
          /\ Len(messages) + told <= MaxMessages
          /\ \E to \in Bijection(1 .. told, others) : Becomes(PublishedTo(Now, to))

\* The timeout of a question: the coordinator is told the expert is silent.
AskTimesOut(m) ==
    /\ m \in timers
    /\ Becomes([Now EXCEPT !.timers = @ \ {m}, !.asks[groups[messages[m].to].id] = 0,
                           !.messages[m].alarmed = TRUE])

\* removeHost().
\* Mutants: the messages that wait are kept; the coordinator may be removed.
RemovedQueueKept(s, h) ==
    Cleared([EndGroup(s, s.registered[h]) EXCEPT !.registered[h] = 0], h)
Removed(s, h) ==
    LET g == s.registered[h] IN
    Cleared([EndGroup(s, g) EXCEPT !.registered[h] = 0, !.pending[h] = <<>>], h)
RemoveAnyHost(h) ==
    /\ h # Default
    /\ registered[h] # 0
    /\ Becomes(Removed(Now, h))
RemoveHost(h) ==
    /\ h # Default /\ h # coordinator
    /\ registered[h] # 0
    /\ Becomes(Removed(Now, h))

\* setCoordinator(): the questions of the one before keep their timers.
SetCoordinator(h) ==
    /\ registered[h] # 0 /\ IsReady(registered[h])
    /\ h \in Coordinators
    /\ Becomes([Now EXCEPT !.coordinator = h])

\* The user closes the Meeting.
End ==
    /\ ~closed
    /\ Becomes(EndMeeting(Now))

StartStep(n) == Opens(n) \/ HandshakeDone(n) \/ HandshakeFails(n) \/ Returns(n)
SessionStep(n) == SessionEnds(n) \/ AuthRequired(n) \/ Speaks(n)
HostStep(h) == AddHost(h) \/ RestartHost(h) \/ RemoveHost(h) \/ SetCoordinator(h) \/ Ask(h)

HostsNext ==
    \/ Boots
    \/ \E n \in DOMAIN starts : StartStep(n) \/ SessionStep(n)
    \/ \E h \in Hosts : HostStep(h) \/ \E k \in Hosts : Tell(h, k)
    \/ DecisionResolved
    \/ \E m \in DOMAIN messages : AskTimesOut(m)
    \/ End

HostsSpec == HostsInit /\ [][HostsNext]_hostVars

-----------------------------------------------------------------------------
(* Properties.                                                             *)

\* The variables have their types; the coordinator is a registered host, which
\* coordinatorTalkerHost() calls a bug otherwise, and the timers are those of the
\* questions hosts owe an answer to.
HostsTypeOK ==
    /\ groups \in Seq(Group) /\ Len(groups) <= MaxGroups
    /\ starts \in Seq(Start) /\ Len(starts) <= MaxHostStarts
    /\ messages \in Seq(Message) /\ Len(messages) <= MaxMessages
    /\ registered \in [Hosts -> 0..Len(groups)]
    /\ \A h \in Hosts : Len(pending[h]) <= QueueLimit
    /\ asks \in [Hosts -> 0..Len(messages)]
    /\ timers = {asks[h] : h \in Hosts} \ {0}
    /\ coordinator \in Coordinators /\ registered[coordinator] # 0
    /\ \A h \in Hosts : registered[h] # 0 => groups[registered[h]].id = h
    /\ {closed, booted} \subseteq BOOLEAN

\* A message is heard once at most, and only by the group it was sent to: a host
\* added under the id of a removed one hears nothing meant for its namesake,
\* whichever start returns and flushes (deliverCrossHostMessage(), removeHost()).
HeardByAddressee ==
    \A m \in DOMAIN messages :
        /\ Len(messages[m].heard) <= 1
        /\ \A i \in DOMAIN messages[m].heard :
              starts[messages[m].heard[i]].group = messages[m].to

\* The starts of a group never overlapped.
Alone(g) == \A n \in DOMAIN starts : starts[n].group = g => starts[n].alone

\* A host that counts as ready has a session that takes turns, and nothing waits
\* for it any more; but what waits for the host the Meeting starts with stays when
\* coordination moved meanwhile, since start() then flushes the wrong queue, and
\* overlapping starts make a host ready whose session is not.
ReadyHostIsServed ==
    \A h \in Hosts :
        LET g == registered[h] IN
        (~closed /\ g # 0 /\ IsReady(g) /\ Alone(g)) =>
            /\ starts[groups[g].host].phase = "live"
            /\ starts[groups[g].host].by # "start" => pending[h] = <<>>

\* A session that goes on is the host of its group, where the next end() reaches
\* it; the exceptions are the session of a group that was ended while start() read
\* the memory, and groups started more than once, where a second start may pass
\* the first and the late "ended" of a session is taken for its successor's.
SessionsReachable ==
    \A n \in DOMAIN starts :
        LET g == starts[n].group IN
        starts[n].phase \in {"starting", "live"} =>
            \/ groups[g].host = n /\ ~closed /\ registered[groups[g].id] = g
            \/ starts[n].late
            \/ \E k \in DOMAIN starts \ {n} : starts[k].group = g

\* The coordinator is told that an expert is silent only about its latest question
\* to a host still there, and only if that said nothing since as an expert: "Any
\* talker message from the target clears it" (sendHostMessage()).
AlarmsAreTrue ==
    [][\A m \in DOMAIN messages :
          (messages'[m].alarmed /\ ~messages[m].alarmed) =>
             LET g == messages[m].to IN
             /\ ~closed /\ ~messages[m].answered
             /\ registered[groups[g].id] = g
             /\ \A k \in DOMAIN messages :
                   k > m /\ messages[k].asked => messages[k].to # g]_hostVars

=============================================================================
