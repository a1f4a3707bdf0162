--------------------------- MODULE TaskPermissions ---------------------------
(***************************************************************************)
(* The permission requests of the workers of one Meeting: the authority    *)
(* decisions of electron/worker-scheduler.ts, and in front of them, for    *)
(* the workers on OpenCode, electron/permission-broker.ts.                 *)
(*                                                                         *)
(* A request is decided when it arrives and answered when the decision is  *)
(* in the Meeting journal; by then the session that asked may have ended   *)
(* and another one may run.  A request the grant does not settle becomes a *)
(* card.  An unanswered card is denied by a timer of the scheduler, or of  *)
(* the broker, and its worker does not count against the limit meanwhile.  *)
(***************************************************************************)
EXTENDS Integers, Sequences, FiniteSets, FiniteSetsExt

CONSTANTS
    Workers,     \* the workers, as numbers in the order the scheduler registered them
    Brokered,    \* the workers on OpenCode
    Numbered,    \* the workers on Codex or Kimi, whose sessions number their requests
                 \* alike; the others take names nobody else takes
    Targets,     \* what a tool call can ask for
    Granted,     \* targets within the grant of every task
    Forbidden,   \* targets that are denied without asking
    Memorable,   \* targets an approval is remembered for
    Confirmed,   \* targets of a broker's tools with a native confirmation
    NoReject,    \* what a worker on Kimi asks for with no option to reject it
    DenyLimit,   \* AUTHORITY_DENY_STREAK_LIMIT
    MaxRequests, \* bound: requests of a session
    MaxTotal,    \* bound: requests of all sessions
    MaxSessions, \* bound: sessions of all workers
    MaxFaults    \* bound: journal writes that reject, confirmations that throw

ASSUME WorkersAssumption ==
    /\ Workers \subseteq Nat /\ IsFiniteSet(Workers) /\ Brokered \subseteq Workers
    /\ Numbered \subseteq Workers \ Brokered
ASSUME TargetsAssumption ==
    /\ {Granted, Forbidden, Memorable, Confirmed} \subseteq SUBSET Targets
    /\ Granted \cap Forbidden = {}
    /\ NoReject \subseteq Numbered \X Targets
ASSUME BoundsAssumption == {DenyLimit, MaxRequests, MaxTotal, MaxSessions, MaxFaults}
                        \subseteq Nat

VARIABLES
    live,       \* the workers with a session
    failed,     \* the workers whose denials failed them
    sessions,   \* sessions a worker has had
    asked,      \* requests its session has made
    open,       \* requests the provider of a running session waits for
    held,       \* pending of the brokers: requests they track, each with its timer
    dialogs,    \* native confirmations on the screen, with the session of their broker
    deciding,   \* decisions being journaled
    cards,      \* cards on the screen
    owners,     \* askOwnersByRequestId
    yielding,   \* pendingAskCount
    timers,     \* permissionTimers
    remembered, \* pendingAuthorityAsks and pendingAskFingerprints
    memory,     \* authorityAddendum and approvedAskFingerprints
    streak,     \* authorityDenyStreak and lastAuthorityDenyFingerprint
    total,      \* requests of all sessions so far
    faults,
    \* history, not in the code
    made,       \* the requests made so far, those of brokers left out
    allowed,    \* cards and confirmations the user allowed, with whom it was shared
    done,       \* requests the last answer allowed
    dropped     \* requests whose confirmation threw

fleet     == <<live, failed, sessions>>
counters  == <<asked, total, made, faults>>
asks      == <<owners, yielding, timers, remembered, memory>>
history   == <<allowed, done, dropped>>
vars == <<fleet, counters, history, open, held, dialogs, deciding, cards, asks,
          streak>>

-----------------------------------------------------------------------------
(* Requests.                                                               *)

\* The name of the n-th request of a session.  All who number give the same names.
Ids == [of : {<<>>} \cup (Workers \X Nat), n : 1 .. MaxRequests]
Id(w, n) == [of |-> IF w \in Numbered THEN <<>> ELSE <<w, sessions[w]>>, n |-> n]
Request(w, id, t) == [worker |-> w, id |-> id, target |-> t]
Requests == [worker : Workers, id : Ids, target : Targets]

\* decideTaskPermission(), evaluateTaskAuthority() and the fingerprint memory.
Decision(w, t) ==
    IF t \in Granted \cup memory[w] THEN "allow"
    ELSE IF t \in Forbidden THEN "deny"
    ELSE "ask"

\* resolvePermission() of the sessions of ws: a session answers the request it
\* holds under this name, and a broker the one it tracks.  Kimi answers with the
\* first option when none fits, so that a denial may let the call through.
Held(w, id) == w \in Brokered => \E r \in held : r.worker = w /\ r.id = id
Answered(ws, id) == {r \in open : r.worker \in ws /\ r.id = id /\ Held(r.worker, id)}
Answer(ws, id, decision) ==
    /\ open' = open \ Answered(ws, id)
    /\ held' = {r \in held : ~(r.worker \in ws /\ r.id = id)}
    /\ done' = {r \in Answered(ws, id) :
                   decision = "allow" \/ <<r.worker, r.target>> \in NoReject}
NoAnswer == UNCHANGED <<open, held, done>>

-----------------------------------------------------------------------------
Init ==
    /\ live = {} /\ failed = {}
    /\ sessions = [w \in Workers |-> 0]
    /\ asked = [w \in Workers |-> 0]
    /\ open = {} /\ held = {} /\ dialogs = {}
    /\ deciding = <<>>
    /\ cards = {} /\ owners = {} /\ timers = {} /\ remembered = {}
    /\ yielding = [w \in Workers |-> 0]
    /\ memory = [w \in Workers |-> {}]
    /\ streak = [w \in Workers |-> [of |-> {}, length |-> 0]]
    /\ faults = 0 /\ total = 0 /\ made = {}
    /\ allowed = {} /\ done = {} /\ dropped = {}

-----------------------------------------------------------------------------
(* Sessions.                                                               *)

Launch(w) ==
    /\ w \notin live \cup failed
    /\ MapThenSumSet(LAMBDA v : sessions[v], Workers) < MaxSessions
    /\ live' = live \cup {w}
    /\ sessions' = [sessions EXCEPT ![w] = @ + 1]
    /\ asked' = [asked EXCEPT ![w] = 0]
    /\ UNCHANGED <<history, total, made, failed, open, held, dialogs, deciding, cards,
                   asks, streak, faults>>

\* session.end() denies what is open, and clearPermissionTimersForHandle().
Ended(w) ==
    /\ live' = live \ {w}
    /\ open' = {r \in open : r.worker # w}
    /\ held' = {r \in held : r.worker # w}
    /\ owners' = {o \in owners : o[1] # w}
    /\ timers' = {o \in timers : o[1] # w}
    /\ yielding' = [yielding EXCEPT ![w] = 0]

\* releaseWorkerSession() and disposeWorker().
Parks(w) ==
    /\ w \in live
    /\ Ended(w)
    /\ UNCHANGED <<counters, history, failed, sessions, dialogs, deciding, cards,
                   remembered, memory, streak>>

\* beginFollowUpAttempt() forgets the requests too, not what was approved.
Restarts(w) ==
    /\ w \in live
    /\ Ended(w)
    /\ remembered' = {r \in remembered : r.worker # w}
    /\ UNCHANGED <<counters, history, failed, sessions, dialogs, deciding, cards,
                   memory, streak>>

-----------------------------------------------------------------------------
(* A request arrives.                                                      *)

\* handlePermissionRequest() up to the journal.
Decides(w, id, t) ==
    deciding' = Append(deciding, [request |-> Request(w, id, t), decision |-> Decision(w, t)])

\* canUseTool() of a session without a broker.
Asks(w, t) ==
    /\ w \in live \ Brokered /\ asked[w] < MaxRequests /\ total < MaxTotal
    /\ asked' = [asked EXCEPT ![w] = @ + 1] /\ total' = total + 1
    /\ LET id == Id(w, asked[w] + 1)
           r  == Request(w, id, t)
       IN  made' = made \cup {r} /\ open' = open \cup {r} /\ Decides(w, id, t)
    /\ UNCHANGED <<fleet, history, held, dialogs, cards, asks, streak, faults>>

\* submit(): a destructive tool is confirmed by a native dialog, the others go
\* on to the scheduler.  (A safe tool the user lets pass is never tracked.)
Submits(w, t) ==
    /\ w \in live \cap Brokered /\ asked[w] < MaxRequests /\ total < MaxTotal
    /\ asked' = [asked EXCEPT ![w] = @ + 1] /\ total' = total + 1
    /\ LET id == Id(w, asked[w] + 1)
           r  == Request(w, id, t)
       IN  /\ open' = open \cup {r} /\ held' = held \cup {r}
           /\ IF t \in Confirmed
              THEN dialogs' = dialogs \cup {<<r, sessions[w]>>} /\ UNCHANGED deciding
              ELSE Decides(w, id, t) /\ UNCHANGED dialogs
    /\ UNCHANGED <<fleet, history, made, cards, asks, streak, faults>>

-----------------------------------------------------------------------------
(* The decision is in the journal, or the journal rejected it.             *)

\* A third identical denial in a row fails the worker.
Streak(r) == [of     |-> {r.target},
              length |-> IF streak[r.worker].of = {r.target}
                         THEN streak[r.worker].length + 1 ELSE 1]
NoStreak == [of |-> {}, length |-> 0]

\* Mutant: the card that waits forever is the one without a broker.
ShowsUntimed(r) ==
    /\ remembered' = remembered \cup (IF r.target \in Memorable THEN {r} ELSE {})
    /\ cards' = cards \cup {r}
    /\ owners' = owners \cup {<<r.worker, r.id>>}
    /\ yielding' = [yielding EXCEPT ![r.worker] = @ + 1]
    /\ timers' = IF r.worker \in Brokered THEN timers \cup {<<r.worker, r.id>>} ELSE timers
    /\ UNCHANGED memory
\* A card; the broker of an OpenCode worker has a timer of its own.
Shows(r) ==
    /\ remembered' = remembered \cup (IF r.target \in Memorable THEN {r} ELSE {})
    /\ cards' = cards \cup {r}
    /\ owners' = owners \cup {<<r.worker, r.id>>}
    /\ yielding' = [yielding EXCEPT ![r.worker] = @ + 1]
    /\ timers' = IF r.worker \in Brokered THEN timers
                 ELSE timers \cup {<<r.worker, r.id>>}
    /\ UNCHANGED memory

Decided ==
    LET d == Head(deciding)
        r == d.request
        w == r.worker
        keep == UNCHANGED <<live, failed, cards, asks>>
        lastStraw == Streak(r).length >= DenyLimit /\ w \in live
    IN  /\ deciding # <<>>
        /\ deciding' = Tail(deciding)
        /\ \/ /\ d.decision = "allow"
              /\ Answer({w}, r.id, "allow")
              /\ streak' = [streak EXCEPT ![w] = NoStreak]
              /\ keep
           \/ /\ d.decision = "ask"
              /\ Shows(r) /\ NoAnswer
              /\ streak' = [streak EXCEPT ![w] = NoStreak]
              /\ UNCHANGED <<live, failed>>
           \/ /\ d.decision = "deny" /\ ~lastStraw
              /\ Answer({w}, r.id, "deny")
              /\ streak' = [streak EXCEPT ![w] = Streak(r)]
              /\ keep
           \/ /\ d.decision = "deny" /\ lastStraw
              /\ failed' = failed \cup {w}
              /\ Ended(w)
              /\ streak' = [streak EXCEPT ![w] = Streak(r)]
              /\ UNCHANGED <<cards, remembered, memory, done>>
        /\ UNCHANGED <<counters, sessions, dialogs, allowed, dropped>>

NotJournaled ==
    /\ deciding # <<>> /\ faults < MaxFaults
    /\ faults' = faults + 1
    /\ deciding' = Tail(deciding)
    /\ LET r == Head(deciding).request IN Answer({r.worker}, r.id, "deny")
    /\ UNCHANGED <<fleet, asked, total, made, dialogs, cards, asks, streak, allowed,
                   dropped>>

-----------------------------------------------------------------------------
(* The user answers a card, or nobody does.                                *)

\* resolvePermissionInAny() answers the owners of the name, or everyone if it
\* has none.  "Allow for all workers" shares what the last owner asked for.
OwnersOf(id) == {w \in Workers : <<w, id>> \in owners}
Affected(id) == IF OwnersOf(id) = {} THEN Workers ELSE OwnersOf(id)
\* Mutant: an answer promotes everything the worker still asks for.
AskedByThem(id) == {r \in remembered : r.worker \in Affected(id)}
AskedUnder(id) == {r \in remembered : r.id = id /\ r.worker \in Affected(id)}
Shared(id) == {r \in AskedUnder(id) : \A q \in AskedUnder(id) : q.worker <= r.worker}
\* The targets an allow makes worker w remember.
Learns(w, id, scope) ==
    {r.target : r \in {q \in AskedUnder(id) : q.worker = w}}
        \cup IF scope = "task-wide" THEN {r.target : r \in Shared(id)} ELSE {}
Resolves(id, decision, scope) ==
    /\ owners' = {o \in owners : o[2] # id}
    /\ timers' = {o \in timers : ~(o[2] = id /\ o[1] \in Affected(id))}
    /\ yielding' = [w \in Workers |-> IF w \in OwnersOf(id) /\ yielding[w] > 0
                                      THEN yielding[w] - 1 ELSE yielding[w]]
    /\ remembered' = remembered \ AskedUnder(id)
    /\ memory' = IF decision = "allow"
                 THEN [w \in Workers |-> memory[w] \cup Learns(w, id, scope)] ELSE memory
    /\ Answer(Affected(id), id, decision)

UserAnswers(card, decision, scope) ==
    /\ card \in cards
    /\ cards' = cards \ {card}
    /\ Resolves(card.id, decision, scope)
    /\ allowed' = IF decision = "allow" THEN allowed \cup {<<card, scope>>} ELSE allowed
    /\ UNCHANGED <<fleet, counters, dialogs, deciding, streak, dropped>>

\* armPermissionTimeout(): a session that is gone is not answered.
TimesOut(w, id) ==
    /\ <<w, id>> \in timers
    /\ timers' = timers \ {<<w, id>>}
    /\ owners' = owners \ {<<w, id>>}
    /\ IF w \in live
       THEN /\ yielding' = [yielding EXCEPT ![w] = IF @ > 0 THEN @ - 1 ELSE 0]
            /\ Answer({w}, id, "deny")
            /\ remembered' = {r \in remembered : ~(r.worker = w /\ r.id = id)}
            /\ cards' = {r \in cards : ~(r.worker = w /\ r.id = id)}
       ELSE NoAnswer /\ UNCHANGED <<yielding, remembered, cards>>
    /\ UNCHANGED <<fleet, counters, dialogs, deciding, memory, streak, allowed,
                   dropped>>

-----------------------------------------------------------------------------
(* The broker.                                                             *)

\* The request left the broker: its card is withdrawn.  The scheduler only
\* passes the event on.
Withdrawn(r) ==
    /\ held' = held \ {r}
    /\ open' = open \ {r}
    /\ cards' = cards \ {r}
    /\ UNCHANGED <<fleet, counters, history, dialogs, deciding, asks, streak>>

\* The timer of track(), and cancelExternal() after an answer somewhere else.
BrokerTimesOut(r) == r \in held /\ Withdrawn(r)
RepliedElsewhere(r) == r \in held /\ Withdrawn(r)

\* confirmDestructive() returned; its broker may have ended with its session.
Confirms(d, allow) ==
    LET r == d[1]
        w == r.worker
        current == w \in live /\ sessions[w] = d[2] /\ r \in held
    IN  /\ d \in dialogs
        /\ dialogs' = dialogs \ {d}
        /\ allowed' = IF allow THEN allowed \cup {<<r, "worker">>} ELSE allowed
        /\ IF current
           THEN Answer({w}, r.id, IF allow THEN "allow" ELSE "deny")
           ELSE NoAnswer
        /\ UNCHANGED <<fleet, counters, deciding, cards, asks, streak, dropped>>

\* It threw: the finally clause stops the timer, and nobody replies.
ConfirmThrows(d) ==
    LET r == d[1]
    IN  /\ d \in dialogs /\ faults < MaxFaults
        /\ faults' = faults + 1
        /\ dialogs' = dialogs \ {d}
        /\ IF sessions[r.worker] = d[2] /\ r \in held
           THEN held' = held \ {r} /\ dropped' = dropped \cup {r}
           ELSE UNCHANGED <<held, dropped>>
        /\ UNCHANGED <<fleet, asked, total, made, open, deciding, cards, asks, streak,
                       allowed, done>>

-----------------------------------------------------------------------------
Next ==
    \/ \E w \in Workers : Launch(w) \/ Parks(w) \/ Restarts(w)
    \/ \E w \in Workers, t \in Targets : Asks(w, t) \/ Submits(w, t)
    \/ Decided \/ NotJournaled
    \/ \E card \in cards, decision \in {"allow", "deny"} : UserAnswers(card, decision, "worker")
    \/ \E card \in cards : UserAnswers(card, "allow", "task-wide")
    \/ \E o \in timers : TimesOut(o[1], o[2])
    \/ \E r \in held : BrokerTimesOut(r) \/ RepliedElsewhere(r)
    \/ \E d \in dialogs : (\E allow \in BOOLEAN : Confirms(d, allow)) \/ ConfirmThrows(d)

Spec == Init /\ [][Next]_vars

-----------------------------------------------------------------------------
(* Properties.                                                             *)

TypeOK ==
    /\ live \subseteq Workers /\ failed \subseteq Workers /\ live \cap failed = {}
    /\ sessions \in [Workers -> Nat]
    /\ asked \in [Workers -> 0 .. MaxRequests]
    /\ made \subseteq Requests /\ open \subseteq Requests /\ held \subseteq open
    /\ \A d \in dialogs : d[1] \in Requests
    /\ \A i \in DOMAIN deciding : deciding[i].request \in Requests
    /\ cards \subseteq Requests
    /\ owners \subseteq Workers \X Ids /\ timers \subseteq owners
    /\ yielding \in [Workers -> Nat]
    /\ remembered \subseteq Requests
    /\ memory \in [Workers -> SUBSET Targets]
    /\ total \in 0 .. MaxTotal /\ faults \in 0 .. MaxFaults

\* The requests an answer that reached r may have been given for: r itself, or,
\* where sessions number their requests, any of that number.
Meant(r) == IF r.worker \in Numbered THEN {q \in made : q.id = r.id} ELSE {r}

\* The user allowed a call for target t that may be remembered: one of worker w, or
\* one whose answer was shared with all.
Remembered(w, t) ==
    /\ t \in Memorable
    /\ \E a \in allowed : \E q \in Meant(a[1]) :
          q.target = t /\ (q.worker = w \/ a[2] = "task-wide")

Warranted(r) == r.target \in Granted \/ Remembered(r.worker, r.target)
Approved(r) ==
    \/ \E q \in Meant(r) : q.worker = r.worker /\ Warranted(q)
    \/ \E a \in allowed : a[1] \in Meant(r)

\* Every call that was let through is within the grant, or the user allowed that
\* very request, or an earlier one that is remembered; whatever decision was late,
\* card stale or session replaced.  The workers of Codex and Kimi have less: one of
\* their requests of that number was granted or allowed, another one perhaps, and
\* what Kimi cannot reject is let through when it is denied.
NothingUnapproved ==
    /\ TypeOK
    /\ \A r \in done : Approved(r) \/ <<r.worker, r.target>> \in NoReject

\* Fail closed: somebody will answer every open request though the user never
\* does, the scheduler when the journal returns, or a timer of the scheduler or of
\* the broker; only a confirmation that throws leaves one behind.
EveryRequestHasADeadline ==
    \A r \in open : \/ \E i \in DOMAIN deciding : deciding[i].request = r
                   \/ <<r.worker, r.id>> \in timers
                   \/ r \in held
                   \/ r \in dropped
=============================================================================
