----------------------------- MODULE TaskMailbox -----------------------------
(***************************************************************************)
(* The durable mailbox of one task, electron/task-mailbox.ts, and the part *)
(* of electron/worker-scheduler.ts that moves messages through it.         *)
(*                                                                         *)
(* Every change of a message is an event appended to the Meeting journal,  *)
(* and the caller continues when the append returns: meanwhile the worker  *)
(* may report, fail, be restarted or begin a fresh attempt.  The journal   *)
(* appends in the order of the calls (module MeetingJournal), so the       *)
(* pending appends are one queue, each with what happens after it.  A      *)
(* steering message also awaits the interruption of the running turn.      *)
(*                                                                         *)
(* A crash loses the queue, the session and the scheduler's maps; restore()*)
(* rebuilds the mailbox from the appended events.                          *)
(***************************************************************************)
EXTENDS Integers, Sequences, FiniteSets, FiniteSetsExt

CONSTANTS
    MaxMessages,  \* bound: messages enqueued
    MaxAttempts,  \* bound: the number a fresh attempt gets
    MaxSessions,  \* bound: sessions an await still remembers, with the current one
    MaxPending,   \* bound: journal appends under way when a session is launched or
                  \* a turn ends
    MaxCrashes,   \* bound: crashes
    MaxFailures   \* bound: journal appends that fail

ASSUME BoundsAssumption ==
    /\ {MaxMessages, MaxAttempts, MaxSessions} \subseteq Nat \ {0}
    /\ {MaxPending, MaxCrashes, MaxFailures} \subseteq Nat

-----------------------------------------------------------------------------
(* Data.                                                                   *)

\* Messages in the order of their ids; 0 is no message.
Messages == 1 .. MaxMessages
\* "correction" is a follow-up that asks for the WorkReport again.
Kinds == {"follow-up", "steer", "correction"}
Message == [status : {"absent", "queued", "delivered", "acknowledged"}, kind : Kinds,
            attempt : 1 .. MaxAttempts]

\* Sessions; 0 is no session, and one that nothing remembers is named again.
Sessions == 1 .. MaxSessions

\* The handle of the task.  "parked" stands for every status of a delivery
\* under verification or review, "ended" for failed and interrupted.
Worker ==
    [status : {"pending", "running", "parked", "ended", "accepted"},
     attempt : 1 .. MaxAttempts,
     session : {0} \cup Sessions,
     starting : BOOLEAN,                 \* session.start() has not returned
     delivery : BOOLEAN,                 \* deliveryId
     unread : BOOLEAN,                   \* pendingDelegateAck
     reported : BOOLEAN,                 \* report
     recovered : BOOLEAN,                \* reportRecoveryReworked
     steering : {0} \cup Messages,       \* steeringMessageByWorker
     consumed : {0} \cup Messages,       \* pendingMailboxAckByWorker
     draining : {0} \cup Sessions,       \* mailboxAckInFlightByWorker: where it began
     boundary : SUBSET Sessions,         \* the drains an ended turn waits for
     parking : SUBSET Sessions]          \* the drains a report waits for

\* An append under way: what the caller does when it returns.
Continuation ==
    {"none", "fork", "rework", "restart", "steer", "correct", "sent", "ack", "lost"}
JournalAppend == [event : {"enqueued", "delivered", "acknowledged", "failed"}, msg : Messages,
            then : Continuation, session : {0} \cup Sessions]

VARIABLES
    box,        \* messagesById
    worker,     \* the task's WorkerHandle
    writes,     \* journal appends under way
    interrupts, \* steering messages whose interrupt() is awaited, with the session
    durable,    \* the status the journal's events replay to
    used,       \* messages created so far
    crashes, failures,
    \* history, not in the code
    heard,      \* what the session was sent
    repeated,   \* messages sent twice to one session
    overtaken   \* messages sent or given up in spite of the delivery they had

vars == <<box, worker, writes, interrupts, durable, used, crashes, failures, heard, repeated,
          overtaken>>

-----------------------------------------------------------------------------
(* The mailbox.                                                            *)

Status(m) == box[m].status

\* The session an await comes back to: a correction is for the session that was asked,
\* and a drain is that of the session in which it began.
AwaitedBy(then) == IF then \in {"correct", "ack"} THEN worker.session ELSE 0

\* enqueue(): the message is remembered when its event is durable.
Enqueue(kind, attempt, then) ==
    /\ used < MaxMessages
    /\ used' = used + 1
    /\ box' = [box EXCEPT ![used + 1] =
                  [status |-> "absent", kind |-> kind, attempt |-> attempt]]
    /\ writes' = Append(writes, [event |-> "enqueued", msg |-> used + 1, then |-> then,
                                 session |-> AwaitedBy(then)])

\* Mutant: a message counts as read when it is sent.
WriteRead(event, m, then) ==
    [event |-> IF event = "delivered" THEN "acknowledged" ELSE event, msg |-> m,
     then |-> then, session |-> AwaitedBy(then)]
\* The append of a delivery, of an acknowledgement or of a failed delivery.
Write(event, m, then) ==
    [event |-> event, msg |-> m, then |-> then, session |-> AwaitedBy(then)]

\* What a status event makes of the status it finds: an acknowledgement is
\* final when the journal is replayed ...
Replayed(event, old) ==
    CASE old = "acknowledged"     -> old
      [] event = "enqueued"       -> "queued"
      [] event = "delivered"      -> "delivered"
      [] event = "acknowledged"   -> "acknowledged"
      [] event = "failed"         -> "queued"
\* Mutant: a failed delivery is still a delivery.
UpdatedKept(event) ==
    CASE event = "enqueued"              -> "queued"
      [] event \in {"delivered", "failed"} -> "delivered"
      [] event = "acknowledged"          -> "acknowledged"
\* ... while updateStatus() writes over whatever is there.
Updated(event) ==
    CASE event \in {"enqueued", "failed"} -> "queued"
      [] event = "delivered"              -> "delivered"
      [] event = "acknowledged"           -> "acknowledged"

\* restore(): a delivered message was not acknowledged, and is retried.
Restored(m) ==
    [box[m] EXCEPT !.status = IF durable[m] = "delivered" THEN "queued" ELSE durable[m]]

-----------------------------------------------------------------------------
(* The worker.                                                             *)

Live(w) == w.session # 0 /\ w.status = "running"
CanHear(w) == Live(w) /\ ~w.starting

\* Mutant: a message is deliverable until it is acknowledged.
DeliverableAgain(w, m) ==
    /\ Status(m) \in {"queued", "delivered"}
    /\ box[m].attempt <= w.attempt
    /\ \/ box[m].kind = "follow-up"
       \/ box[m].kind = "correction" /\ box[m].attempt = w.attempt
\* isDeliverableFollowUp().
Deliverable(w, m) ==
    /\ Status(m) = "queued"
    /\ box[m].attempt <= w.attempt
    /\ \/ box[m].kind = "follow-up"
       \/ box[m].kind = "correction" /\ box[m].attempt = w.attempt
FollowUps(w) == {m \in Messages : Deliverable(w, m)}
\* deliverQueuedSteer() also takes those of earlier attempts.
Steers(w) == {m \in Messages : /\ Status(m) = "queued" /\ box[m].kind = "steer"
                               /\ box[m].attempt <= w.attempt}

\* The append of its delivery is under way.
Sending(m) == \E i \in DOMAIN writes : writes[i].msg = m /\ writes[i].event = "delivered"
\* So is its receipt, or it was delivered.
Delivering(m) == Sending(m) \/ Status(m) = "delivered"
\* History: m is sent again, or given up, and nothing looked at its delivery.
Overtakes(m, when) == overtaken' = IF when THEN overtaken \cup {m} ELSE overtaken

\* sendUserText().
Tells(m) == /\ heard' = heard \cup {m}
            /\ repeated' = IF m \in heard THEN repeated \cup {m} ELSE repeated
            /\ Overtakes(m, Sending(m))
TellsNothing == UNCHANGED <<heard, repeated, overtaken>>
\* releaseWorkerSession().
Released(w) ==
    IF w.session = 0 THEN w
    ELSE [w EXCEPT !.session = 0, !.starting = FALSE, !.unread = FALSE, !.steering = 0]
Parked(w, status) == [Released(w) EXCEPT !.status = status]
\* disposeWorker().
Disposed(w) ==
    [w EXCEPT !.session = 0, !.starting = FALSE, !.unread = FALSE, !.steering = 0,
              !.status = "ended", !.delivery = FALSE, !.consumed = 0, !.draining = 0]
\* beginFollowUpAttempt(): what was sent to the old session is not forgotten.
FreshAttempt(w) ==
    [w EXCEPT !.session = 0, !.starting = FALSE, !.attempt = @ + 1, !.status = "pending",
              !.delivery = FALSE, !.reported = FALSE]
\* requiresFreshAttempt(): a task with a delivery behind it is not told, it starts over.
NeedsFreshAttempt(w) == w.status \notin {"pending", "running"}
\* A report goes to the harness, whatever became of the attempt meanwhile.
Submitted(w) == IF w.delivery THEN Parked(w, "parked") ELSE [w EXCEPT !.status = "ended"]

\* acknowledgeMailboxDelivery(): the message read last is acknowledged; one that is
\* not delivered ends the drain and stays.
MustDrain(w) == w.consumed # 0 /\ Status(w.consumed) = "delivered"
Forgets(w, m) == [w EXCEPT !.consumed = IF @ = m THEN 0 ELSE @,
                           !.steering = IF @ = m THEN 0 ELSE @]
Dropped(w) == IF w.consumed # 0 /\ Status(w.consumed) = "acknowledged"
              THEN Forgets(w, w.consumed) ELSE w
\* One drain at a time, until the worker is disposed of.
Drained(w) == CASE w.draining # 0 -> w
                [] w.draining = 0 /\ MustDrain(w)  -> [w EXCEPT !.draining = w.session]
                [] w.draining = 0 /\ ~MustDrain(w) -> Dropped(w)
Drain(w) == IF w.draining = 0 /\ MustDrain(w)
            THEN <<Write("acknowledged", w.consumed, "ack")>> ELSE <<>>

\* The first of the messages ms is sent, if there is one.
SendsFollowUp(ms, queue) ==
    IF ms = {}
    THEN TellsNothing /\ writes' = queue
    ELSE LET m == Min(ms)
         IN  Tells(m) /\ writes' = Append(queue, Write("delivered", m, "sent"))
\* deliverNextFollowUp().
DeliversFollowUp(w, ms, queue) ==
    IF CanHear(w) /\ w.steering = 0 THEN SendsFollowUp(ms, queue)
    ELSE TellsNothing /\ writes' = queue
\* The drain of session s is over, with ms to deliver.  Those who waited go on in the
\* order they came: the turns that ended, as one, and the report.
DrainEnds(w, s, ms) ==
    LET idle == [w EXCEPT !.draining = IF @ = s THEN 0 ELSE @,
                          !.boundary = @ \ {s}, !.parking = @ \ {s}]
    IN  /\ worker' = IF s \in w.parking THEN Submitted(idle) ELSE idle
        /\ \/ s \in w.boundary /\ DeliversFollowUp(idle, ms, Tail(writes))
           \/ /\ s \in w.boundary => s \in w.parking
              /\ writes' = Tail(writes) /\ TellsNothing

-----------------------------------------------------------------------------
Init ==
    /\ box = [m \in Messages |-> [status |-> "absent", kind |-> "follow-up", attempt |-> 1]]
    /\ worker = [status |-> "pending", attempt |-> 1, session |-> 0, starting |-> FALSE,
                 delivery |-> FALSE, unread |-> FALSE, reported |-> FALSE, recovered |-> FALSE,
                 steering |-> 0, consumed |-> 0, draining |-> 0, boundary |-> {},
                 parking |-> {}]
    /\ writes = <<>>
    /\ interrupts = {}
    /\ durable = [m \in Messages |-> "absent"]
    /\ used = 0 /\ crashes = 0 /\ failures = 0
    /\ heard = {}
    /\ repeated = {}
    /\ overtaken = {}

counters == <<crashes, failures>>
mailbox == <<box, durable, used>>
history == <<heard, repeated, overtaken>>

-----------------------------------------------------------------------------
(* The user and the Coordinator.                                           *)

\* queueFollowUp(), sendTaskMessage() and forwardTaskMessage(), which alone takes an
\* accepted task.
FollowsUp ==
    /\ LET fresh == NeedsFreshAttempt(worker)
       IN  /\ fresh => worker.attempt < MaxAttempts
           /\ Enqueue("follow-up", IF fresh THEN worker.attempt + 1 ELSE worker.attempt,
                      IF fresh THEN "fork" ELSE "none")
    /\ UNCHANGED <<worker, interrupts, durable, counters, history>>

\* steerTask().
Steer ==
    /\ worker.session # 0 /\ worker.status \notin {"accepted", "ended"}
    /\ Enqueue("steer", worker.attempt, "steer")
    /\ UNCHANGED <<worker, interrupts, durable, counters, history>>

\* The review returns the delivery to the worker in the same delivery, or the
\* task fails or is accepted.
Reviewed ==
    /\ worker.status = "parked"
    /\ worker' \in {[worker EXCEPT !.status = "accepted"], Disposed(worker)}
                   \cup (IF worker.attempt < MaxAttempts
                         THEN {[FreshAttempt(worker) EXCEPT !.delivery = TRUE]}
                         ELSE {})
    /\ UNCHANGED <<mailbox, writes, interrupts, counters, history>>

\* interruptTask(), and a failure of the worker.
Ends ==
    /\ worker.session # 0 /\ worker.status = "running"
    /\ worker' = Disposed(worker)
    /\ UNCHANGED <<mailbox, writes, interrupts, counters, history>>

\* resolveRecoveredTask(): a fresh delivery in the same attempt.
Resumed ==
    /\ worker.status = "ended"
    /\ worker' = [worker EXCEPT !.status = "pending", !.reported = FALSE]
    /\ UNCHANGED <<mailbox, writes, interrupts, counters, history>>

-----------------------------------------------------------------------------
(* Launching.                                                              *)

\* The sessions an await still remembers.
Remembered == {i[2] : i \in interrupts} \cup {writes[i].session : i \in DOMAIN writes}

\* spawnWorker(): a task without a delivery proposes one, whose first attempt is 1.
Launched ==
    /\ worker.status = "pending" /\ Len(writes) <= MaxPending
    /\ Sessions \ Remembered # {}
    /\ worker' = [worker EXCEPT !.attempt = IF worker.delivery THEN @ ELSE 1,
                                !.delivery = TRUE, !.session = Min(Sessions \ Remembered),
                                !.starting = TRUE, !.status = "running", !.unread = TRUE]
    /\ heard' = {}
    /\ UNCHANGED <<mailbox, writes, interrupts, counters, repeated, overtaken>>

\* session.start() returned: the prompt goes out with the first follow-up.
Prompts ==
    /\ Live(worker) /\ worker.starting
    /\ worker' = [worker EXCEPT !.starting = FALSE]
    /\ SendsFollowUp(FollowUps(worker), writes)
    /\ UNCHANGED <<mailbox, interrupts, counters>>

-----------------------------------------------------------------------------
(* The worker's events.                                                    *)

\* An assistant message, or the first progress signal: what was sent last was
\* read, and steering may begin; a signal waits for the drain with that.
Speaks ==
    /\ CanHear(worker)
    /\ LET w     == Drained(worker)
           steer == worker.unread /\ w.steering = 0 /\ Steers(worker) # {}
           m     == Min(Steers(worker))
       IN  \/ /\ worker' = [w EXCEPT !.unread = FALSE, !.steering = IF steer THEN m ELSE @]
              /\ interrupts' = IF steer THEN interrupts \cup {<<m, worker.session>>}
                               ELSE interrupts
           \/ /\ w.draining # 0
              /\ worker' = w /\ UNCHANGED interrupts
    /\ writes' = writes \o Drain(worker)
    /\ UNCHANGED <<mailbox, counters, history>>

\* The end of a turn: a follow-up goes out when what was read is acknowledged.
TurnEnds ==
    /\ CanHear(worker) /\ Len(writes) <= MaxPending
    /\ LET w == Drained(worker)
       IN  IF w.draining # 0
           THEN /\ worker' = [w EXCEPT !.boundary = @ \cup {w.draining}]
                /\ writes' = writes \o Drain(worker) /\ TellsNothing
           ELSE worker' = w /\ DeliversFollowUp(w, FollowUps(w), writes)
    /\ UNCHANGED <<mailbox, interrupts, counters>>

\* A WorkReport: submit_work_report of the current attempt's tools, or the signal
\* of an adapter that has none.  The session is released after the drain; when the
\* report is the first signal, there is nothing to drain and nothing to steer.
Reports ==
    /\ CanHear(worker) /\ ~worker.reported
    /\ worker.unread => /\ worker.draining = 0 /\ ~MustDrain(worker)
                        /\ Steers(worker) = {}
    /\ LET w == [Drained(worker) EXCEPT !.reported = TRUE, !.unread = FALSE]
       IN  worker' = IF w.draining # 0 THEN [w EXCEPT !.parking = @ \cup {w.draining}]
                     ELSE Submitted(w)
    /\ writes' = writes \o Drain(worker)
    /\ UNCHANGED <<mailbox, interrupts, counters, history>>

\* requestMissingWorkReportRecovery(): once per attempt.
AsksForReport ==
    /\ CanHear(worker) /\ ~worker.reported
    /\ \A m \in Messages : ~(box[m].kind = "correction" /\ box[m].attempt = worker.attempt)
    /\ Enqueue("correction", worker.attempt, "correct")
    /\ UNCHANGED <<worker, interrupts, durable, counters, history>>
\* beginReportRecoveryRework(): once per task.
RecoversReport ==
    /\ CanHear(worker) /\ ~worker.recovered /\ worker.attempt < MaxAttempts
    /\ worker' = [worker EXCEPT !.recovered = TRUE]
    /\ Enqueue("follow-up", worker.attempt + 1, "rework")
    /\ UNCHANGED <<interrupts, durable, counters, history>>
\* autoRestartStalledWorker(), as often as there are messages.
RestartsStalled ==
    /\ Live(worker)
    /\ Enqueue("follow-up", worker.attempt, "restart")
    /\ UNCHANGED <<worker, interrupts, durable, counters, history>>

\* interrupt('steer') returned in the session that was interrupted: the message is sent.
Steered(m, s) ==
    /\ <<m, s>> \in interrupts
    /\ s = worker.session /\ Live(worker)
    /\ Tells(m)
    /\ IF Status(m) = "queued"
       THEN writes' = Append(writes, Write("delivered", m, "sent")) /\ UNCHANGED worker
       ELSE worker' = [worker EXCEPT !.consumed = m] /\ UNCHANGED writes
    /\ interrupts' = interrupts \ {<<m, s>>}
    /\ UNCHANGED <<mailbox, counters>>

\* It rejected, or the session is another one: the message is given up until a retry.
SteerFails(m, s) ==
    /\ <<m, s>> \in interrupts
    /\ worker' = [worker EXCEPT !.steering = 0]
    /\ \/ Status(m) = "acknowledged" /\ UNCHANGED <<writes, overtaken>>
       \/ /\ Status(m) # "acknowledged"
          /\ \E then \in {"none", "lost"} :
                /\ then = "lost" => s # worker.session \/ worker.status # "running"
                /\ writes' = Append(writes, Write("failed", m, then))
          /\ Overtakes(m, Delivering(m))
    /\ interrupts' = interrupts \ {<<m, s>>}
    /\ UNCHANGED <<mailbox, counters, heard, repeated>>

-----------------------------------------------------------------------------
(* The journal.                                                            *)

\* What the caller of append w does when it returned.
GoesOn(w) ==
    \/ w.then \in {"none", "lost"}
    \/ (w.then = "rework" /\ worker.status # "running")
    \/ w.then = "restart"
    \/ (w.then = "steer" /\ worker.unread)
Forks(w) ==
    /\ w.then = "fork" \/ (w.then = "rework" /\ worker.status = "running")
    /\ worker.attempt < MaxAttempts
    /\ worker' = FreshAttempt(worker)
Restarts(w) ==
    /\ w.then = "restart" /\ Live(worker)
    /\ worker' = Parked(worker, "pending")
CannotSteer(w) ==
    /\ w.then = "steer" /\ ~worker.unread /\ worker.session = 0
    /\ worker' = [worker EXCEPT !.steering = 0]
    /\ writes' = Append(Tail(writes), Write("failed", w.msg, "none"))
Steering(w) ==
    /\ w.then = "steer" /\ ~worker.unread /\ worker.session # 0
    /\ worker' = [worker EXCEPT !.steering = w.msg]
    /\ interrupts' = interrupts \cup {<<w.msg, worker.session>>}
Corrects(w) ==
    /\ w.then = "correct"
    /\ writes' = Append(Tail(writes), Write("delivered", w.msg, "sent"))
    /\ IF w.session = worker.session THEN Tells(w.msg) ELSE TellsNothing
Sent(w) ==
    /\ w.then = "sent"
    /\ worker' = [worker EXCEPT !.consumed = w.msg]
\* The drain takes the next message, or is over.
Acknowledged(w) ==
    LET rest == Forgets(worker, w.msg)
    IN  /\ w.then = "ack"
        /\ IF MustDrain(rest)
           THEN /\ worker' = rest
                /\ writes' = Append(Tail(writes), [w EXCEPT !.msg = rest.consumed])
                /\ TellsNothing
           ELSE DrainEnds(Dropped(rest), w.session, FollowUps(rest) \ {w.msg})

\* The append returned: the mailbox takes over the status, then the caller goes on.
Appended ==
    /\ writes # <<>>
    /\ LET w == Head(writes)
       IN  /\ durable' = [durable EXCEPT ![w.msg] = Replayed(w.event, @)]
           /\ box' = [box EXCEPT ![w.msg].status = Updated(w.event)]
           /\ \/ /\ GoesOn(w) /\ writes' = Tail(writes)
                 /\ UNCHANGED <<worker, interrupts, history>>
              \/ /\ Forks(w) \/ Restarts(w) \/ Sent(w)
                 /\ writes' = Tail(writes) /\ UNCHANGED <<interrupts, history>>
              \/ CannotSteer(w) /\ UNCHANGED <<interrupts, history>>
              \/ Steering(w) /\ writes' = Tail(writes) /\ UNCHANGED history
              \/ Corrects(w) /\ UNCHANGED <<worker, interrupts>>
              \/ Acknowledged(w) /\ UNCHANGED interrupts
    /\ UNCHANGED <<used, counters>>

\* The append failed: nothing changed, and the caller sees it.
AppendFails ==
    /\ writes # <<>> /\ failures < MaxFailures
    /\ failures' = failures + 1
    /\ LET w    == Head(writes)
           lost == Status(w.msg) # "acknowledged" \* markFailed() refuses what was read
       IN  \/ /\ w.then = "sent"
              /\ worker' = [worker EXCEPT !.steering = IF box[w.msg].kind = "steer" THEN 0 ELSE @]
              /\ writes' = Tail(writes)
                    \o (IF lost THEN <<Write("failed", w.msg, "none")>> ELSE <<>>)
              /\ TellsNothing
           \/ w.then = "ack" /\ DrainEnds(worker, w.session, FollowUps(worker))
           \/ /\ w.then = "lost"
              /\ writes' = Tail(writes)
                    \o (IF lost THEN <<Write("failed", w.msg, "none")>> ELSE <<>>)
              /\ Overtakes(w.msg, Delivering(w.msg))
              /\ UNCHANGED <<worker, heard, repeated>>
           \/ /\ w.then \notin {"sent", "ack", "lost"}
              /\ writes' = Tail(writes) /\ UNCHANGED worker /\ TellsNothing
    /\ UNCHANGED <<mailbox, interrupts, crashes>>

\* The program dies and restores the Meeting: the task is interrupted.
Crash ==
    /\ crashes < MaxCrashes
    /\ crashes' = crashes + 1
    /\ box' = [m \in Messages |-> Restored(m)]
    /\ worker' = [worker EXCEPT !.status = IF @ = "running" \/ @ = "pending" THEN "ended" ELSE @,
                                !.session = 0, !.starting = FALSE, !.unread = FALSE,
                                !.reported = FALSE, !.recovered = FALSE, !.steering = 0,
                                !.consumed = 0, !.draining = 0, !.boundary = {},
                                !.parking = {}]
    /\ writes' = <<>>
    /\ interrupts' = {}
    /\ UNCHANGED <<durable, used, failures, history>>

Next ==
    \/ FollowsUp \/ Steer \/ Reviewed \/ Ends \/ Resumed \/ Launched \/ Prompts
    \/ Speaks \/ TurnEnds \/ Reports
    \/ AsksForReport \/ RecoversReport \/ RestartsStalled
    \/ \E m \in Messages, s \in Sessions : Steered(m, s) \/ SteerFails(m, s)
    \/ Appended \/ AppendFails \/ Crash

Spec == Init /\ [][Next]_vars

-----------------------------------------------------------------------------
(* Properties.                                                             *)

TypeOK ==
    /\ box \in [Messages -> Message]
    /\ worker \in Worker
    /\ writes \in Seq(JournalAppend)
    /\ interrupts \subseteq Messages \X Sessions
    /\ durable \in [Messages -> {"absent", "queued", "delivered", "acknowledged"}]
    /\ used \in 0 .. MaxMessages
    /\ {heard, repeated, overtaken} \subseteq SUBSET Messages
    /\ crashes \in 0 .. MaxCrashes /\ failures \in 0 .. MaxFailures

\* What the mailbox holds in memory is what a restart would replay from the
\* journal; only a delivery that a restart found unacknowledged is queued again
\* without an event (updateStatus() writes over a status, appendStatus() replays).
\* A message is excepted once it was sent again while the append of its delivery was
\* under way, or marked as failed then or after it: nothing in the code looks at that.
MemoryMatchesJournal ==
    /\ TypeOK
    /\ \A m \in Messages \ overtaken :
          \/ Status(m) = durable[m]
          \/ Status(m) = "queued" /\ durable[m] = "delivered" /\ crashes > 0

\* The journal acknowledges a message only after the journal says that it was
\* delivered: the send and its receipt stay in order, whatever fails between,
\* with the same exception.
AckFollowsDelivery ==
    [][\A m \in Messages \ overtaken :
          durable[m] # "acknowledged" /\ durable'[m] = "acknowledged"
             => durable[m] = "delivered"]_vars

\* No session is sent the same message twice unless an append failed or did not
\* return between: the paths that send it (a prompt, a turn, an interruption, a
\* correction) exclude each other.
RepeatedOnFailure == failures = 0 => repeated \subseteq overtaken
=============================================================================
