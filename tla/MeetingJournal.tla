--------------------------- MODULE MeetingJournal ---------------------------
(***************************************************************************)
(* electron/meeting-repository.ts: the append-only journal of a Meeting,   *)
(* its snapshot file, and what a restart reads of both.                    *)
(*                                                                         *)
(* append(), snapshot() and flush() are called at any time and only join   *)
(* the repository's promise chain `tail`; the chain's first job does its   *)
(* I/O, cut here at the calls that can fail or be interrupted.  A line is  *)
(* abstracted to the event it holds and to the newline that ends it: a     *)
(* write cut short leaves no line, a piece that does not parse, or a whole *)
(* event without its newline, and the next write continues that line.      *)
(***************************************************************************)
EXTENDS Integers, Sequences, FiniteSets, SequencesExt

CONSTANTS
    None,        \* an absent value
    Cut,         \* a file whose write was cut short
    MaxSeq,      \* bound: sequence numbers
    MaxFaults,   \* bound: failing I/O calls
    MaxStarts,   \* bound: processes that open the Meeting
    MaxSnapshots \* bound: snapshot() calls not yet settled

ASSUME JournalBounds ==
    /\ MaxSeq \in Nat \ {0} /\ MaxFaults \in Nat /\ MaxStarts \in Nat \ {0}
    /\ MaxSnapshots \in Nat

\* An event is known by the process that wrote it and its sequence number; the
\* first one of a process is 'meeting-created' or 'meeting-recovered'.
Event == [start : 1..MaxStarts, seq : 1..MaxSeq, opens : BOOLEAN]
Line == [event : Event \cup {None}, ended : BOOLEAN]
SavedState == [start : 1..MaxStarts, seq : 0..MaxSeq]
Job == [kind : {"append", "invalid", "snapshot"}, event : Event]
\* The jobs a flush() still awaits, and the last number reserved when it was called.
Flush == [jobs : Nat, seq : 0..MaxSeq]

ASSUME NoneAssumption ==
    /\ None # Cut
    /\ None \notin Event /\ None \notin SavedState /\ None \notin Flush
    /\ Cut \notin SavedState

VARIABLES
    \* the process
    running,       \* a process has the Meeting open
    start,         \* which one: 1, 2, ...
    seq,           \* the last sequence number reserved
    tail,          \* the promise chain: the jobs not yet settled
    io,            \* how far the first job got
    writeFault, pendingFault,
    flush,         \* the flush() in progress: the jobs it awaits, what it covers
    \* on disk
    file,          \* events.jsonl
    snapshot,      \* snapshot.json, or None
    tmp,           \* the newest snapshot.json.<pid>.tmp, Cut or None
    \* history, not in the code
    acked,         \* events whose append() resolved
    flushed,       \* the last sequence number a flush() of this process promised
    saved,         \* snapshot.json was saved, and no replacement has failed since
    faults

procVars == <<running, start, seq>>
queueVars == <<tail, io, writeFault, pendingFault>>
diskVars == <<file, snapshot, tmp>>
histVars == <<acked, saved, faults>>
vars == <<procVars, queueVars, flush, flushed, diskVars, histVars>>

-----------------------------------------------------------------------------
(* The journal file.                                                       *)

ExtendedTruncated(f, event, ended) == <<[event |-> event, ended |-> ended]>>

\* A write continues the last line when no newline ended it.
Extended(f, event, ended) ==
    IF f # <<>> /\ ~Last(f).ended
    THEN [f EXCEPT ![Len(f)] = [event |-> None, ended |-> ended]]
    ELSE Append(f, [event |-> event, ended |-> ended])

\* A failing write, or a crash during one, leaves any part of the line.
Torn(f, event) == {f, Extended(f, None, FALSE), Extended(f, event, FALSE)}

\* replay(): the lines that parse, in the order of the file.
Parsed(f) == {i \in DOMAIN f : f[i].event # None}
Replayed(f) == {f[i].event : i \in Parsed(f)}

\* The number of the last event a replay reads.
TailSeq(f) == IF Parsed(f) = {} THEN 0 ELSE f[Max(Parsed(f))].event.seq

-----------------------------------------------------------------------------
NextEvent(p, s, opens) == [start |-> p, seq |-> s, opens |-> opens]

Opening(p, s) == [kind |-> "append", event |-> NextEvent(p, s, TRUE)]

Init ==
    /\ running = TRUE /\ start = 1 /\ seq = 1
    /\ tail = <<Opening(1, 1)>> /\ io = "none"
    /\ writeFault = FALSE /\ pendingFault = FALSE
    /\ flush = None /\ flushed = 0
    /\ file = <<>> /\ snapshot = None /\ tmp = None
    /\ acked = {} /\ saved = FALSE /\ faults = 0

-----------------------------------------------------------------------------
(* Calls.  They reject at once when the repository has faulted.            *)

Writable == running /\ ~writeFault /\ ~pendingFault

\* append(): the sequence number is reserved in calling order; a payload that
\* cannot be written faults the repository for the calls after it.
CallAppend(kind) ==
    /\ Writable
    /\ seq < MaxSeq
    /\ seq' = seq + 1
    /\ tail' = Append(tail, [kind |-> kind, event |-> NextEvent(start, seq + 1, FALSE)])
    /\ pendingFault' = (kind = "invalid")
    /\ UNCHANGED <<running, start, io, writeFault, flush, flushed, diskVars, histVars>>

\* snapshot() serialises the state, and the sequence number, when it is called.
CallSnapshot ==
    /\ Writable
    /\ Cardinality({i \in DOMAIN tail : tail[i].kind = "snapshot"}) < MaxSnapshots
    /\ tail' = Append(tail, [kind |-> "snapshot", event |-> NextEvent(start, seq, FALSE)])
    /\ UNCHANGED <<procVars, io, writeFault, pendingFault, flush, flushed, diskVars, histVars>>

\* flush() awaits the chain as it is when it is called.
AwaitedJobsBefore == Len(tail) - 1
AwaitedJobs == Len(tail)

CallFlush ==
    /\ running
    /\ flush = None
    /\ flush' = [jobs |-> AwaitedJobs, seq |-> seq]
    /\ UNCHANGED <<procVars, queueVars, flushed, diskVars, histVars>>

\* Then it rejects on a fault.
SettleFlush ==
    /\ flush # None
    /\ flush.jobs = 0
    /\ flush' = None
    /\ flushed' = IF Writable THEN flush.seq ELSE flushed
    /\ UNCHANGED <<procVars, queueVars, diskVars, histVars>>

-----------------------------------------------------------------------------
(* The first job of the chain.                                             *)

Job1 == Head(tail)

Doing(kind, stage) == tail # <<>> /\ Job1.kind = kind /\ io = stage

\* The job settles, whatever its outcome, and the chain goes on.
AdvanceUnfaulted ==
    /\ UNCHANGED flush
    /\ IF writeFault THEN UNCHANGED <<tail, io>> ELSE tail' = Tail(tail) /\ io' = "none"
Advance ==
    /\ tail' = Tail(tail)
    /\ io' = "none"
    /\ flush' = IF flush # None /\ flush.jobs > 0 THEN [flush EXCEPT !.jobs = @ - 1] ELSE flush

StillWritable == UNCHANGED writeFault
FailStop == writeFault' = TRUE

IOFails == faults < MaxFaults /\ faults' = faults + 1

\* A fault that happened earlier in the chain rejects the jobs behind it.
SkippedKindsAppend == {"append"}
SkippedKinds == {"append", "snapshot"}

SkipFaulted ==
    /\ tail # <<>>
    /\ Job1.kind \in SkippedKinds
    /\ io = "none"
    /\ writeFault
    /\ Advance
    /\ UNCHANGED <<procVars, writeFault, pendingFault, flushed, diskVars, histVars>>

CanStart(kind) == Doing(kind, "none") /\ (kind \in SkippedKinds => ~writeFault)

RejectInvalid ==
    /\ Doing("invalid", "none")
    /\ writeFault' = TRUE
    /\ pendingFault' = FALSE
    /\ Advance
    /\ UNCHANGED <<procVars, flushed, diskVars, histVars>>

\* mkdir() and open().
OpenFile ==
    /\ CanStart("append")
    /\ \/ io' = "open" /\ UNCHANGED <<tail, flush, writeFault, faults>>
       \/ IOFails /\ FailStop /\ Advance
    /\ UNCHANGED <<procVars, pendingFault, flushed, diskVars, acked, saved>>

WriteLine ==
    /\ Doing("append", "open")
    /\ \/ /\ file' = Extended(file, Job1.event, TRUE)
          /\ io' = "written"
          /\ UNCHANGED <<tail, flush, writeFault, faults>>
       \/ /\ file' \in Torn(file, Job1.event)
          /\ IOFails /\ FailStop /\ Advance
    /\ UNCHANGED <<procVars, pendingFault, flushed, snapshot, tmp, acked, saved>>

\* sync() and close(); the line stays in the file when they fail.
SyncLine ==
    /\ Doing("append", "written")
    /\ \/ acked' = acked \cup {Job1.event} /\ UNCHANGED <<writeFault, faults>>
       \/ IOFails /\ FailStop /\ UNCHANGED acked
    /\ Advance
    /\ UNCHANGED <<procVars, pendingFault, flushed, diskVars, saved>>

\* A snapshot that fails only rejects its own promise.
WriteTmp ==
    /\ CanStart("snapshot")
    /\ \/ /\ tmp' = [start |-> start, seq |-> Job1.event.seq]
          /\ io' = "written"
          /\ UNCHANGED <<tail, flush, faults>>
       \/ tmp' \in {tmp, Cut} /\ IOFails /\ Advance
    /\ UNCHANGED <<procVars, writeFault, pendingFault, flushed, file, snapshot, acked, saved>>

\* rename(), or on Windows rm() and a second rename().
ReplaceSnapshot ==
    /\ tail # <<>>
    /\ Job1.kind = "snapshot"
    /\ io \in {"written", "removed"}
    /\ \/ /\ snapshot' = tmp /\ tmp' = None
          /\ saved' = TRUE
          /\ Advance /\ UNCHANGED faults
       \/ /\ io = "written"
          /\ snapshot' = None
          /\ io' = "removed"
          /\ UNCHANGED <<tmp, saved, tail, flush, faults>>
       \/ /\ saved' = FALSE
          /\ IOFails /\ Advance /\ UNCHANGED <<snapshot, tmp>>
    /\ UNCHANGED <<procVars, writeFault, pendingFault, flushed, file, acked>>

-----------------------------------------------------------------------------
(* Crash and recovery.                                                     *)

\* A written line that is not synced yet may survive in any part.
Crash ==
    /\ running
    /\ running' = FALSE
    /\ tail' = <<>> /\ io' = "none" /\ writeFault' = FALSE /\ pendingFault' = FALSE
    /\ flush' = None
    /\ file' \in CASE Doing("append", "open") -> Torn(file, Job1.event)
                   [] Doing("append", "written") ->
                        {file} \cup (IF Last(file).event = Job1.event
                                     THEN Torn(Front(file), Job1.event) ELSE {})
                   [] OTHER -> {file}
    /\ tmp' \in IF CanStart("snapshot") THEN {tmp, Cut} ELSE {tmp}
    /\ UNCHANGED <<start, seq, flushed, snapshot, histVars>>

\* readSnapshotProjection(): a crash may leave the tmp file alone.
ReadableSnapshot ==
    IF snapshot # None THEN snapshot
    ELSE IF tmp = Cut THEN None ELSE tmp

\* listRecoverable(): the meeting is dropped when nothing names its directory.
Recoverable == ReadableSnapshot # None \/ \E e \in Replayed(file) : e.opens

SnapshotSeq == IF ReadableSnapshot = None THEN 0 ELSE ReadableSnapshot.seq

RecoverySeqOfSnapshot == IF ReadableSnapshot = None THEN TailSeq(file) ELSE SnapshotSeq
RecoverySeq == IF TailSeq(file) > SnapshotSeq THEN TailSeq(file) ELSE SnapshotSeq

\* listRecoverable() reaps what crashed runs left behind a good snapshot, and
\* the orchestrator opens the Meeting where it ended.
Restart ==
    /\ ~running
    /\ start < MaxStarts
    /\ Recoverable
    /\ RecoverySeq < MaxSeq
    /\ running' = TRUE
    /\ start' = start + 1
    /\ seq' = RecoverySeq + 1
    /\ tail' = <<Opening(start + 1, RecoverySeq + 1)>>
    /\ flushed' = 0
    /\ tmp' = IF snapshot = None THEN tmp ELSE None
    /\ saved' = (saved /\ snapshot # None)
    /\ UNCHANGED <<io, writeFault, pendingFault, flush, file, snapshot, acked, faults>>

-----------------------------------------------------------------------------
JobStep ==
    \/ SkipFaulted \/ RejectInvalid \/ OpenFile \/ WriteLine \/ SyncLine
    \/ WriteTmp \/ ReplaceSnapshot

Next ==
    \/ CallAppend("append") \/ CallAppend("invalid") \/ CallSnapshot \/ CallFlush
    \/ SettleFlush \/ JobStep
    \/ Crash \/ Restart

Spec == Init /\ [][Next]_vars

\* The file system answers and the event loop runs the continuations.
FairSpec == Spec /\ WF_vars(JobStep) /\ WF_vars(SettleFlush)

-----------------------------------------------------------------------------
TypeOK ==
    /\ running \in BOOLEAN /\ start \in 1..MaxStarts /\ seq \in 1..MaxSeq
    /\ tail \in Seq(Job) /\ io \in {"none", "open", "written", "removed"}
    /\ writeFault \in BOOLEAN /\ pendingFault \in BOOLEAN
    /\ flush \in Flush \cup {None}
    /\ file \in Seq(Line)
    /\ snapshot \in SavedState \cup {None} /\ tmp \in SavedState \cup {Cut, None}
    /\ acked \subseteq Event /\ flushed \in 0..MaxSeq /\ saved \in BOOLEAN /\ faults \in 0..MaxFaults

-----------------------------------------------------------------------------
(* Safety.                                                                 *)

\* The sequence numbers a replay reads increase, across restarts, torn lines,
\* faults and snapshots: replayAfter() pages by them.
ReplayOrdered ==
    \A i, j \in Parsed(file) : i < j => file[i].event.seq < file[j].event.seq

\* "A failed write permanently faults this repository instance, so no later
\* state can appear to overtake the gap" (class comment): an append resolves
\* only when every number its process reserved before has resolved.
NoAckOvertakesGap ==
    \A e \in acked : e.opens \/ \E f \in acked : f.start = e.start /\ f.seq = e.seq - 1

\* What append() resolved, and what flush() promised of the appends before it, is
\* in the file for good, except the opening event of a process that found a torn
\* line.
AcknowledgedSurvive ==
    /\ \A e \in acked : e.opens \/ e \in Replayed(file)
    /\ flushed > 0 => \E e \in acked : e.start = start /\ e.seq = flushed

\* A snapshot that can be read back covers only numbers its process appended
\* with success, so it is never ahead of the journal it summarises; and a crash
\* while it is being replaced never leaves a recovery without one (the comment of
\* readSnapshotProjection()).
SnapshotTrusted ==
    LET s == ReadableSnapshot IN
    /\ s # None => \E e \in acked : e.start = s.start /\ e.seq = s.seq
    /\ saved => s # None

(* Liveness.                                                               *)

\* Every append, snapshot and flush settles, also behind a fault: the chain empties,
\* or jobs go on leaving it, first in first out.
EveryCallSettles ==
    /\ []<>(tail = <<>>) \/ []<><<tail # <<>> /\ tail' = Tail(tail)>>_vars
    /\ flush # None ~> flush = None
=============================================================================
