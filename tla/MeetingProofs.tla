---------------------------- MODULE MeetingProofs ---------------------------
(***************************************************************************)
(* The record of a Meeting and its hosts: what the journal acknowledges, a *)
(* replay reads and a recovery numbers on, for every bound on sequence     *)
(* numbers, faults and processes; and who hears a message between hosts,   *)
(* which sessions an end reaches and what the watchdog may say, for every  *)
(* set of hosts and every number of groups, starts and messages.           *)
(***************************************************************************)
EXTENDS MeetingJournal, HostGroups, SequenceTheorems, WellFoundedInduction, TLAPS

-----------------------------------------------------------------------------
(* The journal.                                                            *)

\* A job that holds a sequence number.
Reserves(job) == job.kind \in {"append", "invalid"}

\* The chain holds jobs of the running process, with increasing numbers; the opening
\* event of the process comes first.
TailOK ==
    /\ ~running => tail = <<>>
    /\ \A i \in DOMAIN tail :
          /\ tail[i].event.start = start /\ tail[i].event.seq <= seq
          /\ tail[i].event.opens => i = 1 /\ tail[i].kind = "append"
    /\ \A i, j \in DOMAIN tail :
          i < j /\ Reserves(tail[i]) /\ Reserves(tail[j]) =>
             tail[i].event.seq < tail[j].event.seq

\* Only the first job has begun, only without a fault, and at a step of its kind.
StageOK ==
    /\ io # "none" => tail # <<>> /\ ~writeFault
    /\ io = "open" => Job1.kind = "append"
    /\ io = "written" => Job1.kind \in {"append", "snapshot"}
    /\ io = "removed" => Job1.kind = "snapshot"
    /\ io \in {"written", "removed"} /\ Job1.kind = "snapshot" => tmp \in SavedState

\* Acknowledged numbers are older than every number still on the chain.
AckedOK ==
    \A e \in acked :
        \/ e.start < start
        \/ /\ e.start = start /\ e.seq <= seq
           /\ \A i \in DOMAIN tail : Reserves(tail[i]) => e.seq < tail[i].event.seq

\* Number n of the running process is acknowledged, or one of the first k jobs of the
\* chain will write it, or a fault has cut it off and rejects what comes later.
Settled(n, k) ==
    \/ writeFault
    \/ \E e \in acked : e.start = start /\ e.seq = n
    \/ \E i \in 1..k : Reserves(tail[i]) /\ tail[i].event.seq = n

\* What a call promises to cover was reserved before it: the last number, what a
\* flush awaits, what a snapshot summarises, and the predecessor of an append.
NumbersOK ==
    /\ running => Settled(seq, Len(tail))
    /\ flush # None =>
          /\ running /\ flush.jobs \in 0..Len(tail) /\ flush.seq > 0
          /\ Settled(flush.seq, flush.jobs)
    /\ \A i \in DOMAIN tail :
          /\ tail[i].kind = "snapshot" => Settled(tail[i].event.seq, i - 1)
          /\ Reserves(tail[i]) /\ ~tail[i].event.opens => Settled(tail[i].event.seq - 1, i - 1)

\* The first job has written its line.
LineWritten == io = "written" /\ Job1.kind = "append"

\* Every line but the last has its newline.
Whole(f) == \A i \in DOMAIN f : i < Len(f) => f[i].ended

\* Only the last line may lack its newline, and nobody was told that it holds; a
\* process that goes on writing has found such a line at most before its first.
LinesOK ==
    /\ Whole(file)
    /\ file # <<>> /\ ~Last(file).ended =>
          /\ Last(file).event \notin acked
          /\ running /\ ~writeFault => tail # <<>> /\ Job1.event.opens /\ io \in {"none", "open"}
    /\ LineWritten =>
          /\ file # <<>> /\ Last(file).ended
          /\ Last(file).event # Job1.event => Job1.event.opens

\* What is in the file is older than what is still to be written.
FileOK ==
    \A i \in Parsed(file) :
        running =>
          /\ file[i].event.seq <= seq
          /\ \A j \in DOMAIN tail : Reserves(tail[j]) =>
                \/ file[i].event.seq < tail[j].event.seq
                \/ j = 1 /\ LineWritten /\ i = Len(file) /\ file[i].event = Job1.event

\* What a saved state covers was acknowledged.
Covered(s) == \E e \in acked : e.start = s.start /\ e.seq = s.seq

\* A saved state is covered, and there is one to read while it is being replaced.
SavedOK ==
    /\ snapshot # None => Covered(snapshot)
    /\ tmp \in SavedState => Covered(tmp)
    /\ saved => \/ snapshot # None
                \/ tmp \in SavedState /\ (io = "removed" \/ ~running)

JournalInv ==
    /\ TypeOK /\ TailOK /\ StageOK /\ AckedOK /\ NumbersOK
    /\ LinesOK /\ FileOK /\ ReplayOrdered
    /\ NoAckOvertakesGap /\ AcknowledgedSurvive /\ SavedOK

-----------------------------------------------------------------------------
(* Sequences of jobs and of lines.                                         *)

\* The first of a chain of jobs, and those behind it.
LEMMA HeadAndTail ==
    ASSUME NEW s \in Seq(Job), s # <<>>
    PROVE  /\ Head(s) = s[1] /\ Head(s) \in Job /\ 1 \in DOMAIN s
           /\ Tail(s) \in Seq(Job) /\ Len(Tail(s)) = Len(s) - 1 /\ Len(s) \in Nat \ {0}
           /\ \A i \in DOMAIN Tail(s) : i + 1 \in DOMAIN s /\ Tail(s)[i] = s[i + 1]
OBVIOUS

\* A job joins the chain.
LEMMA Joined ==
    ASSUME NEW s \in Seq(Job), NEW job \in Job
    PROVE  /\ Append(s, job) \in Seq(Job) /\ Len(Append(s, job)) = Len(s) + 1 /\ Len(s) \in Nat
           /\ \A i \in DOMAIN s : i \in DOMAIN Append(s, job) /\ Append(s, job)[i] = s[i]
           /\ \A i \in DOMAIN Append(s, job) : i \in DOMAIN s \/ i = Len(s) + 1
           /\ Append(s, job)[Len(s) + 1] = job
           /\ s # <<>> => Head(Append(s, job)) = Head(s)
           /\ s = <<>> => Head(Append(s, job)) = job
           /\ Append(s, job) # <<>>
OBVIOUS

\* A set of numbers with a bound has a greatest one.
LEMMA GreatestExists ==
    ASSUME NEW S \in SUBSET Nat, S # {}, NEW n \in Nat, \A x \in S : x <= n
    PROVE  Max(S) \in S /\ \A x \in S : x <= Max(S)
<1> DEFINE bounds == {b \in Nat : \A x \in S : x <= b}
<1>1. PICK b \in bounds : \A c \in bounds : ~(<<c, b>> \in OpToRel(<, Nat))
  <2>1. n \in bounds
    OBVIOUS
  <2> QED
    BY <2>1, NatLessThanWellFounded, WFMin
<1>2. \A c \in bounds : ~(c < b)
  BY <1>1 DEF OpToRel
<1>3. b \in S
  <2> SUFFICES ASSUME b \notin S PROVE FALSE
    OBVIOUS
  <2>1. PICK x \in S : TRUE
    OBVIOUS
  <2>2. b - 1 \in bounds
    BY <2>1
  <2> QED
    BY <1>2, <2>2
<1> QED
  BY <1>3 DEF Max

\* What a write of event e, with its newline or without, makes of file f: the new line
\* is the last one, it is lost when it continues a torn one, and no other whole line
\* is touched.
Grown(f, g, e, b) ==
    /\ g \in Seq(Line) /\ g # <<>> /\ Whole(g)
    /\ g[Len(g)].ended = b
    /\ g[Len(g)].event = e \/ g[Len(g)].event = None
    /\ f = <<>> \/ f[Len(f)].ended => g[Len(g)].event = e /\ Len(g) = Len(f) + 1
    /\ \A i \in Parsed(g) : \/ i \in Parsed(f) /\ g[i] = f[i] /\ i < Len(g)
                            \/ i = Len(g) /\ g[i].event = e
    /\ \A i \in DOMAIN f : (i < Len(f) \/ f[i].ended) => i \in DOMAIN g /\ g[i] = f[i]

LEMMA ExtendedFile ==
    ASSUME NEW f \in Seq(Line), Whole(f),
           NEW e \in Event \cup {None}, NEW b \in BOOLEAN, NEW g, g = Extended(f, e, b)
    PROVE  Grown(f, g, e, b)
<1> USE DEF Whole, Grown
<1>1. CASE f = <<>> \/ f[Len(f)].ended
  <2>1. g = Append(f, [event |-> e, ended |-> b])
    BY <1>1 DEF Extended, Last
  <2>2. [event |-> e, ended |-> b] \in Line
    BY DEF Line
  <2>3. /\ g \in Seq(Line) /\ Len(g) = Len(f) + 1 /\ Len(f) \in Nat
        /\ \A i \in DOMAIN f : i \in DOMAIN g /\ g[i] = f[i] /\ i < Len(g)
        /\ \A i \in DOMAIN g : i \in DOMAIN f \/ i = Len(g)
        /\ g[Len(g)] = [event |-> e, ended |-> b] /\ g # <<>>
    BY <2>1, <2>2
  <2>4. \A i \in DOMAIN f : f[i].ended
    BY <1>1
  <2> QED
    BY <2>3, <2>4, <1>1 DEF Parsed
<1>2. CASE f # <<>> /\ ~f[Len(f)].ended
  <2>1. g = [f EXCEPT ![Len(f)] = [event |-> None, ended |-> b]]
    BY <1>2 DEF Extended, Last
  <2>2. [event |-> None, ended |-> b] \in Line
    BY DEF Line
  <2>3. /\ g \in Seq(Line) /\ Len(g) = Len(f) /\ Len(f) \in Nat /\ DOMAIN g = DOMAIN f
        /\ \A i \in DOMAIN f : i < Len(f) => g[i] = f[i]
        /\ g[Len(g)] = [event |-> None, ended |-> b] /\ g # <<>>
        /\ \A i \in DOMAIN f : i < Len(f) \/ i = Len(f)
    BY <1>2, <2>1, <2>2
  <2>4. g[Len(g)].ended = b /\ g[Len(g)].event = None
    BY <2>3
  <2>5. \A i \in Parsed(g) : i \in Parsed(f) /\ g[i] = f[i] /\ i < Len(g)
    BY <2>3, <2>4 DEF Parsed
  <2>6. \A i \in DOMAIN f : (i < Len(f) \/ f[i].ended) => i \in DOMAIN g /\ g[i] = f[i]
    BY <2>3, <1>2
  <2>7. \A i \in DOMAIN g : i < Len(g) => g[i].ended
    BY <2>3
  <2> QED
    BY <2>3, <2>4, <2>5, <2>6, <2>7, <1>2
<1> QED
  BY <1>1, <1>2

-----------------------------------------------------------------------------
(* The chain.                                                              *)

\* What a job of the chain holds.
LEMMA JobFields ==
    ASSUME NEW job \in Job
    PROVE  /\ job.event \in Event /\ job.event.seq \in Nat \ {0} /\ job.event.start \in Nat
           /\ job.event.opens \in BOOLEAN /\ job.kind \in {"append", "invalid", "snapshot"}
<1>1. job.event \in Event /\ job.kind \in {"append", "invalid", "snapshot"}
  BY DEF Job
<1> QED
  BY <1>1, JournalBounds DEF Event
LEMMA ChainFields ==
    ASSUME tail \in Seq(Job), NEW i \in DOMAIN tail
    PROVE  /\ tail[i] \in Job /\ i \in Nat \ {0} /\ i <= Len(tail)
           /\ tail[i].event \in Event /\ tail[i].event.seq \in Nat \ {0}
           /\ tail[i].event.start \in Nat
           /\ tail[i].event.opens \in BOOLEAN
           /\ tail[i].kind \in {"append", "invalid", "snapshot"}
<1>1. tail[i] \in Job /\ i \in Nat \ {0} /\ i <= Len(tail)
  OBVIOUS
<1> QED
  BY <1>1, JobFields

\* What a line that parses holds.
LEMMA LineFields ==
    ASSUME NEW f \in Seq(Line), NEW i \in Parsed(f)
    PROVE  /\ f[i].event \in Event /\ f[i].event.seq \in Nat \ {0}
           /\ i \in DOMAIN f /\ i \in Nat \ {0} /\ i <= Len(f)
<1>1. f[i] \in Line /\ i \in DOMAIN f /\ f[i].event # None
  BY DEF Parsed
<1>2. f[i].event \in Event
  BY <1>1 DEF Line
<1> QED
  BY <1>1, <1>2, JournalBounds DEF Event

\* What the first job is.
LEMMA FirstJob ==
    ASSUME TypeOK, TailOK, tail # <<>>
    PROVE  /\ Job1 \in Job /\ Job1 = tail[1] /\ 1 \in DOMAIN tail
           /\ Job1.event \in Event /\ Job1.event.start = start /\ running
           /\ start \in Nat /\ seq \in Nat /\ Job1.event.seq \in Nat \ {0}
<1>1. Job1 \in Job /\ Job1 = tail[1] /\ 1 \in DOMAIN tail
  BY HeadAndTail DEF TypeOK, Job1
<1>2. Job1.event \in Event /\ Job1.event.seq \in Nat \ {0}
  BY <1>1, JobFields
<1> QED
  BY <1>1, <1>2, JournalBounds DEF TypeOK, TailOK

\* A step that settles the first job keeps the chain in order, if a number it held is
\* acknowledged by the step or cut off by a fault.
LEMMA AdvanceChain ==
    ASSUME TypeOK, TailOK, StageOK, AckedOK, NumbersOK, FileOK, tail # <<>>,
           Advance, UNCHANGED procVars, writeFault => writeFault',
           acked \subseteq acked', acked' \subseteq acked \cup {Job1.event},
           Job1.kind # "append" => acked' = acked,
           Reserves(Job1) => writeFault' \/ Job1.event \in acked',
           \A i \in Parsed(file') :
               \/ i \in Parsed(file) /\ file'[i] = file[i]
               \/ file'[i].event = Job1.event /\ Job1.kind = "append"
    PROVE  TailOK' /\ StageOK' /\ AckedOK' /\ NumbersOK' /\ FileOK'
<1>1. /\ tail' = Tail(tail) /\ io' = "none" /\ Len(tail') = Len(tail) - 1
      /\ Len(tail) \in Nat \ {0}
      /\ \A i \in DOMAIN tail' : i + 1 \in DOMAIN tail /\ tail'[i] = tail[i + 1] /\ i \in Nat \ {0}
      /\ DOMAIN tail' = 1 .. Len(tail) - 1
  BY HeadAndTail DEF Advance, TypeOK
<1>2. running' = running /\ start' = start /\ seq' = seq
  BY DEF procVars
<1>3. /\ Job1 = tail[1] /\ 1 \in DOMAIN tail /\ Job1.event.start = start /\ running
      /\ Job1.event.seq \in Nat /\ Job1.event.seq <= seq /\ start \in Nat /\ seq \in Nat
  BY FirstJob DEF TailOK
<1>4. \A i \in DOMAIN tail : tail[i].event.seq \in Nat
  BY ChainFields DEF TypeOK
<1>5. \A i \in DOMAIN tail' : Reserves(Job1) /\ Reserves(tail'[i]) =>
         Job1.event.seq < tail'[i].event.seq
  BY <1>1, <1>3 DEF TailOK
<1>6. TailOK'
  BY <1>1, <1>2, <1>3 DEF TailOK
<1>7. StageOK'
  BY <1>1 DEF StageOK
<1>8. AckedOK'
  <2> SUFFICES ASSUME NEW e \in acked'
               PROVE  \/ e.start < start
                      \/ /\ e.start = start /\ e.seq <= seq
                         /\ \A i \in DOMAIN tail' : Reserves(tail'[i]) => e.seq < tail'[i].event.seq
    BY <1>2 DEF AckedOK
  <2>1. CASE e \in acked
    BY <2>1, <1>1 DEF AckedOK
  <2>2. CASE e = Job1.event /\ e \notin acked
    <3>1. Reserves(Job1)
      BY <2>2 DEF Reserves
    <3> QED
      BY <2>2, <3>1, <1>3, <1>5
  <2> QED
    BY <2>1, <2>2
<1>9. ASSUME NEW n \in Nat, NEW k \in 1..Len(tail), Settled(n, k)
      PROVE  Settled(n, k - 1)'
  <2>1. CASE writeFault
    BY <2>1 DEF Settled
  <2>2. CASE \E e \in acked : e.start = start /\ e.seq = n
    BY <2>2, <1>2 DEF Settled
  <2>3. CASE \E i \in 1..k : Reserves(tail[i]) /\ tail[i].event.seq = n
    <3>1. PICK i \in 1..k : Reserves(tail[i]) /\ tail[i].event.seq = n
      BY <2>3
    <3>2. CASE i = 1
      <4>1. writeFault' \/ (Job1.event \in acked' /\ Job1.event.start = start /\ Job1.event.seq = n)
        BY <3>1, <3>2, <1>3
      <4> QED
        BY <4>1, <1>2 DEF Settled
    <3>3. CASE i # 1
      <4>1. i - 1 \in 1..(k - 1) /\ i - 1 \in DOMAIN tail' /\ (i - 1) + 1 = i
        BY <3>3, <1>1
      <4>2. tail'[i - 1] = tail[i]
        BY <4>1, <1>1
      <4>3. Reserves(tail'[i - 1]) /\ tail'[i - 1].event.seq = n
        BY <3>1, <4>2
      <4>4. \E j \in 1..(k - 1) : Reserves(tail'[j]) /\ tail'[j].event.seq = n
        BY <4>1, <4>3
      <4> QED
        BY <4>4 DEF Settled, Reserves
    <3> QED
      BY <3>2, <3>3
  <2> QED
    BY <1>9, <2>1, <2>2, <2>3 DEF Settled
<1>10. ASSUME NEW n \in Nat, Settled(n, 0)
       PROVE  Settled(n, 0)'
  BY <1>10, <1>2 DEF Settled
<1>11. NumbersOK'
  <2>1. running' => Settled(seq, Len(tail))'
    BY <1>1, <1>2, <1>3, <1>9 DEF NumbersOK, Settled
  <2>2. flush' # None =>
          /\ running' /\ flush'.jobs \in 0..Len(tail') /\ flush'.seq > 0
          /\ Settled(flush.seq, flush.jobs)'
    <3> SUFFICES ASSUME flush' # None
                 PROVE  /\ running' /\ flush'.jobs \in 0..Len(tail') /\ flush'.seq > 0
                        /\ Settled(flush.seq, flush.jobs)'
      OBVIOUS
    <3>1. flush # None /\ flush \in Flush /\ flush.jobs \in 0..Len(tail) /\ flush.seq \in Nat \ {0}
      BY DEF Advance, NumbersOK, TypeOK, Flush
    <3>2. CASE flush.jobs > 0
      <4>1. flush'.jobs = flush.jobs - 1 /\ flush'.seq = flush.seq
        BY <3>1, <3>2 DEF Advance, Flush
      <4>2. Settled(flush.seq, flush.jobs)
        BY <3>1 DEF NumbersOK
      <4>3. flush.jobs \in 1..Len(tail)
        BY <3>1, <3>2
      <4>5. \A n \in Nat, k \in 1..Len(tail) : Settled(n, k) =>
               \/ writeFault'
               \/ \E e \in acked' : e.start = start' /\ e.seq = n
               \/ \E i \in 1..(k - 1) : Reserves(tail'[i]) /\ tail'[i].event.seq = n
        BY <1>9 DEF Settled, Reserves
      <4>6. \/ writeFault'
            \/ \E e \in acked' : e.start = start' /\ e.seq = flush'.seq
            \/ \E i \in 1..flush'.jobs : Reserves(tail'[i]) /\ tail'[i].event.seq = flush'.seq
        BY <3>1, <4>1, <4>2, <4>3, <4>5
      <4>7. running' /\ flush'.jobs \in 0..Len(tail') /\ flush'.seq > 0
        BY <3>1, <4>1, <4>3, <1>1, <1>2, <1>3
      <4> QED
        BY <4>6, <4>7 DEF Settled, Reserves
    <3>3. CASE flush.jobs = 0
      <4>1. flush' = flush
        BY <3>1, <3>3 DEF Advance
      <4>2. Settled(flush.seq, 0)
        BY <3>1, <3>3 DEF NumbersOK
      <4> QED
        BY <3>1, <3>3, <4>1, <4>2, <1>1, <1>2, <1>3 DEF Settled
    <3> QED
      BY <3>1, <3>2, <3>3
  <2>3. ASSUME NEW i \in DOMAIN tail'
        PROVE  /\ tail'[i].kind = "snapshot" => Settled(tail[i].event.seq, i - 1)'
               /\ Reserves(tail'[i]) /\ ~tail'[i].event.opens =>
                     Settled(tail[i].event.seq - 1, i - 1)'
    <3>1. i + 1 \in DOMAIN tail /\ tail'[i] = tail[i + 1] /\ i \in 1..Len(tail)
      BY <1>1
    <3>2. /\ tail[i + 1].kind = "snapshot" => Settled(tail[i + 1].event.seq, i)
          /\ Reserves(tail[i + 1]) /\ ~tail[i + 1].event.opens => Settled(tail[i + 1].event.seq - 1, i)
      BY <3>1 DEF NumbersOK
    <3>3. tail[i + 1].event.seq \in Nat \ {0}
      BY <3>1, ChainFields DEF TypeOK
    <3>4. \A n \in Nat, k \in 1..Len(tail) : Settled(n, k) =>
               \/ writeFault'
               \/ \E e \in acked' : e.start = start' /\ e.seq = n
               \/ \E j \in 1..(k - 1) : Reserves(tail'[j]) /\ tail'[j].event.seq = n
      BY <1>9 DEF Settled, Reserves
    <3>5. \A n \in Nat : Settled(n, i) => Settled(n, i - 1)'
      BY <3>1, <3>4 DEF Settled, Reserves
    <3>6. \A n \in Nat :
             /\ n = tail'[i].event.seq /\ tail'[i].kind = "snapshot" => Settled(n, i - 1)'
             /\ n = tail'[i].event.seq - 1 /\ Reserves(tail'[i]) /\ ~tail'[i].event.opens =>
                   Settled(n, i - 1)'
      BY <3>1, <3>2, <3>5 DEF Reserves
    <3>7. tail'[i].event.seq \in Nat /\ tail'[i].event.seq - 1 \in Nat
      BY <3>1, <3>3
    <3> QED
      BY <3>6, <3>7 DEF Settled
  <2> QED
    BY <2>1, <2>2, <2>3 DEF NumbersOK, Reserves
<1>12. FileOK'
  <2> SUFFICES ASSUME NEW i \in Parsed(file')
               PROVE  /\ file'[i].event.seq <= seq
                      /\ \A j \in DOMAIN tail' : Reserves(tail'[j]) =>
                            file'[i].event.seq < tail'[j].event.seq
    BY <1>2 DEF FileOK, Parsed, Reserves
  <2>1. CASE file'[i].event = Job1.event /\ Job1.kind = "append"
    BY <2>1, <1>3, <1>5 DEF Reserves
  <2>2. CASE i \in Parsed(file) /\ file'[i] = file[i] /\ ~(file'[i].event = Job1.event /\ Job1.kind = "append")
    <3>1. /\ file[i].event.seq <= seq
          /\ \A j \in DOMAIN tail : Reserves(tail[j]) => file[i].event.seq < tail[j].event.seq
      BY <2>2, <1>3 DEF FileOK, LineWritten
    <3> QED
      BY <3>1, <2>2, <1>1
  <2> QED
    BY <2>1, <2>2
<1> QED
  BY <1>6, <1>7, <1>8, <1>11, <1>12

\* What a job of the chain covers is settled however the chain grows behind it.
LEMMA JoinSettled ==
    ASSUME tail \in Seq(Job), NEW job \in Job, tail' = Append(tail, job),
           UNCHANGED <<writeFault, acked, start>>,
           NEW n \in Nat, NEW k \in 0..Len(tail), Settled(n, k)
    PROVE  Settled(n, k)'
<1>1. \A i \in 1..k : tail'[i] = tail[i]
  BY Joined
<1> QED
  BY <1>1 DEF Settled, Reserves

\* A call that joins the chain: an append with the next number, or a snapshot of what
\* was reserved so far.
LEMMA JoinKeeps ==
    ASSUME JournalInv, Writable, NEW job \in Job, tail' = Append(tail, job),
           job.event.start = start, ~job.event.opens,
           job.event.seq = seq', seq' \in 1..MaxSeq,
           seq' = IF Reserves(job) THEN seq + 1 ELSE seq,
           pendingFault' \in BOOLEAN,
           UNCHANGED <<running, start, io, writeFault, flush, flushed, diskVars, histVars>>
    PROVE  JournalInv'
<1> USE DEF JournalInv
<1>1. /\ tail' \in Seq(Job) /\ Len(tail') = Len(tail) + 1 /\ Len(tail) \in Nat
      /\ \A i \in DOMAIN tail : i \in DOMAIN tail' /\ tail'[i] = tail[i]
      /\ \A i \in DOMAIN tail' : i \in DOMAIN tail \/ i = Len(tail) + 1
      /\ tail'[Len(tail) + 1] = job /\ tail' # <<>>
      /\ tail # <<>> => Job1' = Job1
  BY Joined DEF TypeOK, Job1
<1>2. \A i \in DOMAIN tail' : i \in Nat /\ (i \in DOMAIN tail => i < Len(tail) + 1)
  BY <1>1
<1>3. seq \in Nat /\ start \in Nat /\ \A i \in DOMAIN tail : tail[i].event.seq \in Nat
  BY ChainFields DEF TypeOK
<1>4. TypeOK'
  BY <1>1 DEF TypeOK, diskVars, histVars
<1>5. TailOK'
  <2>1. ~running' => tail' = <<>>
    BY DEF Writable
  <2>2. ASSUME NEW i \in DOMAIN tail'
        PROVE  /\ tail'[i].event.start = start' /\ tail'[i].event.seq <= seq'
               /\ tail'[i].event.opens => i = 1 /\ tail'[i].kind = "append"
    BY <1>1, <1>3 DEF TailOK
  <2>3. ASSUME NEW i \in DOMAIN tail', NEW j \in DOMAIN tail', i < j,
               Reserves(tail'[i]), Reserves(tail'[j])
        PROVE  tail'[i].event.seq < tail'[j].event.seq
    BY <1>1, <1>2, <1>3, <2>3 DEF TailOK
  <2> QED
    BY <2>1, <2>2, <2>3 DEF TailOK, Reserves
<1>6. StageOK'
  BY <1>1 DEF StageOK, diskVars
<1>7. AckedOK'
  BY <1>1, <1>3 DEF AckedOK, Reserves, histVars, TypeOK, Event
<1>8. \A n \in Nat : \A k \in 0..Len(tail) : Settled(n, k) => Settled(n, k)'
  BY JoinSettled DEF TypeOK, histVars
<1>9. running /\ Settled(seq, Len(tail))
  BY DEF NumbersOK, Writable
<1>10. NumbersOK'
  <2>1. Settled(seq, Len(tail))'
    <3>1. CASE Reserves(job)
      BY <1>1, <3>1 DEF Settled
    <3>2. CASE ~Reserves(job)
      <4>1. seq' = seq
        BY <3>2
      <4>2. \A n \in Nat : n = seq => Settled(n, Len(tail))
        BY <1>9
      <4>3. \A n \in Nat : n = seq => \A k \in Nat : k = Len(tail) => Settled(n, k)'
        BY <1>1, <1>8, <4>2
      <4> QED
        BY <1>1, <1>3, <4>1, <4>3 DEF Settled
    <3> QED
      BY <3>1, <3>2
  <2>2. flush' # None =>
          /\ running' /\ flush'.jobs \in 0..Len(tail') /\ flush'.seq > 0
          /\ Settled(flush.seq, flush.jobs)'
    <3> SUFFICES ASSUME flush # None
                 PROVE  /\ running' /\ flush.jobs \in 0..Len(tail') /\ flush.seq > 0
                        /\ Settled(flush.seq, flush.jobs)'
      OBVIOUS
    <3>1. flush.jobs \in 0..Len(tail) /\ flush.seq \in Nat
      BY DEF NumbersOK, TypeOK, Flush
    <3>2. \A n \in Nat, k \in 0..Len(tail) :
             n = flush.seq /\ k = flush.jobs => Settled(n, k)'
      BY <1>8 DEF NumbersOK
    <3>3. running /\ flush.seq > 0
      BY DEF NumbersOK
    <3>4. \A n \in Nat, k \in Nat :
             n = flush'.seq /\ k = flush'.jobs => k \in 0..Len(tail) /\ Settled(n, k)'
      BY <3>1, <3>2
    <3>5. flush'.seq \in Nat /\ flush'.jobs \in Nat
      BY <3>1
    <3>6. Settled(flush.seq, flush.jobs)'
      BY <3>4, <3>5 DEF Settled
    <3>7. running' /\ flush.jobs \in 0..Len(tail') /\ flush.seq > 0
      BY <3>1, <3>3, <1>1
    <3> QED
      BY <3>6, <3>7
  <2>3. ASSUME NEW i \in DOMAIN tail', NEW n \in Nat
        PROVE  /\ n = tail'[i].event.seq /\ tail'[i].kind = "snapshot" => Settled(n, i - 1)'
               /\ n = tail'[i].event.seq - 1 /\ Reserves(tail'[i]) /\ ~tail'[i].event.opens =>
                     Settled(n, i - 1)'
    <3>1. CASE i \in DOMAIN tail
      <4>1. tail'[i] = tail[i] /\ i - 1 \in 0..Len(tail)
        BY <3>1, <1>1, <1>2
      <4> QED
        BY <3>1, <4>1, <1>8 DEF NumbersOK
    <3>2. CASE i = Len(tail) + 1
      <4>1. tail'[i] = job /\ i - 1 = Len(tail) /\ i - 1 \in 0..Len(tail)
        BY <3>2, <1>1
      <4>2. \A m \in Nat : m = seq => Settled(m, i - 1)'
        BY <4>1, <1>3, <1>8, <1>9
      <4>3. job.kind = "snapshot" => ~Reserves(job)
        BY DEF Reserves
      <4>4. /\ n = tail'[i].event.seq /\ tail'[i].kind = "snapshot" => n = seq
            /\ n = tail'[i].event.seq - 1 /\ Reserves(tail'[i]) => n = seq
        BY <4>1, <4>3, <1>3
      <4> QED
        BY <4>2, <4>4
    <3> QED
      BY <3>1, <3>2, <1>1
  <2>4. \A i \in DOMAIN tail' : tail'[i].event.seq \in Nat \ {0}
    BY <1>1, JobFields
  <2>5. ASSUME NEW i \in DOMAIN tail'
        PROVE  /\ tail'[i].kind = "snapshot" => Settled(tail[i].event.seq, i - 1)'
               /\ Reserves(tail'[i]) /\ ~tail'[i].event.opens =>
                     Settled(tail[i].event.seq - 1, i - 1)'
    <3>1. tail'[i].event.seq \in Nat /\ tail'[i].event.seq - 1 \in Nat
      BY <2>4
    <3> QED
      BY <3>1, <2>3 DEF Settled
  <2> QED
    BY <2>1, <2>2, <2>5 DEF NumbersOK, Reserves
<1>11. LinesOK'
  BY <1>1 DEF LinesOK, LineWritten, StageOK, diskVars, histVars
<1>12. FileOK'
  <2> SUFFICES ASSUME NEW i \in Parsed(file)
               PROVE  /\ file[i].event.seq <= seq'
                      /\ \A j \in DOMAIN tail' : Reserves(tail'[j]) =>
                            \/ file[i].event.seq < tail'[j].event.seq
                            \/ j = 1 /\ LineWritten' /\ i = Len(file) /\ file[i].event = Job1'.event
    BY DEF FileOK, diskVars, Parsed, Reserves
  <2>1. /\ file[i].event.seq <= seq /\ file[i].event.seq \in Nat
        /\ \A j \in DOMAIN tail : Reserves(tail[j]) =>
              \/ file[i].event.seq < tail[j].event.seq
              \/ j = 1 /\ LineWritten /\ i = Len(file) /\ file[i].event = Job1.event
    BY <1>9, LineFields DEF FileOK, TypeOK
  <2> QED
    BY <1>1, <1>3, <2>1 DEF LineWritten, StageOK
<1>13. ReplayOrdered' /\ NoAckOvertakesGap' /\ AcknowledgedSurvive' /\ SavedOK'
  BY DEF ReplayOrdered, NoAckOvertakesGap, AcknowledgedSurvive, SavedOK, Covered, Replayed,
         Parsed, diskVars, histVars
<1> QED
  BY <1>4, <1>5, <1>6, <1>7, <1>10, <1>11, <1>12, <1>13

-----------------------------------------------------------------------------
(* The file.                                                               *)

\* Whatever a write makes of the file, what was acknowledged stays in it.
LEMMA AckedLinesStay ==
    ASSUME JournalInv, NEW g,
           \A i \in DOMAIN file : (i < Len(file) \/ file[i].ended) =>
               i \in DOMAIN g /\ g[i] = file[i],
           NEW e \in acked, ~e.opens
    PROVE  e \in Replayed(g)
<1>1. PICK i \in Parsed(file) : file[i].event = e
  BY DEF JournalInv, AcknowledgedSurvive, Replayed
<1>2. i \in DOMAIN file /\ i \in Nat /\ i <= Len(file) /\ Len(file) \in Nat /\ file # <<>>
      /\ e # None
  BY <1>1, LineFields DEF JournalInv, TypeOK, Parsed
<1>3. i < Len(file) \/ file[i].ended
  BY <1>1, <1>2 DEF JournalInv, LinesOK, Last
<1>4. i \in Parsed(g) /\ g[i].event = e
  BY <1>1, <1>2, <1>3 DEF Parsed
<1> QED
  BY <1>4 DEF Replayed

\* What is in the file is older than a first job that has not written.
LEMMA FileOlder ==
    ASSUME JournalInv, tail # <<>>, Reserves(Job1), io # "written"
    PROVE  \A i \in Parsed(file) : file[i].event.seq < Job1.event.seq
BY FirstJob DEF JournalInv, FileOK, LineWritten

\* A file that holds the new event at most behind all others is in order.
LEMMA StaysOrdered ==
    ASSUME NEW f \in Seq(Line), NEW g \in Seq(Line), NEW e \in Event,
           \A i, j \in Parsed(f) : i < j => f[i].event.seq < f[j].event.seq,
           \A i \in Parsed(f) : f[i].event.seq < e.seq,
           \A i \in Parsed(g) : \/ i \in Parsed(f) /\ g[i] = f[i] /\ i < Len(g)
                                \/ i = Len(g) /\ g[i].event = e
    PROVE  \A i, j \in Parsed(g) : i < j => g[i].event.seq < g[j].event.seq
<1>1. \A i \in Parsed(g) : i \in Nat /\ i <= Len(g) /\ Len(g) \in Nat
  BY LineFields
<1> QED
  BY <1>1

\* The outcomes of a torn write.
LEMMA TornFile ==
    ASSUME NEW f \in Seq(Line), Whole(f), NEW e \in Event, NEW g \in Torn(f, e),
           \A i, j \in Parsed(f) : i < j => f[i].event.seq < f[j].event.seq,
           \A i \in Parsed(f) : f[i].event.seq < e.seq
    PROVE  /\ g \in Seq(Line)
           /\ Whole(g)
           /\ g = f \/ (g # <<>> /\ g[Len(g)].event \in {e, None})
           /\ \A i, j \in Parsed(g) : i < j => g[i].event.seq < g[j].event.seq
           /\ \A i \in Parsed(g) : (i \in Parsed(f) /\ g[i] = f[i]) \/ g[i].event = e
           /\ \A i \in DOMAIN f : (i < Len(f) \/ f[i].ended) => i \in DOMAIN g /\ g[i] = f[i]
<1>1. CASE g = f
  BY <1>1
<1>2. ASSUME NEW x \in {e, None}, g = Extended(f, x, FALSE)
      PROVE  /\ g \in Seq(Line)
             /\ Whole(g)
             /\ g # <<>> /\ g[Len(g)].event \in {e, None}
             /\ \A i \in Parsed(g) : \/ i \in Parsed(f) /\ g[i] = f[i] /\ i < Len(g)
                                     \/ i = Len(g) /\ g[i].event = e
             /\ \A i \in DOMAIN f : (i < Len(f) \/ f[i].ended) => i \in DOMAIN g /\ g[i] = f[i]
  <2>1. Grown(f, g, x, FALSE)
    <3>1. x \in Event \cup {None} /\ FALSE \in BOOLEAN
      OBVIOUS
    <3> QED
      BY <1>2, <3>1, ExtendedFile
  <2>2. \A i \in Parsed(g) : g[i].event # None
    BY DEF Parsed
  <2> QED
    BY <2>1, <2>2 DEF Grown
<1>3. g = f \/ \E x \in {e, None} : g = Extended(f, x, FALSE)
  BY DEF Torn
<1>4. CASE \E x \in {e, None} : g = Extended(f, x, FALSE)
  BY <1>2, <1>4, StaysOrdered
<1> QED
  BY <1>1, <1>3, <1>4

\* A step that settles the first job and leaves the file alone.
LEMMA AdvanceKeeps ==
    ASSUME JournalInv, tail # <<>>, Advance, UNCHANGED <<procVars, flushed, file, acked>>,
           writeFault => writeFault', Reserves(Job1) => writeFault',
           writeFault' \/ Job1.kind = "snapshot"
    PROVE  /\ TailOK' /\ StageOK' /\ AckedOK' /\ NumbersOK' /\ FileOK'
           /\ LinesOK' /\ ReplayOrdered' /\ NoAckOvertakesGap' /\ AcknowledgedSurvive'
<1>1. TailOK' /\ StageOK' /\ AckedOK' /\ NumbersOK' /\ FileOK'
  <2>1. UNCHANGED procVars
    OBVIOUS
  <2> QED
    BY <2>1, AdvanceChain DEF JournalInv, Parsed
<1>2. LinesOK'
  <2>1. io' = "none" /\ running' = running
    BY DEF Advance, procVars
  <2>2. Job1.event.opens => Job1.kind = "append"
    BY FirstJob DEF JournalInv, TailOK
  <2> QED
    BY <2>1, <2>2 DEF JournalInv, LinesOK, LineWritten
<1>3. ReplayOrdered' /\ NoAckOvertakesGap' /\ AcknowledgedSurvive'
  BY DEF JournalInv, ReplayOrdered, NoAckOvertakesGap, AcknowledgedSurvive, Replayed, Parsed,
         procVars
<1> QED
  BY <1>1, <1>2, <1>3

-----------------------------------------------------------------------------
(* One lemma for every action.                                             *)

LEMMA CallAppendKeeps ==
    ASSUME JournalInv, NEW kind \in {"append", "invalid"}, CallAppend(kind)
    PROVE  JournalInv'
<1> DEFINE job == [kind |-> kind, event |-> NextEvent(start, seq + 1, FALSE)]
<1>1. /\ start \in 1..MaxStarts /\ seq + 1 \in 1..MaxSeq /\ seq' = seq + 1
  BY JournalBounds DEF JournalInv, TypeOK, CallAppend
<1>2. job.event \in Event
  BY <1>1 DEF NextEvent, Event
<1>3. job \in Job
  BY <1>2 DEF Job
<1>4. job.event.start = start /\ ~job.event.opens /\ job.event.seq = seq' /\ Reserves(job)
  BY <1>1 DEF NextEvent, Reserves
<1>5. /\ Writable /\ tail' = Append(tail, job) /\ pendingFault' \in BOOLEAN
      /\ UNCHANGED <<running, start, io, writeFault, flush, flushed, diskVars, histVars>>
  BY DEF CallAppend
<1> QED
  BY <1>1, <1>3, <1>4, <1>5, JoinKeeps

LEMMA CallSnapshotKeeps ==
    ASSUME JournalInv, CallSnapshot
    PROVE  JournalInv'
<1> DEFINE job == [kind |-> "snapshot", event |-> NextEvent(start, seq, FALSE)]
<1>1. start \in 1..MaxStarts /\ seq \in 1..MaxSeq /\ seq' = seq
  BY DEF JournalInv, TypeOK, CallSnapshot, procVars
<1>2. job.event \in Event
  BY <1>1 DEF NextEvent, Event
<1>3. job \in Job
  BY <1>2 DEF Job
<1>4. job.event.start = start /\ ~job.event.opens /\ job.event.seq = seq' /\ ~Reserves(job)
  BY <1>1 DEF NextEvent, Reserves
<1>5. /\ Writable /\ tail' = Append(tail, job) /\ pendingFault' \in BOOLEAN
      /\ UNCHANGED <<running, start, io, writeFault, flush, flushed, diskVars, histVars>>
  BY DEF CallSnapshot, procVars, JournalInv, TypeOK
<1> QED
  BY <1>1, <1>3, <1>4, <1>5, JoinKeeps

\* The state a flush does not touch.
LEMMA FlushFrame ==
    ASSUME JournalInv, UNCHANGED <<procVars, queueVars, diskVars, histVars>>
    PROVE  /\ TailOK' /\ StageOK' /\ AckedOK' /\ LinesOK' /\ FileOK'
           /\ ReplayOrdered' /\ NoAckOvertakesGap' /\ SavedOK'
           /\ \A n, k : Settled(n, k)' = Settled(n, k)
<1> USE DEF procVars, queueVars, diskVars, histVars
<1>1. TailOK' /\ StageOK' /\ AckedOK'
  BY DEF JournalInv, TailOK, StageOK, AckedOK, Job1, Reserves
<1>2. LinesOK' /\ FileOK'
  BY DEF JournalInv, LinesOK, FileOK, LineWritten, Job1, Reserves, Parsed, Whole
<1>3. ReplayOrdered' /\ NoAckOvertakesGap' /\ SavedOK'
  BY DEF JournalInv, ReplayOrdered, NoAckOvertakesGap, SavedOK, Covered, Parsed
<1>4. \A n, k : Settled(n, k)' = Settled(n, k)
  BY DEF Settled, Reserves
<1> QED
  BY <1>1, <1>2, <1>3, <1>4

LEMMA CallFlushKeeps ==
    ASSUME JournalInv, CallFlush
    PROVE  JournalInv'
<1>1. UNCHANGED <<procVars, queueVars, diskVars, histVars>> /\ flushed' = flushed /\ running
  BY DEF CallFlush
<1>2. /\ TailOK' /\ StageOK' /\ AckedOK' /\ LinesOK' /\ FileOK'
      /\ ReplayOrdered' /\ NoAckOvertakesGap' /\ SavedOK'
      /\ \A n, k : Settled(n, k)' = Settled(n, k)
  BY <1>1, FlushFrame
<1> USE DEF procVars, queueVars, diskVars, histVars
<1>3. flush' = [jobs |-> Len(tail), seq |-> seq] /\ Len(tail) \in Nat /\ seq \in 1..MaxSeq
  BY DEF CallFlush, AwaitedJobs, JournalInv, TypeOK
<1>4. TypeOK'
  BY <1>1, <1>3 DEF JournalInv, TypeOK, Flush
<1>5. NumbersOK'
  BY <1>1, <1>2, <1>3 DEF JournalInv, NumbersOK, Settled, Reserves
<1>6. AcknowledgedSurvive'
  BY <1>1 DEF JournalInv, AcknowledgedSurvive, Replayed, Parsed
<1> QED
  BY <1>2, <1>4, <1>5, <1>6 DEF JournalInv

LEMMA SettleFlushKeeps ==
    ASSUME JournalInv, SettleFlush
    PROVE  JournalInv'
<1>1. UNCHANGED <<procVars, queueVars, diskVars, histVars>> /\ flush' = None
      /\ flush # None /\ flush.jobs = 0
  BY DEF SettleFlush
<1>2. /\ TailOK' /\ StageOK' /\ AckedOK' /\ LinesOK' /\ FileOK'
      /\ ReplayOrdered' /\ NoAckOvertakesGap' /\ SavedOK'
      /\ \A n, k : Settled(n, k)' = Settled(n, k)
  BY <1>1, FlushFrame
<1> USE DEF procVars, queueVars, diskVars, histVars
<1>3. flush.seq \in 0..MaxSeq
  BY <1>1 DEF JournalInv, TypeOK, Flush
<1>4. TypeOK'
  BY <1>1, <1>3 DEF JournalInv, TypeOK, SettleFlush
<1>5. NumbersOK'
  BY <1>1, <1>2 DEF JournalInv, NumbersOK, Settled, Reserves
<1>6. Writable => \E e \in acked : e.start = start /\ e.seq = flush.seq
  BY <1>1 DEF JournalInv, NumbersOK, Settled, Writable
<1>7. AcknowledgedSurvive'
  BY <1>1, <1>6 DEF JournalInv, AcknowledgedSurvive, Replayed, Parsed, SettleFlush
<1> QED
  BY <1>2, <1>4, <1>5, <1>7 DEF JournalInv

\* Types of a chain whose first job has settled.
LEMMA AdvanceTypes ==
    ASSUME TypeOK, tail # <<>>, Advance
    PROVE  /\ tail' \in Seq(Job) /\ io' \in {"none", "open", "written", "removed"}
           /\ flush' \in Flush \cup {None}
<1>1. tail' \in Seq(Job)
  BY HeadAndTail DEF TypeOK, Advance
<1>2. flush' \in Flush \cup {None}
  BY DEF TypeOK, Advance, Flush
<1> QED
  BY <1>1, <1>2 DEF Advance

LEMMA SkipFaultedKeeps ==
    ASSUME JournalInv, SkipFaulted
    PROVE  JournalInv'
<1> USE DEF JournalInv
<1>1. /\ tail # <<>> /\ Advance /\ writeFault /\ writeFault' = writeFault /\ io = "none"
      /\ UNCHANGED <<procVars, writeFault, pendingFault, flushed, diskVars, histVars>>
  BY DEF SkipFaulted
<1>2. /\ TailOK' /\ StageOK' /\ AckedOK' /\ NumbersOK' /\ FileOK'
      /\ LinesOK' /\ ReplayOrdered' /\ NoAckOvertakesGap' /\ AcknowledgedSurvive'
  BY <1>1, AdvanceKeeps DEF diskVars, histVars
<1>3. TypeOK'
  BY <1>1, AdvanceTypes DEF TypeOK, procVars, diskVars, histVars
<1>4. SavedOK'
  BY <1>1 DEF SavedOK, Covered, procVars, diskVars, histVars
<1> QED
  BY <1>2, <1>3, <1>4

LEMMA RejectInvalidKeeps ==
    ASSUME JournalInv, RejectInvalid
    PROVE  JournalInv'
<1> USE DEF JournalInv
<1>1. /\ tail # <<>> /\ Advance /\ writeFault' = TRUE /\ io = "none" /\ pendingFault' = FALSE
      /\ UNCHANGED <<procVars, flushed, diskVars, histVars>>
  BY DEF RejectInvalid, Doing
<1>2. /\ TailOK' /\ StageOK' /\ AckedOK' /\ NumbersOK' /\ FileOK'
      /\ LinesOK' /\ ReplayOrdered' /\ NoAckOvertakesGap' /\ AcknowledgedSurvive'
  BY <1>1, AdvanceKeeps DEF diskVars, histVars
<1>3. TypeOK'
  BY <1>1, AdvanceTypes DEF TypeOK, procVars, diskVars, histVars
<1>4. SavedOK'
  BY <1>1 DEF SavedOK, Covered, procVars, diskVars, histVars
<1> QED
  BY <1>2, <1>3, <1>4

\* A step of the first job that only moves it on.
LEMMA StageFrame ==
    ASSUME JournalInv, UNCHANGED <<procVars, tail, writeFault, flush, flushed, file, acked>>
    PROVE  /\ TailOK' /\ AckedOK' /\ NumbersOK' /\ ReplayOrdered' /\ NoAckOvertakesGap'
           /\ AcknowledgedSurvive' /\ Job1' = Job1
<1> USE DEF procVars
<1>1. TailOK' /\ AckedOK'
  BY DEF JournalInv, TailOK, AckedOK, Reserves
<1>2. NumbersOK'
  BY DEF JournalInv, NumbersOK, Settled, Reserves
<1>3. ReplayOrdered' /\ NoAckOvertakesGap' /\ AcknowledgedSurvive'
  BY DEF JournalInv, ReplayOrdered, NoAckOvertakesGap, AcknowledgedSurvive, Replayed, Parsed
<1> QED
  BY <1>1, <1>2, <1>3 DEF Job1

LEMMA OpenFileKeeps ==
    ASSUME JournalInv, OpenFile
    PROVE  JournalInv'
<1> USE DEF JournalInv
<1>1. /\ tail # <<>> /\ Job1.kind = "append" /\ io = "none" /\ ~writeFault
      /\ UNCHANGED <<procVars, pendingFault, flushed, diskVars, acked, saved>>
  BY DEF OpenFile, CanStart, Doing, SkippedKinds
<1>2. CASE io' = "open" /\ UNCHANGED <<tail, flush, writeFault, faults>>
  <2>1. /\ TailOK' /\ AckedOK' /\ NumbersOK' /\ ReplayOrdered' /\ NoAckOvertakesGap'
        /\ AcknowledgedSurvive' /\ Job1' = Job1
    BY <1>1, <1>2, StageFrame DEF diskVars
  <2>2. TypeOK' /\ StageOK'
    BY <1>1, <1>2, <2>1 DEF TypeOK, StageOK, procVars, diskVars
  <2>3. LinesOK' /\ FileOK'
    BY <1>1, <1>2, <2>1 DEF LinesOK, FileOK, LineWritten, Parsed, Whole, Reserves, procVars, diskVars
  <2>4. SavedOK'
    BY <1>1, <1>2 DEF SavedOK, Covered, procVars, diskVars
  <2> QED
    BY <2>1, <2>2, <2>3, <2>4
<1>3. CASE IOFails /\ FailStop /\ Advance
  <2>1. /\ TailOK' /\ StageOK' /\ AckedOK' /\ NumbersOK' /\ FileOK'
        /\ LinesOK' /\ ReplayOrdered' /\ NoAckOvertakesGap' /\ AcknowledgedSurvive'
    BY <1>1, <1>3, AdvanceKeeps DEF diskVars, FailStop
  <2>2. TypeOK'
    BY <1>1, <1>3, AdvanceTypes, JournalBounds DEF TypeOK, procVars, diskVars, FailStop, IOFails
  <2>3. SavedOK'
    BY <1>1 DEF SavedOK, Covered, procVars, diskVars
  <2> QED
    BY <2>1, <2>2, <2>3
<1> QED
  BY <1>2, <1>3 DEF OpenFile

LEMMA WriteLineKeeps ==
    ASSUME JournalInv, WriteLine
    PROVE  JournalInv'
<1> USE DEF JournalInv
<1>1. /\ tail # <<>> /\ Job1.kind = "append" /\ io = "open" /\ ~writeFault
      /\ UNCHANGED <<procVars, pendingFault, flushed, snapshot, tmp, acked, saved>>
  BY DEF WriteLine, Doing, StageOK
<1>2. /\ file \in Seq(Line) /\ Whole(file) /\ Job1.event \in Event /\ running /\ Reserves(Job1)
      /\ Job1.event.seq \in Nat /\ Job1.event.seq <= seq /\ Job1 = tail[1] /\ seq \in Nat
  BY <1>1, FirstJob DEF TypeOK, LinesOK, Reserves, TailOK
<1>3. \A i \in Parsed(file) : file[i].event.seq < Job1.event.seq
  BY <1>1, <1>2, FileOlder
<1>4. CASE file' = Extended(file, Job1.event, TRUE) /\ io' = "written"
           /\ UNCHANGED <<tail, flush, writeFault, faults>>
  <2>1. Grown(file, file', Job1.event, TRUE)
    <3>1. Job1.event \in Event \cup {None} /\ TRUE \in BOOLEAN
      BY <1>2
    <3> QED
      BY <1>2, <1>4, <3>1, ExtendedFile
  <2>2. Job1' = Job1 /\ UNCHANGED procVars
    BY <1>1, <1>4 DEF Job1
  <2>3. file' \in Seq(Line) /\ file' # <<>> /\ Whole(file')
    BY <2>1 DEF Grown
  <2>4. TypeOK'
    BY <1>1, <1>4, <2>3 DEF TypeOK, procVars
  <2>5. TailOK' /\ AckedOK' /\ StageOK'
    BY <1>1, <1>4, <2>2 DEF TailOK, AckedOK, StageOK, Reserves, procVars
  <2>6. NumbersOK' /\ NoAckOvertakesGap' /\ SavedOK'
    BY <1>1, <1>4, <2>2 DEF NumbersOK, Settled, Reserves, NoAckOvertakesGap, SavedOK, Covered,
                            procVars
  <2>7. LinesOK'
    <3>1. file = <<>> \/ file[Len(file)].ended \/ Job1.event.opens
      BY <1>1, <1>2 DEF LinesOK, Last
    <3> QED
      BY <1>4, <2>1, <2>2, <2>3, <3>1 DEF LinesOK, Last, LineWritten, Grown
  <2>8. FileOK'
    <3> SUFFICES ASSUME NEW i \in Parsed(file')
                 PROVE  /\ file'[i].event.seq <= seq
                        /\ \A j \in DOMAIN tail : Reserves(tail[j]) =>
                              \/ file'[i].event.seq < tail[j].event.seq
                              \/ /\ j = 1 /\ LineWritten' /\ i = Len(file')
                                 /\ file'[i].event = Job1.event
      BY <1>4, <2>2 DEF FileOK, procVars, Parsed, Reserves
    <3>1. \A j \in DOMAIN tail : Reserves(tail[j]) /\ j # 1 =>
             Job1.event.seq < tail[j].event.seq /\ tail[j].event.seq \in Nat
      BY <1>1, <1>2, HeadAndTail, ChainFields DEF TailOK, TypeOK
    <3>2. CASE i \in Parsed(file) /\ file'[i] = file[i]
      <4>1. file[i].event.seq < Job1.event.seq /\ file[i].event.seq \in Nat
        BY <3>2, <1>2, <1>3, LineFields
      <4>2. \A j \in DOMAIN tail : Reserves(tail[j]) => file[i].event.seq < tail[j].event.seq
        BY <4>1, <3>1, <1>2
      <4> QED
        BY <3>2, <4>1, <4>2, <1>2
    <3>3. CASE i = Len(file') /\ file'[i].event = Job1.event
      BY <3>1, <3>3, <1>1, <1>2, <1>4, <2>2 DEF LineWritten
    <3> QED
      BY <2>1, <3>2, <3>3 DEF Grown
  <2>9. ReplayOrdered'
    BY <1>2, <1>3, <2>1, <2>3, StaysOrdered DEF ReplayOrdered, Grown
  <2>10. AcknowledgedSurvive'
    <3>1. \A e \in acked : ~e.opens => e \in Replayed(file')
      BY <2>1, AckedLinesStay DEF Grown
    <3> QED
      BY <3>1, <1>1 DEF AcknowledgedSurvive, procVars, Replayed, Parsed
  <2> QED
    BY <2>4, <2>5, <2>6, <2>7, <2>8, <2>9, <2>10
<1>5. CASE file' \in Torn(file, Job1.event) /\ IOFails /\ FailStop /\ Advance
  <2>1. /\ file' \in Seq(Line) /\ Whole(file')
        /\ file' = file \/ (file' # <<>> /\ file'[Len(file')].event \in {Job1.event, None})
        /\ \A i, j \in Parsed(file') : i < j => file'[i].event.seq < file'[j].event.seq
        /\ \A i \in Parsed(file') : (i \in Parsed(file) /\ file'[i] = file[i])
                                    \/ file'[i].event = Job1.event
        /\ \A i \in DOMAIN file : (i < Len(file) \/ file[i].ended) =>
              i \in DOMAIN file' /\ file'[i] = file[i]
    BY <1>2, <1>3, <1>5, TornFile DEF ReplayOrdered
  <2>2. UNCHANGED procVars /\ writeFault' = TRUE
    BY <1>1, <1>5 DEF FailStop
  <2>3. TailOK' /\ StageOK' /\ AckedOK' /\ NumbersOK' /\ FileOK'
    BY <1>1, <1>5, <2>1, <2>2, AdvanceChain
  <2>4. TypeOK'
    BY <1>1, <1>5, <2>1, AdvanceTypes, JournalBounds DEF TypeOK, procVars, FailStop, IOFails
  <2>5. SavedOK'
    BY <1>1, <2>2 DEF SavedOK, Covered, procVars
  <2>6. NoAckOvertakesGap' /\ ReplayOrdered'
    BY <1>1, <2>1 DEF NoAckOvertakesGap, ReplayOrdered, Parsed
  <2>7. Job1.event \notin acked /\ None \notin acked
    BY <1>2, FirstJob, <1>1, NoneAssumption DEF AckedOK, TypeOK
  <2>8. LinesOK'
    BY <1>1, <1>5, <2>1, <2>2, <2>7 DEF LinesOK, LineWritten, Last, Advance, Whole
  <2>9. AcknowledgedSurvive'
    <3>1. \A e \in acked : ~e.opens => e \in Replayed(file')
      BY <2>1, AckedLinesStay
    <3> QED
      BY <3>1, <1>1 DEF AcknowledgedSurvive, procVars, Replayed, Parsed
  <2> QED
    BY <2>3, <2>4, <2>5, <2>6, <2>8, <2>9
<1> QED
  BY <1>4, <1>5 DEF WriteLine

LEMMA SyncLineKeeps ==
    ASSUME JournalInv, SyncLine
    PROVE  JournalInv'
<1> USE DEF JournalInv
<1>1. /\ tail # <<>> /\ Job1.kind = "append" /\ io = "written" /\ ~writeFault /\ Advance
      /\ UNCHANGED procVars
      /\ UNCHANGED <<procVars, pendingFault, flushed, diskVars, saved>>
  BY DEF SyncLine, Doing, StageOK
<1>2. CASE IOFails /\ FailStop /\ UNCHANGED acked
  <2>1. /\ TailOK' /\ StageOK' /\ AckedOK' /\ NumbersOK' /\ FileOK'
        /\ LinesOK' /\ ReplayOrdered' /\ NoAckOvertakesGap' /\ AcknowledgedSurvive'
    BY <1>1, <1>2, AdvanceKeeps DEF diskVars, FailStop
  <2>2. TypeOK'
    BY <1>1, <1>2, AdvanceTypes, JournalBounds DEF TypeOK, procVars, diskVars, FailStop, IOFails
  <2>3. SavedOK'
    BY <1>1, <1>2 DEF SavedOK, Covered, procVars, diskVars
  <2> QED
    BY <2>1, <2>2, <2>3
<1>3. CASE acked' = acked \cup {Job1.event} /\ UNCHANGED <<writeFault, faults>>
  <2>1. /\ Job1.event \in Event /\ Job1.event.start = start /\ Job1 = tail[1] /\ 1 \in DOMAIN tail
        /\ Reserves(Job1) /\ Job1.event.seq \in Nat \ {0} /\ start \in Nat
    BY <1>1, FirstJob DEF Reserves
  <2>2. TailOK' /\ StageOK' /\ AckedOK' /\ NumbersOK' /\ FileOK'
    BY <1>1, <1>3, AdvanceChain DEF diskVars, Parsed
  <2>3. TypeOK'
    BY <1>1, <1>3, <2>1, AdvanceTypes DEF TypeOK, procVars, diskVars
  <2>4. SavedOK'
    BY <1>1, <1>3 DEF SavedOK, Covered, procVars, diskVars
  <2>5. ReplayOrdered'
    BY <1>1 DEF ReplayOrdered, Parsed, diskVars
  <2>6. LinesOK'
    BY <1>1, <1>3 DEF LinesOK, LineWritten, Advance, diskVars
  <2>7. NoAckOvertakesGap'
    <3>1. Job1.event.opens \/ \E f \in acked : f.start = start /\ f.seq = Job1.event.seq - 1
      BY <1>1, <2>1 DEF NumbersOK, Settled
    <3> QED
      BY <1>3, <2>1, <3>1 DEF NoAckOvertakesGap
  <2>8. AcknowledgedSurvive'
    <3>1. Job1.event.opens \/ Job1.event \in Replayed(file)
      <4>1. file # <<>> /\ (Last(file).event = Job1.event \/ Job1.event.opens)
        BY <1>1 DEF LinesOK, LineWritten
      <4>2. Len(file) \in DOMAIN file /\ Job1.event # None
        BY <4>1, <2>1, NoneAssumption DEF TypeOK
      <4> QED
        BY <4>1, <4>2 DEF Replayed, Parsed, Last
    <3> QED
      BY <1>1, <1>3, <3>1 DEF AcknowledgedSurvive, Replayed, Parsed, procVars, diskVars
  <2> QED
    BY <2>2, <2>3, <2>4, <2>5, <2>6, <2>7, <2>8
<1> QED
  BY <1>2, <1>3 DEF SyncLine

LEMMA WriteTmpKeeps ==
    ASSUME JournalInv, WriteTmp
    PROVE  JournalInv'
<1> USE DEF JournalInv
<1>1. /\ tail # <<>> /\ Job1.kind = "snapshot" /\ io = "none" /\ ~writeFault
      /\ UNCHANGED procVars
      /\ UNCHANGED <<procVars, writeFault, pendingFault, flushed, file, snapshot, acked, saved>>
  BY DEF WriteTmp, CanStart, Doing, SkippedKinds
<1>2. running /\ Job1 = tail[1] /\ 1 \in DOMAIN tail /\ Job1.event.seq \in Nat
  BY <1>1, FirstJob
<1>3. saved => snapshot # None
  BY <1>1, <1>2 DEF SavedOK
<1>4. CASE tmp' = [start |-> start, seq |-> Job1.event.seq] /\ io' = "written"
           /\ UNCHANGED <<tail, flush, faults>>
  <2>1. /\ TailOK' /\ AckedOK' /\ NumbersOK' /\ ReplayOrdered' /\ NoAckOvertakesGap'
        /\ AcknowledgedSurvive' /\ Job1' = Job1
    BY <1>1, <1>4, StageFrame
  <2>2. tmp' \in SavedState
    <3>1. Job1.event \in Event /\ start \in 1..MaxStarts
      BY <1>1, FirstJob DEF TypeOK
    <3> QED
      BY <1>4, <3>1, JournalBounds DEF Event, SavedState
  <2>3. TypeOK' /\ StageOK'
    BY <1>1, <1>4, <2>1, <2>2 DEF TypeOK, StageOK, procVars
  <2>4. LinesOK' /\ FileOK'
    <3>1. ~Job1.event.opens
      BY <1>1, <1>2 DEF TailOK
    <3> QED
      BY <1>1, <1>4, <2>1, <3>1 DEF LinesOK, FileOK, LineWritten, Parsed, Reserves, procVars
  <2>5. Covered([start |-> start, seq |-> Job1.event.seq])
    BY <1>1, <1>2 DEF NumbersOK, Settled, Covered
  <2>6. SavedOK'
    BY <1>1, <1>3, <1>4, <2>5 DEF SavedOK, Covered, procVars
  <2> QED
    BY <2>1, <2>3, <2>4, <2>6
<1>5. CASE tmp' \in {tmp, Cut} /\ IOFails /\ Advance
  <2>1. /\ TailOK' /\ StageOK' /\ AckedOK' /\ NumbersOK' /\ FileOK'
        /\ LinesOK' /\ ReplayOrdered' /\ NoAckOvertakesGap' /\ AcknowledgedSurvive'
    BY <1>1, <1>5, AdvanceKeeps DEF Reserves
  <2>2. TypeOK'
    BY <1>1, <1>5, AdvanceTypes, JournalBounds DEF TypeOK, procVars, IOFails
  <2>3. SavedOK'
    BY <1>1, <1>3, <1>5, NoneAssumption DEF SavedOK, Covered, procVars
  <2> QED
    BY <2>1, <2>2, <2>3
<1> QED
  BY <1>4, <1>5 DEF WriteTmp

LEMMA ReplaceSnapshotKeeps ==
    ASSUME JournalInv, ReplaceSnapshot
    PROVE  JournalInv'
<1> USE DEF JournalInv
<1>1. /\ tail # <<>> /\ Job1.kind = "snapshot" /\ io \in {"written", "removed"}
      /\ ~writeFault /\ tmp \in SavedState /\ tmp # None /\ Covered(tmp) /\ running
      /\ UNCHANGED procVars
      /\ UNCHANGED <<procVars, writeFault, pendingFault, flushed, file, acked>>
  BY FirstJob, NoneAssumption DEF ReplaceSnapshot, StageOK, SavedOK
<1>2. CASE snapshot' = tmp /\ tmp' = None /\ saved' = TRUE /\ Advance /\ UNCHANGED faults
  <2>1. /\ TailOK' /\ StageOK' /\ AckedOK' /\ NumbersOK' /\ FileOK'
        /\ LinesOK' /\ ReplayOrdered' /\ NoAckOvertakesGap' /\ AcknowledgedSurvive'
    BY <1>1, <1>2, AdvanceKeeps DEF Reserves
  <2>2. TypeOK'
    <3>1. /\ tail' \in Seq(Job) /\ io' \in {"none", "open", "written", "removed"}
          /\ flush' \in Flush \cup {None}
      BY <1>1, <1>2, AdvanceTypes
    <3>2. snapshot' \in SavedState \cup {None} /\ tmp' \in SavedState \cup {Cut, None}
      BY <1>1, <1>2
    <3>3. saved' \in BOOLEAN
      BY <1>2, Zenon
    <3>4. /\ running' \in BOOLEAN /\ writeFault' \in BOOLEAN /\ pendingFault' \in BOOLEAN
          /\ UNCHANGED <<start, seq, file, acked, flushed, faults>>
      BY <1>1, <1>2 DEF TypeOK, procVars
    <3>5. /\ start' \in 1..MaxStarts /\ seq' \in 1..MaxSeq /\ file' \in Seq(Line)
          /\ acked' \subseteq Event /\ flushed' \in 0..MaxSeq /\ faults' \in 0..MaxFaults
      BY <3>4 DEF TypeOK
    <3> QED
      BY <3>1, <3>2, <3>3, <3>4, <3>5, Zenon DEF TypeOK
  <2>3. SavedOK'
    BY <1>1, <1>2, NoneAssumption DEF SavedOK, Covered, procVars
  <2> QED
    BY <2>1, <2>2, <2>3
<1>3. CASE io = "written" /\ snapshot' = None /\ io' = "removed"
           /\ UNCHANGED <<tmp, saved, tail, flush, faults>>
  <2>1. /\ TailOK' /\ AckedOK' /\ NumbersOK' /\ ReplayOrdered' /\ NoAckOvertakesGap'
        /\ AcknowledgedSurvive' /\ Job1' = Job1
    BY <1>1, <1>3, StageFrame
  <2>2. TypeOK' /\ StageOK'
    BY <1>1, <1>3, <2>1 DEF TypeOK, StageOK, procVars
  <2>3. LinesOK' /\ FileOK'
    BY <1>1, <1>3, <2>1 DEF LinesOK, FileOK, LineWritten, Parsed, Reserves, procVars
  <2>4. SavedOK'
    BY <1>1, <1>3 DEF SavedOK, Covered, procVars
  <2> QED
    BY <2>1, <2>2, <2>3, <2>4
<1>4. CASE saved' = FALSE /\ IOFails /\ Advance /\ UNCHANGED <<snapshot, tmp>>
  <2>1. /\ TailOK' /\ StageOK' /\ AckedOK' /\ NumbersOK' /\ FileOK'
        /\ LinesOK' /\ ReplayOrdered' /\ NoAckOvertakesGap' /\ AcknowledgedSurvive'
    BY <1>1, <1>4, AdvanceKeeps DEF Reserves
  <2>2. TypeOK'
    <3>1. /\ tail' \in Seq(Job) /\ io' \in {"none", "open", "written", "removed"}
          /\ flush' \in Flush \cup {None}
      BY <1>1, <1>4, AdvanceTypes
    <3>2. saved' \in BOOLEAN
      BY <1>4, Zenon
    <3>3. faults' \in 0..MaxFaults
      BY <1>4, JournalBounds DEF TypeOK, IOFails
    <3>4. /\ running' \in BOOLEAN /\ writeFault' \in BOOLEAN /\ pendingFault' \in BOOLEAN
          /\ UNCHANGED <<start, seq, file, snapshot, tmp, acked, flushed>>
      BY <1>1, <1>4 DEF TypeOK, procVars
    <3>5. /\ start' \in 1..MaxStarts /\ seq' \in 1..MaxSeq /\ file' \in Seq(Line)
          /\ snapshot' \in SavedState \cup {None} /\ tmp' \in SavedState \cup {Cut, None}
          /\ acked' \subseteq Event /\ flushed' \in 0..MaxSeq
      BY <3>4 DEF TypeOK
    <3> QED
      BY <3>1, <3>2, <3>3, <3>4, <3>5, Zenon DEF TypeOK
  <2>3. SavedOK'
    BY <1>1, <1>4 DEF SavedOK, Covered, procVars
  <2> QED
    BY <2>1, <2>2, <2>3
<1> QED
  BY <1>2, <1>3, <1>4 DEF ReplaceSnapshot

\* Front() drops the last line and keeps the others.
LEMMA FrontFields ==
    ASSUME NEW f \in Seq(Line), f # <<>>
    PROVE  /\ Front(f) \in Seq(Line) /\ Len(Front(f)) = Len(f) - 1
           /\ \A i \in 1..Len(f) - 1 : Front(f)[i] = f[i]
<1>1. Front(f) = SubSeq(f, 1, Len(f) - 1)
  BY Zenon DEF Front
<1> DEFINE n == Len(f) - 1
<1>2. 1 \in Int /\ n \in Int /\ n >= 0 /\ \A i \in 1..n : f[i] \in Line
  OBVIOUS
<1> HIDE DEF n
<1>3. /\ SubSeq(f, 1, n) \in Seq(Line)
      /\ Len(SubSeq(f, 1, n)) = IF 1 <= n THEN n - 1 + 1 ELSE 0
      /\ \A i \in 1 .. n - 1 + 1 : SubSeq(f, 1, n)[i] = f[1 + i - 1]
  BY <1>2, SubSeqProperties
<1>4. /\ SubSeq(f, 1, n) \in Seq(Line) /\ Len(SubSeq(f, 1, n)) = n
      /\ \A i \in 1..n : SubSeq(f, 1, n)[i] = f[i]
  <2> DEFINE g == SubSeq(f, 1, n)
  <2>1. /\ Len(g) = IF 1 <= n THEN n - 1 + 1 ELSE 0
        /\ \A i \in 1 .. n - 1 + 1 : g[i] = f[1 + i - 1]
    BY <1>3
  <2>2. n - 1 + 1 = n /\ \A i \in 1..n : 1 + i - 1 = i
    BY <1>2
  <2> HIDE DEF g
  <2>3. Len(g) = n /\ \A i \in 1..n : g[i] = f[i]
    BY <1>2, <2>1, <2>2
  <2> QED
    BY <1>3, <2>3 DEF g
<1> QED
  BY <1>1, <1>4, Zenon DEF n

LEMMA CrashKeeps ==
    ASSUME JournalInv, Crash
    PROVE  JournalInv'
<1> USE DEF JournalInv
<1>1. /\ running /\ running' = FALSE /\ tail' = <<>> /\ io' = "none" /\ writeFault' = FALSE
      /\ pendingFault' = FALSE /\ flush' = None
      /\ UNCHANGED <<start, seq, flushed, snapshot, histVars>>
      /\ tmp' \in IF CanStart("snapshot") THEN {tmp, Cut} ELSE {tmp}
  BY DEF Crash
<1>2. /\ file' \in Seq(Line) /\ Whole(file')
      /\ \A i, j \in Parsed(file') : i < j => file'[i].event.seq < file'[j].event.seq
      /\ file' # <<>> /\ ~file'[Len(file')].ended => file'[Len(file')].event \notin acked
      /\ \A e \in acked : ~e.opens => e \in Replayed(file')
  <2>1. CASE file' = file
    BY <2>1 DEF TypeOK, LinesOK, ReplayOrdered, AcknowledgedSurvive, Last
  <2>2. CASE Doing("append", "open") /\ file' \in Torn(file, Job1.event)
    <3>1. /\ tail # <<>> /\ Job1.kind = "append" /\ io = "open" /\ Reserves(Job1)
      BY <2>2 DEF Doing, Reserves
    <3>2. /\ file \in Seq(Line) /\ Whole(file) /\ Job1.event \in Event /\ Job1 = tail[1]
          /\ 1 \in DOMAIN tail /\ Job1.event.start = start /\ start \in Nat
          /\ Job1.event.seq \in Nat
      BY <3>1, FirstJob DEF TypeOK, LinesOK
    <3>3. \A i \in Parsed(file) : file[i].event.seq < Job1.event.seq
      BY <3>1, FileOlder
    <3>4. /\ file' \in Seq(Line) /\ Whole(file')
          /\ file' = file \/ (file' # <<>> /\ file'[Len(file')].event \in {Job1.event, None})
          /\ \A i, j \in Parsed(file') : i < j => file'[i].event.seq < file'[j].event.seq
          /\ \A i \in DOMAIN file : (i < Len(file) \/ file[i].ended) =>
                i \in DOMAIN file' /\ file'[i] = file[i]
      BY <2>2, <3>2, <3>3, TornFile DEF ReplayOrdered
    <3>5. Job1.event \notin acked /\ None \notin acked
      BY <3>1, <3>2, NoneAssumption DEF AckedOK, TypeOK
    <3>6. file' # <<>> /\ ~file'[Len(file')].ended => file'[Len(file')].event \notin acked
      BY <3>4, <3>5 DEF LinesOK, Last
    <3>7. \A e \in acked : ~e.opens => e \in Replayed(file')
      BY <3>4, AckedLinesStay
    <3> QED
      BY <3>4, <3>6, <3>7
  <2>3. CASE /\ Doing("append", "written") /\ Last(file).event = Job1.event
             /\ file' \in Torn(Front(file), Job1.event)
    <3>1. /\ tail # <<>> /\ Job1.kind = "append" /\ io = "written" /\ Reserves(Job1)
      BY <2>3 DEF Doing, Reserves
    <3>2. /\ file \in Seq(Line) /\ Whole(file) /\ Job1.event \in Event /\ Job1 = tail[1]
          /\ 1 \in DOMAIN tail /\ Job1.event.start = start /\ start \in Nat
          /\ Job1.event.seq \in Nat /\ file # <<>> /\ Job1.event # None
      BY <3>1, FirstJob, NoneAssumption DEF TypeOK, LinesOK, LineWritten
    <3> DEFINE old == Front(file)
    <3>3. /\ old \in Seq(Line) /\ Len(old) = Len(file) - 1 /\ Len(file) \in Nat \ {0}
          /\ \A i \in DOMAIN old : i \in DOMAIN file /\ old[i] = file[i] /\ i < Len(file)
          /\ \A i \in DOMAIN file : i < Len(file) => i \in DOMAIN old
          /\ \A i \in DOMAIN file : i < Len(file) \/ i = Len(file)
      <4>1. Len(file) \in Nat \ {0} /\ DOMAIN file = 1..Len(file)
        BY <3>2
      <4>2. /\ old \in Seq(Line) /\ Len(old) = Len(file) - 1
            /\ \A i \in 1..Len(file) - 1 : old[i] = file[i]
        BY <3>2, <4>1, FrontFields
      <4>3. DOMAIN old = 1..Len(file) - 1
        BY <4>2
      <4> HIDE DEF old
      <4> QED
        BY <4>1, <4>2, <4>3
    <3>4. Whole(old) /\ \A i \in DOMAIN old : old[i].ended
      BY <3>2, <3>3 DEF Whole
    <3>5. \A i \in Parsed(old) : i \in Parsed(file) /\ old[i] = file[i] /\ i < Len(file)
      BY <3>3 DEF Parsed
    <3>6. Len(file) \in Parsed(file) /\ file[Len(file)].event = Job1.event
      BY <2>3, <3>2, <3>3 DEF Parsed, Last
    <3>7. /\ \A i, j \in Parsed(old) : i < j => old[i].event.seq < old[j].event.seq
          /\ \A i \in Parsed(old) : old[i].event.seq < Job1.event.seq
      BY <3>5, <3>6 DEF ReplayOrdered
    <3>8. /\ file' \in Seq(Line) /\ Whole(file')
          /\ file' = old \/ (file' # <<>> /\ file'[Len(file')].event \in {Job1.event, None})
          /\ \A i, j \in Parsed(file') : i < j => file'[i].event.seq < file'[j].event.seq
          /\ \A i \in DOMAIN old : (i < Len(old) \/ old[i].ended) =>
                i \in DOMAIN file' /\ file'[i] = old[i]
      BY <2>3, <3>2, <3>3, <3>4, <3>7, TornFile
    <3>9. Job1.event \notin acked /\ None \notin acked
      BY <3>1, <3>2, NoneAssumption DEF AckedOK, TypeOK
    <3>10. file' # <<>> /\ ~file'[Len(file')].ended => file'[Len(file')].event \notin acked
      BY <3>3, <3>4, <3>8, <3>9
    <3>11. ASSUME NEW e \in acked, ~e.opens
           PROVE  e \in Replayed(file')
      <4>1. PICK i \in Parsed(file) : file[i].event = e
        BY <3>11 DEF AcknowledgedSurvive, Replayed
      <4>2. i # Len(file)
        BY <4>1, <3>6, <3>9
      <4>3. i \in DOMAIN old /\ old[i] = file[i] /\ old[i].ended
        BY <4>1, <4>2, <3>3, <3>4 DEF Parsed
      <4>4. i \in DOMAIN file' /\ file'[i] = file[i]
        BY <4>3, <3>8
      <4> QED
        BY <4>1, <4>4 DEF Replayed, Parsed
    <3> QED
      BY <3>8, <3>10, <3>11
  <2> QED
    BY <2>1, <2>2, <2>3 DEF Crash
<1>3. TypeOK'
  <2>1. /\ running' \in BOOLEAN /\ writeFault' \in BOOLEAN /\ pendingFault' \in BOOLEAN
        /\ io' \in {"none", "open", "written", "removed"} /\ flush' \in Flush \cup {None}
    BY <1>1, Zenon
  <2>2. tail' \in Seq(Job)
    BY <1>1
  <2>3. tmp' \in SavedState \cup {Cut, None}
    BY <1>1 DEF TypeOK
  <2>4. UNCHANGED <<start, seq, flushed, snapshot, acked, saved, faults>>
    BY <1>1 DEF histVars
  <2>5. /\ start' \in 1..MaxStarts /\ seq' \in 1..MaxSeq /\ snapshot' \in SavedState \cup {None}
        /\ acked' \subseteq Event /\ flushed' \in 0..MaxSeq /\ saved' \in BOOLEAN
        /\ faults' \in 0..MaxFaults
    BY <2>4 DEF TypeOK
  <2> QED
    BY <1>2, <2>1, <2>2, <2>3, <2>5, Zenon DEF TypeOK
<1>4. TailOK' /\ StageOK' /\ NumbersOK' /\ FileOK'
  BY <1>1 DEF TailOK, StageOK, NumbersOK, FileOK
<1>5. AckedOK'
  BY <1>1 DEF AckedOK, histVars
<1>6. LinesOK'
  BY <1>1, <1>2 DEF LinesOK, LineWritten, Last, histVars
<1>7. ReplayOrdered' /\ NoAckOvertakesGap' /\ AcknowledgedSurvive'
  BY <1>1, <1>2 DEF ReplayOrdered, NoAckOvertakesGap, AcknowledgedSurvive, histVars
<1>8. SavedOK'
  <2>1. CanStart("snapshot") => io = "none"
    BY DEF CanStart, Doing
  <2> QED
    BY <1>1, <2>1, NoneAssumption DEF SavedOK, Covered, histVars
<1> QED
  BY <1>3, <1>4, <1>5, <1>6, <1>7, <1>8

\* A recovery numbers on behind everything a replay reads.
LEMMA RecoveryIsLater ==
    ASSUME TypeOK, ReplayOrdered
    PROVE  /\ RecoverySeq \in Nat
           /\ \A i \in Parsed(file) : file[i].event.seq <= RecoverySeq
<1>1. file \in Seq(Line) /\ Len(file) \in Nat
  BY DEF TypeOK
<1>2. SnapshotSeq \in Nat
  BY JournalBounds DEF TypeOK, SnapshotSeq, ReadableSnapshot, SavedState
<1>3. CASE Parsed(file) = {}
  BY <1>2, <1>3 DEF RecoverySeq, TailSeq
<1>4. CASE Parsed(file) # {}
  <2>1. Parsed(file) \in SUBSET Nat /\ \A i \in Parsed(file) : i <= Len(file)
    BY <1>1, LineFields
  <2> DEFINE last == Max(Parsed(file))
  <2>2. last \in Parsed(file) /\ \A i \in Parsed(file) : i <= last
    BY <1>1, <1>4, <2>1, GreatestExists
  <2>3. TailSeq(file) = file[last].event.seq /\ file[last].event.seq \in Nat
    BY <1>1, <1>4, <2>2, LineFields DEF TailSeq
  <2> HIDE DEF last
  <2>4. \A i \in Parsed(file) : file[i].event.seq \in Nat
    BY <1>1, LineFields
  <2>5. \A i \in Parsed(file) : file[i].event.seq <= TailSeq(file)
    BY <2>1, <2>2, <2>3, <2>4 DEF ReplayOrdered
  <2> QED
    BY <1>2, <2>3, <2>4, <2>5 DEF RecoverySeq
<1> QED
  BY <1>3, <1>4

LEMMA RestartKeeps ==
    ASSUME JournalInv, Restart
    PROVE  JournalInv'
<1> USE DEF JournalInv
<1>1. /\ ~running /\ running' = TRUE /\ start' = start + 1 /\ start < MaxStarts
      /\ seq' = RecoverySeq + 1 /\ RecoverySeq < MaxSeq
      /\ tail' = <<Opening(start + 1, RecoverySeq + 1)>> /\ flushed' = 0
      /\ tmp' = (IF snapshot = None THEN tmp ELSE None)
      /\ saved' = (saved /\ snapshot # None)
      /\ UNCHANGED <<io, writeFault, pendingFault, flush, file, snapshot, acked, faults>>
  BY DEF Restart
<1>2. /\ RecoverySeq \in Nat /\ start \in Nat
      /\ \A i \in Parsed(file) : file[i].event.seq <= RecoverySeq
                                 /\ file[i].event.seq \in Nat
  BY RecoveryIsLater, LineFields DEF TypeOK
<1>3. /\ tail = <<>> /\ io = "none" /\ flush = None
  BY <1>1 DEF TailOK, StageOK, NumbersOK
<1> DEFINE job == Opening(start + 1, RecoverySeq + 1)
<1>4. start' \in 1..MaxStarts /\ seq' \in 1..MaxSeq
  BY <1>1, <1>2, JournalBounds DEF TypeOK
<1>5. job \in Job
  BY <1>1, <1>4 DEF Opening, NextEvent, Job, Event
<1>6. job.event.start = start' /\ job.event.seq = seq' /\ job.kind = "append" /\ job.event.opens
  BY <1>1 DEF Opening, NextEvent
<1> HIDE DEF job
<1>7. /\ tail' = <<job>> /\ tail' \in Seq(Job) /\ Len(tail') = 1 /\ tail' # <<>>
      /\ DOMAIN tail' = {1} /\ tail'[1] = job /\ Job1' = job
  BY <1>1, <1>5 DEF Job1, job
<1>8. TypeOK'
  <2>1. running' \in BOOLEAN /\ saved' \in BOOLEAN
    BY <1>1, Zenon
  <2>2. tmp' \in SavedState \cup {Cut, None} /\ flushed' \in 0..MaxSeq
    BY <1>1, JournalBounds DEF TypeOK
  <2>3. /\ io' \in {"none", "open", "written", "removed"} /\ writeFault' \in BOOLEAN
        /\ pendingFault' \in BOOLEAN /\ flush' \in Flush \cup {None} /\ file' \in Seq(Line)
        /\ snapshot' \in SavedState \cup {None} /\ acked' \subseteq Event
        /\ faults' \in 0..MaxFaults
    BY <1>1 DEF TypeOK
  <2> QED
    BY <1>4, <1>7, <2>1, <2>2, <2>3, Zenon DEF TypeOK
<1>9. TailOK'
  BY <1>1, <1>4, <1>6, <1>7 DEF TailOK
<1>10. StageOK'
  BY <1>1, <1>3, <1>7 DEF StageOK
<1>11. \A e \in acked : e.start < start'
  BY <1>1, <1>2 DEF AckedOK, TypeOK, Event
<1>12. AckedOK'
  BY <1>1, <1>11 DEF AckedOK
<1>13. NumbersOK'
  <2>1. Reserves(tail'[1]) /\ tail'[1].event.seq = seq' /\ 1 \in 1..Len(tail')
    BY <1>6, <1>7 DEF Reserves
  <2> QED
    BY <1>1, <1>3, <1>6, <1>7, <2>1 DEF NumbersOK, Settled, Reserves
<1>14. LinesOK'
  BY <1>1, <1>3, <1>6, <1>7 DEF LinesOK, LineWritten
<1>15. FileOK'
  BY <1>1, <1>2, <1>6, <1>7 DEF FileOK, Parsed
<1>16. ReplayOrdered' /\ NoAckOvertakesGap'
  BY <1>1 DEF ReplayOrdered, NoAckOvertakesGap, Parsed
<1>17. AcknowledgedSurvive'
  BY <1>1 DEF AcknowledgedSurvive, Replayed, Parsed
<1>18. SavedOK'
  BY <1>1, NoneAssumption DEF SavedOK, Covered
<1> QED
  BY <1>8, <1>9, <1>10, <1>12, <1>13, <1>14, <1>15, <1>16, <1>17, <1>18

-----------------------------------------------------------------------------
(* The theorems.                                                           *)

LEMMA InitInv == Init => JournalInv
<1> SUFFICES ASSUME Init PROVE JournalInv
  OBVIOUS
<1> DEFINE job == Opening(1, 1)
<1>1. job \in Job /\ job.kind = "append" /\ job.event.start = 1 /\ job.event.seq = 1
      /\ job.event.opens
  BY JournalBounds DEF Opening, NextEvent, Job, Event
<1> HIDE DEF job
<1>2. /\ tail = <<job>> /\ tail \in Seq(Job) /\ Len(tail) = 1 /\ tail # <<>>
      /\ DOMAIN tail = {1} /\ tail[1] = job /\ Job1 = job
  BY <1>1 DEF Init, Job1, job
<1>3. TypeOK
  <2>1. /\ running \in BOOLEAN /\ saved \in BOOLEAN /\ writeFault \in BOOLEAN
        /\ pendingFault \in BOOLEAN /\ io \in {"none", "open", "written", "removed"}
        /\ flush \in Flush \cup {None} /\ snapshot \in SavedState \cup {None}
        /\ tmp \in SavedState \cup {Cut, None} /\ acked \subseteq Event
    BY Zenon DEF Init
  <2>2. /\ start \in 1..MaxStarts /\ seq \in 1..MaxSeq /\ flushed \in 0..MaxSeq
        /\ faults \in 0..MaxFaults /\ file \in Seq(Line)
    BY JournalBounds DEF Init
  <2> QED
    BY <1>2, <2>1, <2>2, Zenon DEF TypeOK
<1>4. TailOK /\ StageOK /\ AckedOK
  BY <1>1, <1>2 DEF Init, TailOK, StageOK, AckedOK
<1>5. NumbersOK
  <2>1. Reserves(tail[1]) /\ tail[1].event.seq = seq /\ 1 \in 1..Len(tail)
    BY <1>1, <1>2 DEF Reserves, Init
  <2> QED
    BY <1>1, <1>2, <2>1 DEF Init, NumbersOK, Settled, Reserves
<1>6. Parsed(file) = {}
  BY DEF Init, Parsed
<1>7. LinesOK /\ FileOK /\ ReplayOrdered
  BY <1>2, <1>6 DEF Init, LinesOK, FileOK, ReplayOrdered, LineWritten, Whole
<1>8. NoAckOvertakesGap /\ AcknowledgedSurvive /\ SavedOK
  BY NoneAssumption DEF Init, NoAckOvertakesGap, AcknowledgedSurvive, SavedOK
<1> QED
  BY <1>3, <1>4, <1>5, <1>7, <1>8 DEF JournalInv

LEMMA StepInv == JournalInv /\ [Next]_vars => JournalInv'
<1> SUFFICES ASSUME JournalInv, [Next]_vars PROVE JournalInv'
  OBVIOUS
<1>1. CASE Next
  BY <1>1, CallAppendKeeps, CallSnapshotKeeps, CallFlushKeeps, SettleFlushKeeps,
     SkipFaultedKeeps, RejectInvalidKeeps, OpenFileKeeps, WriteLineKeeps, SyncLineKeeps,
     WriteTmpKeeps, ReplaceSnapshotKeeps, CrashKeeps, RestartKeeps
     DEF Next, JobStep
<1>2. CASE UNCHANGED vars
  <2>1. UNCHANGED <<procVars, queueVars, diskVars, histVars>> /\ UNCHANGED <<flush, flushed>>
    BY <1>2 DEF vars
  <2>2. /\ TailOK' /\ StageOK' /\ AckedOK' /\ LinesOK' /\ FileOK'
        /\ ReplayOrdered' /\ NoAckOvertakesGap' /\ SavedOK'
    BY <2>1, FlushFrame
  <2>3. TypeOK' /\ NumbersOK' /\ AcknowledgedSurvive'
    BY <2>1 DEF JournalInv, TypeOK, NumbersOK, AcknowledgedSurvive, Settled, Reserves, Replayed,
                Parsed, procVars, queueVars, diskVars, histVars
  <2> QED
    BY <2>2, <2>3 DEF JournalInv
<1> QED
  BY <1>1, <1>2

THEOREM JournalInvariant == Spec => []JournalInv
BY InitInv, StepInv, PTL DEF Spec

\* The journal, its chain of jobs and its files have their types.
THEOREM TypeCorrect == Spec => []TypeOK
BY JournalInvariant, PTL DEF JournalInv

\* A replay reads increasing numbers, however many processes wrote the file, through
\* failed writes, torn lines and recoveries.
THEOREM ReplaysInOrder == Spec => []ReplayOrdered
BY JournalInvariant, PTL DEF JournalInv

\* No append resolves above one of the same process that failed.
THEOREM GapsAreFinal == Spec => []NoAckOvertakesGap
BY JournalInvariant, PTL DEF JournalInv

\* What an append() or a flush() promised is what every later replay reads.
THEOREM Durable == Spec => []AcknowledgedSurvive
BY JournalInvariant, PTL DEF JournalInv

\* The snapshot a recovery reads summarises acknowledged events only, and there is one
\* while it is being replaced.
THEOREM SnapshotsTrusted == Spec => []SnapshotTrusted
<1>1. JournalInv => SnapshotTrusted
  <2> SUFFICES ASSUME JournalInv PROVE SnapshotTrusted
    OBVIOUS
  <2>1. ReadableSnapshot # None => Covered(ReadableSnapshot)
    BY DEF JournalInv, SavedOK, ReadableSnapshot, TypeOK
  <2>2. saved => ReadableSnapshot # None
    BY NoneAssumption DEF JournalInv, SavedOK, ReadableSnapshot
  <2> QED
    BY <2>1, <2>2 DEF SnapshotTrusted, Covered
<1> QED
  BY <1>1, JournalInvariant, PTL

-----------------------------------------------------------------------------
(* The hosts.  Their inductive invariant is stated over the record of the  *)
(* whole state: an operation of the orchestrator composes operators on     *)
(* that record, and each of them is shown to keep the invariant.           *)

State ==
    [groups : Seq(Group), starts : Seq(Start), messages : Seq(Message),
     registered : [Hosts -> Nat], pending : [Hosts -> Seq(Nat)], asks : [Hosts -> Nat],
     timers : SUBSET Nat, coordinator : Coordinators, closed : BOOLEAN, booted : BOOLEAN]

GroupOf(s, n) == s.starts[n].group
IsOpen(s, n) == s.starts[n].phase \in {"starting", "live"}
Underway == {"memory", "handshake", "settled"}
AloneIn(s, g) == \A n \in DOMAIN s.starts : GroupOf(s, n) = g => s.starts[n].alone
Current(s, g) == s.registered[s.groups[g].id] = g

\* The bounds, and what an index names.
Shape(s) ==
    /\ s \in State
    /\ Len(s.groups) <= MaxGroups
    /\ Len(s.starts) <= MaxHostStarts
    /\ Len(s.messages) <= MaxMessages
    /\ \A h \in Hosts : Len(s.pending[h]) <= QueueLimit
    /\ \A h \in Hosts : s.registered[h] # 0 =>
          s.registered[h] \in DOMAIN s.groups /\ s.groups[s.registered[h]].id = h
    /\ \A n \in DOMAIN s.starts : GroupOf(s, n) \in DOMAIN s.groups
    /\ s.registered[s.coordinator] # 0

\* The session of a group was made by a start of that group.
HoldOK(s) ==
    \A g \in DOMAIN s.groups : Holds(s, g) # 0 =>
        /\ Holds(s, g) \in DOMAIN s.starts
        /\ GroupOf(s, Holds(s, g)) = g
        /\ s.starts[Holds(s, g)].pc # "memory"

\* While a start that never overlapped is under way, it is the only one and its
\* group is not ready.
OnlyFlight(s, n, g) ==
    /\ \A k \in DOMAIN s.starts :
          GroupOf(s, k) = g /\ s.starts[k].pc \in Underway => k = n
    /\ ~s.groups[g].ready
    /\ Holds(s, g) \in {0, n}
    /\ s.starts[n].pc = "memory" => Holds(s, g) = 0
    /\ s.starts[n].pc = "settled" /\ Holds(s, g) = n => s.starts[n].phase = "live"
FlightAt(s, n) ==
    /\ s.starts[n].pc = "memory" => s.starts[n].phase = "none"
    /\ s.starts[n].pc \in Underway /\ AloneIn(s, GroupOf(s, n)) =>
          OnlyFlight(s, n, GroupOf(s, n))
FlightOK(s) == \A n \in DOMAIN s.starts : FlightAt(s, n)

\* A ready group has a session that takes turns.
LiveOK(s) ==
    \A g \in DOMAIN s.groups :
        s.groups[g].ready /\ Holds(s, g) # 0 /\ AloneIn(s, g) =>
            s.starts[Holds(s, g)].phase = "live"

\* A session that goes on is reached by the next end().
ReachAt(s, n) ==
    \/ Holds(s, GroupOf(s, n)) = n /\ ~s.closed /\ Current(s, GroupOf(s, n))
    \/ s.starts[n].late
    \/ \E k \in DOMAIN s.starts \ {n} : GroupOf(s, k) = GroupOf(s, n)
ReachOK(s) == \A n \in DOMAIN s.starts : IsOpen(s, n) => ReachAt(s, n)

Core(s) == HoldOK(s) /\ FlightOK(s) /\ LiveOK(s) /\ ReachOK(s)

\* What waits under an id was sent to its current group, and nobody heard it.
PendingOK(s) ==
    \A h \in Hosts :
        /\ s.registered[h] = 0 => s.pending[h] = <<>>
        /\ \A m \in Waiting(s, h) :
              /\ m \in DOMAIN s.messages
              /\ s.messages[m].to = s.registered[h]
              /\ s.messages[m].heard = <<>>

\* A message is heard once at most, by a session of the group it was sent to.
HeardOK(s) ==
    \A m \in DOMAIN s.messages :
        /\ Len(s.messages[m].heard) <= 1
        /\ \A i \in DOMAIN s.messages[m].heard :
              /\ s.messages[m].heard[i] \in DOMAIN s.starts
              /\ GroupOf(s, s.messages[m].heard[i]) = s.messages[m].to

\* The question a host owes an answer to is the latest one put to its current group.
AskOK(s, h) ==
    /\ ~s.closed
    /\ s.asks[h] \in DOMAIN s.messages
    /\ s.registered[h] # 0
    /\ s.messages[s.asks[h]].to = s.registered[h]
    /\ s.messages[s.asks[h]].asked /\ ~s.messages[s.asks[h]].answered
    /\ \A k \in DOMAIN s.messages :
          k > s.asks[h] /\ s.messages[k].asked => s.messages[k].to # s.registered[h]
AsksOK(s) ==
    /\ s.timers = {s.asks[h] : h \in Hosts} \ {0}
    /\ \A h \in Hosts : s.asks[h] # 0 => AskOK(s, h)

Mail(s) == PendingOK(s) /\ HeardOK(s) /\ AsksOK(s)

\* Nothing waits for a ready host, but for the one the Meeting starts with.
ServedAt(s, h) ==
    LET g == s.registered[h] IN
    (/\ ~s.closed /\ g # 0
     /\ s.groups[g].ready /\ Holds(s, g) # 0 /\ AloneIn(s, g)
     /\ s.starts[Holds(s, g)].by # "start") => s.pending[h] = <<>>
Served(s) == \A h \in Hosts : ServedAt(s, h)

IInv(s) == Shape(s) /\ Core(s) /\ Mail(s) /\ Served(s)

-----------------------------------------------------------------------------
(* What the messages do.                                                   *)

\* A step in which only messages, questions and their timers change: what waits for
\* a host changes where it has no session, or is taken, and no alarm is raised.
Quiet(s, r) ==
    /\ r.groups = s.groups /\ r.starts = s.starts
    /\ r.registered = s.registered /\ r.coordinator = s.coordinator
    /\ r.closed = s.closed /\ r.booted = s.booted
AlarmsKept(s, r) ==
    \A m \in DOMAIN s.messages :
        m \in DOMAIN r.messages /\ r.messages[m].alarmed = s.messages[m].alarmed
WaitsKept(s, r) ==
    \A h \in Hosts :
        \/ r.pending[h] = s.pending[h]
        \/ r.pending[h] = <<>>
        \/ s.registered[h] # 0 /\ Holds(s, s.registered[h]) = 0
Talk(s, r) == Quiet(s, r) /\ Shape(r) /\ Mail(r) /\ AlarmsKept(s, r) /\ WaitsKept(s, r)

\* The queue keeps the bound and holds what it held, or the new message.
LEMMA QueuedBounded ==
    ASSUME NEW q \in Seq(Nat), NEW m \in Nat, Len(q) <= QueueLimit
    PROVE  /\ Queued(q, m) \in Seq(Nat)
           /\ Len(Queued(q, m)) <= QueueLimit
           /\ \A i \in DOMAIN Queued(q, m) :
                 Queued(q, m)[i] = m \/ \E j \in DOMAIN q : Queued(q, m)[i] = q[j]
<1>1. QueueLimit \in Nat \ {0}  BY BoundsAssumption
<1>2. CASE Len(q) < QueueLimit
    <2>1. Queued(q, m) = Append(q, m)  BY <1>2 DEF Queued
    <2> QED  BY <2>1, <1>1, <1>2
<1>3. CASE Len(q) >= QueueLimit
    <2>1. Queued(q, m) = Append(Tail(q), m)  BY <1>3, <1>1 DEF Queued
    <2>2. q # <<>> /\ Len(q) = QueueLimit  BY <1>3, <1>1
    <2>3. Tail(q) \in Seq(Nat) /\ Len(Tail(q)) = Len(q) - 1
          /\ \A i \in 1 .. Len(q) - 1 : Tail(q)[i] = q[i + 1]
        BY <2>2
    <2> DEFINE t == Tail(q)
    <2>4. t \in Seq(Nat) /\ Len(t) = Len(q) - 1 /\ \A i \in 1 .. Len(q) - 1 : t[i] = q[i + 1]
        BY <2>3
    <2> HIDE DEF t
    <2>5. Append(t, m) \in Seq(Nat) /\ Len(Append(t, m)) = Len(q)
        BY <2>4
    <2>6. ASSUME NEW i \in DOMAIN Append(t, m)
          PROVE  Append(t, m)[i] = m \/ \E j \in DOMAIN q : Append(t, m)[i] = q[j]
        <3>1. i \in 1 .. Len(q)  BY <2>5
        <3>2. CASE i = Len(q)  BY <3>2, <2>4
        <3>3. CASE i # Len(q)
            <4>1. i \in 1 .. Len(q) - 1 /\ Append(t, m)[i] = t[i]  BY <3>1, <3>3, <2>4
            <4>2. i + 1 \in DOMAIN q  BY <4>1
            <4> QED  BY <4>1, <4>2, <2>4
        <3> QED  BY <3>2, <3>3
    <2> QED  BY <2>1, <2>2, <2>5, <2>6 DEF t
<1> QED  BY <1>2, <1>3, <1>1

\* The parts of the shape.
LEMMA ShapeTypes ==
    ASSUME NEW s, Shape(s)
    PROVE  /\ s \in State
           /\ s.groups \in Seq(Group) /\ s.starts \in Seq(Start) /\ s.messages \in Seq(Message)
           /\ s.registered \in [Hosts -> Nat] /\ s.pending \in [Hosts -> Seq(Nat)]
           /\ s.asks \in [Hosts -> Nat] /\ s.timers \in SUBSET Nat
           /\ s.coordinator \in Coordinators /\ s.coordinator \in Hosts
           /\ s.closed \in BOOLEAN /\ s.booted \in BOOLEAN
BY HostsAssumption DEF Shape, State

\* The group of a registered host.
LEMMA RegisteredGroup ==
    ASSUME NEW s, Shape(s), NEW h \in Hosts, s.registered[h] # 0
    PROVE  /\ s.registered[h] \in DOMAIN s.groups
           /\ s.registered[h] \in 1 .. MaxGroups
           /\ s.groups[s.registered[h]] \in Group
           /\ s.groups[s.registered[h]].id = h
           /\ Current(s, s.registered[h])
<1>1. s.groups \in Seq(Group)  BY ShapeTypes
<1>2. s.registered[h] \in DOMAIN s.groups /\ s.groups[s.registered[h]].id = h
    BY DEF Shape
<1>3. Len(s.groups) <= MaxGroups /\ MaxGroups \in Nat  BY BoundsAssumption DEF Shape
<1> QED  BY <1>1, <1>2, <1>3 DEF Current

\* A start and its group.
LEMMA StartIndex ==
    ASSUME NEW s, Shape(s), NEW n \in DOMAIN s.starts
    PROVE  /\ s.starts[n] \in Start /\ n \in 1 .. MaxHostStarts /\ n # 0
           /\ GroupOf(s, n) \in DOMAIN s.groups
<1>1. s.starts \in Seq(Start)  BY ShapeTypes
<1>2. Len(s.starts) <= MaxHostStarts /\ MaxHostStarts \in Nat /\ GroupOf(s, n) \in DOMAIN s.groups
    BY BoundsAssumption DEF Shape
<1>3. n \in 1 .. Len(s.starts) /\ Len(s.starts) \in Nat  BY <1>1
<1>4. n \in 1 .. MaxHostStarts /\ n # 0  BY <1>2, <1>3
<1> QED  BY <1>1, <1>2, <1>4

\* The session a group holds.
LEMMA HeldStart ==
    ASSUME NEW s, Shape(s), HoldOK(s), NEW g \in DOMAIN s.groups, Holds(s, g) # 0
    PROVE  /\ Holds(s, g) \in DOMAIN s.starts /\ Holds(s, g) \in 1 .. MaxHostStarts
           /\ s.starts[Holds(s, g)] \in Start
           /\ GroupOf(s, Holds(s, g)) = g
<1>1. s.starts \in Seq(Start)  BY ShapeTypes
<1>2. Holds(s, g) \in DOMAIN s.starts /\ GroupOf(s, Holds(s, g)) = g  BY DEF HoldOK
<1>3. Len(s.starts) <= MaxHostStarts /\ MaxHostStarts \in Nat  BY BoundsAssumption DEF Shape
<1> QED  BY <1>1, <1>2, <1>3

\* A message is sent to the current group of its host, and heard by its session.
LEMMA SentMessage ==
    ASSUME NEW s, Shape(s), HoldOK(s), NEW h \in Hosts, s.registered[h] # 0
    PROVE  /\ Sent(s, h) \in Message
           /\ Sent(s, h).to = s.registered[h]
           /\ ~Sent(s, h).asked /\ ~Sent(s, h).answered /\ ~Sent(s, h).alarmed
           /\ Len(Sent(s, h).heard) <= 1
           /\ \A i \in DOMAIN Sent(s, h).heard :
                 /\ Sent(s, h).heard[i] \in DOMAIN s.starts
                 /\ GroupOf(s, Sent(s, h).heard[i]) = s.registered[h]
           /\ Holds(s, s.registered[h]) = 0 => Sent(s, h).heard = <<>>
<1> DEFINE g == s.registered[h]
           n == Holds(s, g)
           heard == IF n # 0 /\ Takes(s, n) THEN <<n>> ELSE <<>>
<1>1. g \in DOMAIN s.groups /\ g \in 1 .. MaxGroups  BY RegisteredGroup
<1>2. n # 0 => n \in DOMAIN s.starts /\ n \in 1 .. MaxHostStarts /\ GroupOf(s, n) = g
    BY <1>1, HeldStart
<1>3. Sent(s, h) = [to |-> g, heard |-> heard, asked |-> FALSE, answered |-> FALSE,
                    alarmed |-> FALSE]
    BY DEF Sent
<1> HIDE DEF n, g
<1>4. heard \in Seq(1 .. MaxHostStarts) /\ Len(heard) <= 1
    <2>1. ASSUME n # 0 /\ Takes(s, n) PROVE heard = <<n>> /\ n \in 1 .. MaxHostStarts
        BY <2>1, <1>2
    <2>2. ASSUME ~(n # 0 /\ Takes(s, n)) PROVE heard = <<>>
        BY <2>2
    <2> HIDE DEF heard
    <2>3. <<>> \in Seq(1 .. MaxHostStarts) /\ Len(<<>>) = 0  OBVIOUS
    <2>4. ASSUME NEW k \in 1 .. MaxHostStarts
          PROVE  <<k>> \in Seq(1 .. MaxHostStarts) /\ Len(<<k>>) = 1
        OBVIOUS
    <2>5. CASE n # 0 /\ Takes(s, n)
        <3>1. heard = <<n>> /\ n \in 1 .. MaxHostStarts  BY <2>1, <2>5
        <3>2. <<n>> \in Seq(1 .. MaxHostStarts) /\ Len(<<n>>) = 1  BY <3>1, <2>4
        <3> QED  BY <3>1, <3>2
    <2>6. CASE ~(n # 0 /\ Takes(s, n))  BY <2>2, <2>3, <2>6
    <2> QED  BY <2>5, <2>6
<1>5. \A i \in DOMAIN heard : heard[i] \in DOMAIN s.starts /\ GroupOf(s, heard[i]) = g
    BY <1>2
<1>6. n = 0 => heard = <<>>  OBVIOUS
<1> HIDE DEF heard
<1>7. Sent(s, h) \in Message  BY <1>1, <1>3, <1>4 DEF Message
<1> QED  BY <1>3, <1>4, <1>5, <1>6, <1>7 DEF g, n

\* What a message adds to the queue of its host.
LEMMA DeliveredBounded ==
    ASSUME NEW s, Shape(s), NEW h \in Hosts, NEW m \in Nat
    PROVE  /\ Delivered(s, h, m) \in Seq(Nat)
           /\ Len(Delivered(s, h, m)) <= QueueLimit
           /\ \A i \in DOMAIN Delivered(s, h, m) :
                 \/ Delivered(s, h, m)[i] \in Waiting(s, h)
                 \/ Delivered(s, h, m)[i] = m /\ Holds(s, s.registered[h]) = 0
           /\ Holds(s, s.registered[h]) # 0 => Delivered(s, h, m) = s.pending[h]
<1>1. s.pending[h] \in Seq(Nat) /\ Len(s.pending[h]) <= QueueLimit
    BY ShapeTypes DEF Shape
<1> DEFINE q == s.pending[h]
<1>2. q \in Seq(Nat) /\ Len(q) <= QueueLimit /\ \A j \in DOMAIN q : q[j] \in Waiting(s, h)
    BY <1>1 DEF Waiting
<1>3. Delivered(s, h, m) = IF Holds(s, s.registered[h]) # 0 THEN q ELSE Queued(q, m)
    BY DEF Delivered
<1> HIDE DEF q
<1>4. /\ Queued(q, m) \in Seq(Nat) /\ Len(Queued(q, m)) <= QueueLimit
      /\ \A i \in DOMAIN Queued(q, m) :
            Queued(q, m)[i] = m \/ \E j \in DOMAIN q : Queued(q, m)[i] = q[j]
    BY <1>2, QueuedBounded
<1>5. \A i \in DOMAIN Queued(q, m) : Queued(q, m)[i] = m \/ Queued(q, m)[i] \in Waiting(s, h)
    BY <1>2, <1>4
<1>6. CASE Holds(s, s.registered[h]) # 0  BY <1>2, <1>3, <1>6 DEF q
<1>7. CASE Holds(s, s.registered[h]) = 0  BY <1>3, <1>4, <1>5, <1>7
<1> QED  BY <1>6, <1>7

\* A state with other messages, questions and timers keeps its shape.
WithMail(s, ms, pe, as, ti) ==
    [s EXCEPT !.messages = ms, !.pending = pe, !.asks = as, !.timers = ti]

\* It has the parts put in, and the others unchanged.
LEMMA MailShape ==
    ASSUME NEW s, Shape(s), NEW ms \in Seq(Message), Len(ms) <= MaxMessages,
           NEW pe \in [Hosts -> Seq(Nat)], \A h \in Hosts : Len(pe[h]) <= QueueLimit,
           NEW as \in [Hosts -> Nat], NEW ti \in SUBSET Nat
    PROVE  /\ Shape(WithMail(s, ms, pe, as, ti)) /\ Quiet(s, WithMail(s, ms, pe, as, ti))
           /\ WithMail(s, ms, pe, as, ti).messages = ms
           /\ WithMail(s, ms, pe, as, ti).pending = pe
           /\ WithMail(s, ms, pe, as, ti).asks = as
           /\ WithMail(s, ms, pe, as, ti).timers = ti
<1> DEFINE r == WithMail(s, ms, pe, as, ti)
<1>1. s \in State  BY DEF Shape
<1>2. r = [s EXCEPT !.messages = ms, !.pending = pe, !.asks = as, !.timers = ti]
    BY DEF WithMail
<1> HIDE DEF r
<1>3. /\ r.groups = s.groups /\ r.starts = s.starts
      /\ r.registered = s.registered /\ r.coordinator = s.coordinator
      /\ r.closed = s.closed /\ r.booted = s.booted
      /\ r.messages = ms /\ r.pending = pe /\ r.asks = as /\ r.timers = ti
    BY <1>1, <1>2 DEF State
<1>4. r \in State  BY <1>1, <1>2 DEF State
<1>5. Shape(r)  BY <1>3, <1>4 DEF Shape, GroupOf
<1> QED  BY <1>3, <1>5 DEF Quiet, r

\* Unchanged parts of the record.
LEMMA WithMailSame ==
    ASSUME NEW s, Shape(s), NEW ms, NEW pe
    PROVE  /\ [s EXCEPT !.messages = ms] = WithMail(s, ms, s.pending, s.asks, s.timers)
           /\ [s EXCEPT !.messages = ms, !.pending = pe] =
                 WithMail(s, ms, pe, s.asks, s.timers)
           /\ [s EXCEPT !.pending = pe] =
                 WithMail(s, s.messages, pe, s.asks, s.timers)
<1>1. s \in State  BY DEF Shape
<1>2. [s EXCEPT !.messages = ms] = WithMail(s, ms, s.pending, s.asks, s.timers)
    BY <1>1 DEF State, WithMail
<1>3. [s EXCEPT !.messages = ms, !.pending = pe] = WithMail(s, ms, pe, s.asks, s.timers)
    BY <1>1 DEF State, WithMail
<1>4. [s EXCEPT !.pending = pe] = WithMail(s, s.messages, pe, s.asks, s.timers)
    BY <1>1 DEF State, WithMail
<1> QED  BY <1>2, <1>3, <1>4

\* A step that keeps the old messages, adds unasked ones for registered hosts and
\* changes no question keeps what is said of the messages.
LEMMA NewMessagesKeepAsks ==
    ASSUME NEW s, Shape(s), AsksOK(s), NEW r, Shape(r), Quiet(s, r),
           r.asks = s.asks, r.timers = s.timers,
           \A m \in DOMAIN s.messages : m \in DOMAIN r.messages /\ r.messages[m] = s.messages[m],
           \A m \in DOMAIN r.messages \ DOMAIN s.messages : ~r.messages[m].asked
    PROVE  AsksOK(r)
<1>1. r.timers = {r.asks[h] : h \in Hosts} \ {0}  BY DEF AsksOK
<1>2. ASSUME NEW h \in Hosts, r.asks[h] # 0
      PROVE  AskOK(r, h)
    <2>1. AskOK(s, h)  BY <1>2 DEF AsksOK
    <2> QED  BY <2>1 DEF AskOK, Quiet
<1> QED  BY <1>1, <1>2 DEF AsksOK

\* Two sequences in a row.
LEMMA ConcatIndex ==
    ASSUME NEW S, NEW a \in Seq(S), NEW b \in Seq(S)
    PROVE  /\ a \o b \in Seq(S) /\ Len(a \o b) = Len(a) + Len(b)
           /\ \A m \in 1 .. Len(a) : (a \o b)[m] = a[m]
           /\ \A i \in 1 .. Len(b) : (a \o b)[Len(a) + i] = b[i]
OBVIOUS

\* publish() to some hosts, all registered, in an open Meeting.
LEMMA PublishedToTalk ==
    ASSUME NEW s, Shape(s), HoldOK(s), Mail(s),
           NEW to \in Seq(Hosts), \A i \in DOMAIN to : s.registered[to[i]] # 0,
           Len(s.messages) + Len(to) <= MaxMessages
    PROVE  /\ Talk(s, PublishedTo(s, to))
           /\ PublishedTo(s, to).asks = s.asks /\ PublishedTo(s, to).timers = s.timers
           /\ Len(PublishedTo(s, to).messages) = Len(s.messages) + Len(to)
           /\ \A m \in DOMAIN s.messages : PublishedTo(s, to).messages[m] = s.messages[m]
           /\ \A i \in DOMAIN to :
                 PublishedTo(s, to).messages[Len(s.messages) + i] = Sent(s, to[i])
<1> DEFINE new == [i \in DOMAIN to |-> Sent(s, to[i])]
           pos(h) == CHOOSE i \in DOMAIN to : to[i] = h
           at(h) == Len(s.messages) + pos(h)
           ms == s.messages \o new
           pe == [h \in Hosts |->
                    IF \E i \in DOMAIN to : to[i] = h
                    THEN Delivered(s, h, at(h)) ELSE s.pending[h]]
           r == PublishedTo(s, to)
<1>1. s.messages \in Seq(Message) /\ s.pending \in [Hosts -> Seq(Nat)]
      /\ s.asks \in [Hosts -> Nat] /\ s.timers \in SUBSET Nat
    BY ShapeTypes
<1>2. \A i \in DOMAIN to : Sent(s, to[i]) \in Message  BY SentMessage
<1>3. new \in Seq(Message) /\ Len(new) = Len(to)
    <2>1. new \in [1 .. Len(to) -> Message] /\ Len(to) \in Nat  BY <1>2
    <2> QED  BY <2>1
<1> DEFINE L == Len(s.messages)
<1>4. L \in Nat /\ DOMAIN s.messages = 1 .. L /\ DOMAIN to = 1 .. Len(to) /\ Len(to) \in Nat
    BY <1>1
<1>5. /\ ms \in Seq(Message) /\ Len(ms) = L + Len(to)
      /\ \A m \in 1 .. L : ms[m] = s.messages[m]
      /\ \A i \in 1 .. Len(to) : ms[L + i] = Sent(s, to[i])
    <2>1. new \in Seq(Message) /\ Len(new) = Len(to) /\ \A i \in 1 .. Len(to) : new[i] = Sent(s, to[i])
        BY <1>3, <1>4
    <2> HIDE DEF new
    <2> HIDE DEF L
    <2>3. s.messages \o new \in Seq(Message)
        BY <2>1, <1>1
    <2>7. new \in Seq(Message) /\ s.messages \in Seq(Message)  BY <2>1, <1>1
    <2>4. Len(s.messages \o new) = Len(s.messages) + Len(new)
        BY ONLY <2>7
    <2>5. \A m \in 1 .. Len(s.messages) : (s.messages \o new)[m] = s.messages[m]
        BY <2>1, <1>1
    <2>6. \A i \in 1 .. Len(new) : (s.messages \o new)[Len(s.messages) + i] = new[i]
        BY <2>1, <1>1
    <2>2. /\ s.messages \o new \in Seq(Message) /\ Len(s.messages \o new) = L + Len(new)
          /\ \A m \in 1 .. L : (s.messages \o new)[m] = s.messages[m]
          /\ \A i \in 1 .. Len(new) : (s.messages \o new)[L + i] = new[i]
        BY <2>3, <2>4, <2>5, <2>6 DEF L
    <2> QED  BY <2>1, <2>2
<1>6. \A h \in Hosts : (\E i \in DOMAIN to : to[i] = h) =>
          /\ at(h) \in Nat
          /\ \E i \in DOMAIN to : to[i] = h /\ at(h) = L + i
    <2>1. \A h \in Hosts : (\E i \in DOMAIN to : to[i] = h) =>
              pos(h) \in DOMAIN to /\ to[pos(h)] = h
        OBVIOUS
    <2> HIDE DEF pos
    <2> QED  BY <2>1, <1>4
<1>7. pe \in [Hosts -> Seq(Nat)] /\ \A h \in Hosts : Len(pe[h]) <= QueueLimit
    <2>1. ASSUME NEW h \in Hosts
          PROVE  /\ (\E i \in DOMAIN to : to[i] = h) =>
                       /\ Delivered(s, h, at(h)) \in Seq(Nat)
                       /\ Len(Delivered(s, h, at(h))) <= QueueLimit
                 /\ s.pending[h] \in Seq(Nat) /\ Len(s.pending[h]) <= QueueLimit
        <3>1. s.pending[h] \in Seq(Nat) /\ Len(s.pending[h]) <= QueueLimit  BY <1>1 DEF Shape
        <3>2. ASSUME \E i \in DOMAIN to : to[i] = h
              PROVE  Delivered(s, h, at(h)) \in Seq(Nat) /\ Len(Delivered(s, h, at(h))) <= QueueLimit
            <4>1. at(h) \in Nat  BY <3>2, <1>6
            <4> QED  BY <4>1, DeliveredBounded
        <3> QED  BY <3>1, <3>2
    <2> QED  BY <2>1
<1>8. r = [s EXCEPT !.messages = ms, !.pending = pe]
    BY DEF PublishedTo
<1> HIDE DEF ms, r
<1>9. \A h \in Hosts : pe[h] = IF \E i \in DOMAIN to : to[i] = h
                              THEN Delivered(s, h, at(h)) ELSE s.pending[h]
    OBVIOUS
<1> HIDE DEF pe, at, new
<1>10. r = WithMail(s, ms, pe, s.asks, s.timers)
    BY <1>8, WithMailSame
<1>11. /\ Shape(r) /\ Quiet(s, r)
       /\ r.messages = ms /\ r.pending = pe /\ r.asks = s.asks /\ r.timers = s.timers
    <2>1. ms \in Seq(Message) /\ Len(ms) <= MaxMessages  BY <1>5
    <2>2. s.asks \in [Hosts -> Nat] /\ s.timers \in SUBSET Nat  BY <1>1
    <2> DEFINE w == WithMail(s, ms, pe, s.asks, s.timers)
    <2>3. Shape(w) 
        BY <2>1, <2>2, <1>7, MailShape
    <2>5. Quiet(s, w) 
        BY <2>1, <2>2, <1>7, MailShape
    <2>6. w.messages = ms /\ w.pending = pe
        BY ONLY Shape(s) DEF w, WithMail, Shape, State
    <2>7.  w.asks = s.asks /\ w.timers = s.timers
        BY ONLY Shape(s) DEF w, WithMail, Shape, State
    <2>4. r = w  BY <1>10
    <2> HIDE DEF w
    <2> QED  BY <2>3, <2>4, <2>5, <2>6, <2>7
<1>12. DOMAIN r.messages = 1 .. L + Len(to)  BY <1>5, <1>11
<1>13. \A m \in DOMAIN s.messages : m \in DOMAIN r.messages /\ r.messages[m] = s.messages[m]
    BY <1>4, <1>5, <1>11, <1>12
<1>14. \A i \in DOMAIN to : L + i \in DOMAIN r.messages /\ r.messages[L + i] = Sent(s, to[i])
    BY <1>4, <1>5, <1>11, <1>12
<1>15. \A m \in DOMAIN r.messages \ DOMAIN s.messages : \E i \in DOMAIN to : m = L + i
    <2>1. ASSUME NEW m \in 1 .. L + Len(to), m \notin 1 .. L  PROVE m - L \in 1 .. Len(to) /\ m = L + (m - L)
        BY <2>1, <1>4
    <2> QED  BY <2>1, <1>4, <1>12
<1>16. AsksOK(r)
    <2>1. \A m \in DOMAIN r.messages \ DOMAIN s.messages : ~r.messages[m].asked
        BY <1>14, <1>15, SentMessage
    <2> QED  BY <2>1, <1>11, <1>13, NewMessagesKeepAsks DEF Mail
<1>17. HeardOK(r)
    <2>1. ASSUME NEW m \in DOMAIN s.messages
          PROVE  /\ Len(r.messages[m].heard) <= 1
                 /\ \A i \in DOMAIN r.messages[m].heard :
                       /\ r.messages[m].heard[i] \in DOMAIN r.starts
                       /\ GroupOf(r, r.messages[m].heard[i]) = r.messages[m].to
        BY <1>11, <1>13 DEF Mail, HeardOK, Quiet, GroupOf
    <2>2. ASSUME NEW m \in DOMAIN r.messages \ DOMAIN s.messages
          PROVE  /\ Len(r.messages[m].heard) <= 1
                 /\ \A i \in DOMAIN r.messages[m].heard :
                       /\ r.messages[m].heard[i] \in DOMAIN r.starts
                       /\ GroupOf(r, r.messages[m].heard[i]) = r.messages[m].to
        <3>1. PICK i \in DOMAIN to : m = L + i  BY <1>15
        <3>2. r.messages[m] = Sent(s, to[i])  BY <3>1, <1>14
        <3>3. to[i] \in Hosts /\ s.registered[to[i]] # 0  OBVIOUS
        <3> QED  BY <3>2, <3>3, <1>11, SentMessage DEF Quiet, GroupOf
    <2> QED  BY <2>1, <2>2 DEF HeardOK
<1>18. PendingOK(r)
    <2>1. ASSUME NEW h \in Hosts, r.registered[h] = 0  PROVE r.pending[h] = <<>>
        <3>1. s.registered[h] = 0  BY <2>1, <1>11 DEF Quiet
        <3>2. ~\E i \in DOMAIN to : to[i] = h  BY <3>1
        <3>3. r.pending[h] = s.pending[h]  BY <3>2, <1>9, <1>11
        <3> QED  BY <3>1, <3>3 DEF Mail, PendingOK
    <2>2. ASSUME NEW h \in Hosts, NEW m \in Waiting(s, h)
          PROVE  m \in DOMAIN r.messages /\ r.messages[m].to = r.registered[h] /\ r.messages[m].heard = <<>>
        <3>1. m \in DOMAIN s.messages /\ s.messages[m].to = s.registered[h] /\ s.messages[m].heard = <<>>
            BY DEF Mail, PendingOK
        <3> QED  BY <3>1, <1>13, <1>11 DEF Quiet
    <2>3. ASSUME NEW h \in Hosts, NEW m \in Waiting(r, h), \E i \in DOMAIN to : to[i] = h
          PROVE  m \in DOMAIN r.messages /\ r.messages[m].to = r.registered[h] /\ r.messages[m].heard = <<>>
        <3>1. PICK j \in DOMAIN r.pending[h] : m = r.pending[h][j]  BY DEF Waiting
        <3>2. r.pending[h] = Delivered(s, h, at(h)) /\ at(h) \in Nat  BY <2>3, <1>6, <1>9, <1>11
        <3>3. m \in Waiting(s, h) \/ (m = at(h) /\ Holds(s, s.registered[h]) = 0)
            BY <3>1, <3>2, DeliveredBounded
        <3>4. ASSUME m = at(h), Holds(s, s.registered[h]) = 0
              PROVE  m \in DOMAIN r.messages /\ r.messages[m].to = r.registered[h] /\ r.messages[m].heard = <<>>
            <4>1. PICK i \in DOMAIN to : to[i] = h /\ at(h) = L + i  BY <2>3, <1>6
            <4>2. r.messages[m] = Sent(s, h) /\ m \in DOMAIN r.messages  BY <4>1, <3>4, <1>14
            <4>3. s.registered[h] # 0  BY <4>1
            <4> QED  BY <4>2, <4>3, <3>4, <1>11, SentMessage DEF Quiet
        <3> QED  BY <3>3, <3>4, <2>2
    <2>4. ASSUME NEW h \in Hosts, NEW m \in Waiting(r, h), ~\E i \in DOMAIN to : to[i] = h
          PROVE  m \in Waiting(s, h)
        BY <2>4, <1>9, <1>11 DEF Waiting
    <2> QED  BY <2>1, <2>2, <2>3, <2>4 DEF PendingOK
<1>19. AlarmsKept(s, r)  BY <1>13 DEF AlarmsKept
<1>20. WaitsKept(s, r)
    <2> SUFFICES ASSUME NEW h \in Hosts
                 PROVE  r.pending[h] = s.pending[h] \/ (s.registered[h] # 0 /\ Holds(s, s.registered[h]) = 0)
        BY DEF WaitsKept
    <2>1. CASE \E i \in DOMAIN to : to[i] = h
        <3>1. r.pending[h] = Delivered(s, h, at(h)) /\ at(h) \in Nat  BY <2>1, <1>6, <1>9, <1>11
        <3>2. s.registered[h] # 0  BY <2>1
        <3> QED  BY <3>1, <3>2, DeliveredBounded
    <2>2. CASE ~\E i \in DOMAIN to : to[i] = h  BY <2>2, <1>9, <1>11
    <2> QED  BY <2>1, <2>2
<1>21. Len(r.messages) = L + Len(to)  BY <1>5, <1>11
<1> QED
    BY <1>11, <1>13, <1>14, <1>16, <1>17, <1>18, <1>19, <1>20, <1>21 DEF Talk, Mail, r

\* publish() to one host.
LEMMA PublishedTalk ==
    ASSUME NEW s, Shape(s), HoldOK(s), Mail(s), NEW h \in Hosts, s.registered[h] # 0
    PROVE  /\ Talk(s, Published(s, h))
           /\ Published(s, h).asks = s.asks /\ Published(s, h).timers = s.timers
<1>1. CASE s.closed \/ Len(s.messages) = MaxMessages
    <2>1. Published(s, h) = s  BY <1>1 DEF Published
    <2> QED  BY <2>1 DEF Talk, Quiet, AlarmsKept, WaitsKept
<1>2. CASE ~(s.closed \/ Len(s.messages) = MaxMessages)
    <2>1. Published(s, h) = PublishedTo(s, <<h>>)  BY <1>2 DEF Published
    <2> DEFINE to == <<h>>
    <2>2. to \in Seq(Hosts) /\ Len(to) = 1 /\ \A i \in DOMAIN to : to[i] = h  OBVIOUS
    <2>3. Len(s.messages) + 1 <= MaxMessages
        <3>1. Len(s.messages) \in Nat /\ MaxMessages \in Nat /\ Len(s.messages) <= MaxMessages
            BY ShapeTypes, BoundsAssumption DEF Shape
        <3> QED  BY <3>1, <1>2
    <2> HIDE DEF to
    <2>4. Len(s.messages) + Len(to) <= MaxMessages /\ \A i \in DOMAIN to : s.registered[to[i]] # 0
        BY <2>2, <2>3
    <2>5. /\ Talk(s, PublishedTo(s, to))
          /\ PublishedTo(s, to).asks = s.asks /\ PublishedTo(s, to).timers = s.timers
        BY <2>2, <2>4, PublishedToTalk
    <2> QED  BY <2>1, <2>5 DEF to
<1> QED  BY <1>1, <1>2

\* All questions but that of h are as they should be.
AsksButOK(s, h) ==
    /\ s.timers = {s.asks[k] : k \in Hosts} \ {0}
    /\ \A k \in Hosts \ {h} : s.asks[k] # 0 => AskOK(s, k) /\ s.asks[k] # s.asks[h]

\* Two hosts owe answers to different questions.
LEMMA AsksDiffer ==
    ASSUME NEW s, Shape(s), AsksOK(s), NEW h \in Hosts, NEW k \in Hosts, k # h, s.asks[k] # 0
    PROVE  s.asks[k] # s.asks[h]
<1> SUFFICES ASSUME s.asks[k] = s.asks[h]  PROVE FALSE
    OBVIOUS
<1>1. s.asks[h] # 0  OBVIOUS
<1>2. AskOK(s, k) /\ AskOK(s, h)  BY <1>1 DEF AsksOK
<1>3. s.registered[h] = s.registered[k] /\ s.registered[h] # 0  BY <1>2 DEF AskOK
<1>4. s.groups[s.registered[h]].id = h /\ s.groups[s.registered[k]].id = k
    BY <1>3, RegisteredGroup
<1> QED  BY <1>3, <1>4

\* clearHostAsk() leaves the questions of the others, and nothing else changes.
LEMMA ClearedAsks ==
    ASSUME NEW s, Shape(s), NEW h \in Hosts, AsksButOK(s, h)
    PROVE  /\ Shape(Cleared(s, h)) /\ Quiet(s, Cleared(s, h))
           /\ AsksOK(Cleared(s, h))
           /\ Cleared(s, h).messages = s.messages /\ Cleared(s, h).pending = s.pending
<1> DEFINE as == [s.asks EXCEPT ![h] = 0]
           ti == s.timers \ {s.asks[h]}
           r == Cleared(s, h)
<1>1. s.messages \in Seq(Message) /\ s.pending \in [Hosts -> Seq(Nat)]
      /\ s.asks \in [Hosts -> Nat] /\ s.timers \in SUBSET Nat
    BY ShapeTypes
<1>2. as \in [Hosts -> Nat] /\ ti \in SUBSET Nat
      /\ \A k \in Hosts : as[k] = IF k = h THEN 0 ELSE s.asks[k]
    BY <1>1
<1>3. r = [s EXCEPT !.timers = ti, !.asks = as]  BY DEF Cleared
<1>4. ti = {as[k] : k \in Hosts} \ {0}
    <2>1. s.timers = {s.asks[k] : k \in Hosts} \ {0}  BY DEF AsksButOK
    <2>2. \A k \in Hosts \ {h} : s.asks[k] # 0 => s.asks[k] # s.asks[h]  BY DEF AsksButOK
    <2>3. ASSUME NEW m \in ti  PROVE m \in {as[k] : k \in Hosts} \ {0}
        <3>1. PICK k \in Hosts : m = s.asks[k] /\ m # 0  BY <2>1
        <3>2. k # h  BY <3>1
        <3>3. as[k] = m  BY <3>1, <3>2, <1>2
        <3> QED  BY <3>1, <3>3
    <2>4. ASSUME NEW m \in {as[k] : k \in Hosts} \ {0}  PROVE m \in ti
        <3>1. PICK k \in Hosts : m = as[k] /\ m # 0  OBVIOUS
        <3>2. k # h /\ m = s.asks[k]  BY <3>1, <1>2
        <3>3. m # s.asks[h]  BY <3>1, <3>2, <2>2
        <3> QED  BY <3>1, <3>2, <3>3, <2>1
    <2> QED  BY <2>3, <2>4
<1> HIDE DEF as, ti, r
<1>5. r = WithMail(s, s.messages, s.pending, as, ti)  BY ONLY <1>3, Shape(s) DEF WithMail, Shape, State
<1>6. Len(s.messages) <= MaxMessages /\ \A k \in Hosts : Len(s.pending[k]) <= QueueLimit
    BY DEF Shape
<1>7. Shape(r) /\ Quiet(s, r)
    BY <1>1, <1>2, <1>5, <1>6, MailShape
<1>8. r.messages = s.messages /\ r.pending = s.pending /\ r.asks = as /\ r.timers = ti
    BY ONLY <1>5, Shape(s) DEF WithMail, Shape, State
<1>9. ASSUME NEW k \in Hosts, r.asks[k] # 0  PROVE AskOK(r, k)
    <2>1. k # h /\ s.asks[k] = r.asks[k]  BY <1>2, <1>8, <1>9
    <2>2. AskOK(s, k)  BY <2>1, <1>9 DEF AsksButOK
    <2> QED  BY <2>1, <2>2, <1>7, <1>8 DEF AskOK, Quiet
<1>10. AsksOK(r)  BY <1>4, <1>8, <1>9 DEF AsksOK
<1> QED  BY <1>7, <1>8, <1>10 DEF r

\* What a host says answers its questions.
LEMMA AnsweredMessages ==
    ASSUME NEW s, Shape(s), NEW h \in Hosts
    PROVE  /\ Shape(Answered(s, h)) /\ Quiet(s, Answered(s, h))
           /\ Answered(s, h).pending = s.pending
           /\ Answered(s, h).asks = s.asks /\ Answered(s, h).timers = s.timers
           /\ DOMAIN Answered(s, h).messages = DOMAIN s.messages
           /\ \A m \in DOMAIN s.messages :
                 /\ Answered(s, h).messages[m].to = s.messages[m].to
                 /\ Answered(s, h).messages[m].heard = s.messages[m].heard
                 /\ Answered(s, h).messages[m].asked = s.messages[m].asked
                 /\ Answered(s, h).messages[m].alarmed = s.messages[m].alarmed
                 /\ s.groups[s.messages[m].to].id # h =>
                       Answered(s, h).messages[m].answered = s.messages[m].answered
<1> DEFINE put(m) == s.messages[m].asked /\ s.groups[s.messages[m].to].id = h
           new(m) == [s.messages[m] EXCEPT !.answered = s.messages[m].answered \/ put(m)]
           ms == [m \in DOMAIN s.messages |-> new(m)]
           r == Answered(s, h)
<1>1. s.messages \in Seq(Message) /\ s.pending \in [Hosts -> Seq(Nat)]
      /\ s.asks \in [Hosts -> Nat] /\ s.timers \in SUBSET Nat
    BY ShapeTypes
<1>2. r = [s EXCEPT !.messages = ms]  BY DEF Answered
<1>3. \A m \in DOMAIN s.messages :
          /\ new(m) \in Message
          /\ new(m).to = s.messages[m].to /\ new(m).heard = s.messages[m].heard
          /\ new(m).asked = s.messages[m].asked /\ new(m).alarmed = s.messages[m].alarmed
          /\ s.groups[s.messages[m].to].id # h => new(m).answered = s.messages[m].answered
    <2> SUFFICES ASSUME NEW m \in DOMAIN s.messages
                 PROVE  /\ new(m) \in Message
                        /\ new(m).to = s.messages[m].to /\ new(m).heard = s.messages[m].heard
                        /\ new(m).asked = s.messages[m].asked
                        /\ new(m).alarmed = s.messages[m].alarmed
                        /\ s.groups[s.messages[m].to].id # h =>
                              new(m).answered = s.messages[m].answered
        OBVIOUS
    <2> DEFINE x == s.messages[m]
               b == x.answered \/ put(m)
    <2>1. x \in Message  BY <1>1
    <2>2. b \in BOOLEAN /\ (s.groups[x.to].id # h => b = x.answered)
        BY <2>1 DEF Message
    <2>3. new(m) = [x EXCEPT !.answered = b]  OBVIOUS
    <2> HIDE DEF x, b
    <2>4. [x EXCEPT !.answered = b] \in Message
          /\ [x EXCEPT !.answered = b].to = x.to /\ [x EXCEPT !.answered = b].heard = x.heard
          /\ [x EXCEPT !.answered = b].asked = x.asked
          /\ [x EXCEPT !.answered = b].alarmed = x.alarmed
          /\ [x EXCEPT !.answered = b].answered = b
        BY ONLY <2>1, <2>2 DEF Message
    <2> HIDE DEF new
    <2> QED  BY <2>2, <2>3, <2>4 DEF x
<1> HIDE DEF new
<1>4. ms \in Seq(Message) /\ Len(ms) = Len(s.messages) /\ DOMAIN ms = DOMAIN s.messages
      /\ \A m \in DOMAIN s.messages : ms[m] = new(m)
    <2>1. DOMAIN s.messages = 1 .. Len(s.messages) /\ Len(s.messages) \in Nat  BY <1>1
    <2>2. ms \in [1 .. Len(s.messages) -> Message]  BY <2>1, <1>3
    <2> QED  BY <2>1, <2>2
<1> HIDE DEF ms, r
<1>5. r = WithMail(s, ms, s.pending, s.asks, s.timers)  BY <1>2, WithMailSame
<1>6. Len(ms) <= MaxMessages /\ \A k \in Hosts : Len(s.pending[k]) <= QueueLimit
    BY <1>4 DEF Shape
<1>7. Shape(r) /\ Quiet(s, r)
    BY <1>1, <1>4, <1>5, <1>6, MailShape
<1>8. r.messages = ms /\ r.pending = s.pending /\ r.asks = s.asks /\ r.timers = s.timers
    BY ONLY <1>5, Shape(s) DEF WithMail, Shape, State
<1> QED  BY <1>3, <1>4, <1>7, <1>8 DEF r

\* onHostGroupEvent() of a message of registered or removed host h.
LEMMA SpokenTalk ==
    ASSUME NEW s, Shape(s), HoldOK(s), Mail(s), NEW h \in Hosts
    PROVE  Talk(s, Spoken(s, h))
<1> DEFINE a == Answered(s, h)
           t == Cleared(a, h)
<1>1. /\ Shape(a) /\ Quiet(s, a)
      /\ a.pending = s.pending /\ a.asks = s.asks /\ a.timers = s.timers
      /\ DOMAIN a.messages = DOMAIN s.messages
      /\ \A m \in DOMAIN s.messages :
            /\ a.messages[m].to = s.messages[m].to
            /\ a.messages[m].heard = s.messages[m].heard
            /\ a.messages[m].asked = s.messages[m].asked
            /\ a.messages[m].alarmed = s.messages[m].alarmed
            /\ s.groups[s.messages[m].to].id # h =>
                  a.messages[m].answered = s.messages[m].answered
    BY AnsweredMessages
<1> HIDE DEF a
<1>2. AsksButOK(a, h)
    <2>1. a.timers = {a.asks[k] : k \in Hosts} \ {0}  BY <1>1 DEF Mail, AsksOK
    <2>2. ASSUME NEW k \in Hosts \ {h}, a.asks[k] # 0
          PROVE  AskOK(a, k) /\ a.asks[k] # a.asks[h]
        <3>1. s.asks[k] # 0 /\ s.asks[k] = a.asks[k]  BY <1>1, <2>2
        <3>2. AskOK(s, k)  BY <3>1 DEF Mail, AsksOK
        <3>3. s.messages[s.asks[k]].to = s.registered[k] /\ s.registered[k] # 0
            BY <3>2 DEF AskOK
        <3>4. s.groups[s.messages[s.asks[k]].to].id # h  BY <3>3, RegisteredGroup
        <3>5. AskOK(a, k)  BY <3>1, <3>2, <3>4, <1>1 DEF AskOK, Quiet
        <3>6. s.asks[k] # s.asks[h]  BY <3>1, AsksDiffer DEF Mail
        <3> QED  BY <3>1, <3>5, <3>6, <1>1
    <2> QED  BY <2>1, <2>2 DEF AsksButOK
<1>3. /\ Shape(t) /\ Quiet(a, t) /\ AsksOK(t)
      /\ t.messages = a.messages /\ t.pending = a.pending
    BY <1>1, <1>2, ClearedAsks
<1>4. Spoken(s, h) = IF h = s.coordinator THEN s
                     ELSE IF s.registered[h] = 0 THEN t ELSE Published(t, s.coordinator)
    BY DEF Spoken, a
<1> HIDE DEF t
<1>5. Quiet(s, t)  BY <1>1, <1>3 DEF Quiet
<1>6. HeardOK(t)
    <2>1. HeardOK(s)  BY DEF Mail
    <2> QED  BY <2>1, <1>1, <1>3, <1>5 DEF HeardOK, Quiet, GroupOf
<1>7. PendingOK(t)
    <2>1. PendingOK(s)  BY DEF Mail
    <2> QED  BY <2>1, <1>1, <1>3, <1>5 DEF PendingOK, Quiet, Waiting
<1>8. AlarmsKept(s, t) /\ WaitsKept(s, t)
    BY <1>1, <1>3 DEF AlarmsKept, WaitsKept
<1>9. Mail(t)  BY <1>3, <1>6, <1>7 DEF Mail
<1>10. Talk(s, t)  BY <1>3, <1>5, <1>8, <1>9 DEF Talk
<1>11. CASE h = s.coordinator
    BY <1>4, <1>11 DEF Talk, Quiet, AlarmsKept, WaitsKept
<1>12. CASE h # s.coordinator /\ s.registered[h] = 0
    BY <1>4, <1>10, <1>12
<1>13. CASE h # s.coordinator /\ s.registered[h] # 0
    <2> DEFINE r == Published(t, s.coordinator)
    <2>1. s.coordinator \in Hosts /\ t.registered[s.coordinator] # 0
        BY <1>5, ShapeTypes DEF Shape, Quiet
    <2>2. HoldOK(t)  BY <1>5 DEF HoldOK, Quiet, Holds, GroupOf
    <2>3. Talk(t, r)  BY <2>1, <2>2, <1>3, <1>9, PublishedTalk
    <2> HIDE DEF r
    <2>4. Quiet(s, r)  BY <2>3, <1>5 DEF Talk, Quiet
    <2>5. AlarmsKept(s, r)
        <3>1. AlarmsKept(t, r)  BY <2>3 DEF Talk
        <3> QED  BY <3>1, <1>8 DEF AlarmsKept
    <2>6. WaitsKept(s, r)
        <3>1. WaitsKept(t, r)  BY <2>3 DEF Talk
        <3>2. t.pending = s.pending  BY <1>1, <1>3
        <3> QED  BY <3>1, <3>2, <1>5 DEF WaitsKept, Quiet, Holds
    <2>7. Talk(s, r)  BY <2>3, <2>4, <2>5, <2>6 DEF Talk
    <2> QED  BY <2>7, <1>4, <1>13 DEF r
<1> QED  BY <1>11, <1>12, <1>13

\* flushPendingCrossHostMessages(): nothing waits for h any more.
LEMMA FlushedTalk ==
    ASSUME NEW s, Shape(s), HoldOK(s), Mail(s), NEW h \in Hosts
    PROVE  Talk(s, Flushed(s, h)) /\ Flushed(s, h).pending[h] = <<>>
<1> DEFINE g == s.registered[h]
           n == Holds(s, g)
           pe == [s.pending EXCEPT ![h] = <<>>]
           new(m) == [s.messages[m] EXCEPT !.heard = Append(s.messages[m].heard, n)]
           ms == [m \in DOMAIN s.messages |->
                    IF m \in Waiting(s, h) THEN new(m) ELSE s.messages[m]]
           r == Flushed(s, h)
           t == [s EXCEPT !.pending = pe]
<1>1. s.messages \in Seq(Message) /\ s.pending \in [Hosts -> Seq(Nat)]
      /\ s.asks \in [Hosts -> Nat] /\ s.timers \in SUBSET Nat
    BY ShapeTypes
<1>2. pe \in [Hosts -> Seq(Nat)] /\ \A k \in Hosts : Len(pe[k]) <= QueueLimit
      /\ pe[h] = <<>> /\ \A j \in Hosts : j # h => pe[j] = s.pending[j]
    <2>1. <<>> \in Seq(Nat) /\ Len(<<>>) = 0 /\ QueueLimit \in Nat  BY BoundsAssumption
    <2>2. \A k \in Hosts : pe[k] = IF k = h THEN <<>> ELSE s.pending[k]  BY <1>1
    <2> QED  BY <2>1, <2>2, <1>1 DEF Shape
<1>3. t = WithMail(s, s.messages, pe, s.asks, s.timers)  BY WithMailSame
<1>4. t.starts = s.starts /\ t.groups = s.groups /\ t.messages = s.messages
    BY ONLY Shape(s) DEF Shape, State
<1>5. \/ r = WithMail(s, s.messages, pe, s.asks, s.timers)
      \/ g # 0 /\ n # 0 /\ r = WithMail(s, ms, pe, s.asks, s.timers)
    <2>1. CASE g = 0 \/ n = 0
        <3>1. r = t  BY <2>1 DEF Flushed
        <3> QED  BY <3>1, <1>3
    <2>2. CASE g # 0 /\ n # 0
        <3>1. r = Heard(t, n, Waiting(s, h))  BY <2>2 DEF Flushed
        <3>2. CASE ~Takes(t, n)
            <4>1. r = t  BY <3>1, <3>2 DEF Heard
            <4> QED  BY <4>1, <1>3
        <3>3. CASE Takes(t, n)
            <4>1. r = [t EXCEPT !.messages = ms]  BY <3>1, <3>3, <1>4 DEF Heard
            <4> HIDE DEF r, ms, pe
            <4>2. r = WithMail(s, ms, pe, s.asks, s.timers)
                BY ONLY <4>1, Shape(s) DEF WithMail, Shape, State
            <4> QED  BY <4>2, <2>2
        <3> QED  BY <3>2, <3>3
    <2> QED  BY <2>1, <2>2
<1>6. ASSUME g # 0, n # 0, NEW m \in Waiting(s, h)
      PROVE  /\ m \in DOMAIN s.messages /\ new(m) \in Message
             /\ new(m).heard = <<n>> /\ new(m).to = g /\ s.messages[m].to = g
             /\ new(m).asked = s.messages[m].asked
             /\ new(m).answered = s.messages[m].answered
             /\ new(m).alarmed = s.messages[m].alarmed
    <2>1. m \in DOMAIN s.messages /\ s.messages[m].to = g /\ s.messages[m].heard = <<>>
        BY DEF Mail, PendingOK
    <2> DEFINE x == s.messages[m]
    <2>2. x \in Message /\ x.to = g /\ x.heard = <<>>  BY <2>1, <1>1
    <2>3. n \in 1 .. MaxHostStarts  BY <1>6, RegisteredGroup, HeldStart
    <2> HIDE DEF n, x, g
    <2>4. Append(x.heard, n) = <<n>> /\ <<n>> \in Seq(1 .. MaxHostStarts)
        BY ONLY <2>2, <2>3
    <2> DEFINE y == [x EXCEPT !.heard = <<n>>]
    <2>5. y \in Message /\ y.heard = <<n>> /\ y.to = x.to /\ y.asked = x.asked
          /\ y.answered = x.answered /\ y.alarmed = x.alarmed
        BY ONLY <2>2, <2>4 DEF Message
    <2>6. new(m) = y  BY <2>4 DEF x
    <2> HIDE DEF y, new
    <2> QED  BY <2>1, <2>2, <2>5, <2>6 DEF x
<1> HIDE DEF new
<1>7. ASSUME g # 0, n # 0
      PROVE  /\ ms \in Seq(Message) /\ Len(ms) = Len(s.messages)
             /\ DOMAIN ms = DOMAIN s.messages
             /\ \A m \in DOMAIN s.messages :
                   ms[m] = IF m \in Waiting(s, h) THEN new(m) ELSE s.messages[m]
    <2>1. DOMAIN s.messages = 1 .. Len(s.messages) /\ Len(s.messages) \in Nat  BY <1>1
    <2>2. ms \in [1 .. Len(s.messages) -> Message]  BY <2>1, <1>1, <1>6, <1>7
    <2> QED  BY <2>1, <2>2
<1>8. Len(s.messages) <= MaxMessages  BY DEF Shape
<1> DEFINE after == IF r = WithMail(s, s.messages, pe, s.asks, s.timers) THEN s.messages ELSE ms
<1>9. r = WithMail(s, after, pe, s.asks, s.timers)
      /\ (after = s.messages \/ (g # 0 /\ n # 0 /\ after = ms))
    BY <1>5
<1> HIDE DEF ms, pe, r, after
<1>10. after \in Seq(Message) /\ Len(after) <= MaxMessages /\ DOMAIN after = DOMAIN s.messages
    BY <1>1, <1>7, <1>8, <1>9
<1>11. Shape(r) /\ Quiet(s, r)
    BY <1>1, <1>2, <1>9, <1>10, MailShape
<1>12. r.messages = after /\ r.pending = pe /\ r.asks = s.asks /\ r.timers = s.timers
    BY ONLY <1>9, Shape(s) DEF WithMail, Shape, State
<1>13. \A m \in DOMAIN s.messages :
          /\ r.messages[m].to = s.messages[m].to
          /\ r.messages[m].asked = s.messages[m].asked
          /\ r.messages[m].answered = s.messages[m].answered
          /\ r.messages[m].alarmed = s.messages[m].alarmed
          /\ \/ r.messages[m].heard = s.messages[m].heard
             \/ m \in Waiting(s, h) /\ g # 0 /\ n # 0 /\ r.messages[m].heard = <<n>>
    <2>1. CASE after = s.messages  BY <2>1, <1>12
    <2>2. CASE g # 0 /\ n # 0 /\ after = ms
        <3>1. \A m \in DOMAIN s.messages :
                r.messages[m] = IF m \in Waiting(s, h) THEN new(m) ELSE s.messages[m]
            BY <2>2, <1>7, <1>12
        <3> QED  BY <2>2, <3>1, <1>6
    <2> QED  BY <2>1, <2>2, <1>9
<1>14. DOMAIN r.messages = DOMAIN s.messages  BY <1>10, <1>12
<1>15. HeardOK(r)
    <2> SUFFICES ASSUME NEW m \in DOMAIN s.messages
                 PROVE  /\ Len(r.messages[m].heard) <= 1
                        /\ \A i \in DOMAIN r.messages[m].heard :
                              /\ r.messages[m].heard[i] \in DOMAIN s.starts
                              /\ GroupOf(s, r.messages[m].heard[i]) = s.messages[m].to
        BY <1>11, <1>13, <1>14 DEF HeardOK, Quiet, GroupOf
    <2>1. CASE r.messages[m].heard = s.messages[m].heard
        BY <2>1 DEF Mail, HeardOK
    <2>2. CASE m \in Waiting(s, h) /\ g # 0 /\ n # 0 /\ r.messages[m].heard = <<n>>
        <3>1. s.messages[m].to = g  BY <2>2, <1>6
        <3>2. n \in DOMAIN s.starts /\ GroupOf(s, n) = g  BY <2>2, RegisteredGroup, HeldStart
        <3> DEFINE x == r.messages[m].heard
        <3>3. x = <<n>>  BY <2>2
        <3> HIDE DEF x, n
        <3>4. Len(x) = 1 /\ \A i \in DOMAIN x : x[i] = n  BY ONLY <3>3
        <3> HIDE DEF g
        <3>5. Len(x) <= 1  BY ONLY <3>4
        <3> QED  BY <3>1, <3>2, <3>4, <3>5 DEF x
    <2> QED  BY <2>1, <2>2, <1>13
<1>16. PendingOK(r)
    <2>1. ASSUME NEW k \in Hosts, r.registered[k] = 0  PROVE r.pending[k] = <<>>
        <3>1. s.registered[k] = 0  BY <2>1, <1>11 DEF Quiet
        <3>2. s.pending[k] = <<>>  BY <3>1 DEF Mail, PendingOK
        <3> QED  BY <3>2, <1>2, <1>12
    <2>2. ASSUME NEW k \in Hosts, NEW m \in Waiting(r, k)
          PROVE  m \in DOMAIN r.messages /\ r.messages[m].to = r.registered[k]
                 /\ r.messages[m].heard = <<>>
        <3>1. k # h  BY <1>2, <1>12 DEF Waiting
        <3>2. m \in Waiting(s, k)  BY <3>1, <1>2, <1>12 DEF Waiting
        <3>3. /\ m \in DOMAIN s.messages /\ s.messages[m].to = s.registered[k]
              /\ s.messages[m].heard = <<>>
            BY <3>2 DEF Mail, PendingOK
        <3>4. r.messages[m].heard = <<>>
            <4> SUFFICES ASSUME m \in Waiting(s, h), g # 0  PROVE FALSE
                BY <3>3, <1>13
            <4>1. s.messages[m].to = g  BY DEF Mail, PendingOK
            <4>2. s.registered[k] = s.registered[h] /\ s.registered[h] # 0  BY <4>1, <3>3
            <4>3. s.groups[s.registered[k]].id = k /\ s.groups[s.registered[h]].id = h
                BY <4>2, RegisteredGroup
            <4> QED  BY <4>2, <4>3, <3>1
        <3> QED  BY <3>3, <3>4, <1>11, <1>13, <1>14 DEF Quiet
    <2> QED  BY <2>1, <2>2 DEF PendingOK
<1>17. AsksOK(r)
    <2>1. r.timers = {r.asks[k] : k \in Hosts} \ {0}  BY <1>12 DEF Mail, AsksOK
    <2>2. ASSUME NEW k \in Hosts, r.asks[k] # 0  PROVE AskOK(r, k)
        <3>1. AskOK(s, k)  BY <2>2, <1>12 DEF Mail, AsksOK
        <3> QED  BY <3>1, <1>11, <1>12, <1>13, <1>14 DEF AskOK, Quiet
    <2> QED  BY <2>1, <2>2 DEF AsksOK
<1>18. AlarmsKept(s, r)  BY <1>13, <1>14 DEF AlarmsKept
<1>19. WaitsKept(s, r)  BY <1>2, <1>12 DEF WaitsKept
<1>20. r.pending[h] = <<>>  BY <1>2, <1>12
<1> QED  BY <1>11, <1>15, <1>16, <1>17, <1>18, <1>19, <1>20 DEF Talk, Mail, r

-----------------------------------------------------------------------------
(* Sessions end.                                                           *)

\* Groups of G let go of their sessions.  What they held no longer goes on, unless
\* the group was started more than once.
Falls(s, r, G) ==
    /\ r.registered = s.registered
    /\ DOMAIN r.groups = DOMAIN s.groups /\ DOMAIN r.starts = DOMAIN s.starts
    /\ \A g \in DOMAIN s.groups :
          /\ r.groups[g].id = s.groups[g].id
          /\ g \notin G => r.groups[g].host = s.groups[g].host
                           /\ r.groups[g].ready = s.groups[g].ready
          /\ g \in G => r.groups[g].host = 0 /\ (r.groups[g].ready => s.groups[g].ready)
    /\ \A n \in DOMAIN s.starts :
          /\ r.starts[n].group = s.starts[n].group /\ r.starts[n].by = s.starts[n].by
          /\ r.starts[n].pc = s.starts[n].pc /\ r.starts[n].alone = s.starts[n].alone
          /\ r.starts[n].late = s.starts[n].late
          /\ \/ r.starts[n].phase = s.starts[n].phase
             \/ s.starts[n].group \in G /\ s.starts[n].pc # "memory" /\ ~IsOpen(r, n)
    /\ \A g \in G \cap DOMAIN s.groups :
          LET n == s.groups[g].host IN
          n # 0 => \/ ~IsOpen(r, n)
                   \/ \E k \in DOMAIN s.starts \ {n} : s.starts[k].group = g
    /\ r.closed = s.closed \/ \A h \in Hosts : s.registered[h] \in G \cup {0}

\* Then what is said of groups and starts is kept.
LEMMA FallsCore ==
    ASSUME NEW s, Shape(s), Core(s), NEW r, NEW G, Falls(s, r, G)
    PROVE  Core(r)
<1>1. HoldOK(s) /\ FlightOK(s) /\ LiveOK(s) /\ ReachOK(s)  BY DEF Core
<1>2. DOMAIN r.groups = DOMAIN s.groups /\ DOMAIN r.starts = DOMAIN s.starts
      /\ r.registered = s.registered
    BY DEF Falls
<1>3. \A g \in DOMAIN s.groups :
          /\ r.groups[g].id = s.groups[g].id
          /\ g \notin G => r.groups[g].host = s.groups[g].host
                           /\ r.groups[g].ready = s.groups[g].ready
          /\ g \in G => r.groups[g].host = 0 /\ (r.groups[g].ready => s.groups[g].ready)
    BY DEF Falls
<1>4. \A n \in DOMAIN s.starts :
          /\ r.starts[n].group = s.starts[n].group /\ r.starts[n].by = s.starts[n].by
          /\ r.starts[n].pc = s.starts[n].pc /\ r.starts[n].alone = s.starts[n].alone
          /\ r.starts[n].late = s.starts[n].late
          /\ \/ r.starts[n].phase = s.starts[n].phase
             \/ s.starts[n].group \in G /\ s.starts[n].pc # "memory" /\ ~IsOpen(r, n)
    BY DEF Falls
<1>5. \A g \in DOMAIN s.groups : AloneIn(r, g) <=> AloneIn(s, g)
    BY <1>2, <1>4 DEF AloneIn, GroupOf
<1>6. HoldOK(r)
    <2> SUFFICES ASSUME NEW g \in DOMAIN s.groups, Holds(r, g) # 0
                 PROVE  /\ Holds(r, g) \in DOMAIN r.starts
                        /\ GroupOf(r, Holds(r, g)) = g
                        /\ r.starts[Holds(r, g)].pc # "memory"
        BY <1>2 DEF HoldOK
    <2>1. Holds(r, g) = Holds(s, g)  BY <1>3 DEF Holds
    <2> QED  BY <2>1, <1>1, <1>2, <1>4 DEF HoldOK, GroupOf
<1>7. FlightOK(r)
    <2> SUFFICES ASSUME NEW n \in DOMAIN s.starts
                 PROVE  FlightAt(r, n)
        BY <1>2 DEF FlightOK
    <2> DEFINE g == GroupOf(s, n)
    <2>1. g \in DOMAIN s.groups /\ GroupOf(r, n) = g  BY <1>4 DEF Shape, GroupOf
    <2>2. r.starts[n].pc = "memory" => r.starts[n].phase = "none"
        BY <1>1, <1>4 DEF FlightOK, FlightAt, OnlyFlight
    <2>3. ASSUME r.starts[n].pc \in Underway, AloneIn(r, g)
          PROVE  OnlyFlight(r, n, g)
        <3>1. s.starts[n].pc \in Underway /\ AloneIn(s, g)  BY <2>1, <2>3, <1>4, <1>5
        <3>2. OnlyFlight(s, n, g)
            BY <3>1, <1>1 DEF FlightOK, FlightAt
        <3>3. \A k \in DOMAIN r.starts :
                    GroupOf(r, k) = g /\ r.starts[k].pc \in Underway => k = n
            BY <3>2, <1>2, <1>4 DEF GroupOf, OnlyFlight
        <3>4. CASE g \in G
            <4>1. Holds(r, g) = 0 /\ ~r.groups[g].ready
                BY <3>4, <3>2, <2>1, <1>3 DEF Holds, OnlyFlight
            <4>2. n # 0
                <5>1. s.starts \in Seq(Start)  BY ShapeTypes
                <5> QED  BY <5>1
            <4> QED  BY <4>1, <4>2, <3>3 DEF OnlyFlight
        <3>5. CASE g \notin G
            <4>1. Holds(r, g) = Holds(s, g) /\ ~r.groups[g].ready
                BY <3>5, <3>2, <2>1, <1>3 DEF Holds, OnlyFlight
            <4>2. r.starts[n].phase = s.starts[n].phase  BY <3>5, <1>4 DEF GroupOf
            <4> QED  BY <4>1, <4>2, <3>2, <3>3, <1>4 DEF OnlyFlight
        <3> QED  BY <3>4, <3>5
    <2> QED  BY <2>1, <2>2, <2>3 DEF FlightAt
<1>8. LiveOK(r)
    <2> SUFFICES ASSUME NEW g \in DOMAIN s.groups,
                        r.groups[g].ready, Holds(r, g) # 0, AloneIn(r, g)
                 PROVE  r.starts[Holds(r, g)].phase = "live"
        BY <1>2 DEF LiveOK
    <2>1. g \notin G /\ Holds(r, g) = Holds(s, g) /\ s.groups[g].ready  BY <1>3 DEF Holds
    <2>2. AloneIn(s, g)  BY <1>5
    <2>3. s.starts[Holds(s, g)].phase = "live"  BY <2>1, <2>2, <1>1 DEF LiveOK
    <2>4. Holds(s, g) \in DOMAIN s.starts /\ GroupOf(s, Holds(s, g)) = g
        BY <2>1, <1>1 DEF HoldOK
    <2> QED  BY <2>1, <2>3, <2>4, <1>4 DEF GroupOf
<1>9. ReachOK(r)
    <2> SUFFICES ASSUME NEW n \in DOMAIN s.starts, IsOpen(r, n), ~r.starts[n].late,
                        ~\E k \in DOMAIN s.starts \ {n} : GroupOf(r, k) = GroupOf(r, n)
                 PROVE  Holds(r, GroupOf(r, n)) = n /\ ~r.closed /\ Current(r, GroupOf(r, n))
        BY <1>2 DEF ReachOK, ReachAt
    <2> DEFINE g == GroupOf(s, n)
    <2>1. g \in DOMAIN s.groups /\ GroupOf(r, n) = g  BY <1>4 DEF Shape, GroupOf
    <2>2. r.starts[n].phase = s.starts[n].phase  BY <1>4
    <2>3. IsOpen(s, n)  BY <2>2 DEF IsOpen
    <2>4. ~s.starts[n].late  BY <1>4
    <2>5. ~\E k \in DOMAIN s.starts \ {n} : GroupOf(s, k) = GroupOf(s, n)
        BY <2>1, <1>4 DEF GroupOf
    <2>6. Holds(s, g) = n /\ ~s.closed /\ Current(s, g)  BY <2>3, <2>4, <2>5, <1>1 DEF ReachOK, ReachAt
    <2>7. n # 0
        <3>1. s.starts \in Seq(Start)  BY ShapeTypes
        <3> QED  BY <3>1
    <2>8. g \notin G
        <3> SUFFICES ASSUME g \in G  PROVE FALSE
            OBVIOUS
        <3>1. ~IsOpen(r, n) \/ \E k \in DOMAIN s.starts \ {n} : s.starts[k].group = g
            BY <2>1, <2>6, <2>7 DEF Falls, Holds
        <3> QED  BY <3>1, <2>5 DEF GroupOf
    <2>9. Holds(r, g) = n  BY <2>1, <2>6, <2>8, <1>3 DEF Holds
    <2>10. Current(r, g)  BY <2>1, <2>6, <1>2, <1>3 DEF Current
    <2>11. ~r.closed
        <3>1. CASE r.closed = s.closed  BY <3>1, <2>6
        <3>2. CASE \A h \in Hosts : s.registered[h] \in G \cup {0}
            <4>1. s.groups[g] \in Group  BY <2>1, ShapeTypes
            <4>2. s.groups[g].id \in Hosts  BY <4>1 DEF Group
            <4>3. s.registered[s.groups[g].id] = g  BY <2>6 DEF Current
            <4>4. g # 0
                <5>1. s.groups \in Seq(Group)  BY ShapeTypes
                <5> QED  BY <5>1, <2>1
            <4> QED  BY <3>2, <4>2, <4>3, <4>4, <2>8
        <3> QED  BY <3>1, <3>2 DEF Falls
    <2> QED  BY <2>1, <2>9, <2>10, <2>11
<1> QED  BY <1>6, <1>7, <1>8, <1>9 DEF Core

\* A session that no group holds stops going on.
LEMMA PhaseDownCore ==
    ASSUME NEW s, Shape(s), Core(s), NEW n \in DOMAIN s.starts,
           s.starts[n].pc # "memory", Holds(s, GroupOf(s, n)) # n,
           NEW p \in Phase, p \notin {"starting", "live"},
           NEW r, r.groups = s.groups, r.registered = s.registered, r.closed = s.closed,
           r.starts = [s.starts EXCEPT ![n].phase = p]
    PROVE  Core(r)
<1>1. HoldOK(s) /\ FlightOK(s) /\ LiveOK(s) /\ ReachOK(s)  BY DEF Core
<1>2. s.starts \in Seq(Start)  BY ShapeTypes
<1>3. DOMAIN r.starts = DOMAIN s.starts
      /\ \A k \in DOMAIN s.starts :
            /\ r.starts[k].group = s.starts[k].group /\ r.starts[k].by = s.starts[k].by
            /\ r.starts[k].pc = s.starts[k].pc /\ r.starts[k].alone = s.starts[k].alone
            /\ r.starts[k].late = s.starts[k].late
            /\ r.starts[k].phase = IF k = n THEN p ELSE s.starts[k].phase
    BY <1>2 DEF Start
<1>4. \A g : AloneIn(r, g) <=> AloneIn(s, g)
    BY <1>3 DEF AloneIn, GroupOf
<1>5. HoldOK(r)
    BY <1>1, <1>3 DEF HoldOK, Holds, GroupOf
<1>6. FlightOK(r)
    <2>1. \A k \in DOMAIN s.starts : GroupOf(r, k) = GroupOf(s, k)  BY <1>3 DEF GroupOf
    <2> QED  BY <2>1, <1>1, <1>3, <1>4 DEF FlightOK, FlightAt, OnlyFlight, Holds
<1>7. LiveOK(r)
    <2>1. \A g \in DOMAIN s.groups : Holds(s, g) # 0 => Holds(s, g) # n /\ Holds(s, g) \in DOMAIN s.starts
        BY <1>1 DEF HoldOK
    <2> QED  BY <2>1, <1>1, <1>3, <1>4 DEF LiveOK, Holds
<1>8. ReachOK(r)
    <2> SUFFICES ASSUME NEW k \in DOMAIN s.starts, IsOpen(r, k)  PROVE ReachAt(r, k)
        BY <1>3 DEF ReachOK
    <2>1. IsOpen(s, k) /\ GroupOf(r, k) = GroupOf(s, k)
        BY <1>3 DEF IsOpen, GroupOf
    <2>2. \A j \in DOMAIN s.starts : GroupOf(r, j) = GroupOf(s, j)  BY <1>3 DEF GroupOf
    <2>3. Holds(r, GroupOf(s, k)) = Holds(s, GroupOf(s, k))
          /\ (Current(r, GroupOf(s, k)) <=> Current(s, GroupOf(s, k)))
        BY DEF Holds, Current
    <2>4. r.starts[k].late = s.starts[k].late  BY <1>3
    <2>5. ReachAt(s, k)  BY <2>1, <1>1 DEF ReachOK
    <2> QED  BY <2>1, <2>2, <2>3, <2>4, <2>5, <1>3 DEF ReachAt
<1> QED  BY <1>5, <1>6, <1>7, <1>8 DEF Core

\* One group or one start is replaced.
WithGroup(s, g, x) == [s EXCEPT !.groups = [s.groups EXCEPT ![g] = x]]
WithStart(s, n, x) == [s EXCEPT !.starts = [s.starts EXCEPT ![n] = x]]

\* All but the groups and the starts.
RestSame(s, r) ==
    /\ r.messages = s.messages /\ r.registered = s.registered /\ r.pending = s.pending
    /\ r.asks = s.asks /\ r.timers = s.timers /\ r.coordinator = s.coordinator
    /\ r.closed = s.closed /\ r.booted = s.booted

\* What is said of the messages does not depend on the sessions.
LEMMA RestMail ==
    ASSUME NEW s, Mail(s), NEW r, RestSame(s, r), DOMAIN r.starts = DOMAIN s.starts,
           \A n \in DOMAIN s.starts : r.starts[n].group = s.starts[n].group
    PROVE  Mail(r)
<1>1. PendingOK(r)  BY DEF Mail, PendingOK, RestSame, Waiting
<1>2. HeardOK(r)  BY DEF Mail, HeardOK, RestSame, GroupOf
<1>3. AsksOK(r)
    <2>1. \A h \in Hosts : AskOK(s, h) => AskOK(r, h)  BY DEF AskOK, RestSame
    <2> QED  BY <2>1 DEF Mail, AsksOK, RestSame
<1> QED  BY <1>1, <1>2, <1>3 DEF Mail

\* The state with one other group: what is said of messages is kept.
LEMMA WithGroupShape ==
    ASSUME NEW s, Shape(s), NEW g \in DOMAIN s.groups, NEW x \in Group, x.id = s.groups[g].id
    PROVE  /\ Shape(WithGroup(s, g, x)) /\ RestSame(s, WithGroup(s, g, x))
           /\ WithGroup(s, g, x).starts = s.starts
           /\ DOMAIN WithGroup(s, g, x).groups = DOMAIN s.groups
           /\ \A k \in DOMAIN s.groups :
                 WithGroup(s, g, x).groups[k] = IF k = g THEN x ELSE s.groups[k]
           /\ Mail(s) => Mail(WithGroup(s, g, x))
<1> DEFINE gs == [s.groups EXCEPT ![g] = x]
           r == WithGroup(s, g, x)
<1>1. s.groups \in Seq(Group)  BY ShapeTypes
<1>2. gs \in Seq(Group) /\ Len(gs) = Len(s.groups) /\ DOMAIN gs = DOMAIN s.groups
      /\ \A k \in DOMAIN s.groups : gs[k] = IF k = g THEN x ELSE s.groups[k]
    BY <1>1
<1>3. r = [s EXCEPT !.groups = gs]  BY DEF WithGroup
<1> HIDE DEF gs, r
<1>4. r \in State  BY ONLY <1>2, <1>3, Shape(s) DEF Shape, State
<1>5. r.groups = gs /\ r.starts = s.starts /\ RestSame(s, r)
    BY ONLY <1>3, Shape(s) DEF Shape, State, RestSame
<1>6. Shape(r)
    <2>1. \A k \in DOMAIN s.groups : r.groups[k].id = s.groups[k].id  BY <1>2, <1>5
    <2> QED  BY <2>1, <1>2, <1>4, <1>5 DEF Shape, RestSame, GroupOf
<1>7. Mail(s) => Mail(r)  BY <1>5, RestMail
<1> QED  BY <1>2, <1>5, <1>6, <1>7 DEF r

\* The state with one other start: what is said of messages is kept.
LEMMA WithStartShape ==
    ASSUME NEW s, Shape(s), NEW n \in DOMAIN s.starts, NEW x \in Start,
           x.group = s.starts[n].group
    PROVE  /\ Shape(WithStart(s, n, x)) /\ RestSame(s, WithStart(s, n, x))
           /\ WithStart(s, n, x).groups = s.groups
           /\ DOMAIN WithStart(s, n, x).starts = DOMAIN s.starts
           /\ \A k \in DOMAIN s.starts :
                 WithStart(s, n, x).starts[k] = IF k = n THEN x ELSE s.starts[k]
           /\ Mail(s) => Mail(WithStart(s, n, x))
<1> DEFINE ss == [s.starts EXCEPT ![n] = x]
           r == WithStart(s, n, x)
<1>1. s.starts \in Seq(Start)  BY ShapeTypes
<1>2. ss \in Seq(Start) /\ Len(ss) = Len(s.starts) /\ DOMAIN ss = DOMAIN s.starts
      /\ \A k \in DOMAIN s.starts : ss[k] = IF k = n THEN x ELSE s.starts[k]
    BY <1>1
<1>3. r = [s EXCEPT !.starts = ss]  BY DEF WithStart
<1> HIDE DEF ss, r
<1>4. r \in State  BY ONLY <1>2, <1>3, Shape(s) DEF Shape, State
<1>5. r.starts = ss /\ r.groups = s.groups /\ RestSame(s, r)
    BY ONLY <1>3, Shape(s) DEF Shape, State, RestSame
<1>6. Shape(r)
    <2>1. \A k \in DOMAIN s.starts : r.starts[k].group = s.starts[k].group  BY <1>2, <1>5
    <2> QED  BY <2>1, <1>2, <1>4, <1>5 DEF Shape, RestSame, GroupOf
<1>7. Mail(s) => Mail(r)
    <2>1. \A k \in DOMAIN s.starts : r.starts[k].group = s.starts[k].group  BY <1>2, <1>5
    <2> QED  BY <2>1, <1>2, <1>5, RestMail
<1> QED  BY <1>2, <1>5, <1>6, <1>7 DEF r

\* A group lets go of its session, or is quiet about its end, or no longer.
LetGo(s, g) == [s EXCEPT !.groups[g].host = 0, !.groups[g].ready = FALSE]
Hushed(s, g) == [s EXCEPT !.groups[g].suppress = TRUE]
Unhushed(s, g) == [s EXCEPT !.groups[g].suppress = FALSE]

\* It is the group g with another field.
LEMMA LetGoSame ==
    ASSUME NEW s, Shape(s), NEW g \in DOMAIN s.groups
    PROVE  /\ LetGo(s, g) = WithGroup(s, g, [s.groups[g] EXCEPT !.host = 0, !.ready = FALSE])
           /\ Hushed(s, g) = WithGroup(s, g, [s.groups[g] EXCEPT !.suppress = TRUE])
           /\ Unhushed(s, g) = WithGroup(s, g, [s.groups[g] EXCEPT !.suppress = FALSE])
<1>1. s \in State /\ s.groups \in Seq(Group) /\ s.groups[g] \in Group  BY ShapeTypes
<1>2. LetGo(s, g) = WithGroup(s, g, [s.groups[g] EXCEPT !.host = 0, !.ready = FALSE])
    BY ONLY <1>1, g \in DOMAIN s.groups DEF LetGo, WithGroup, State
<1>3. Hushed(s, g) = WithGroup(s, g, [s.groups[g] EXCEPT !.suppress = TRUE])
    BY DEF Hushed, WithGroup
<1>4. Unhushed(s, g) = WithGroup(s, g, [s.groups[g] EXCEPT !.suppress = FALSE])
    BY DEF Unhushed, WithGroup
<1> QED  BY ONLY <1>2, <1>3, <1>4

\* At most group g lets go of its session, or is no longer ready; messages may be sent.
HeadSame(s, r) ==
    /\ r.registered = s.registered /\ r.coordinator = s.coordinator
    /\ r.closed = s.closed /\ r.booted = s.booted
WaitsAfter(s, r) ==
    \A h \in Hosts :
        \/ r.pending[h] = s.pending[h]
        \/ r.pending[h] = <<>>
        \/ r.registered[h] # 0 /\ Holds(r, r.registered[h]) = 0
OnlyGroup(s, r, g) ==
    /\ DOMAIN r.groups = DOMAIN s.groups
    /\ \A k \in DOMAIN s.groups : k # g => r.groups[k] = s.groups[k]
    /\ r.groups[g].id = s.groups[g].id
    /\ Holds(r, g) \in {0, Holds(s, g)}
    /\ r.groups[g].ready => s.groups[g].ready
Loosens(s, r, g) ==
    /\ Shape(r) /\ Mail(r) /\ AlarmsKept(s, r) /\ HeadSame(s, r)
    /\ OnlyGroup(s, r, g) /\ WaitsAfter(s, r)

\* The session that group g held does not go on; the other starts are as they were.
Halted(s, r, g) ==
    /\ DOMAIN r.starts = DOMAIN s.starts
    /\ \A n \in DOMAIN s.starts :
          /\ n # Holds(s, g) => r.starts[n] = s.starts[n]
          /\ r.starts[n].group = s.starts[n].group /\ r.starts[n].by = s.starts[n].by
          /\ r.starts[n].pc = s.starts[n].pc /\ r.starts[n].alone = s.starts[n].alone
          /\ r.starts[n].late = s.starts[n].late
          /\ n = Holds(s, g) => ~IsOpen(r, n)

\* Two steps in a row loosen the group no more than one.
LEMMA LoosensMore ==
    ASSUME NEW s, NEW t, NEW r, NEW g \in DOMAIN s.groups,
           Loosens(s, t, g), Loosens(t, r, g)
    PROVE  Loosens(s, r, g)
<1>1. Shape(r) /\ Mail(r) /\ HeadSame(s, r)  BY DEF Loosens, HeadSame
<1>2. AlarmsKept(s, r)
    <2>1. AlarmsKept(s, t) /\ AlarmsKept(t, r)  BY DEF Loosens
    <2> QED  BY <2>1 DEF AlarmsKept
<1>3. OnlyGroup(s, r, g)
    <2>1. OnlyGroup(s, t, g) /\ OnlyGroup(t, r, g)  BY DEF Loosens
    <2> QED  BY <2>1 DEF OnlyGroup, Holds
<1>4. WaitsAfter(s, r)
    <2>1. WaitsAfter(s, t) /\ WaitsAfter(t, r) /\ OnlyGroup(t, r, g) /\ HeadSame(t, r) /\ Shape(t)
        BY DEF Loosens
    <2>2. ASSUME NEW h \in Hosts, t.registered[h] # 0, Holds(t, t.registered[h]) = 0
          PROVE  r.registered[h] # 0 /\ Holds(r, r.registered[h]) = 0
        <3>1. t.registered[h] \in DOMAIN t.groups  BY <2>1, <2>2, RegisteredGroup
        <3> QED  BY <2>1, <2>2, <3>1 DEF OnlyGroup, HeadSame, Holds
    <2> QED  BY <2>1, <2>2 DEF WaitsAfter
<1> QED  BY <1>1, <1>2, <1>3, <1>4 DEF Loosens

\* The group is replaced by one that holds and claims no more.
LEMMA WithGroupLoosens ==
    ASSUME NEW s, Shape(s), Mail(s), NEW g \in DOMAIN s.groups,
           NEW x \in Group, x.id = s.groups[g].id, x.host \in {0, s.groups[g].host},
           x.ready => s.groups[g].ready
    PROVE  /\ Loosens(s, WithGroup(s, g, x), g)
           /\ WithGroup(s, g, x).starts = s.starts
           /\ WithGroup(s, g, x).groups[g] = x
<1> DEFINE r == WithGroup(s, g, x)
<1>1. /\ Shape(r) /\ RestSame(s, r) /\ r.starts = s.starts
      /\ DOMAIN r.groups = DOMAIN s.groups
      /\ \A k \in DOMAIN s.groups : r.groups[k] = IF k = g THEN x ELSE s.groups[k]
      /\ Mail(r)
    BY WithGroupShape
<1> HIDE DEF r
<1>2. HeadSame(s, r) /\ AlarmsKept(s, r) /\ WaitsAfter(s, r)
    BY <1>1 DEF HeadSame, AlarmsKept, WaitsAfter, RestSame
<1>3. OnlyGroup(s, r, g)  BY <1>1 DEF OnlyGroup, Holds
<1> QED  BY <1>1, <1>2, <1>3 DEF Loosens, r

\* So does what a host says, but for the messages.
LEMMA TalkLoosens ==
    ASSUME NEW s, Shape(s), NEW r, Talk(s, r), NEW g \in DOMAIN s.groups
    PROVE  Loosens(s, r, g)
<1>1. Quiet(s, r) /\ WaitsKept(s, r)  BY DEF Talk
<1>2. HeadSame(s, r) /\ OnlyGroup(s, r, g)  BY <1>1 DEF Quiet, HeadSame, OnlyGroup, Holds
<1>3. WaitsAfter(s, r)  BY <1>1 DEF Quiet, WaitsKept, WaitsAfter, Holds
<1> QED  BY <1>2, <1>3 DEF Talk, Loosens

\* A group that holds and claims less is one.
LEMMA SmallerGroup ==
    ASSUME NEW x \in Group
    PROVE  /\ [x EXCEPT !.host = 0] \in Group
           /\ [x EXCEPT !.host = 0].id = x.id /\ [x EXCEPT !.host = 0].host = 0
           /\ [x EXCEPT !.host = 0].ready = x.ready
           /\ [x EXCEPT !.ready = FALSE] \in Group
           /\ [x EXCEPT !.ready = FALSE].id = x.id /\ [x EXCEPT !.ready = FALSE].host = x.host
           /\ ~[x EXCEPT !.ready = FALSE].ready
           /\ [x EXCEPT !.suppress = FALSE] \in Group
           /\ [x EXCEPT !.suppress = FALSE].id = x.id
           /\ [x EXCEPT !.suppress = FALSE].host = x.host
           /\ [x EXCEPT !.suppress = FALSE].ready = x.ready
           /\ [x EXCEPT !.suppress = TRUE] \in Group
           /\ [x EXCEPT !.suppress = TRUE].id = x.id
           /\ [x EXCEPT !.suppress = TRUE].host = x.host
           /\ [x EXCEPT !.suppress = TRUE].ready = x.ready
           /\ [x EXCEPT !.host = 0, !.ready = FALSE] \in Group
           /\ [x EXCEPT !.host = 0, !.ready = FALSE].id = x.id
           /\ [x EXCEPT !.host = 0, !.ready = FALSE].host = 0
           /\ ~[x EXCEPT !.host = 0, !.ready = FALSE].ready
<1>1. 0 \in 0 .. MaxHostStarts  BY BoundsAssumption
<1> QED  BY <1>1 DEF Group

\* onHostEvent() of "ended".
LEMMA EndedLoosens ==
    ASSUME NEW s, Shape(s), HoldOK(s), Mail(s), NEW g \in DOMAIN s.groups
    PROVE  /\ Loosens(s, Ended(s, g), g) /\ Ended(s, g).starts = s.starts
           /\ Holds(Ended(s, g), g) = 0 /\ ~Ended(s, g).groups[g].ready
<1> DEFINE x == [s.groups[g] EXCEPT !.host = 0, !.ready = FALSE]
           t == WithGroup(s, g, x)
           y == [t.groups[g] EXCEPT !.suppress = FALSE]
           u == WithGroup(t, g, y)
           r == Ended(s, g)
<1>1. s.groups[g] \in Group  BY ShapeTypes
<1>2. x \in Group /\ x.id = s.groups[g].id /\ x.host = 0 /\ ~x.ready
    BY <1>1, SmallerGroup
<1> HIDE DEF x
<1>3. Loosens(s, t, g) /\ t.starts = s.starts /\ t.groups[g] = x
    BY <1>2, WithGroupLoosens
<1>4. t = LetGo(s, g)  BY LetGoSame DEF x
<1>5. Shape(t) /\ Mail(t) /\ g \in DOMAIN t.groups  BY <1>3 DEF Loosens, OnlyGroup
<1>6. Unhushed(t, g) = u
    BY <1>5, LetGoSame
<1>7. r = IF t.groups[g].suppress THEN u
          ELSE IF t.closed THEN t
          ELSE Spoken(t, t.groups[g].id)
    <2>1. r = IF LetGo(s, g).groups[g].suppress THEN Unhushed(LetGo(s, g), g)
              ELSE IF LetGo(s, g).closed THEN LetGo(s, g)
              ELSE Spoken(LetGo(s, g), LetGo(s, g).groups[g].id)
        BY DEF Ended, LetGo, Unhushed
    <2> HIDE DEF t, u, r
    <2> QED  BY ONLY <2>1, <1>4, <1>6
<1> HIDE DEF t, u, r
<1>8. CASE t.groups[g].suppress
    <2>1. y \in Group /\ y.id = t.groups[g].id /\ y.host = t.groups[g].host
          /\ y.ready = t.groups[g].ready
        BY <1>2, <1>3, SmallerGroup
    <2> HIDE DEF y
    <2>2. Loosens(t, u, g) /\ u.starts = t.starts /\ u.groups[g] = y
        BY <1>5, <2>1, WithGroupLoosens DEF u
    <2>3. Loosens(s, u, g)  BY <1>3, <2>2, LoosensMore
    <2> QED  BY <1>2, <1>3, <1>7, <1>8, <2>1, <2>2, <2>3 DEF Holds, r
<1>9. CASE ~t.groups[g].suppress /\ t.closed
    BY <1>2, <1>3, <1>7, <1>9 DEF Holds, r
<1>10. CASE ~t.groups[g].suppress /\ ~t.closed
    <2>1. HoldOK(t)
        <3>1. OnlyGroup(s, t, g)  BY <1>3 DEF Loosens
        <3> QED  BY <3>1, <1>2, <1>3 DEF HoldOK, OnlyGroup, Holds, GroupOf
    <2>2. t.groups[g].id \in Hosts  BY <1>2, <1>3 DEF Group
    <2> DEFINE v == Spoken(t, t.groups[g].id)
    <2>3. Talk(t, v)  BY <2>1, <2>2, <1>5, SpokenTalk
    <2> HIDE DEF v
    <2>4. Loosens(t, v, g)  BY <2>3, <1>5, TalkLoosens
    <2>5. Loosens(s, v, g)  BY <2>4, <1>3, LoosensMore
    <2>6. v.groups = t.groups /\ v.starts = t.starts  BY <2>3 DEF Talk, Quiet
    <2>7. r = v  BY <1>7, <1>10 DEF v
    <2> QED  BY <2>5, <2>6, <2>7, <1>2, <1>3 DEF Holds, r
<1> QED  BY <1>8, <1>9, <1>10

\* A start whose session is in another phase is one.
LEMMA OtherPhase ==
    ASSUME NEW x \in Start, NEW p \in Phase
    PROVE  /\ [x EXCEPT !.phase = p] \in Start /\ [x EXCEPT !.phase = p].phase = p
           /\ [x EXCEPT !.phase = p].group = x.group /\ [x EXCEPT !.phase = p].by = x.by
           /\ [x EXCEPT !.phase = p].pc = x.pc /\ [x EXCEPT !.phase = p].alone = x.alone
           /\ [x EXCEPT !.phase = p].late = x.late
BY DEF Start

\* A session of group g that does not go on any more.
LEMMA WithPhase ==
    ASSUME NEW s, Shape(s), NEW n \in DOMAIN s.starts, NEW p \in Phase
    PROVE  LET r == [s EXCEPT !.starts[n].phase = p] IN
           /\ Shape(r) /\ RestSame(s, r) /\ r.groups = s.groups
           /\ r.starts = [s.starts EXCEPT ![n].phase = p]
           /\ DOMAIN r.starts = DOMAIN s.starts
           /\ \A k \in DOMAIN s.starts :
                 /\ k # n => r.starts[k] = s.starts[k]
                 /\ r.starts[k].group = s.starts[k].group /\ r.starts[k].by = s.starts[k].by
                 /\ r.starts[k].pc = s.starts[k].pc /\ r.starts[k].alone = s.starts[k].alone
                 /\ r.starts[k].late = s.starts[k].late
           /\ r.starts[n].phase = p
           /\ Mail(s) => Mail(r)
<1> DEFINE x == [s.starts[n] EXCEPT !.phase = p]
           w == WithStart(s, n, x)
           r == [s EXCEPT !.starts[n].phase = p]
<1>1. s.starts[n] \in Start  BY ShapeTypes
<1>2. /\ x \in Start /\ x.phase = p
      /\ x.group = s.starts[n].group /\ x.by = s.starts[n].by
      /\ x.pc = s.starts[n].pc /\ x.alone = s.starts[n].alone /\ x.late = s.starts[n].late
    BY <1>1, OtherPhase
<1>3. r = w  BY DEF WithStart
<1>4. w.starts = [s.starts EXCEPT ![n].phase = p]
    <2>1. s \in State  BY DEF Shape
    <2> QED  BY ONLY <2>1 DEF w, WithStart, State
<1> HIDE DEF x
<1>5. /\ Shape(w) /\ RestSame(s, w) /\ w.groups = s.groups
      /\ DOMAIN w.starts = DOMAIN s.starts
      /\ \A k \in DOMAIN s.starts : w.starts[k] = IF k = n THEN x ELSE s.starts[k]
      /\ Mail(s) => Mail(w)
    BY <1>2, WithStartShape
<1> HIDE DEF w, r
<1>6. /\ \A k \in DOMAIN s.starts :
            /\ k # n => w.starts[k] = s.starts[k]
            /\ w.starts[k].group = s.starts[k].group /\ w.starts[k].by = s.starts[k].by
            /\ w.starts[k].pc = s.starts[k].pc /\ w.starts[k].alone = s.starts[k].alone
            /\ w.starts[k].late = s.starts[k].late
      /\ w.starts[n].phase = p
    BY <1>2, <1>5
<1>7. /\ Shape(r) /\ RestSame(s, r) /\ r.groups = s.groups
      /\ r.starts = [s.starts EXCEPT ![n].phase = p]
      /\ DOMAIN r.starts = DOMAIN s.starts
      /\ \A k \in DOMAIN s.starts :
            /\ k # n => r.starts[k] = s.starts[k]
            /\ r.starts[k].group = s.starts[k].group /\ r.starts[k].by = s.starts[k].by
            /\ r.starts[k].pc = s.starts[k].pc /\ r.starts[k].alone = s.starts[k].alone
            /\ r.starts[k].late = s.starts[k].late
      /\ r.starts[n].phase = p
      /\ Mail(s) => Mail(r)
    BY <1>3, <1>4, <1>5, <1>6
<1> QED  BY <1>7 DEF r

\* host.end() of the session a group holds, which is then forgotten.
LEMMA DropHostStops ==
    ASSUME NEW s, Shape(s), HoldOK(s), Mail(s), NEW g \in DOMAIN s.groups
    PROVE  /\ Loosens(s, DropHost(s, g), g) /\ Halted(s, DropHost(s, g), g)
           /\ Holds(DropHost(s, g), g) = 0
<1> DEFINE n == Holds(s, g)
           t == IF n = 0 THEN s ELSE ToldToEnd(s, n)
           r == DropHost(s, g)
<1>1. r = [t EXCEPT !.groups[g].host = 0]  BY DEF DropHost
<1>2. Loosens(s, s, g)
    BY DEF Loosens, AlarmsKept, HeadSame, OnlyGroup, WaitsAfter
<1>3. Loosens(s, t, g) /\ Halted(s, t, g)
    <2>1. CASE n = 0
        <3>1. t = s  BY <2>1
        <3>2. \A k \in DOMAIN s.starts : k # 0
            <4>1. s.starts \in Seq(Start)  BY ShapeTypes
            <4> QED  BY <4>1
        <3> QED  BY <1>2, <2>1, <3>1, <3>2 DEF Halted
    <2>2. CASE n # 0
        <3>1. n \in DOMAIN s.starts /\ s.starts[n] \in Start /\ s.starts[n].group = g
            BY <2>2, HeldStart DEF GroupOf
        <3> DEFINE dead == [s EXCEPT !.starts[n].phase = "dead"]
                   closing == [s EXCEPT !.starts[n].phase = "closing"]
                   open == s.starts[n].phase \in {"starting", "live", "broken"}
        <3>2. t = IF ~open THEN s
                  ELSE IF IsCodex(s, n) THEN Ended(dead, g) ELSE closing
            BY <2>2, <3>1 DEF ToldToEnd
        <3>3. CASE ~open
            <4>1. t = s  BY <3>2, <3>3
            <4>2. ~IsOpen(s, n)  BY <3>3 DEF IsOpen
            <4> QED  BY <1>2, <4>1, <4>2 DEF Halted
        <3>4. CASE open /\ IsCodex(s, n)
            <4>1. "dead" \in Phase  BY DEF Phase
            <4>2. /\ Shape(dead) /\ RestSame(s, dead) /\ dead.groups = s.groups
                  /\ DOMAIN dead.starts = DOMAIN s.starts
                  /\ \A k \in DOMAIN s.starts :
                        /\ k # n => dead.starts[k] = s.starts[k]
                        /\ dead.starts[k].group = s.starts[k].group
                        /\ dead.starts[k].by = s.starts[k].by
                        /\ dead.starts[k].pc = s.starts[k].pc
                        /\ dead.starts[k].alone = s.starts[k].alone
                        /\ dead.starts[k].late = s.starts[k].late
                  /\ dead.starts[n].phase = "dead"
                  /\ Mail(dead)
                BY <3>1, <4>1, WithPhase
            <4>3. t = Ended(dead, g)  BY <3>2, <3>4
            <4> HIDE DEF dead, t
            <4>4. HoldOK(dead)  BY <4>2 DEF HoldOK, Holds, GroupOf
            <4>5. g \in DOMAIN dead.groups  BY <4>2
            <4>6. Loosens(dead, t, g) /\ t.starts = dead.starts
                BY <4>2, <4>3, <4>4, <4>5, EndedLoosens
            <4>7. Loosens(s, dead, g)
                BY <4>2 DEF Loosens, AlarmsKept, HeadSame, OnlyGroup, WaitsAfter, RestSame, Holds
            <4>8. Loosens(s, t, g)  BY <4>6, <4>7, LoosensMore
            <4>9. ~IsOpen(dead, n)  BY <4>2 DEF IsOpen
            <4> QED  BY <4>2, <4>6, <4>8, <4>9 DEF Halted, IsOpen
        <3>5. CASE open /\ ~IsCodex(s, n)
            <4>1. "closing" \in Phase  BY DEF Phase
            <4>2. /\ Shape(closing) /\ RestSame(s, closing) /\ closing.groups = s.groups
                  /\ DOMAIN closing.starts = DOMAIN s.starts
                  /\ \A k \in DOMAIN s.starts :
                        /\ k # n => closing.starts[k] = s.starts[k]
                        /\ closing.starts[k].group = s.starts[k].group
                        /\ closing.starts[k].by = s.starts[k].by
                        /\ closing.starts[k].pc = s.starts[k].pc
                        /\ closing.starts[k].alone = s.starts[k].alone
                        /\ closing.starts[k].late = s.starts[k].late
                  /\ closing.starts[n].phase = "closing"
                  /\ Mail(closing)
                BY <3>1, <4>1, WithPhase
            <4>3. t = closing  BY <3>2, <3>5
            <4> HIDE DEF closing, t
            <4>4. Loosens(s, closing, g)
                BY <4>2 DEF Loosens, AlarmsKept, HeadSame, OnlyGroup, WaitsAfter, RestSame, Holds
            <4>5. ~IsOpen(closing, n)  BY <4>2 DEF IsOpen
            <4> QED  BY <4>2, <4>3, <4>4, <4>5 DEF Halted
        <3> QED  BY <3>3, <3>4, <3>5
    <2> QED  BY <2>1, <2>2
<1> HIDE DEF t, r
<1>4. Shape(t) /\ Mail(t) /\ g \in DOMAIN t.groups  BY <1>3 DEF Loosens, OnlyGroup
<1> DEFINE x == [t.groups[g] EXCEPT !.host = 0]
<1>5. r = WithGroup(t, g, x)  BY <1>1 DEF WithGroup
<1>6. x \in Group /\ x.id = t.groups[g].id /\ x.host = 0 /\ x.ready = t.groups[g].ready
    <2>1. t.groups[g] \in Group  BY <1>4, ShapeTypes
    <2> QED  BY <2>1, SmallerGroup
<1> HIDE DEF x
<1>7. Loosens(t, r, g) /\ r.starts = t.starts /\ r.groups[g] = x
    BY <1>4, <1>5, <1>6, WithGroupLoosens
<1>8. Loosens(s, r, g)  BY <1>3, <1>7, LoosensMore
<1>9. Halted(s, r, g)  BY <1>3, <1>7 DEF Halted, IsOpen
<1>10. Holds(r, g) = 0  BY <1>6, <1>7 DEF Holds
<1> QED  BY <1>8, <1>9, <1>10 DEF r

\* HostGroup.end().
LEMMA EndGroupStops ==
    ASSUME NEW s, Shape(s), HoldOK(s), Mail(s), NEW g \in DOMAIN s.groups
    PROVE  /\ Loosens(s, EndGroup(s, g), g) /\ Halted(s, EndGroup(s, g), g)
           /\ Holds(EndGroup(s, g), g) = 0 /\ ~EndGroup(s, g).groups[g].ready
<1> DEFINE t == DropHost(s, g)
           x == [t.groups[g] EXCEPT !.ready = FALSE]
           r == EndGroup(s, g)
<1>1. Loosens(s, t, g) /\ Halted(s, t, g) /\ Holds(t, g) = 0  BY DropHostStops
<1>2. r = [t EXCEPT !.groups[g].ready = FALSE]  BY DEF EndGroup
<1> HIDE DEF t, r
<1>3. Shape(t) /\ Mail(t) /\ g \in DOMAIN t.groups  BY <1>1 DEF Loosens, OnlyGroup
<1>4. r = WithGroup(t, g, x)  BY <1>2 DEF WithGroup
<1>5. x \in Group /\ x.id = t.groups[g].id /\ x.host = t.groups[g].host /\ ~x.ready
    <2>1. t.groups[g] \in Group  BY <1>3, ShapeTypes
    <2> QED  BY <2>1, SmallerGroup
<1> HIDE DEF x
<1>6. Loosens(t, r, g) /\ r.starts = t.starts /\ r.groups[g] = x
    BY <1>3, <1>4, <1>5, WithGroupLoosens
<1>7. Loosens(s, r, g)  BY <1>1, <1>6, LoosensMore
<1>8. Halted(s, r, g)  BY <1>1, <1>6 DEF Halted, IsOpen
<1> QED  BY <1>1, <1>5, <1>6, <1>7, <1>8 DEF r, Holds

\* The starts are the same but for how far they and their sessions are.
SameStarts(s, r) ==
    /\ DOMAIN r.starts = DOMAIN s.starts
    /\ \A n \in DOMAIN s.starts :
          r.starts[n].group = s.starts[n].group /\ r.starts[n].by = s.starts[n].by
          /\ r.starts[n].alone = s.starts[n].alone

\* Two steps in a row.
LEMMA SameStartsMore ==
    ASSUME NEW s, NEW t, NEW r, SameStarts(s, t), SameStarts(t, r)
    PROVE  SameStarts(s, r)
BY DEF SameStarts

\* What was served is served.
LEMMA LoosensServed ==
    ASSUME NEW s, Shape(s), HoldOK(s), Served(s), NEW r, NEW g \in DOMAIN s.groups,
           Loosens(s, r, g), SameStarts(s, r)
    PROVE  Served(r)
<1>1. HeadSame(s, r) /\ OnlyGroup(s, r, g) /\ WaitsAfter(s, r)  BY DEF Loosens
<1> SUFFICES ASSUME NEW h \in Hosts,
                    ~r.closed, r.registered[h] # 0, r.groups[r.registered[h]].ready,
                    Holds(r, r.registered[h]) # 0, AloneIn(r, r.registered[h]),
                    r.starts[Holds(r, r.registered[h])].by # "start"
             PROVE  r.pending[h] = <<>>
    BY DEF Served, ServedAt
<1> DEFINE k == s.registered[h]
<1>2. k = r.registered[h] /\ k # 0 /\ ~s.closed  BY <1>1 DEF HeadSame
<1>3. k \in DOMAIN s.groups  BY <1>2, RegisteredGroup
<1>4. s.groups[k].ready /\ Holds(s, k) = Holds(r, k)
    BY <1>1, <1>2, <1>3 DEF OnlyGroup, Holds
<1>5. AloneIn(s, k)  BY <1>2 DEF AloneIn, SameStarts, GroupOf
<1>6. Holds(s, k) \in DOMAIN s.starts  BY <1>2, <1>3, <1>4 DEF HoldOK
<1>7. s.starts[Holds(s, k)].by # "start"  BY <1>2, <1>4, <1>6 DEF SameStarts
<1>8. s.pending[h] = <<>>
    BY <1>2, <1>4, <1>5, <1>7 DEF Served, ServedAt
<1> QED  BY <1>1, <1>8 DEF WaitsAfter

\* An ended group falls.
LEMMA HaltedFalls ==
    ASSUME NEW s, Shape(s), HoldOK(s), NEW r, NEW g \in DOMAIN s.groups,
           Loosens(s, r, g), Halted(s, r, g), Holds(r, g) = 0
    PROVE  Falls(s, r, {g})
<1>1. HeadSame(s, r) /\ OnlyGroup(s, r, g)  BY DEF Loosens
<1>2. \A k \in DOMAIN s.groups :
          /\ r.groups[k].id = s.groups[k].id
          /\ k # g => r.groups[k].host = s.groups[k].host /\ r.groups[k].ready = s.groups[k].ready
          /\ k = g => r.groups[k].host = 0 /\ (r.groups[k].ready => s.groups[k].ready)
    BY <1>1 DEF OnlyGroup, Holds
<1>3. \A n \in DOMAIN s.starts :
          \/ r.starts[n].phase = s.starts[n].phase
          \/ s.starts[n].group = g /\ s.starts[n].pc # "memory" /\ ~IsOpen(r, n)
    <2> SUFFICES ASSUME NEW n \in DOMAIN s.starts, n = Holds(s, g)
                 PROVE  s.starts[n].group = g /\ s.starts[n].pc # "memory" /\ ~IsOpen(r, n)
        BY DEF Halted
    <2>1. n # 0
        <3>1. s.starts \in Seq(Start)  BY ShapeTypes
        <3> QED  BY <3>1
    <2> QED  BY <2>1 DEF HoldOK, GroupOf, Halted
<1>4. Holds(s, g) # 0 => ~IsOpen(r, Holds(s, g))
    BY DEF HoldOK, Halted
<1> QED  BY <1>1, <1>2, <1>3, <1>4 DEF Falls, HeadSame, OnlyGroup, Halted, Holds

\* The Meeting counts as ended, and nobody owes an answer.
LEMMA ClosedState ==
    ASSUME NEW s, Shape(s), Mail(s), NEW t,
           t = [s EXCEPT !.closed = TRUE, !.timers = {}, !.asks = [h \in Hosts |-> 0]]
    PROVE  /\ Shape(t) /\ Mail(t) /\ t.closed
           /\ t.groups = s.groups /\ t.starts = s.starts /\ t.registered = s.registered
           /\ t.messages = s.messages
<1>1. s \in State  BY DEF Shape
<1>2. /\ t.groups = s.groups /\ t.starts = s.starts /\ t.messages = s.messages
      /\ t.registered = s.registered /\ t.pending = s.pending /\ t.timers = {}
      /\ t.asks = [h \in Hosts |-> 0] /\ t.coordinator = s.coordinator
      /\ t.closed /\ t.booted = s.booted
    BY ONLY <1>1, t = [s EXCEPT !.closed = TRUE, !.timers = {}, !.asks = [h \in Hosts |-> 0]]
    DEF State
<1>3. t \in State
    <2> DEFINE none == [h \in Hosts |-> 0]
    <2>1. none \in [Hosts -> Nat] /\ {} \in SUBSET Nat /\ TRUE \in BOOLEAN  OBVIOUS
    <2>2. t = [s EXCEPT !.closed = TRUE, !.timers = {}, !.asks = none]  OBVIOUS
    <2> HIDE DEF none
    <2> QED  BY ONLY <2>1, <2>2, <1>1 DEF State
<1>4. Shape(t)  BY <1>2, <1>3 DEF Shape, GroupOf
<1>5. PendingOK(t)  BY <1>2 DEF Mail, PendingOK, Waiting
<1>6. HeardOK(t)  BY <1>2 DEF Mail, HeardOK, GroupOf
<1>7. AsksOK(t)  BY <1>2 DEF AsksOK
<1> QED  BY <1>2, <1>4, <1>5, <1>6, <1>7 DEF Mail

\* Orchestrator.end(), its first call.
LEMMA EndingKeeps ==
    ASSUME NEW s, Shape(s), Core(s), Mail(s)
    PROVE  IInv(Ending(s)) /\ AlarmsKept(s, Ending(s))
<1> DEFINE t == [s EXCEPT !.closed = TRUE, !.timers = {}, !.asks = [h \in Hosts |-> 0]]
           current(g) == \E h \in Hosts : t.registered[h] = g
           gs == [g \in DOMAIN t.groups |->
                    IF current(g) THEN EndGroup(t, g).groups[g] ELSE t.groups[g]]
           ss == [n \in DOMAIN t.starts |->
                    IF current(t.starts[n].group)
                    THEN EndGroup(t, t.starts[n].group).starts[n] ELSE t.starts[n]]
           G == {g \in DOMAIN s.groups : current(g)}
           r == Ending(s)
<1>1. /\ Shape(t) /\ Mail(t) /\ t.closed
      /\ t.groups = s.groups /\ t.starts = s.starts /\ t.registered = s.registered
      /\ t.messages = s.messages
    BY ClosedState
<1>2. r = [t EXCEPT !.groups = gs, !.starts = ss]  BY DEF Ending
<1> HIDE DEF t, r
<1>3. HoldOK(t)  BY <1>1 DEF Core, HoldOK, Holds, GroupOf
<1>4. s.groups \in Seq(Group) /\ s.starts \in Seq(Start)  BY ShapeTypes
<1>5. ASSUME NEW g \in DOMAIN s.groups
      PROVE  LET e == EndGroup(t, g) IN
             /\ e.groups[g] \in Group /\ e.groups[g].id = s.groups[g].id
             /\ e.groups[g].host = 0 /\ ~e.groups[g].ready
             /\ \A n \in DOMAIN s.starts :
                   /\ e.starts[n] \in Start
                   /\ e.starts[n].group = s.starts[n].group
                   /\ e.starts[n].by = s.starts[n].by /\ e.starts[n].pc = s.starts[n].pc
                   /\ e.starts[n].alone = s.starts[n].alone
                   /\ e.starts[n].late = s.starts[n].late
                   /\ n # Holds(s, g) => e.starts[n] = s.starts[n]
                   /\ n = Holds(s, g) => ~IsOpen(e, n)
    <2> DEFINE e == EndGroup(t, g)
    <2>1. Loosens(t, e, g) /\ Halted(t, e, g) /\ Holds(e, g) = 0 /\ ~e.groups[g].ready
        BY <1>1, <1>3, EndGroupStops
    <2> HIDE DEF e
    <2>2. Shape(e) /\ OnlyGroup(t, e, g)  BY <2>1 DEF Loosens
    <2>3. e.groups[g] \in Group /\ e.groups[g].id = s.groups[g].id
        <3>1. g \in DOMAIN e.groups  BY <2>2, <1>1 DEF OnlyGroup
        <3> QED  BY <3>1, <2>2, <1>1, ShapeTypes DEF OnlyGroup
    <2>4. DOMAIN e.starts = DOMAIN s.starts  BY <2>1, <1>1 DEF Halted
    <2>5. \A n \in DOMAIN s.starts : e.starts[n] \in Start  BY <2>2, <2>4, ShapeTypes
    <2>6. Holds(t, g) = Holds(s, g)  BY <1>1 DEF Holds
    <2> QED  BY <2>1, <2>3, <2>5, <2>6, <1>1 DEF Halted, Holds, e
<1>6. gs \in Seq(Group) /\ Len(gs) = Len(s.groups) /\ DOMAIN gs = DOMAIN s.groups
      /\ \A g \in DOMAIN s.groups :
            gs[g] = IF g \in G THEN EndGroup(t, g).groups[g] ELSE s.groups[g]
    <2>1. DOMAIN s.groups = 1 .. Len(s.groups) /\ Len(s.groups) \in Nat  BY <1>4
    <2>2. \A g \in DOMAIN s.groups : EndGroup(t, g).groups[g] \in Group /\ s.groups[g] \in Group
        BY <1>4, <1>5
    <2> HIDE DEF current
    <2>3. gs \in [1 .. Len(s.groups) -> Group]  BY <2>1, <2>2, <1>1
    <2> QED  BY <2>1, <2>3, <1>1
<1>7. \A n \in DOMAIN s.starts : s.starts[n].group \in DOMAIN s.groups  BY DEF Shape, GroupOf
<1>8. ss \in Seq(Start) /\ Len(ss) = Len(s.starts) /\ DOMAIN ss = DOMAIN s.starts
      /\ \A n \in DOMAIN s.starts :
            ss[n] = IF s.starts[n].group \in G
                    THEN EndGroup(t, s.starts[n].group).starts[n] ELSE s.starts[n]
    <2>1. DOMAIN s.starts = 1 .. Len(s.starts) /\ Len(s.starts) \in Nat  BY <1>4
    <2>2. \A n \in DOMAIN s.starts :
              EndGroup(t, s.starts[n].group).starts[n] \in Start /\ s.starts[n] \in Start
        BY <1>4, <1>5, <1>7
    <2> HIDE DEF current
    <2>3. ss \in [1 .. Len(s.starts) -> Start]  BY <2>1, <2>2, <1>1
    <2> QED  BY <2>1, <2>3, <1>1, <1>7
<1> HIDE DEF gs, ss
<1>9. r.groups = gs /\ r.starts = ss /\ RestSame(t, r) /\ r \in State
    <2>1. t \in State  BY <1>1 DEF Shape
    <2>2. gs \in Seq(Group) /\ ss \in Seq(Start)  BY <1>6, <1>8
    <2> QED  BY ONLY <2>1, <2>2, <1>2 DEF State, RestSame
<1>10. \A g \in DOMAIN s.groups :
          /\ r.groups[g].id = s.groups[g].id
          /\ g \notin G => r.groups[g].host = s.groups[g].host
                           /\ r.groups[g].ready = s.groups[g].ready
          /\ g \in G => r.groups[g].host = 0 /\ (r.groups[g].ready => s.groups[g].ready)
    BY <1>5, <1>6, <1>9
<1>11. \A n \in DOMAIN s.starts :
          /\ r.starts[n].group = s.starts[n].group /\ r.starts[n].by = s.starts[n].by
          /\ r.starts[n].pc = s.starts[n].pc /\ r.starts[n].alone = s.starts[n].alone
          /\ r.starts[n].late = s.starts[n].late
          /\ s.starts[n].group \in G /\ n = Holds(s, s.starts[n].group) => ~IsOpen(r, n)
          /\ ~(s.starts[n].group \in G /\ n = Holds(s, s.starts[n].group)) =>
                r.starts[n].phase = s.starts[n].phase
    <2> SUFFICES ASSUME NEW n \in DOMAIN s.starts
        PROVE  /\ r.starts[n].group = s.starts[n].group /\ r.starts[n].by = s.starts[n].by
               /\ r.starts[n].pc = s.starts[n].pc /\ r.starts[n].alone = s.starts[n].alone
               /\ r.starts[n].late = s.starts[n].late
               /\ s.starts[n].group \in G /\ n = Holds(s, s.starts[n].group) => ~IsOpen(r, n)
               /\ ~(s.starts[n].group \in G /\ n = Holds(s, s.starts[n].group)) =>
                     r.starts[n].phase = s.starts[n].phase
        OBVIOUS
    <2> DEFINE g == s.starts[n].group
               e == EndGroup(t, g)
    <2>1. g \in DOMAIN s.groups  BY <1>7
    <2>2. /\ e.starts[n].group = s.starts[n].group
          /\ e.starts[n].by = s.starts[n].by /\ e.starts[n].pc = s.starts[n].pc
          /\ e.starts[n].alone = s.starts[n].alone
          /\ e.starts[n].late = s.starts[n].late
          /\ n # Holds(s, g) => e.starts[n] = s.starts[n]
          /\ n = Holds(s, g) => ~IsOpen(e, n)
        BY <2>1, <1>5
    <2>3. r.starts[n] = IF g \in G THEN e.starts[n] ELSE s.starts[n]  BY <1>8, <1>9
    <2> HIDE DEF e, G
    <2> QED  BY <2>2, <2>3 DEF IsOpen
<1>12. Shape(r)
    <2>1. Len(r.groups) = Len(s.groups) /\ Len(r.starts) = Len(s.starts)
          /\ DOMAIN r.groups = DOMAIN s.groups /\ DOMAIN r.starts = DOMAIN s.starts
        BY <1>6, <1>8, <1>9
    <2>2. /\ Len(t.messages) <= MaxMessages
          /\ \A h \in Hosts : Len(t.pending[h]) <= QueueLimit
          /\ t.registered[t.coordinator] # 0
        BY <1>1 DEF Shape
    <2>3. \A n \in DOMAIN r.starts : GroupOf(r, n) \in DOMAIN r.groups
        BY <2>1, <1>7, <1>11 DEF GroupOf
    <2>4. \A h \in Hosts : r.registered[h] # 0 =>
             r.registered[h] \in DOMAIN r.groups /\ r.groups[r.registered[h]].id = h
        <3>1. r.registered = s.registered  BY <1>1, <1>9 DEF RestSame
        <3> QED  BY <3>1, <2>1, <1>10, RegisteredGroup
    <2>5. Len(s.groups) <= MaxGroups /\ Len(s.starts) <= MaxHostStarts  BY DEF Shape
    <2> QED  BY <1>9, <2>1, <2>2, <2>3, <2>4, <2>5 DEF Shape, RestSame
<1>13. r.registered = s.registered /\ r.closed  BY <1>1, <1>9 DEF RestSame
<1>14. Falls(s, r, G)
    <2>1. \A n \in DOMAIN s.starts :
              \/ r.starts[n].phase = s.starts[n].phase
              \/ s.starts[n].group \in G /\ s.starts[n].pc # "memory" /\ ~IsOpen(r, n)
        <3> SUFFICES ASSUME NEW n \in DOMAIN s.starts,
                            s.starts[n].group \in G, n = Holds(s, s.starts[n].group)
                     PROVE  s.starts[n].pc # "memory"
            BY <1>11
        <3>1. n # 0  BY <1>4
        <3> QED  BY <3>1, <1>7 DEF Core, HoldOK
    <2>2. \A g \in G \cap DOMAIN s.groups :
              s.groups[g].host # 0 => ~IsOpen(r, s.groups[g].host)
        <3> SUFFICES ASSUME NEW g \in G, g \in DOMAIN s.groups, Holds(s, g) # 0
                     PROVE  ~IsOpen(r, Holds(s, g))
            BY DEF Holds
        <3>1. Holds(s, g) \in DOMAIN s.starts /\ GroupOf(s, Holds(s, g)) = g
            BY DEF Core, HoldOK
        <3> QED  BY <3>1, <1>11 DEF GroupOf
    <2>3. \A h \in Hosts : s.registered[h] \in G \cup {0}
        <3> SUFFICES ASSUME NEW h \in Hosts, s.registered[h] # 0  PROVE s.registered[h] \in G
            OBVIOUS
        <3>1. s.registered[h] \in DOMAIN s.groups  BY RegisteredGroup
        <3> QED  BY <3>1, <1>1
    <2>4. DOMAIN r.groups = DOMAIN s.groups /\ DOMAIN r.starts = DOMAIN s.starts
        BY <1>6, <1>8, <1>9
    <2> HIDE DEF G
    <2> QED  BY <2>1, <2>2, <2>3, <2>4, <1>10, <1>11, <1>13 DEF Falls
<1>15. Core(r)  BY <1>14, FallsCore
<1>16. Mail(r)
    <2>1. DOMAIN r.starts = DOMAIN t.starts /\ \A n \in DOMAIN t.starts :
              r.starts[n].group = t.starts[n].group
        BY <1>1, <1>8, <1>9, <1>11
    <2> QED  BY <2>1, <1>1, <1>9, RestMail
<1>17. Served(r)  BY <1>13 DEF Served, ServedAt
<1>18. AlarmsKept(s, r)  BY <1>1, <1>9 DEF AlarmsKept, RestSame
<1> QED  BY <1>12, <1>15, <1>16, <1>17, <1>18 DEF IInv, r

\* Orchestrator.end(): a later call ends nothing.
LEMMA EndMeetingKeeps ==
    ASSUME NEW s, IInv(s)
    PROVE  IInv(EndMeeting(s)) /\ AlarmsKept(s, EndMeeting(s))
<1>1. Shape(s) /\ Core(s) /\ Mail(s)  BY DEF IInv
<1>2. CASE s.closed
    <2>1. EndMeeting(s) = s  BY <1>2 DEF EndMeeting
    <2> QED  BY <2>1 DEF AlarmsKept
<1>3. CASE ~s.closed
    <2>1. EndMeeting(s) = Ending(s)  BY <1>3 DEF EndMeeting
    <2> QED  BY <1>1, <2>1, EndingKeeps
<1> QED  BY <1>2, <1>3

-----------------------------------------------------------------------------
(* The steps.                                                              *)

\* What is said of groups and starts depends on nothing else.
LEMMA SameCore ==
    ASSUME NEW s, Core(s), NEW r, r.groups = s.groups, r.starts = s.starts,
           r.registered = s.registered, r.closed = s.closed
    PROVE  Core(r)
<1>1. HoldOK(r)  BY DEF Core, HoldOK, Holds, GroupOf
<1>2. \A g : AloneIn(r, g) <=> AloneIn(s, g)  BY DEF AloneIn, GroupOf
<1>3. FlightOK(r)  BY <1>2 DEF Core, FlightOK, FlightAt, OnlyFlight, Holds, GroupOf
<1>4. LiveOK(r)  BY <1>2 DEF Core, LiveOK, Holds
<1>5. ReachOK(r)  BY DEF Core, ReachOK, ReachAt, Holds, GroupOf, IsOpen, Current
<1> QED  BY <1>1, <1>3, <1>4, <1>5 DEF Core

\* A step that changes only the messages and their queues keeps the invariant.
LEMMA QuietKeeps ==
    ASSUME NEW s, IInv(s), NEW r, Quiet(s, r), WaitsKept(s, r), Shape(r), Mail(r)
    PROVE  IInv(r)
<1>1. Core(r)  BY SameCore DEF IInv, Quiet
<1>2. Served(r)
    <2> SUFFICES ASSUME NEW h \in Hosts, ServedAt(s, h)  PROVE ServedAt(r, h)
        BY DEF IInv, Served
    <2>1. AloneIn(r, r.registered[h]) <=> AloneIn(s, s.registered[h])
        BY DEF Quiet, AloneIn, GroupOf
    <2> QED  BY <2>1 DEF ServedAt, Quiet, WaitsKept, Holds
<1> QED  BY <1>1, <1>2 DEF IInv

\* HostGroup.start() up to its first await: a start that is alone is the only one under
\* way, in a group without a session.
LEMMA BeganKeeps ==
    ASSUME NEW s, IInv(s), NEW g \in DOMAIN s.groups, Len(s.starts) < MaxHostStarts,
           NEW c \in Caller
    PROVE  IInv(Began(s, g, c)) /\ AlarmsKept(s, Began(s, g, c))
           /\ Began(s, g, c).booted = s.booted
<1> DEFINE b == InFlight(s, g) = {} /\ Holds(s, g) = 0
           x == [group |-> g, by |-> c, pc |-> "memory", phase |-> "none", late |-> FALSE,
                 alone |-> b]
           ss == Append(s.starts, x)
           y == [s.groups[g] EXCEPT !.ready = FALSE]
           w == WithGroup(s, g, y)
           r == Began(s, g, c)
           N == Len(s.starts) + 1
<1>1. Shape(s) /\ Core(s) /\ Mail(s) /\ Served(s)  BY DEF IInv
<1>2. HoldOK(s) /\ FlightOK(s) /\ LiveOK(s) /\ ReachOK(s)  BY <1>1 DEF Core
<1>3. s.groups \in Seq(Group) /\ s.starts \in Seq(Start) /\ s.groups[g] \in Group
    BY <1>1, ShapeTypes
<1>4. x \in Start /\ x.group = g /\ x.pc = "memory" /\ x.phase = "none" /\ x.alone = b
    <2>1. g \in 1 .. MaxGroups
        <3>1. Len(s.groups) <= MaxGroups /\ MaxGroups \in Nat  BY <1>1, BoundsAssumption DEF Shape
        <3> QED  BY <3>1, <1>3
    <2>2. b \in BOOLEAN  OBVIOUS
    <2> HIDE DEF b
    <2> QED  BY <2>1, <2>2 DEF Start, Pc, Phase
<1>5. y \in Group /\ y.id = s.groups[g].id /\ y.host = s.groups[g].host /\ ~y.ready
    BY <1>3, SmallerGroup
<1> HIDE DEF x, y
<1>6. /\ Loosens(s, w, g) /\ w.starts = s.starts /\ w.groups[g] = y
    BY <1>1, <1>5, WithGroupLoosens
<1>7. r = [w EXCEPT !.starts = ss]
    <2>1. s \in State  BY <1>1 DEF Shape
    <2>2. r = [s EXCEPT !.groups[g].ready = FALSE, !.starts = ss]  BY DEF Began, x
    <2> HIDE DEF ss, r
    <2> QED  BY ONLY <2>1, <2>2 DEF w, y, WithGroup, State
<1>8. /\ ss \in Seq(Start) /\ Len(ss) = N /\ N \in Nat /\ DOMAIN ss = DOMAIN s.starts \cup {N}
      /\ N \notin DOMAIN s.starts /\ ss[N] = x /\ \A n \in DOMAIN s.starts : ss[n] = s.starts[n]
    BY <1>3, <1>4
<1> HIDE DEF ss, w, r, N
<1>9. Shape(w) /\ Mail(w) /\ OnlyGroup(s, w, g) /\ HeadSame(s, w) /\ WaitsAfter(s, w)
      /\ AlarmsKept(s, w)
    BY <1>6 DEF Loosens
<1>10. r.starts = ss /\ r.groups = w.groups /\ RestSame(w, r) /\ r \in State
    <2>1. w \in State  BY <1>9 DEF Shape
    <2> QED  BY ONLY <2>1, <1>7, <1>8 DEF State, RestSame
<1>11. \A n \in DOMAIN s.starts : r.starts[n] = s.starts[n]  BY <1>8, <1>10
<1>12. DOMAIN r.starts = DOMAIN s.starts \cup {N} /\ r.starts[N] = x /\ N # 0
    <2>1. N # 0  BY <1>3 DEF N
    <2> QED  BY <1>8, <1>10, <2>1
<1>13. DOMAIN r.groups = DOMAIN s.groups
       /\ \A k \in DOMAIN s.groups :
             /\ r.groups[k].id = s.groups[k].id /\ Holds(r, k) = Holds(s, k)
             /\ r.groups[k].ready => k # g /\ s.groups[k].ready
    BY <1>5, <1>6, <1>9, <1>10 DEF OnlyGroup, Holds
<1>14. Shape(r)
    <2>1. Len(r.starts) <= MaxHostStarts
        <3>1. Len(s.starts) \in Nat /\ MaxHostStarts \in Nat  BY <1>3, BoundsAssumption
        <3>2. N <= MaxHostStarts  BY <3>1 DEF N
        <3>3. Len(r.starts) = N  BY <1>8, <1>10
        <3> QED  BY <3>2, <3>3
    <2>2. \A n \in DOMAIN r.starts : GroupOf(r, n) \in DOMAIN r.groups
        BY <1>1, <1>4, <1>11, <1>12, <1>13 DEF GroupOf, Shape
    <2> QED  BY <2>1, <2>2, <1>9, <1>10 DEF Shape, RestSame
<1>15. \A k \in DOMAIN s.groups : AloneIn(r, k) => AloneIn(s, k)
    BY <1>11, <1>12 DEF AloneIn, GroupOf
<1>16. AloneIn(r, g) => b
    BY <1>4, <1>12 DEF AloneIn, GroupOf
<1>17. HoldOK(r)
    <2> SUFFICES ASSUME NEW k \in DOMAIN s.groups, Holds(s, k) # 0
                 PROVE  /\ Holds(s, k) \in DOMAIN r.starts
                        /\ GroupOf(r, Holds(s, k)) = k
                        /\ r.starts[Holds(s, k)].pc # "memory"
        BY <1>13 DEF HoldOK
    <2> QED  BY <1>2, <1>11, <1>12 DEF HoldOK, GroupOf
<1>18. FlightOK(r)
    <2> SUFFICES ASSUME NEW n \in DOMAIN r.starts
                 PROVE  FlightAt(r, n)
        BY DEF FlightOK
    <2>1. r.starts[n].pc = "memory" => r.starts[n].phase = "none"
        BY <1>2, <1>4, <1>11, <1>12 DEF FlightOK, FlightAt, OnlyFlight
    <2> DEFINE q == GroupOf(r, n)
    <2>2. q \in DOMAIN s.groups  BY <1>13, <1>14 DEF Shape
    <2>3. ASSUME r.starts[n].pc \in Underway, AloneIn(r, q)
          PROVE  OnlyFlight(r, n, q)
        <3>1. CASE q = g
            <4>1. b  BY <2>3, <3>1, <1>16
            <4>2. \A k \in DOMAIN s.starts : GroupOf(s, k) = g => s.starts[k].pc \notin Underway
                BY <4>1 DEF InFlight, Underway, GroupOf
            <4>3. \A k \in DOMAIN r.starts : GroupOf(r, k) = g /\ r.starts[k].pc \in Underway => k = N
                BY <4>2, <1>11, <1>12 DEF GroupOf
            <4>4. n = N  BY <4>3, <3>1, <2>3
            <4>5. Holds(r, g) = 0 /\ ~r.groups[g].ready  BY <4>1, <1>13
            <4>6. r.starts[n].pc = "memory"  BY <4>4, <1>4, <1>12
            <4> QED  BY <3>1, <4>3, <4>4, <4>5, <4>6 DEF OnlyFlight
        <3>2. CASE q # g
            <4>1. n \in DOMAIN s.starts /\ GroupOf(s, n) = q /\ r.starts[n] = s.starts[n]
                BY <3>2, <1>4, <1>11, <1>12 DEF GroupOf
            <4>2. AloneIn(s, q)  BY <2>2, <2>3, <1>15
            <4>3. OnlyFlight(s, n, q)
                BY <4>1, <4>2, <2>3, <1>2 DEF FlightOK, FlightAt
            <4>4. \A k \in DOMAIN r.starts : GroupOf(r, k) = q /\ r.starts[k].pc \in Underway => k = n
                BY <3>2, <4>3, <1>4, <1>11, <1>12 DEF GroupOf, OnlyFlight
            <4> QED  BY <4>1, <4>3, <4>4, <2>2, <1>13 DEF OnlyFlight
        <3> QED  BY <3>1, <3>2
    <2> QED  BY <2>1, <2>3 DEF FlightAt
<1>19. LiveOK(r)
    <2> SUFFICES ASSUME NEW k \in DOMAIN s.groups,
                        r.groups[k].ready, Holds(s, k) # 0, AloneIn(r, k)
                 PROVE  r.starts[Holds(s, k)].phase = "live"
        BY <1>13 DEF LiveOK
    <2>1. s.starts[Holds(s, k)].phase = "live"  BY <1>2, <1>13, <1>15 DEF LiveOK
    <2>2. Holds(s, k) \in DOMAIN s.starts  BY <1>2 DEF HoldOK
    <2> QED  BY <2>1, <2>2, <1>11
<1>20. ReachOK(r)
    <2> SUFFICES ASSUME NEW n \in DOMAIN r.starts, IsOpen(r, n)
                 PROVE  \/ Holds(r, GroupOf(r, n)) = n /\ ~r.closed /\ Current(r, GroupOf(r, n))
                        \/ r.starts[n].late
                        \/ \E k \in DOMAIN r.starts \ {n} : GroupOf(r, k) = GroupOf(r, n)
        BY DEF ReachOK, ReachAt
    <2>1. n \in DOMAIN s.starts  BY <1>4, <1>12 DEF IsOpen
    <2>2. IsOpen(s, n) /\ GroupOf(r, n) = GroupOf(s, n) /\ GroupOf(s, n) \in DOMAIN s.groups
        BY <2>1, <1>1, <1>11 DEF IsOpen, GroupOf, Shape
    <2>3. \/ Holds(s, GroupOf(s, n)) = n /\ ~s.closed /\ Current(s, GroupOf(s, n))
          \/ s.starts[n].late
          \/ \E k \in DOMAIN s.starts \ {n} : GroupOf(s, k) = GroupOf(s, n)
        BY <2>1, <2>2, <1>2 DEF ReachOK, ReachAt
    <2>4. r.closed = s.closed /\ r.registered = s.registered
        BY <1>9, <1>10 DEF RestSame, HeadSame
    <2> QED  BY <2>1, <2>2, <2>3, <2>4, <1>11, <1>12, <1>13 DEF Current, GroupOf
<1>21. Mail(r)
    <2>1. \A m \in DOMAIN w.starts : m \in DOMAIN r.starts /\ GroupOf(r, m) = GroupOf(w, m)
        BY <1>6, <1>11, <1>12 DEF GroupOf
    <2>2. HeardOK(r)  BY <2>1, <1>9, <1>10 DEF Mail, HeardOK, RestSame
    <2>3. PendingOK(r)  BY <1>9, <1>10 DEF Mail, PendingOK, RestSame, Waiting
    <2>4. AsksOK(r)
        <3>1. \A h \in Hosts : AskOK(w, h) => AskOK(r, h)  BY <1>10 DEF AskOK, RestSame
        <3> QED  BY <3>1, <1>9, <1>10 DEF Mail, AsksOK, RestSame
    <2> QED  BY <2>2, <2>3, <2>4 DEF Mail
<1>22. Served(r)
    <2> SUFFICES ASSUME NEW h \in Hosts,
                        ~r.closed, r.registered[h] # 0, r.groups[r.registered[h]].ready,
                        Holds(r, r.registered[h]) # 0, AloneIn(r, r.registered[h]),
                        r.starts[Holds(r, r.registered[h])].by # "start"
                 PROVE  r.pending[h] = <<>>
        BY DEF Served, ServedAt
    <2> DEFINE k == s.registered[h]
    <2>1. k = r.registered[h] /\ k # 0 /\ ~s.closed
        BY <1>9, <1>10 DEF RestSame, HeadSame
    <2>2. k \in DOMAIN s.groups  BY <2>1, <1>1, RegisteredGroup
    <2>3. s.groups[k].ready /\ Holds(s, k) # 0 /\ AloneIn(s, k)  BY <2>1, <2>2, <1>13, <1>15
    <2>4. Holds(s, k) \in DOMAIN s.starts  BY <2>2, <2>3, <1>2 DEF HoldOK
    <2>5. s.starts[Holds(s, k)].by # "start"  BY <2>1, <2>2, <2>4, <1>11, <1>13
    <2>6. s.pending[h] = <<>>  BY <2>1, <2>3, <2>5, <1>1 DEF Served, ServedAt
    <2>7. Holds(r, r.registered[h]) = Holds(w, w.registered[h]) /\ r.pending = w.pending
        BY <1>10 DEF RestSame, Holds
    <2> QED  BY <2>6, <2>7, <1>9 DEF WaitsAfter
<1>23. AlarmsKept(s, r)  BY <1>9, <1>10 DEF AlarmsKept, RestSame
<1>24. r.booted = s.booted  BY <1>9, <1>10 DEF RestSame, HeadSame
<1> QED  BY <1>14, <1>17, <1>18, <1>19, <1>20, <1>21, <1>22, <1>23, <1>24 DEF IInv, Core, r

\* A group that nobody started joins under an id that named none.
AddedTo(s, h) ==
    [s EXCEPT !.groups = Append(s.groups, NewGroup(h)), !.registered[h] = Len(s.groups) + 1]

\* The invariant does not depend on it: addHost() up to the start.
LEMMA JoinedKeeps ==
    ASSUME NEW s, IInv(s), NEW h \in Hosts, s.registered[h] = 0, Len(s.groups) < MaxGroups
    PROVE  /\ IInv(AddedTo(s, h)) /\ AlarmsKept(s, AddedTo(s, h))
           /\ Len(s.groups) + 1 \in DOMAIN AddedTo(s, h).groups
           /\ AddedTo(s, h).starts = s.starts
<1> DEFINE g == Len(s.groups) + 1
           r == AddedTo(s, h)
           x == NewGroup(h)
           gs == Append(s.groups, x)
           re == [s.registered EXCEPT ![h] = g]
<1>1. Shape(s) /\ Core(s) /\ Mail(s) /\ Served(s)  BY DEF IInv
<1>2. HoldOK(s) /\ FlightOK(s) /\ LiveOK(s) /\ ReachOK(s)  BY <1>1 DEF Core
<1>3. s.groups \in Seq(Group) /\ s.starts \in Seq(Start) /\ s.registered \in [Hosts -> Nat]
    BY <1>1, ShapeTypes
<1>4. x \in Group /\ x.id = h /\ x.host = 0 /\ ~x.ready
    <2>1. 0 \in 0 .. MaxHostStarts  BY BoundsAssumption
    <2> QED  BY <2>1 DEF NewGroup, Group
<1> HIDE DEF x
<1>5. /\ gs \in Seq(Group) /\ Len(gs) = g /\ g \in Nat /\ g # 0
      /\ DOMAIN gs = DOMAIN s.groups \cup {g} /\ g \notin DOMAIN s.groups
      /\ gs[g] = x /\ \A k \in DOMAIN s.groups : gs[k] = s.groups[k]
    BY <1>3, <1>4
<1>6. re \in [Hosts -> Nat] /\ \A k \in Hosts : re[k] = IF k = h THEN g ELSE s.registered[k]
    BY <1>3, <1>5
<1>7. r = [s EXCEPT !.groups = gs, !.registered = re]  BY DEF x, AddedTo
<1>8. Len(gs) <= MaxGroups
    <2>1. Len(s.groups) \in Nat /\ MaxGroups \in Nat  BY <1>3, BoundsAssumption
    <2>2. g <= MaxGroups  BY <2>1
    <2> QED  BY <2>2, <1>5
<1> HIDE DEF gs, re, r
<1>9. /\ r.groups = gs /\ r.registered = re /\ r.starts = s.starts /\ r.messages = s.messages
      /\ r.pending = s.pending /\ r.asks = s.asks /\ r.timers = s.timers
      /\ r.coordinator = s.coordinator /\ r.closed = s.closed /\ r.booted = s.booted
      /\ r \in State
    <2>1. s \in State  BY <1>1 DEF Shape
    <2> QED  BY ONLY <2>1, <1>5, <1>6, <1>7 DEF State
<1>10. \A n \in DOMAIN s.starts : s.starts[n].group \in DOMAIN s.groups
    BY <1>1 DEF Shape, GroupOf
<1>11. s.coordinator \in Hosts /\ s.registered[s.coordinator] # 0
    BY <1>1, ShapeTypes DEF Shape
<1>12. Shape(r)
    <2>1. \A k \in Hosts : r.registered[k] # 0 =>
              r.registered[k] \in DOMAIN r.groups /\ r.groups[r.registered[k]].id = k
        <3> SUFFICES ASSUME NEW k \in Hosts, re[k] # 0  PROVE re[k] \in DOMAIN gs /\ gs[re[k]].id = k
            BY <1>9
        <3>1. CASE k = h  BY <3>1, <1>4, <1>5, <1>6
        <3>2. CASE k # h
            <4>1. re[k] = s.registered[k]  BY <3>2, <1>6
            <4>2. s.registered[k] \in DOMAIN s.groups /\ s.groups[s.registered[k]].id = k
                BY <4>1, <1>1, RegisteredGroup
            <4> QED  BY <4>1, <4>2, <1>5
        <3> QED  BY <3>1, <3>2
    <2>2. \A n \in DOMAIN r.starts : GroupOf(r, n) \in DOMAIN r.groups
        BY <1>5, <1>9, <1>10 DEF GroupOf
    <2>3. r.registered[r.coordinator] # 0  BY <1>5, <1>6, <1>9, <1>11
    <2>4. /\ Len(s.starts) <= MaxHostStarts /\ Len(s.messages) <= MaxMessages
          /\ \A k \in Hosts : Len(s.pending[k]) <= QueueLimit
        BY <1>1 DEF Shape
    <2>5. Len(r.groups) <= MaxGroups  BY <1>8, <1>9
    <2> QED  BY <1>9, <2>1, <2>2, <2>3, <2>4, <2>5 DEF Shape
<1>13. \A k \in DOMAIN s.groups : r.groups[k] = s.groups[k] /\ Holds(r, k) = Holds(s, k)
    BY <1>5, <1>9 DEF Holds
<1>14. DOMAIN r.groups = DOMAIN s.groups \cup {g} /\ Holds(r, g) = 0 /\ ~r.groups[g].ready
    BY <1>4, <1>5, <1>9 DEF Holds
<1>15. \A k : AloneIn(r, k) <=> AloneIn(s, k)  BY <1>9 DEF AloneIn, GroupOf
<1>16. HoldOK(r)
    BY <1>2, <1>9, <1>13, <1>14 DEF HoldOK, GroupOf
<1>17. \A n \in DOMAIN s.starts : GroupOf(r, n) = GroupOf(s, n) /\ GroupOf(s, n) \in DOMAIN s.groups
    BY <1>9, <1>10 DEF GroupOf
<1>18. FlightOK(r)
    <2> SUFFICES ASSUME NEW n \in DOMAIN s.starts, FlightAt(s, n)  PROVE FlightAt(r, n)
        BY <1>2, <1>9 DEF FlightOK
    <2>1. \A k \in DOMAIN r.starts : GroupOf(r, k) = GroupOf(s, k)  BY <1>9 DEF GroupOf
    <2> QED  BY <2>1, <1>9, <1>13, <1>15, <1>17 DEF FlightAt, OnlyFlight
<1>19. LiveOK(r)
    BY <1>2, <1>9, <1>13, <1>14, <1>15 DEF LiveOK
<1>20. ReachOK(r)
    <2>1. ASSUME NEW k \in DOMAIN s.groups, Current(s, k)  PROVE Current(r, k)
        <3>1. s.groups[k].id \in Hosts /\ k # 0
            <4>1. s.groups[k] \in Group /\ k # 0  BY <1>3
            <4> QED  BY <4>1 DEF Group
        <3>2. s.registered[s.groups[k].id] # 0  BY <2>1, <3>1 DEF Current
        <3>3. s.groups[k].id # h  BY <3>2
        <3> QED  BY <2>1, <3>1, <3>3, <1>6, <1>9, <1>13 DEF Current
    <2> QED  BY <2>1, <1>2, <1>9, <1>13, <1>17 DEF ReachOK, ReachAt, IsOpen
<1>21. PendingOK(r)
    <2>1. \A k \in Hosts : k # h => r.registered[k] = s.registered[k]  BY <1>6, <1>9
    <2>2. s.pending[h] = <<>>  BY <1>1 DEF Mail, PendingOK
    <2>3. Waiting(r, h) = {}  BY <2>2, <1>9 DEF Waiting
    <2> QED  BY <2>1, <2>2, <2>3, <1>1, <1>9 DEF Mail, PendingOK, Waiting
<1>22. HeardOK(r)  BY <1>1, <1>9 DEF Mail, HeardOK, GroupOf
<1>23. AsksOK(r)
    <2>1. ASSUME NEW k \in Hosts, s.asks[k] # 0  PROVE AskOK(r, k)
        <3>1. AskOK(s, k)  BY <2>1, <1>1 DEF Mail, AsksOK
        <3>2. k # h  BY <3>1 DEF AskOK
        <3>3. r.registered[k] = s.registered[k]  BY <3>2, <1>6, <1>9
        <3> QED  BY <3>1, <3>3, <1>9 DEF AskOK
    <2> QED  BY <2>1, <1>1, <1>9 DEF Mail, AsksOK
<1>24. Served(r)
    <2> SUFFICES ASSUME NEW k \in Hosts  PROVE ServedAt(r, k)
        BY DEF Served
    <2>1. CASE k = h
        <3>1. r.registered[k] = g  BY <2>1, <1>6, <1>9
        <3> QED  BY <3>1, <1>14 DEF ServedAt
    <2>2. CASE k # h
        <3>1. r.registered[k] = s.registered[k]  BY <2>2, <1>6, <1>9
        <3>2. s.registered[k] # 0 => s.registered[k] \in DOMAIN s.groups  BY <1>1, RegisteredGroup
        <3>3. ServedAt(s, k)  BY <1>1 DEF Served
        <3> QED  BY <3>1, <3>2, <3>3, <1>9, <1>13, <1>15 DEF ServedAt
    <2> QED  BY <2>1, <2>2
<1>25. AlarmsKept(s, r)  BY <1>9 DEF AlarmsKept
<1> QED
    BY <1>9, <1>12, <1>14, <1>16, <1>18, <1>19, <1>20, <1>21, <1>22, <1>23, <1>24, <1>25
    DEF IInv, Core, Mail, r

\* Start n becomes x and its group y.
Went(s, r, n, x, g, y) ==
    /\ Shape(r) /\ Mail(r) /\ RestSame(s, r) /\ SameStarts(s, r) /\ AlarmsKept(s, r)
    /\ DOMAIN r.groups = DOMAIN s.groups
    /\ \A k \in DOMAIN s.groups : r.groups[k] = IF k = g THEN y ELSE s.groups[k]
    /\ \A k \in DOMAIN s.starts : r.starts[k] = IF k = n THEN x ELSE s.starts[k]
    /\ \A k : AloneIn(r, k) <=> AloneIn(s, k)

\* A start goes on, in the same group: what is said of the messages is kept.
LEMMA WithStartAndGroup ==
    ASSUME NEW s, Shape(s), Mail(s), NEW n \in DOMAIN s.starts, NEW x \in Start,
           x.group = s.starts[n].group, x.by = s.starts[n].by, x.alone = s.starts[n].alone,
           NEW g \in DOMAIN s.groups, NEW y \in Group, y.id = s.groups[g].id
    PROVE  Went(s, WithStart(WithGroup(s, g, y), n, x), n, x, g, y)
<1> DEFINE w == WithGroup(s, g, y)
           r == WithStart(w, n, x)
<1>1. /\ Shape(w) /\ RestSame(s, w) /\ w.starts = s.starts
      /\ DOMAIN w.groups = DOMAIN s.groups
      /\ \A k \in DOMAIN s.groups : w.groups[k] = IF k = g THEN y ELSE s.groups[k]
      /\ Mail(w)
    BY WithGroupShape
<1>6. r = WithStart(w, n, x)  OBVIOUS
<1> HIDE DEF w
<1>2. /\ Shape(r) /\ RestSame(w, r) /\ r.groups = w.groups
      /\ DOMAIN r.starts = DOMAIN s.starts
      /\ \A k \in DOMAIN s.starts : r.starts[k] = IF k = n THEN x ELSE s.starts[k]
      /\ Mail(r)
    BY <1>1, WithStartShape
<1> HIDE DEF r
<1>3. RestSame(s, r) /\ AlarmsKept(s, r)  BY <1>1, <1>2 DEF RestSame, AlarmsKept
<1>4. SameStarts(s, r)  BY <1>2 DEF SameStarts
<1>5. \A k : AloneIn(r, k) <=> AloneIn(s, k)  BY <1>2, <1>4 DEF AloneIn, SameStarts, GroupOf
<1> QED  BY <1>1, <1>2, <1>3, <1>4, <1>5 DEF r, w, Went

\* A start under way goes on without its group: what is said is kept if its session
\* lives once its handshake is over, and none is revived.
LEMMA StartMovesKeeps ==
    ASSUME NEW s, IInv(s), NEW n \in DOMAIN s.starts, NEW x \in Start,
           s.starts[n].pc \in {"handshake", "settled"}, x.pc # "memory",
           x.group = s.starts[n].group, x.by = s.starts[n].by,
           x.alone = s.starts[n].alone, x.late = s.starts[n].late,
           x.pc = "settled" => x.phase = "live",
           x.phase \in {"starting", "live"} => IsOpen(s, n)
    PROVE  IInv(WithStart(s, n, x)) /\ AlarmsKept(s, WithStart(s, n, x))
<1> DEFINE r == WithStart(s, n, x)
           g == GroupOf(s, n)
<1>1. Shape(s) /\ Core(s) /\ Mail(s) /\ Served(s)  BY DEF IInv
<1>2. HoldOK(s) /\ FlightOK(s) /\ LiveOK(s) /\ ReachOK(s)  BY <1>1 DEF Core
<1>3. /\ Shape(r) /\ RestSame(s, r) /\ r.groups = s.groups
      /\ DOMAIN r.starts = DOMAIN s.starts
      /\ \A k \in DOMAIN s.starts : r.starts[k] = IF k = n THEN x ELSE s.starts[k]
      /\ Mail(r)
    BY <1>1, WithStartShape
<1> HIDE DEF r
<1>4. SameStarts(s, r)  BY <1>3 DEF SameStarts
<1>5. /\ \A k : AloneIn(r, k) <=> AloneIn(s, k)
      /\ \A k \in DOMAIN s.starts : GroupOf(r, k) = GroupOf(s, k)
      /\ \A k : Holds(r, k) = Holds(s, k)
    BY <1>3, <1>4 DEF AloneIn, SameStarts, GroupOf, Holds
<1>6. g \in DOMAIN s.groups  BY <1>1 DEF Shape
<1>7. AloneIn(s, g) => OnlyFlight(s, n, g)
    BY <1>2 DEF FlightOK, FlightAt, Underway
<1>8. HoldOK(r)  BY <1>2, <1>3, <1>5 DEF HoldOK
<1>9. FlightOK(r)
    <2> SUFFICES ASSUME NEW k \in DOMAIN s.starts  PROVE FlightAt(r, k)
        BY <1>3 DEF FlightOK
    <2>1. FlightAt(s, k)  BY <1>2 DEF FlightOK
    <2>2. ASSUME NEW j \in DOMAIN s.starts, r.starts[j].pc \in Underway
          PROVE  s.starts[j].pc \in Underway
        BY <2>2, <1>3 DEF Underway
    <2>3. CASE k = n
        BY <2>2, <2>3, <1>3, <1>5, <1>7 DEF FlightAt, OnlyFlight
    <2>4. CASE k # n
        BY <2>1, <2>2, <2>4, <1>3, <1>5 DEF FlightAt, OnlyFlight
    <2> QED  BY <2>3, <2>4
<1>10. LiveOK(r)
    <2> SUFFICES ASSUME NEW k \in DOMAIN s.groups,
                        s.groups[k].ready, Holds(s, k) # 0, AloneIn(s, k)
                 PROVE  r.starts[Holds(s, k)].phase = "live"
        BY <1>3, <1>5 DEF LiveOK
    <2>1. Holds(s, k) \in DOMAIN s.starts /\ GroupOf(s, Holds(s, k)) = k  BY <1>2 DEF HoldOK
    <2>2. Holds(s, k) # n  BY <2>1, <1>7 DEF OnlyFlight
    <2> QED  BY <2>1, <2>2, <1>2, <1>3 DEF LiveOK
<1>11. ReachOK(r)
    <2>1. \A k \in DOMAIN s.starts : IsOpen(r, k) => IsOpen(s, k)  BY <1>3 DEF IsOpen
    <2>2. \A k \in DOMAIN s.starts : r.starts[k].late = s.starts[k].late  BY <1>3
    <2>3. r.closed = s.closed /\ \A k : Current(r, k) <=> Current(s, k)
        BY <1>3 DEF RestSame, Current
    <2> QED  BY <2>1, <2>2, <2>3, <1>2, <1>3, <1>5 DEF ReachOK, ReachAt
<1>12. Loosens(s, r, g)
    BY <1>3, <1>5, <1>6
    DEF Loosens, AlarmsKept, HeadSame, OnlyGroup, WaitsAfter, RestSame
<1>13. Served(r)  BY <1>1, <1>2, <1>4, <1>6, <1>12, LoosensServed
<1> QED  BY <1>3, <1>8, <1>9, <1>10, <1>11, <1>12, <1>13 DEF IInv, Core, Loosens, r

\* A session made for a group that was let go of while start() read the memory.
MadeLate(s, g) == s.closed \/ s.registered[s.groups[g].id] # g

\* A start whose session is made, and whose group holds it.
LEMMA OpensKeeps ==
    ASSUME NEW s, IInv(s), NEW n \in DOMAIN s.starts, s.starts[n].pc = "memory",
           NEW g, g = s.starts[n].group,
           NEW x, x.pc = "handshake", x.phase = "starting", x.group = g,
           x.late <=> MadeLate(s, g),
           NEW y, y.host = n, y.id = s.groups[g].id, y.ready = s.groups[g].ready,
           NEW r, Went(s, r, n, x, g, y)
    PROVE  IInv(r) /\ AlarmsKept(s, r)
<1>1. Shape(s) /\ Core(s) /\ Mail(s) /\ Served(s)  BY DEF IInv
<1>2. HoldOK(s) /\ FlightOK(s) /\ LiveOK(s) /\ ReachOK(s)  BY <1>1 DEF Core
<1>3. g \in DOMAIN s.groups /\ GroupOf(s, n) = g  BY <1>1 DEF Shape, GroupOf
<1>5. x.pc = "handshake" /\ x.phase = "starting" /\ (x.late <=> MadeLate(s, g))
      /\ x.group = g
    OBVIOUS
<1>6. y.id = s.groups[g].id /\ y.host = n /\ y.ready = s.groups[g].ready
    OBVIOUS
<1>8. /\ Shape(r) /\ Mail(r) /\ RestSame(s, r) /\ SameStarts(s, r)
      /\ AlarmsKept(s, r)
      /\ DOMAIN r.groups = DOMAIN s.groups
      /\ \A k \in DOMAIN s.groups : r.groups[k] = IF k = g THEN y ELSE s.groups[k]
      /\ \A k \in DOMAIN s.starts : r.starts[k] = IF k = n THEN x ELSE s.starts[k]
      /\ \A k : AloneIn(r, k) <=> AloneIn(s, k)
    BY DEF Went
<1>9. DOMAIN r.starts = DOMAIN s.starts
      /\ \A k \in DOMAIN s.starts : GroupOf(r, k) = GroupOf(s, k)
    BY <1>8 DEF SameStarts, GroupOf
<1>10. Holds(r, g) = n /\ \A k \in DOMAIN s.groups : k # g => Holds(r, k) = Holds(s, k)
    BY <1>3, <1>6, <1>8 DEF Holds
<1>11. \A k \in DOMAIN s.groups : r.groups[k].ready = s.groups[k].ready
                                  /\ r.groups[k].id = s.groups[k].id
    BY <1>6, <1>8
<1>12. AloneIn(s, g) => OnlyFlight(s, n, g)
    BY <1>2, <1>3 DEF FlightOK, FlightAt, Underway
<1>13. HoldOK(r)
    <2> SUFFICES ASSUME NEW k \in DOMAIN s.groups, Holds(r, k) # 0
                 PROVE  /\ Holds(r, k) \in DOMAIN r.starts
                        /\ GroupOf(r, Holds(r, k)) = k
                        /\ r.starts[Holds(r, k)].pc # "memory"
        BY <1>8 DEF HoldOK
    <2>1. CASE k = g
        <3>1. r.starts[n] = x  BY <1>8
        <3> QED  BY <2>1, <3>1, <1>3, <1>5, <1>9, <1>10
    <2>2. CASE k # g
        <3>1. /\ Holds(s, k) \in DOMAIN s.starts /\ GroupOf(s, Holds(s, k)) = k
              /\ s.starts[Holds(s, k)].pc # "memory"
            BY <2>2, <1>2, <1>10 DEF HoldOK
        <3>2. r.starts[Holds(s, k)].pc # "memory"  BY <3>1, <1>5, <1>8
        <3> QED  BY <2>2, <3>1, <3>2, <1>9, <1>10
    <2> QED  BY <2>1, <2>2
<1>14. FlightOK(r)
    <2> SUFFICES ASSUME NEW k \in DOMAIN s.starts  PROVE FlightAt(r, k)
        BY <1>9 DEF FlightOK
    <2>1. FlightAt(s, k)  BY <1>2 DEF FlightOK
    <2>2. \A j \in DOMAIN s.starts : r.starts[j].pc \in Underway => s.starts[j].pc \in Underway
        BY <1>8 DEF Underway
    <2>3. CASE k = n
        <3>1. ASSUME AloneIn(s, g)  PROVE OnlyFlight(r, n, g)
            BY <3>1, <2>2, <1>3, <1>5, <1>8, <1>9, <1>10, <1>11, <1>12 DEF OnlyFlight
        <3> QED  BY <2>3, <3>1, <1>3, <1>5, <1>8, <1>9 DEF FlightAt
    <2>4. CASE k # n
        <3>1. r.starts[k] = s.starts[k] /\ GroupOf(r, k) = GroupOf(s, k)
              /\ GroupOf(s, k) \in DOMAIN s.groups
            BY <2>4, <1>1, <1>8, <1>9 DEF Shape
        <3>2. ASSUME s.starts[k].pc \in Underway, AloneIn(s, GroupOf(s, k))
              PROVE  OnlyFlight(r, k, GroupOf(s, k))
            <4>1. OnlyFlight(s, k, GroupOf(s, k))  BY <2>1, <3>2 DEF FlightAt
            <4>2. s.starts[n].pc \in Underway  BY DEF Underway
            <4>3. GroupOf(s, k) # g  BY <2>4, <4>1, <4>2, <1>3 DEF OnlyFlight
            <4> QED  BY <4>1, <4>3, <3>1, <2>2, <1>9, <1>10, <1>11 DEF OnlyFlight
        <3> QED  BY <2>1, <3>1, <3>2, <1>8 DEF FlightAt
    <2> QED  BY <2>3, <2>4
<1>15. LiveOK(r)
    <2> SUFFICES ASSUME NEW k \in DOMAIN s.groups,
                        s.groups[k].ready, Holds(r, k) # 0, AloneIn(s, k)
                 PROVE  r.starts[Holds(r, k)].phase = "live"
        BY <1>8, <1>11 DEF LiveOK
    <2>1. k # g  BY <1>12 DEF OnlyFlight
    <2>2. Holds(r, k) = Holds(s, k)  BY <2>1, <1>10
    <2>3. Holds(s, k) \in DOMAIN s.starts /\ GroupOf(s, Holds(s, k)) = k
        BY <2>2, <1>2 DEF HoldOK
    <2>4. Holds(s, k) # n  BY <2>1, <2>3, <1>3
    <2>5. r.starts[Holds(s, k)] = s.starts[Holds(s, k)]  BY <2>3, <2>4, <1>8
    <2>6. s.starts[Holds(s, k)].phase = "live"  BY <2>2, <1>2 DEF LiveOK
    <2> QED  BY <2>2, <2>5, <2>6
<1>16. r.closed = s.closed /\ r.registered = s.registered  BY <1>8 DEF RestSame
<1>17. ReachOK(r)
    <2> SUFFICES ASSUME NEW k \in DOMAIN s.starts, IsOpen(r, k)  PROVE ReachAt(r, k)
        BY <1>9 DEF ReachOK
    <2>1. CASE k = n
        <3>1. MadeLate(s, g) \/ (~s.closed /\ Current(r, g))
            BY <1>3, <1>11, <1>16 DEF Current, MadeLate
        <3> QED  BY <2>1, <3>1, <1>3, <1>5, <1>8, <1>9, <1>10, <1>16 DEF ReachAt
    <2>2. CASE k # n /\ GroupOf(s, k) = g  BY <2>2, <1>3, <1>9 DEF ReachAt
    <2>3. CASE k # n /\ GroupOf(s, k) # g
        <3>1. IsOpen(s, k) /\ r.starts[k] = s.starts[k] /\ GroupOf(s, k) \in DOMAIN s.groups
            BY <2>3, <1>1, <1>8 DEF IsOpen, Shape
        <3>2. Holds(r, GroupOf(s, k)) = Holds(s, GroupOf(s, k))
              /\ (Current(r, GroupOf(s, k)) <=> Current(s, GroupOf(s, k)))
            BY <2>3, <3>1, <1>10, <1>11, <1>16 DEF Current
        <3>3. ReachAt(s, k)  BY <3>1, <1>2 DEF ReachOK
        <3> QED  BY <3>1, <3>2, <3>3, <1>9, <1>16 DEF ReachAt
    <2> QED  BY <2>1, <2>2, <2>3
<1>18. Served(r)
    <2> SUFFICES ASSUME NEW h \in Hosts  PROVE ServedAt(r, h)
        BY DEF Served
    <2> DEFINE k == s.registered[h]
    <2>1. r.registered[h] = k /\ r.pending = s.pending  BY <1>8, <1>16 DEF RestSame
    <2>2. CASE k = 0  BY <2>1, <2>2 DEF ServedAt
    <2>3. CASE k = g /\ k # 0
        <3>1. ~AloneIn(r, k) \/ ~r.groups[k].ready
            BY <2>3, <1>3, <1>8, <1>11, <1>12 DEF OnlyFlight
        <3> QED  BY <2>1, <3>1 DEF ServedAt
    <2>4. CASE k # g /\ k # 0
        <3>1. k \in DOMAIN s.groups  BY <2>4, <1>1, RegisteredGroup
        <3>2. Holds(r, k) = Holds(s, k) /\ r.groups[k].ready = s.groups[k].ready
              /\ (AloneIn(r, k) <=> AloneIn(s, k))
            BY <2>4, <3>1, <1>8, <1>10, <1>11
        <3>3. Holds(s, k) # 0 => r.starts[Holds(s, k)].by = s.starts[Holds(s, k)].by
            BY <3>1, <1>2, <1>8 DEF HoldOK, SameStarts
        <3>4. ServedAt(s, h)  BY <1>1 DEF Served
        <3> QED  BY <2>1, <3>2, <3>3, <3>4, <1>16 DEF ServedAt
    <2> QED  BY <2>2, <2>3, <2>4
<1> QED  BY <1>8, <1>13, <1>14, <1>15, <1>17, <1>18 DEF IInv, Core

\* The invariant holds after the step, and no alarm was raised.
Keeps(s, r) == IInv(r) /\ AlarmsKept(s, r)

\* Two steps in a row raise no alarm if neither does.
LEMMA KeepsMore ==
    ASSUME NEW s, NEW t, NEW r, AlarmsKept(s, t), Keeps(t, r)
    PROVE  Keeps(s, r)
BY DEF Keeps, AlarmsKept

\* A start that goes on is one.
Moved(s, n, p, q) == [s.starts[n] EXCEPT !.pc = p, !.phase = q]
MovedTo(s, n, p, q) == [s EXCEPT !.starts[n].pc = p, !.starts[n].phase = q]

\* It is the start n with another pc and phase.
LEMMA MovedStart ==
    ASSUME NEW s, Shape(s), NEW n \in DOMAIN s.starts, NEW p \in Pc, NEW q \in Phase
    PROVE  /\ MovedTo(s, n, p, q) = WithStart(s, n, Moved(s, n, p, q))
           /\ Moved(s, n, p, q) \in Start
           /\ Moved(s, n, p, q).pc = p /\ Moved(s, n, p, q).phase = q
           /\ Moved(s, n, p, q).group = s.starts[n].group
           /\ Moved(s, n, p, q).by = s.starts[n].by
           /\ Moved(s, n, p, q).alone = s.starts[n].alone
           /\ Moved(s, n, p, q).late = s.starts[n].late
<1>1. s \in State /\ s.starts \in Seq(Start)  BY ShapeTypes
<1>2. s.starts[n] \in Start  BY <1>1
<1>3. MovedTo(s, n, p, q) = WithStart(s, n, [s.starts[n] EXCEPT !.pc = p, !.phase = q])
    BY ONLY <1>1, n \in DOMAIN s.starts DEF WithStart, State, MovedTo
<1> DEFINE z == s.starts[n]
           x == [z EXCEPT !.pc = p, !.phase = q]
<1>4. z \in Start  BY <1>2
<1>5. /\ x \in Start /\ x.pc = p /\ x.phase = q /\ x.group = z.group
      /\ x.by = z.by /\ x.alone = z.alone /\ x.late = z.late
    <2> HIDE DEF z
    <2> QED  BY ONLY <1>4, p \in Pc, q \in Phase DEF Start
<1> QED  BY <1>3, <1>5 DEF Moved

\* The backend is ready: HandshakeDone.
LEMMA HandshakeDoneKeeps ==
    ASSUME NEW s, IInv(s), NEW n \in DOMAIN s.starts,
           s.starts[n].pc = "handshake", s.starts[n].phase = "starting"
    PROVE  Keeps(s, MovedTo(s, n, "settled", "live"))
<1> DEFINE p == "settled"
           q == "live"
           x == Moved(s, n, p, q)
<1>1. p \in Pc /\ q \in Phase  BY DEF Pc, Phase
<1>2. Shape(s)  BY DEF IInv
<1>3. p = "settled" /\ q = "live"  OBVIOUS
<1> HIDE DEF p, q
<1>4. MovedTo(s, n, p, q) = WithStart(s, n, x)  BY <1>1, <1>2, MovedStart
<1>5. /\ x \in Start /\ x.pc = p /\ x.phase = q /\ x.group = s.starts[n].group
      /\ x.by = s.starts[n].by /\ x.alone = s.starts[n].alone /\ x.late = s.starts[n].late
    BY <1>1, <1>2, MovedStart
<1> HIDE DEF x
<1>6. IsOpen(s, n)  BY DEF IsOpen
<1>7. IInv(WithStart(s, n, x)) /\ AlarmsKept(s, WithStart(s, n, x))
    BY <1>3, <1>5, <1>6, StartMovesKeeps
<1> QED  BY <1>4, <1>7 DEF Keeps, p, q

\* A start fails; its caller may end the Meeting.
LEMMA FailedKeeps ==
    ASSUME NEW s, IInv(s), NEW n \in DOMAIN s.starts,
           s.starts[n].pc \in {"handshake", "settled"}, NEW q \in Phase,
           q \in {"starting", "live"} => q = s.starts[n].phase
    PROVE  /\ Keeps(s, MovedTo(s, n, "failed", q))
           /\ Keeps(s, EndMeeting(MovedTo(s, n, "failed", q)))
<1> DEFINE p == "failed"
           x == Moved(s, n, p, q)
           t == MovedTo(s, n, p, q)
<1>1. p \in Pc  BY DEF Pc
<1>2. Shape(s)  BY DEF IInv
<1>3. p = "failed"  OBVIOUS
<1> HIDE DEF p
<1>4. t = WithStart(s, n, x)  BY <1>1, <1>2, MovedStart
<1>5. /\ x \in Start /\ x.pc = p /\ x.phase = q /\ x.group = s.starts[n].group
      /\ x.by = s.starts[n].by /\ x.alone = s.starts[n].alone /\ x.late = s.starts[n].late
    BY <1>1, <1>2, MovedStart
<1> HIDE DEF x, t
<1>6. x.phase \in {"starting", "live"} => IsOpen(s, n)  BY <1>5 DEF IsOpen
<1>7. IInv(WithStart(s, n, x)) /\ AlarmsKept(s, WithStart(s, n, x))
    BY <1>3, <1>5, <1>6, StartMovesKeeps
<1>8. IInv(t) /\ AlarmsKept(s, t)  BY ONLY <1>4, <1>7
<1>9. Keeps(t, EndMeeting(t))  BY <1>8, EndMeetingKeeps DEF Keeps
<1>10. Keeps(s, EndMeeting(t))  BY <1>8, <1>9, KeepsMore
<1>11. Keeps(s, t)  BY <1>8 DEF Keeps
<1> QED  BY <1>10, <1>11 DEF t, p

\* What waits is served after a step that only says something.
LEMMA TalkServedAt ==
    ASSUME NEW s, NEW r, Talk(s, r), NEW h \in Hosts, ServedAt(s, h)
    PROVE  ServedAt(r, h)
<1>1. Quiet(s, r) /\ WaitsKept(s, r)  BY DEF Talk
<1>2. AloneIn(r, r.registered[h]) <=> AloneIn(s, s.registered[h])
    BY <1>1 DEF Quiet, AloneIn, GroupOf
<1> QED  BY <1>1, <1>2 DEF ServedAt, Quiet, WaitsKept, Holds

\* A start is over and its group ready: what waits for the group remains to be flushed.
LEMMA ReadyKeeps ==
    ASSUME NEW s, IInv(s), NEW n \in DOMAIN s.starts, s.starts[n].pc = "settled",
           NEW g, g = s.starts[n].group, Holds(s, g) # 0,
           NEW x, x.pc = "returned", x.phase = s.starts[n].phase, x.late = s.starts[n].late,
           NEW y, y.host = s.groups[g].host, y.id = s.groups[g].id,
           NEW r, Went(s, r, n, x, g, y)
    PROVE  /\ Core(r)
           /\ AloneIn(r, g) => Holds(r, g) = n
           /\ \A h \in Hosts : r.registered[h] # g => ServedAt(r, h)
<1>1. Shape(s) /\ Core(s) /\ Mail(s) /\ Served(s)  BY DEF IInv
<1>2. HoldOK(s) /\ FlightOK(s) /\ LiveOK(s) /\ ReachOK(s)  BY <1>1 DEF Core
<1>3. g \in DOMAIN s.groups /\ GroupOf(s, n) = g  BY <1>1 DEF Shape, GroupOf
<1>4. /\ Shape(r) /\ RestSame(s, r) /\ SameStarts(s, r)
      /\ DOMAIN r.groups = DOMAIN s.groups
      /\ \A k \in DOMAIN s.groups : r.groups[k] = IF k = g THEN y ELSE s.groups[k]
      /\ \A k \in DOMAIN s.starts : r.starts[k] = IF k = n THEN x ELSE s.starts[k]
      /\ \A k : AloneIn(r, k) <=> AloneIn(s, k)
    BY DEF Went
<1>5. DOMAIN r.starts = DOMAIN s.starts
      /\ \A k \in DOMAIN s.starts : GroupOf(r, k) = GroupOf(s, k)
    BY <1>4 DEF SameStarts, GroupOf
<1>6. \A k \in DOMAIN s.groups : Holds(r, k) = Holds(s, k) /\ r.groups[k].id = s.groups[k].id
    BY <1>4 DEF Holds
<1>7. \A k \in DOMAIN s.starts : r.starts[k].phase = s.starts[k].phase
                                 /\ r.starts[k].late = s.starts[k].late
    BY <1>4
<1>8. \A k \in DOMAIN s.groups : k # g => r.groups[k] = s.groups[k]  BY <1>4
<1>9. AloneIn(s, g) => OnlyFlight(s, n, g)
    BY <1>2, <1>3 DEF FlightOK, FlightAt, Underway
<1>10. AloneIn(s, g) => Holds(s, g) = n /\ s.starts[n].phase = "live"
    BY <1>9 DEF OnlyFlight
<1>11. HoldOK(r)
    <2> SUFFICES ASSUME NEW k \in DOMAIN s.groups, Holds(s, k) # 0
                 PROVE  /\ Holds(s, k) \in DOMAIN r.starts
                        /\ GroupOf(r, Holds(s, k)) = k
                        /\ r.starts[Holds(s, k)].pc # "memory"
        BY <1>4, <1>6 DEF HoldOK
    <2>1. /\ Holds(s, k) \in DOMAIN s.starts /\ GroupOf(s, Holds(s, k)) = k
          /\ s.starts[Holds(s, k)].pc # "memory"
        BY <1>2 DEF HoldOK
    <2>2. r.starts[Holds(s, k)].pc # "memory"  BY <2>1, <1>4
    <2> QED  BY <2>1, <2>2, <1>5
<1>12. FlightOK(r)
    <2> SUFFICES ASSUME NEW k \in DOMAIN s.starts  PROVE FlightAt(r, k)
        BY <1>5 DEF FlightOK
    <2>1. FlightAt(s, k)  BY <1>2 DEF FlightOK
    <2>2. \A j \in DOMAIN s.starts :
             r.starts[j].pc \in Underway => j # n /\ r.starts[j] = s.starts[j]
        BY <1>4 DEF Underway
    <2>3. CASE k = n
        <3>1. r.starts[k] = x  BY <2>3, <1>4
        <3> QED  BY <3>1 DEF FlightAt, Underway
    <2>4. CASE k # n
        <3>1. r.starts[k] = s.starts[k] /\ GroupOf(r, k) = GroupOf(s, k)
              /\ GroupOf(s, k) \in DOMAIN s.groups
            BY <2>4, <1>1, <1>4, <1>5 DEF Shape
        <3>2. ASSUME s.starts[k].pc \in Underway, AloneIn(s, GroupOf(s, k))
              PROVE  OnlyFlight(r, k, GroupOf(s, k))
            <4>1. OnlyFlight(s, k, GroupOf(s, k))  BY <2>1, <3>2 DEF FlightAt
            <4>2. s.starts[n].pc \in Underway  BY DEF Underway
            <4>3. GroupOf(s, k) # g  BY <2>4, <4>1, <4>2, <1>3 DEF OnlyFlight
            <4> QED  BY <4>1, <4>3, <3>1, <2>2, <1>5, <1>6, <1>8 DEF OnlyFlight
        <3> QED  BY <2>1, <3>1, <3>2, <1>4 DEF FlightAt
    <2> QED  BY <2>3, <2>4
<1>13. LiveOK(r)
    <2> SUFFICES ASSUME NEW k \in DOMAIN s.groups,
                        r.groups[k].ready, Holds(s, k) # 0, AloneIn(s, k)
                 PROVE  r.starts[Holds(s, k)].phase = "live"
        BY <1>4, <1>6 DEF LiveOK
    <2>1. Holds(s, k) \in DOMAIN s.starts  BY <1>2 DEF HoldOK
    <2>2. s.starts[Holds(s, k)].phase = "live"
        <3>1. CASE k = g  BY <3>1, <1>10
        <3>2. CASE k # g
            <4>1. s.groups[k].ready  BY <3>2, <1>8
            <4> QED  BY <4>1, <1>2 DEF LiveOK
        <3> QED  BY <3>1, <3>2
    <2> QED  BY <2>1, <2>2, <1>7
<1>14. r.closed = s.closed /\ r.registered = s.registered /\ r.pending = s.pending
    BY <1>4 DEF RestSame
<1>15. ReachOK(r)
    <2> SUFFICES ASSUME NEW k \in DOMAIN s.starts, IsOpen(r, k)  PROVE ReachAt(r, k)
        BY <1>5 DEF ReachOK
    <2>1. IsOpen(s, k) /\ GroupOf(s, k) \in DOMAIN s.groups  BY <1>1, <1>7 DEF IsOpen, Shape
    <2>2. ReachAt(s, k)  BY <2>1, <1>2 DEF ReachOK
    <2>3. Current(r, GroupOf(s, k)) <=> Current(s, GroupOf(s, k))
        BY <2>1, <1>6, <1>14 DEF Current
    <2>4. r.starts[k].late = s.starts[k].late  BY <1>7
    <2> QED  BY <2>1, <2>2, <2>3, <2>4, <1>5, <1>6, <1>14 DEF ReachAt
<1>16. AloneIn(r, g) => Holds(r, g) = n  BY <1>3, <1>4, <1>6, <1>10
<1>17. ASSUME NEW h \in Hosts, r.registered[h] # g  PROVE ServedAt(r, h)
    <2> DEFINE k == s.registered[h]
    <2>1. r.registered[h] = k /\ k # g  BY <1>14, <1>17
    <2>2. CASE k = 0  BY <2>1, <2>2 DEF ServedAt
    <2>3. CASE k # 0
        <3>1. k \in DOMAIN s.groups  BY <2>3, <1>1, RegisteredGroup
        <3>2. Holds(r, k) = Holds(s, k) /\ r.groups[k].ready = s.groups[k].ready
              /\ (AloneIn(r, k) <=> AloneIn(s, k))
            BY <2>1, <3>1, <1>4, <1>6
        <3>3. Holds(s, k) # 0 => r.starts[Holds(s, k)].by = s.starts[Holds(s, k)].by
            BY <3>1, <1>2, <1>4 DEF HoldOK, SameStarts
        <3>4. ServedAt(s, h)  BY <1>1 DEF Served
        <3> QED  BY <2>1, <3>2, <3>3, <3>4, <1>14 DEF ServedAt
    <2> QED  BY <2>2, <2>3
<1> QED  BY <1>11, <1>12, <1>13, <1>15, <1>16, <1>17 DEF Core

\* A start whose session says nothing of it.
LEMMA FailedSame ==
    ASSUME NEW s, Shape(s), NEW n \in DOMAIN s.starts
    PROVE  /\ [s EXCEPT !.starts[n].pc = "failed"] = MovedTo(s, n, "failed", s.starts[n].phase)
           /\ s.starts[n].phase \in Phase
<1>1. s \in State /\ s.starts \in Seq(Start)  BY ShapeTypes
<1>2. s.starts[n] \in Start  BY <1>1
<1>3. s.starts[n].phase \in Phase  BY <1>2 DEF Start
<1> DEFINE ph == s.starts[n].phase
<1>4. [s.starts EXCEPT ![n].pc = "failed"] =
          [[s.starts EXCEPT ![n].pc = "failed"] EXCEPT ![n].phase = ph]
    <2> DEFINE z == s.starts[n]
               a == [z EXCEPT !.pc = "failed"]
    <2>1. z \in Start  BY <1>2
    <2>2. [a EXCEPT !.phase = z.phase] = a
        <3> HIDE DEF z
        <3> QED  BY ONLY <2>1 DEF Start
    <2> QED  BY ONLY <2>2, <1>1, n \in DOMAIN s.starts
<1>5. [s EXCEPT !.starts[n].pc = "failed"] = MovedTo(s, n, "failed", ph)
    BY ONLY <1>1, <1>4 DEF MovedTo, State
<1> QED  BY <1>3, <1>5

\* The group is ready and the start over.
Over(s, n) == [s.starts[n] EXCEPT !.pc = "returned"]
Readied(s, g) == [s.groups[g] EXCEPT !.ready = TRUE]
ReadiedTo(s, n, g) == [s EXCEPT !.groups[g].ready = TRUE, !.starts[n].pc = "returned"]

\* The group and the start are replaced.
LEMMA ReadySame ==
    ASSUME NEW s, Shape(s), NEW n \in DOMAIN s.starts, NEW g \in DOMAIN s.groups
    PROVE  /\ ReadiedTo(s, n, g) = WithStart(WithGroup(s, g, Readied(s, g)), n, Over(s, n))
           /\ Over(s, n) \in Start /\ Over(s, n).pc = "returned"
           /\ Over(s, n).phase = s.starts[n].phase /\ Over(s, n).group = s.starts[n].group
           /\ Over(s, n).by = s.starts[n].by /\ Over(s, n).alone = s.starts[n].alone
           /\ Over(s, n).late = s.starts[n].late
           /\ Readied(s, g) \in Group
           /\ Readied(s, g).host = s.groups[g].host /\ Readied(s, g).id = s.groups[g].id
<1> DEFINE z == s.starts[n]
           u == s.groups[g]
           x == [z EXCEPT !.pc = "returned"]
           y == [u EXCEPT !.ready = TRUE]
<1>1. s \in State /\ s.starts \in Seq(Start) /\ s.groups \in Seq(Group)  BY ShapeTypes
<1>2. z \in Start /\ u \in Group  BY <1>1
<1>3. ReadiedTo(s, n, g) = WithStart(WithGroup(s, g, y), n, x)
    BY ONLY <1>1, n \in DOMAIN s.starts, g \in DOMAIN s.groups
    DEF ReadiedTo, WithStart, WithGroup, State
<1>4. /\ x \in Start /\ x.pc = "returned" /\ x.phase = z.phase /\ x.group = z.group
      /\ x.by = z.by /\ x.alone = z.alone /\ x.late = z.late
    <2> HIDE DEF z, u
    <2> QED  BY ONLY <1>2 DEF Start, Pc
<1>5. y \in Group /\ y.host = u.host /\ y.id = u.id
    <2> HIDE DEF z, u
    <2> QED  BY ONLY <1>2 DEF Group
<1>6. Over(s, n) = x /\ Readied(s, g) = y  BY DEF Over, Readied
<1> HIDE DEF x, y
<1> QED  BY <1>3, <1>4, <1>5, <1>6

\* What is said after start() has made a group ready, and what waits for it is flushed.
LEMMA FlushedKeeps ==
    ASSUME NEW s, Shape(s), Core(s), Mail(s), NEW h \in Hosts,
           \A k \in Hosts \ {h} : ServedAt(s, k)
    PROVE  Keeps(s, Flushed(s, h))
<1> DEFINE r == Flushed(s, h)
<1>1. Talk(s, r) /\ r.pending[h] = <<>>  BY FlushedTalk DEF Core
<1> HIDE DEF r
<1>2. Shape(r) /\ Mail(r) /\ AlarmsKept(s, r) /\ Quiet(s, r)  BY <1>1 DEF Talk
<1>3. Core(r)  BY <1>2, SameCore DEF Quiet
<1>4. Served(r)
    <2> SUFFICES ASSUME NEW k \in Hosts  PROVE ServedAt(r, k)
        BY DEF Served
    <2>1. CASE k = h  BY <2>1, <1>1 DEF ServedAt
    <2>2. CASE k # h  BY <2>2, <1>1, TalkServedAt
    <2> QED  BY <2>1, <2>2
<1> QED  BY <1>2, <1>3, <1>4 DEF IInv, Keeps, r

\* start() goes on after the handshake, and its caller after start(): Returns.
LEMMA ReturnedKeeps ==
    ASSUME NEW s, IInv(s), NEW n \in DOMAIN s.starts, s.starts[n].pc = "settled"
    PROVE  Keeps(s, Returned(s, n))
<1> DEFINE g == s.starts[n].group
           t == ReadiedTo(s, n, g)
           failed == [s EXCEPT !.starts[n].pc = "failed"]
<1>1. Shape(s) /\ Core(s) /\ Mail(s) /\ Served(s)  BY DEF IInv
<1>2. g \in DOMAIN s.groups /\ GroupOf(s, n) = g  BY <1>1 DEF Shape, GroupOf
<1>3. CASE Holds(s, g) = 0
    <2> DEFINE q == s.starts[n].phase
    <2>1. failed = MovedTo(s, n, "failed", q) /\ q \in Phase  BY <1>1, FailedSame
    <2>2. Keeps(s, MovedTo(s, n, "failed", q)) /\ Keeps(s, EndMeeting(MovedTo(s, n, "failed", q)))
        BY <2>1, FailedKeeps
    <2> HIDE DEF failed
    <2>3. Keeps(s, failed) /\ Keeps(s, EndMeeting(failed))  BY ONLY <2>1, <2>2
    <2>4. Returned(s, n) = IF s.starts[n].by = "start" THEN EndMeeting(failed) ELSE failed
        BY <1>3 DEF Returned, failed
    <2> QED  BY <2>3, <2>4
<1>4. CASE Holds(s, g) # 0
    <2> DEFINE x == Over(s, n)
               y == Readied(s, g)
               w == WithStart(WithGroup(s, g, y), n, x)
               h == s.groups[g].id
               c == s.coordinator
    <2>1. /\ t = w
          /\ x \in Start /\ x.pc = "returned" /\ x.phase = s.starts[n].phase
          /\ x.group = s.starts[n].group /\ x.by = s.starts[n].by
          /\ x.alone = s.starts[n].alone /\ x.late = s.starts[n].late
          /\ y \in Group /\ y.host = s.groups[g].host /\ y.id = s.groups[g].id
        BY <1>1, <1>2, ReadySame
    <2>2. \/ Returned(s, n) = t /\ s.starts[n].by = "addHost" /\ s.closed
          \/ Returned(s, n) = Flushed(t, c) /\ s.starts[n].by = "start"
          \/ Returned(s, n) = Flushed(t, h)
        BY <1>4 DEF Returned, ReadiedTo
    <2>3. h \in Hosts /\ c \in Hosts
        <3>1. s.groups[g] \in Group  BY <1>1, <1>2, ShapeTypes
        <3> QED  BY <3>1, <1>1, ShapeTypes DEF Group
    <2> HIDE DEF x, y, t
    <2>4. Went(s, w, n, x, g, y)  BY <2>1, <1>1, <1>2, WithStartAndGroup
    <2> HIDE DEF w
    <2>5. Went(s, t, n, x, g, y)  BY <2>1, <2>4
    <2>6. /\ Core(t) /\ (AloneIn(t, g) => Holds(t, g) = n)
          /\ \A k \in Hosts : t.registered[k] # g => ServedAt(t, k)
        BY <2>1, <2>5, <1>4, ReadyKeeps
    <2>7. Shape(t) /\ Mail(t) /\ AlarmsKept(s, t) /\ RestSame(s, t) /\ SameStarts(s, t)
        BY <2>5 DEF Went
    <2>8. g # 0
        <3>1. s.groups \in Seq(Group)  BY <1>1, ShapeTypes
        <3> QED  BY <3>1, <1>2
    <2>9. \A k \in Hosts : t.registered[k] = g => k = h
        BY <2>7, <2>8, <1>1, RegisteredGroup DEF RestSame
    <2>10. \A k \in Hosts \ {h} : ServedAt(t, k)  BY <2>6, <2>9
    <2>11. CASE Returned(s, n) = t /\ s.starts[n].by = "addHost" /\ s.closed
        <3>1. Served(t)  BY <2>7, <2>11 DEF Served, ServedAt, RestSame
        <3> QED  BY <2>6, <2>7, <2>11, <3>1 DEF Keeps, IInv
    <2>12. CASE Returned(s, n) = Flushed(t, c) /\ s.starts[n].by = "start"
        <3>1. t.starts[n].by = "start"  BY <2>7, <2>12 DEF SameStarts
        <3>2. ASSUME NEW k \in Hosts, t.registered[k] = g  PROVE ServedAt(t, k)
            BY <2>6, <3>1, <3>2 DEF ServedAt
        <3>3. \A k \in Hosts : ServedAt(t, k)  BY <2>6, <3>2
        <3>4. Keeps(t, Flushed(t, c))  BY <2>3, <2>6, <2>7, <3>3, FlushedKeeps
        <3> QED  BY <2>7, <2>12, <3>4, KeepsMore
    <2>13. CASE Returned(s, n) = Flushed(t, h)
        <3>1. Keeps(t, Flushed(t, h))  BY <2>3, <2>6, <2>7, <2>10, FlushedKeeps
        <3> QED  BY <2>7, <2>13, <3>1, KeepsMore
    <2> QED  BY <2>2, <2>11, <2>12, <2>13
<1> QED  BY <1>3, <1>4

\* The session of a start is in another phase.
InPhase(s, n, p) == [s EXCEPT !.starts[n].phase = p]
Phased(s, r, n, p, g) ==
    /\ Loosens(s, r, g) /\ SameStarts(s, r)
    /\ RestSame(s, r) /\ r.groups = s.groups
    /\ r.starts = [s.starts EXCEPT ![n].phase = p]
    /\ \A k \in DOMAIN s.starts :
          /\ k # n => r.starts[k] = s.starts[k]
          /\ r.starts[k].group = s.starts[k].group /\ r.starts[k].by = s.starts[k].by
          /\ r.starts[k].pc = s.starts[k].pc /\ r.starts[k].alone = s.starts[k].alone
          /\ r.starts[k].late = s.starts[k].late
    /\ r.starts[n].phase = p

\* The phase of a session whose group does not count on it may be lowered.
LEMMA InPhaseSame ==
    ASSUME NEW s, Shape(s), Mail(s), NEW n \in DOMAIN s.starts, NEW p \in Phase,
           NEW g \in DOMAIN s.groups
    PROVE  Phased(s, InPhase(s, n, p), n, p, g)
<1> DEFINE w == [s EXCEPT !.starts[n].phase = p]
           r == InPhase(s, n, p)
<1>1. r = w  BY DEF InPhase
<1>2. /\ Shape(w) /\ RestSame(s, w) /\ w.groups = s.groups
      /\ w.starts = [s.starts EXCEPT ![n].phase = p]
      /\ DOMAIN w.starts = DOMAIN s.starts
      /\ \A k \in DOMAIN s.starts :
            /\ k # n => w.starts[k] = s.starts[k]
            /\ w.starts[k].group = s.starts[k].group /\ w.starts[k].by = s.starts[k].by
            /\ w.starts[k].pc = s.starts[k].pc /\ w.starts[k].alone = s.starts[k].alone
            /\ w.starts[k].late = s.starts[k].late
      /\ w.starts[n].phase = p
      /\ Mail(w)
    BY WithPhase
<1> HIDE DEF w, r
<1>3. Loosens(s, w, g)
    BY <1>2 DEF Loosens, AlarmsKept, HeadSame, OnlyGroup, WaitsAfter, RestSame, Holds
<1>4. SameStarts(s, w)  BY <1>2 DEF SameStarts
<1>5. /\ Loosens(s, r, g) /\ SameStarts(s, r)
      /\ RestSame(s, r) /\ r.groups = s.groups
      /\ r.starts = [s.starts EXCEPT ![n].phase = p]
      /\ \A k \in DOMAIN s.starts :
            /\ k # n => r.starts[k] = s.starts[k]
            /\ r.starts[k].group = s.starts[k].group /\ r.starts[k].by = s.starts[k].by
            /\ r.starts[k].pc = s.starts[k].pc /\ r.starts[k].alone = s.starts[k].alone
            /\ r.starts[k].late = s.starts[k].late
      /\ r.starts[n].phase = p
    BY <1>1, <1>2, <1>3, <1>4
<1> QED  BY <1>5 DEF r, Phased

\* A session says that it has ended.
LEMMA SessionEndsKeeps ==
    ASSUME NEW s, IInv(s), NEW n \in DOMAIN s.starts, s.starts[n].phase # "none"
    PROVE  Keeps(s, Ended(InPhase(s, n, "dead"), s.starts[n].group))
<1> DEFINE g == s.starts[n].group
           p == "dead"
           d == InPhase(s, n, p)
           r == Ended(d, g)
<1>1. Shape(s) /\ Core(s) /\ Mail(s) /\ Served(s)  BY DEF IInv
<1>2. HoldOK(s) /\ FlightOK(s)  BY <1>1 DEF Core
<1>3. g \in DOMAIN s.groups /\ GroupOf(s, n) = g  BY <1>1 DEF Shape, GroupOf
<1>4. p \in Phase /\ p \notin {"starting", "live"}  BY DEF Phase
<1> HIDE DEF p
<1>18. Phased(s, d, n, p, g)  BY <1>1, <1>3, <1>4, InPhaseSame
<1> HIDE DEF d
<1>5. /\ Loosens(s, d, g) /\ SameStarts(s, d) /\ d.groups = s.groups
      /\ \A k \in DOMAIN s.starts :
            /\ k # n => d.starts[k] = s.starts[k]
            /\ d.starts[k].group = s.starts[k].group
            /\ d.starts[k].by = s.starts[k].by
            /\ d.starts[k].pc = s.starts[k].pc
            /\ d.starts[k].alone = s.starts[k].alone
            /\ d.starts[k].late = s.starts[k].late
      /\ d.starts[n].phase = p
    BY <1>18 DEF Phased
<1>6. Shape(d) /\ Mail(d)  BY <1>5 DEF Loosens
<1>7. HoldOK(d)  BY <1>2, <1>5 DEF HoldOK, Holds, GroupOf, SameStarts
<1>8. Loosens(d, r, g) /\ r.starts = d.starts /\ Holds(r, g) = 0 /\ ~r.groups[g].ready
    BY <1>3, <1>5, <1>6, <1>7, EndedLoosens
<1> HIDE DEF r
<1>9. Loosens(s, r, g)  BY <1>3, <1>5, <1>8, LoosensMore
<1>10. SameStarts(s, r)  BY <1>5, <1>8 DEF SameStarts
<1>11. s.starts[n].pc # "memory"  BY <1>2 DEF FlightOK, FlightAt
<1>12. ~IsOpen(r, n)  BY <1>4, <1>5, <1>8 DEF IsOpen
<1>13. HeadSame(s, r) /\ OnlyGroup(s, r, g)  BY <1>9 DEF Loosens
<1>14. Falls(s, r, {g})
    <2>1. \A k \in DOMAIN s.groups :
              /\ r.groups[k].id = s.groups[k].id
              /\ k # g => r.groups[k].host = s.groups[k].host
                          /\ r.groups[k].ready = s.groups[k].ready
              /\ k = g => r.groups[k].host = 0 /\ (r.groups[k].ready => s.groups[k].ready)
        BY <1>8, <1>13 DEF OnlyGroup, Holds
    <2>2. \A k \in DOMAIN s.starts :
              /\ r.starts[k].group = s.starts[k].group /\ r.starts[k].by = s.starts[k].by
              /\ r.starts[k].pc = s.starts[k].pc /\ r.starts[k].alone = s.starts[k].alone
              /\ r.starts[k].late = s.starts[k].late
              /\ k # n => r.starts[k].phase = s.starts[k].phase
        BY <1>5, <1>8
    <2>3. s.groups[g].host # 0 =>
              \/ ~IsOpen(r, s.groups[g].host)
              \/ \E k \in DOMAIN s.starts \ {s.groups[g].host} : s.starts[k].group = g
        BY <1>12
    <2> QED  BY <2>1, <2>2, <2>3, <1>10, <1>11, <1>12, <1>13
        DEF Falls, HeadSame, OnlyGroup, SameStarts
<1>15. Core(r)  BY <1>1, <1>14, FallsCore
<1>16. Served(r)  BY <1>1, <1>2, <1>3, <1>9, <1>10, LoosensServed
<1>17. Shape(r) /\ Mail(r) /\ AlarmsKept(s, r)  BY <1>9 DEF Loosens
<1> QED  BY <1>15, <1>16, <1>17 DEF Keeps, IInv, r, d, p

\* A group that is to be quiet about an end: nothing else changes.
LEMMA HushedSame ==
    ASSUME NEW s, Shape(s), Core(s), Mail(s), NEW g \in DOMAIN s.groups
    PROVE  /\ Loosens(s, Hushed(s, g), g) /\ Hushed(s, g).starts = s.starts
           /\ Core(Hushed(s, g)) /\ Holds(Hushed(s, g), g) = Holds(s, g)
<1> DEFINE x == [s.groups[g] EXCEPT !.suppress = TRUE]
           r == Hushed(s, g)
<1>1. s.groups[g] \in Group  BY ShapeTypes
<1>2. x \in Group /\ x.id = s.groups[g].id /\ x.host = s.groups[g].host
      /\ x.ready = s.groups[g].ready
    BY <1>1, SmallerGroup
<1>3. r = WithGroup(s, g, x)  BY LetGoSame
<1> HIDE DEF x, r
<1>4. Loosens(s, r, g) /\ r.starts = s.starts /\ r.groups[g] = x
    BY <1>2, <1>3, WithGroupLoosens
<1>5. HeadSame(s, r) /\ OnlyGroup(s, r, g)  BY <1>4 DEF Loosens
<1>6. Falls(s, r, {})
    <2>1. \A k \in DOMAIN s.groups :
              r.groups[k].id = s.groups[k].id /\ r.groups[k].host = s.groups[k].host
              /\ r.groups[k].ready = s.groups[k].ready
        BY <1>2, <1>4, <1>5 DEF OnlyGroup
    <2> QED  BY <2>1, <1>4, <1>5 DEF Falls, HeadSame, OnlyGroup
<1>7. Core(r)  BY <1>6, FallsCore
<1> QED  BY <1>2, <1>4, <1>7 DEF r, Holds

\* The backend refuses the login: the session the group holds is ended.
LEMMA AuthRequiredKeeps ==
    ASSUME NEW s, IInv(s), NEW n \in DOMAIN s.starts, s.starts[n].phase # "none",
           NEW g, g = s.starts[n].group,
           NEW p \in Phase, p \notin {"starting", "live"},
           NEW u, u = IF Holds(Hushed(s, g), g) = n THEN Hushed(s, g)
                      ELSE InPhase(Hushed(s, g), n, p)
    PROVE  Keeps(s, DropHost(u, g))
<1> DEFINE t == Hushed(s, g)
           r == DropHost(u, g)
<1>1. Shape(s) /\ Core(s) /\ Mail(s) /\ Served(s)  BY DEF IInv
<1>2. HoldOK(s) /\ FlightOK(s)  BY <1>1 DEF Core
<1>3. g \in DOMAIN s.groups /\ GroupOf(s, n) = g  BY <1>1 DEF Shape, GroupOf
<1>4. Loosens(s, t, g) /\ t.starts = s.starts /\ Core(t)
    BY <1>1, <1>3, HushedSame
<1> HIDE DEF t
<1>5. Shape(t) /\ Mail(t) /\ g \in DOMAIN t.groups  BY <1>3, <1>4 DEF Loosens, OnlyGroup
<1>6. s.starts[n].pc # "memory"  BY <1>2 DEF FlightOK, FlightAt
<1>7. Loosens(s, u, g) /\ SameStarts(s, u) /\ Core(u)
    <2>1. CASE Holds(t, g) = n
        <3>1. u = t  BY <2>1 DEF t
        <3> QED  BY <3>1, <1>4 DEF SameStarts
    <2>2. CASE Holds(t, g) # n
        <3> DEFINE o == InPhase(t, n, p)
        <3>1. u = o  BY <2>2 DEF t
        <3>8. Phased(t, o, n, p, g)  BY <1>4, <1>5, InPhaseSame
        <3> HIDE DEF o
        <3>2. /\ Loosens(t, o, g) /\ SameStarts(t, o) /\ RestSame(t, o)
              /\ o.groups = t.groups /\ o.starts = [t.starts EXCEPT ![n].phase = p]
            BY <3>8 DEF Phased
        <3>3. Loosens(s, o, g)  BY <3>2, <1>3, <1>4, LoosensMore
        <3>4. SameStarts(s, o)  BY <3>2, <1>4 DEF SameStarts
        <3>5. GroupOf(t, n) = g /\ t.starts[n].pc # "memory" /\ n \in DOMAIN t.starts
            BY <1>3, <1>4, <1>6 DEF GroupOf
        <3>6. o.registered = t.registered /\ o.closed = t.closed  BY <3>2 DEF RestSame
        <3>7. Core(o)  BY <2>2, <3>2, <3>5, <3>6, <1>4, <1>5, PhaseDownCore
        <3> QED  BY <3>1, <3>3, <3>4, <3>7
    <2> QED  BY <2>1, <2>2
<1>8. Shape(u) /\ Mail(u) /\ HoldOK(u) /\ g \in DOMAIN u.groups
    BY ONLY <1>3, <1>7 DEF Loosens, OnlyGroup, Core
<1>9. Loosens(u, r, g) /\ Halted(u, r, g) /\ Holds(r, g) = 0
    BY <1>8, DropHostStops
<1> HIDE DEF r
<1>10. Falls(u, r, {g})  BY <1>8, <1>9, HaltedFalls
<1>11. Core(r)  BY <1>7, <1>8, <1>10, FallsCore
<1>12. Loosens(s, r, g)  BY <1>3, <1>7, <1>9, LoosensMore
<1>13. SameStarts(s, r)
    <2>1. SameStarts(u, r)  BY ONLY <1>9 DEF SameStarts, Halted
    <2> QED  BY ONLY <2>1, <1>7, SameStartsMore
<1>14. Served(r)  BY <1>1, <1>2, <1>3, <1>12, <1>13, LoosensServed
<1>15. Shape(r) /\ Mail(r) /\ AlarmsKept(s, r)  BY <1>12 DEF Loosens
<1> QED  BY <1>11, <1>14, <1>15 DEF Keeps, IInv, r

\* A step that only says something: Speaks, Tell, DecisionResolved.
LEMMA TalkIsKept ==
    ASSUME NEW s, IInv(s), NEW r, Talk(s, r)
    PROVE  Keeps(s, r)
BY QuietKeeps DEF Keeps, Talk

\* A message that is asked of a host is one.
LEMMA AskedMessage ==
    ASSUME NEW x \in Message
    PROVE  /\ [x EXCEPT !.asked = TRUE] \in Message
           /\ [x EXCEPT !.asked = TRUE].asked
           /\ [x EXCEPT !.asked = TRUE].to = x.to
           /\ [x EXCEPT !.asked = TRUE].heard = x.heard
           /\ [x EXCEPT !.asked = TRUE].answered = x.answered
           /\ [x EXCEPT !.asked = TRUE].alarmed = x.alarmed
BY DEF Message

\* trackHostAsk() of the latest message, to host h.
LEMMA TrackedTalk ==
    ASSUME NEW s, Shape(s), Mail(s), NEW h \in Hosts, s.registered[h] # 0, ~s.closed,
           NEW m, m \in DOMAIN s.messages, m = Len(s.messages),
           m \notin {s.asks[k] : k \in Hosts},
           s.messages[m].to = s.registered[h], ~s.messages[m].answered
    PROVE  Talk(s, Tracked(s, h, m))
<1> DEFINE x == [s.messages[m] EXCEPT !.asked = TRUE]
           ms == [s.messages EXCEPT ![m] = x]
           as == [s.asks EXCEPT ![h] = m]
           ti == (s.timers \ {s.asks[h]}) \cup {m}
           r == Tracked(s, h, m)
<1>1. s.messages \in Seq(Message) /\ s.pending \in [Hosts -> Seq(Nat)]
      /\ s.asks \in [Hosts -> Nat] /\ s.timers \in SUBSET Nat /\ s \in State
    BY ShapeTypes
<1>2. m \in Nat /\ m # 0 /\ s.messages[m] \in Message /\ DOMAIN s.messages = 1 .. m
    BY <1>1
<1>3. /\ x \in Message /\ x.asked /\ x.to = s.registered[h]
      /\ x.heard = s.messages[m].heard /\ x.answered = s.messages[m].answered
      /\ x.alarmed = s.messages[m].alarmed
    BY <1>2, AskedMessage
<1>4. r = [s EXCEPT !.timers = ti, !.asks = as, !.messages = ms]  BY DEF Tracked
<1> HIDE DEF x, r
<1>5. /\ ms \in Seq(Message) /\ Len(ms) = Len(s.messages) /\ DOMAIN ms = DOMAIN s.messages
      /\ \A k \in DOMAIN s.messages : ms[k] = IF k = m THEN x ELSE s.messages[k]
    BY <1>1, <1>3
<1>6. as \in [Hosts -> Nat] /\ ti \in SUBSET Nat
      /\ \A k \in Hosts : as[k] = IF k = h THEN m ELSE s.asks[k]
    BY <1>1, <1>2
<1>7. \A k \in Hosts : k # h /\ s.asks[k] # 0 => s.asks[k] # s.asks[h]
    BY AsksDiffer DEF Mail
<1>8. s.timers = {s.asks[k] : k \in Hosts} \ {0}  BY DEF Mail, AsksOK
<1>9. ti = {as[k] : k \in Hosts} \ {0}
    <2>1. ASSUME NEW q \in ti  PROVE q \in {as[k] : k \in Hosts} \ {0}
        <3>1. CASE q = m  BY <3>1, <1>2, <1>6
        <3>2. CASE q # m
            <4>1. q \in s.timers /\ q # s.asks[h]  BY <3>2
            <4>2. PICK k \in Hosts : q = s.asks[k] /\ q # 0  BY <4>1, <1>8
            <4>3. k # h  BY <4>1, <4>2
            <4>4. as[k] = q  BY <4>2, <4>3, <1>6
            <4> QED  BY <4>2, <4>4
        <3> QED  BY <3>1, <3>2
    <2>2. ASSUME NEW q \in {as[k] : k \in Hosts} \ {0}  PROVE q \in ti
        <3>1. PICK k \in Hosts : q = as[k] /\ q # 0  OBVIOUS
        <3>2. CASE k = h  BY <3>1, <3>2, <1>6
        <3>3. CASE k # h
            <4>1. q = s.asks[k] /\ q # s.asks[h]  BY <3>1, <3>3, <1>6, <1>7
            <4> QED  BY <4>1, <3>1, <1>8
        <3> QED  BY <3>2, <3>3
    <2> QED  BY <2>1, <2>2
<1> HIDE DEF ms, as, ti
<1>10. r = WithMail(s, ms, s.pending, as, ti)  BY ONLY <1>1, <1>4 DEF WithMail, State
<1>11. Len(ms) <= MaxMessages /\ \A k \in Hosts : Len(s.pending[k]) <= QueueLimit
    BY <1>5 DEF Shape
<1>12. Shape(r) /\ Quiet(s, r)
    BY <1>1, <1>5, <1>6, <1>10, <1>11, MailShape
<1>13. r.messages = ms /\ r.pending = s.pending /\ r.asks = as /\ r.timers = ti
    BY ONLY <1>1, <1>10 DEF WithMail, State
<1>14. DOMAIN r.messages = DOMAIN s.messages
       /\ \A k \in DOMAIN s.messages :
             /\ r.messages[k].to = s.messages[k].to
             /\ r.messages[k].heard = s.messages[k].heard
             /\ r.messages[k].answered = s.messages[k].answered
             /\ r.messages[k].alarmed = s.messages[k].alarmed
             /\ k = m => r.messages[k].asked
             /\ k # m => r.messages[k].asked = s.messages[k].asked
    BY <1>3, <1>5, <1>13
<1>15. HeardOK(r)
    <2>1. HeardOK(s)  BY DEF Mail
    <2> QED  BY <2>1, <1>12, <1>14 DEF HeardOK, Quiet, GroupOf
<1>16. PendingOK(r)
    <2>1. PendingOK(s)  BY DEF Mail
    <2> QED  BY <2>1, <1>12, <1>13, <1>14 DEF PendingOK, Quiet, Waiting
<1>17. AsksOK(r)
    <2>1. r.timers = {r.asks[k] : k \in Hosts} \ {0}  BY <1>9, <1>13
    <2>2. ASSUME NEW k \in Hosts, k # h, r.asks[k] # 0  PROVE AskOK(r, k)
        <3>1. s.asks[k] = r.asks[k]  BY <2>2, <1>6, <1>13
        <3>2. AskOK(s, k)  BY <2>2, <3>1 DEF Mail, AsksOK
        <3>3. s.registered[k] # s.registered[h]
            <4>1. s.registered[k] # 0  BY <3>2 DEF AskOK
            <4>2. s.groups[s.registered[k]].id = k /\ s.groups[s.registered[h]].id = h
                BY <4>1, RegisteredGroup
            <4> QED  BY <4>2, <2>2
        <3>4. \A j \in DOMAIN r.messages :
                 j > r.asks[k] /\ r.messages[j].asked => r.messages[j].to # r.registered[k]
            BY <3>1, <3>2, <3>3, <1>12, <1>14 DEF AskOK, Quiet
        <3>5. r.messages[r.asks[k]].asked
            BY <3>1, <3>2, <1>14 DEF AskOK
        <3> QED  BY <3>1, <3>2, <3>4, <3>5, <1>12, <1>14 DEF AskOK, Quiet
    <2>3. AskOK(r, h)
        <3>1. r.asks[h] = m  BY <1>6, <1>13
        <3>2. ~\E j \in DOMAIN r.messages : j > m  BY <1>2, <1>14
        <3> QED  BY <3>1, <3>2, <1>12, <1>14 DEF AskOK, Quiet
    <2> QED  BY <2>1, <2>2, <2>3 DEF AsksOK
<1>18. AlarmsKept(s, r) /\ WaitsKept(s, r)  BY <1>13, <1>14 DEF AlarmsKept, WaitsKept
<1> QED  BY <1>12, <1>15, <1>16, <1>17, <1>18 DEF Talk, Mail, r

\* Two steps that only say something are one: the second finds the same queues.
LEMMA TalkMore ==
    ASSUME NEW s, NEW t, NEW r, Talk(s, t), Talk(t, r), r.pending = t.pending
    PROVE  Talk(s, r)
<1>1. Quiet(s, t) /\ Quiet(t, r) /\ WaitsKept(s, t) /\ AlarmsKept(s, t) /\ AlarmsKept(t, r)
    BY DEF Talk
<1>2. Quiet(s, r)  BY <1>1 DEF Quiet
<1>3. AlarmsKept(s, r)  BY <1>1 DEF AlarmsKept
<1>4. WaitsKept(s, r)  BY <1>1 DEF WaitsKept
<1> QED  BY <1>2, <1>3, <1>4 DEF Talk

\* sendHostMessage() from the coordinator: Ask.
LEMMA AskKeeps ==
    ASSUME NEW s, IInv(s), NEW h \in Hosts, s.registered[h] # 0, ~s.closed,
           Len(s.messages) < MaxMessages
    PROVE  Keeps(s, Tracked(Published(s, h), h, Len(s.messages) + 1))
<1> DEFINE to == <<h>>
           t == PublishedTo(s, to)
           m == Len(s.messages) + 1
           r == Tracked(t, h, m)
<1>1. Shape(s) /\ HoldOK(s) /\ Mail(s)  BY DEF IInv, Core
<1>2. s.messages \in Seq(Message) /\ Len(s.messages) \in Nat /\ MaxMessages \in Nat
    BY <1>1, ShapeTypes, BoundsAssumption
<1>3. Published(s, h) = t
    <2>1. ~(s.closed \/ Len(s.messages) = MaxMessages)  BY <1>2
    <2> QED  BY <2>1 DEF Published
<1>4. to \in Seq(Hosts) /\ Len(to) = 1 /\ 1 \in DOMAIN to /\ \A i \in DOMAIN to : to[i] = h
    OBVIOUS
<1> HIDE DEF to
<1>5. Len(s.messages) + Len(to) <= MaxMessages /\ \A i \in DOMAIN to : s.registered[to[i]] # 0
    <2>1. Len(s.messages) + 1 <= MaxMessages  BY <1>2
    <2> QED  BY <2>1, <1>4
<1>6. /\ Talk(s, t) /\ t.asks = s.asks
      /\ Len(t.messages) = Len(s.messages) + Len(to)
      /\ \A i \in DOMAIN to : t.messages[Len(s.messages) + i] = Sent(s, to[i])
    BY <1>1, <1>4, <1>5, PublishedToTalk
<1>7. t.messages[m] = Sent(s, h)  BY <1>4, <1>6
<1>8. Len(t.messages) = m  BY <1>4, <1>6
<1>9. Shape(t) /\ Mail(t) /\ Quiet(s, t)  BY <1>6 DEF Talk
<1>10. m \in DOMAIN t.messages
    <2>1. t.messages \in Seq(Message)  BY <1>9, ShapeTypes
    <2>2. m \in 1 .. m  BY <1>2
    <2> QED  BY <2>1, <2>2, <1>8
<1>11. m \notin {t.asks[k] : k \in Hosts}
    <2> SUFFICES ASSUME NEW k \in Hosts, s.asks[k] = m  PROVE FALSE
        BY <1>6
    <2>1. s.asks[k] # 0  BY <1>2
    <2>2. s.asks[k] \in DOMAIN s.messages  BY <2>1, <1>1 DEF Mail, AsksOK, AskOK
    <2>3. DOMAIN s.messages = 1 .. Len(s.messages)  BY <1>2
    <2>4. m \notin 1 .. Len(s.messages)  BY <1>2
    <2> QED  BY <2>2, <2>3, <2>4
<1>12. t.messages[m].to = t.registered[h] /\ ~t.messages[m].answered
    BY <1>1, <1>7, <1>9, SentMessage DEF Quiet
<1>13. t.registered[h] # 0 /\ ~t.closed  BY <1>9 DEF Quiet
<1> HIDE DEF t, m
<1>14. Talk(t, r)  BY <1>8, <1>9, <1>10, <1>11, <1>12, <1>13, TrackedTalk
<1>15. r.pending = t.pending
    <2>1. t \in State  BY <1>9 DEF Shape
    <2> QED  BY ONLY <2>1 DEF Tracked, State
<1> HIDE DEF r
<1>16. Talk(s, r)  BY <1>6, <1>14, <1>15, TalkMore
<1>17. Keeps(s, r)  BY <1>16, TalkIsKept
<1> QED  BY <1>3, <1>17 DEF r, m

\* onDecisionResolved(): every host but the default one is told once.
LEMMA DecisionKeeps ==
    ASSUME NEW s, IInv(s), NEW others, others \subseteq Hosts,
           \A h \in others : s.registered[h] # 0,
           NEW told \in 1 .. MaxMessages, Len(s.messages) + told <= MaxMessages,
           NEW to \in Bijection(1 .. told, others)
    PROVE  Keeps(s, PublishedTo(s, to))
<1>1. Shape(s) /\ HoldOK(s) /\ Mail(s)  BY DEF IInv, Core
<1>2. to \in [1 .. told -> others]  BY DEF Bijection, Injection, Surjection
<1>3. told \in Nat  BY BoundsAssumption
<1>4. to \in Seq(Hosts) /\ Len(to) = told
    <2>1. to \in [1 .. told -> Hosts]  BY <1>2
    <2> QED  BY ONLY <2>1, <1>3
<1>5. \A i \in DOMAIN to : s.registered[to[i]] # 0  BY <1>2
<1>6. Len(s.messages) + Len(to) <= MaxMessages  BY <1>4
<1>7. Talk(s, PublishedTo(s, to))  BY <1>1, <1>4, <1>5, <1>6, PublishedToTalk
<1> QED  BY <1>7, TalkIsKept

\* The question whose timeout is over: a message of which the coordinator is told.
LEMMA AlarmedMessage ==
    ASSUME NEW x \in Message
    PROVE  /\ [x EXCEPT !.alarmed = TRUE] \in Message
           /\ [x EXCEPT !.alarmed = TRUE].asked = x.asked
           /\ [x EXCEPT !.alarmed = TRUE].to = x.to
           /\ [x EXCEPT !.alarmed = TRUE].heard = x.heard
           /\ [x EXCEPT !.alarmed = TRUE].answered = x.answered
BY DEF Message

\* A question that nobody answered is the one its host owes an answer to.
LEMMA TimerOfHost ==
    ASSUME NEW s, Shape(s), Mail(s), NEW m \in s.timers
    PROVE  /\ m \in DOMAIN s.messages
           /\ s.groups[s.messages[m].to].id \in Hosts
           /\ s.asks[s.groups[s.messages[m].to].id] = m
           /\ AskOK(s, s.groups[s.messages[m].to].id)
<1>1. PICK h \in Hosts : m = s.asks[h] /\ m # 0  BY DEF Mail, AsksOK
<1>2. AskOK(s, h)  BY <1>1 DEF Mail, AsksOK
<1>3. m \in DOMAIN s.messages /\ s.messages[m].to = s.registered[h] /\ s.registered[h] # 0
    BY <1>1, <1>2 DEF AskOK
<1>4. s.groups[s.messages[m].to].id = h  BY <1>3, RegisteredGroup
<1> QED  BY <1>1, <1>2, <1>3, <1>4

\* The timeout of a question: AskTimesOut.
TimedOut(s, m) ==
    [s EXCEPT !.timers = s.timers \ {m}, !.asks[s.groups[s.messages[m].to].id] = 0,
              !.messages[m].alarmed = TRUE]

\* It keeps the invariant, and raises no alarm about another message.
LEMMA TimesOutKeeps ==
    ASSUME NEW s, IInv(s), NEW m \in s.timers
    PROVE  /\ IInv(TimedOut(s, m))
           /\ \A k \in DOMAIN s.messages \ {m} :
                 TimedOut(s, m).messages[k].alarmed = s.messages[k].alarmed
<1> DEFINE h == s.groups[s.messages[m].to].id
           c == Cleared(s, h)
           x == [s.messages[m] EXCEPT !.alarmed = TRUE]
           ms == [s.messages EXCEPT ![m] = x]
           r == TimedOut(s, m)
<1>1. Shape(s) /\ Mail(s)  BY DEF IInv
<1>2. m \in DOMAIN s.messages /\ h \in Hosts /\ s.asks[h] = m  BY <1>1, TimerOfHost
<1>3. AsksButOK(s, h)
    <2>1. \A k \in Hosts \ {h} : s.asks[k] # 0 => s.asks[k] # s.asks[h]
        BY <1>1, <1>2, AsksDiffer DEF Mail
    <2> QED  BY <2>1, <1>1 DEF AsksButOK, Mail, AsksOK
<1>4. /\ Shape(c) /\ Quiet(s, c) /\ AsksOK(c)
      /\ c.messages = s.messages /\ c.pending = s.pending
    BY <1>1, <1>2, <1>3, ClearedAsks
<1>5. s.messages \in Seq(Message) /\ s \in State  BY <1>1, ShapeTypes
<1>6. /\ x \in Message /\ x.asked = s.messages[m].asked /\ x.to = s.messages[m].to
      /\ x.heard = s.messages[m].heard /\ x.answered = s.messages[m].answered
    BY <1>2, <1>5, AlarmedMessage
<1>7. r = [s EXCEPT !.timers = s.timers \ {m}, !.asks = [s.asks EXCEPT ![h] = 0],
                    !.messages = ms]
    BY DEF TimedOut
<1>8. c = [s EXCEPT !.timers = s.timers \ {s.asks[h]}, !.asks = [s.asks EXCEPT ![h] = 0]]
    BY DEF Cleared
<1> HIDE DEF x, h, r, c
<1>9. /\ ms \in Seq(Message) /\ Len(ms) = Len(s.messages) /\ DOMAIN ms = DOMAIN s.messages
      /\ \A k \in DOMAIN s.messages : ms[k] = IF k = m THEN x ELSE s.messages[k]
    <2>1. x \in Message /\ s.messages \in Seq(Message) /\ m \in DOMAIN s.messages
        BY <1>2, <1>5, <1>6
    <2> QED  BY ONLY <2>1
<1> HIDE DEF ms
<1>10. r = WithMail(c, ms, c.pending, c.asks, c.timers)
    BY ONLY <1>2, <1>5, <1>7, <1>8 DEF WithMail, State
<1>11. /\ c.pending \in [Hosts -> Seq(Nat)] /\ c.asks \in [Hosts -> Nat]
       /\ c.timers \in SUBSET Nat /\ c \in State
    BY <1>4, ShapeTypes
<1>12. Len(ms) <= MaxMessages /\ \A k \in Hosts : Len(c.pending[k]) <= QueueLimit
    BY <1>1, <1>4, <1>9 DEF Shape
<1>13. Shape(r) /\ Quiet(c, r)
    BY <1>4, <1>9, <1>10, <1>11, <1>12, MailShape
<1>14. r.messages = ms /\ r.pending = c.pending /\ r.asks = c.asks /\ r.timers = c.timers
    BY ONLY <1>10, <1>11 DEF WithMail, State
<1>15. DOMAIN r.messages = DOMAIN s.messages
       /\ \A k \in DOMAIN s.messages :
             /\ r.messages[k].to = s.messages[k].to
             /\ r.messages[k].heard = s.messages[k].heard
             /\ r.messages[k].answered = s.messages[k].answered
             /\ r.messages[k].asked = s.messages[k].asked
             /\ k # m => r.messages[k].alarmed = s.messages[k].alarmed
    BY <1>6, <1>9, <1>14
<1>16. Quiet(s, r) /\ WaitsKept(s, r)  BY <1>4, <1>13, <1>14 DEF Quiet, WaitsKept
<1>17. HeardOK(r)
    <2>1. HeardOK(s)  BY <1>1 DEF Mail
    <2> QED  BY <2>1, <1>15, <1>16 DEF HeardOK, Quiet, GroupOf
<1>18. PendingOK(r)
    <2>1. PendingOK(s)  BY <1>1 DEF Mail
    <2>2. r.pending = s.pending  BY <1>4, <1>14
    <2> QED  BY <2>1, <2>2, <1>15, <1>16 DEF PendingOK, Quiet, Waiting
<1>19. AsksOK(r)
    <2>1. r.timers = {r.asks[k] : k \in Hosts} \ {0}  BY <1>4, <1>14 DEF AsksOK
    <2>2. ASSUME NEW k \in Hosts, r.asks[k] # 0  PROVE AskOK(r, k)
        <3>1. AskOK(c, k)  BY <2>2, <1>4, <1>14 DEF AsksOK
        <3> QED  BY <3>1, <1>4, <1>13, <1>14, <1>15 DEF AskOK, Quiet
    <2> QED  BY <2>1, <2>2 DEF AsksOK
<1>20. IInv(r)  BY <1>13, <1>16, <1>17, <1>18, <1>19, QuietKeeps DEF Mail
<1> QED  BY <1>15, <1>20 DEF r

\* A step that changes who coordinates, or that the Meeting was started.
LEMMA HeadKeeps ==
    ASSUME NEW s, IInv(s), NEW r, r \in State,
           r.groups = s.groups, r.starts = s.starts, r.messages = s.messages,
           r.registered = s.registered, r.pending = s.pending, r.asks = s.asks,
           r.timers = s.timers, r.closed = s.closed, r.registered[r.coordinator] # 0
    PROVE  Keeps(s, r)
<1>1. Shape(s) /\ Core(s) /\ Mail(s) /\ Served(s)  BY DEF IInv
<1>2. Shape(r)  BY <1>1 DEF Shape, GroupOf
<1>3. Core(r)  BY <1>1, SameCore
<1>4. PendingOK(r)  BY <1>1 DEF Mail, PendingOK, Waiting
<1>5. HeardOK(r)  BY <1>1 DEF Mail, HeardOK, GroupOf
<1>6. AsksOK(r)
    <2>1. \A h \in Hosts : AskOK(s, h) => AskOK(r, h)  BY DEF AskOK
    <2> QED  BY <2>1, <1>1 DEF Mail, AsksOK
<1>7. Served(r)
    <2>1. \A k : AloneIn(r, k) <=> AloneIn(s, k)  BY DEF AloneIn, GroupOf
    <2>2. \A k : Holds(r, k) = Holds(s, k)  BY DEF Holds
    <2> QED  BY <2>1, <2>2, <1>1 DEF Served, ServedAt
<1>8. AlarmsKept(s, r)  BY DEF AlarmsKept
<1> QED  BY <1>2, <1>3, <1>4, <1>5, <1>6, <1>7, <1>8 DEF Keeps, IInv, Mail

\* setCoordinator().
LEMMA SetCoordinatorKeeps ==
    ASSUME NEW s, IInv(s), NEW h \in Coordinators, s.registered[h] # 0
    PROVE  Keeps(s, [s EXCEPT !.coordinator = h])
<1> DEFINE r == [s EXCEPT !.coordinator = h]
<1>1. s \in State  BY DEF IInv, Shape
<1>2. /\ r \in State /\ r.groups = s.groups /\ r.starts = s.starts
      /\ r.messages = s.messages /\ r.registered = s.registered /\ r.pending = s.pending
      /\ r.asks = s.asks /\ r.timers = s.timers /\ r.closed = s.closed /\ r.coordinator = h
    BY ONLY <1>1, h \in Coordinators DEF State
<1> HIDE DEF r
<1>3. Keeps(s, r)  BY <1>2, HeadKeeps
<1> QED  BY <1>3 DEF r

\* Orchestrator.start() was called.
LEMMA BootedKeeps ==
    ASSUME NEW s, IInv(s)
    PROVE  Keeps(s, [s EXCEPT !.booted = TRUE])
<1> DEFINE r == [s EXCEPT !.booted = TRUE]
<1>1. s \in State /\ s.registered[s.coordinator] # 0  BY DEF IInv, Shape
<1>2. /\ r \in State /\ r.groups = s.groups /\ r.starts = s.starts
      /\ r.messages = s.messages /\ r.registered = s.registered /\ r.pending = s.pending
      /\ r.asks = s.asks /\ r.timers = s.timers /\ r.closed = s.closed
      /\ r.coordinator = s.coordinator
    BY ONLY <1>1 DEF State
<1> HIDE DEF r
<1>3. Keeps(s, r)  BY <1>1, <1>2, HeadKeeps
<1> QED  BY <1>3 DEF r

\* removeHost(): its group is ended, and what waits for it and the question it owes an
\* answer to are dropped.
LEMMA RemovedKeeps ==
    ASSUME NEW s, IInv(s), NEW h \in Hosts, s.registered[h] # 0, h # s.coordinator
    PROVE  Keeps(s, Removed(s, h))
<1> DEFINE g == s.registered[h]
           e == EndGroup(s, g)
           re == [e.registered EXCEPT ![h] = 0]
           pe == [e.pending EXCEPT ![h] = <<>>]
           u == [e EXCEPT !.registered = re, !.pending = pe]
           r == Cleared(u, h)
<1>1. Shape(s) /\ Core(s) /\ Mail(s) /\ Served(s) /\ HoldOK(s)  BY DEF IInv, Core
<1>2. g \in DOMAIN s.groups  BY <1>1, RegisteredGroup
<1>3. Loosens(s, e, g) /\ Halted(s, e, g) /\ Holds(e, g) = 0
    BY <1>1, <1>2, EndGroupStops
<1>4. Removed(s, h) = r  BY DEF Removed
<1> HIDE DEF e
<1>5. Shape(e) /\ Mail(e) /\ HeadSame(s, e) /\ AlarmsKept(s, e)  BY <1>3 DEF Loosens
<1>6. Core(e)
    <2>1. Falls(s, e, {g})  BY <1>1, <1>2, <1>3, HaltedFalls
    <2> QED  BY <2>1, <1>1, FallsCore
<1>7. Served(e)
    <2>1. SameStarts(s, e)  BY <1>3 DEF SameStarts, Halted
    <2> QED  BY <2>1, <1>1, <1>2, <1>3, LoosensServed
<1>8. e.registered[h] = g /\ e.coordinator = s.coordinator /\ e.coordinator # h
    BY <1>5 DEF HeadSame
<1>9. e \in State /\ e.registered \in [Hosts -> Nat] /\ e.pending \in [Hosts -> Seq(Nat)]
    BY <1>5, ShapeTypes
<1>10. re \in [Hosts -> Nat] /\ \A k \in Hosts : re[k] = IF k = h THEN 0 ELSE e.registered[k]
    BY <1>9
<1>11. pe \in [Hosts -> Seq(Nat)] /\ \A k \in Hosts : pe[k] = IF k = h THEN <<>> ELSE e.pending[k]
    <2>1. <<>> \in Seq(Nat)  OBVIOUS
    <2> QED  BY <2>1, <1>9
<1> HIDE DEF re, pe
<1>12. /\ u \in State /\ u.groups = e.groups /\ u.starts = e.starts /\ u.messages = e.messages
       /\ u.registered = re /\ u.pending = pe /\ u.asks = e.asks /\ u.timers = e.timers
       /\ u.coordinator = e.coordinator /\ u.closed = e.closed /\ u.booted = e.booted
    BY ONLY <1>9, <1>10, <1>11 DEF State
<1> HIDE DEF u
<1>13. \A k \in Hosts : k # h => u.registered[k] = e.registered[k] /\ u.pending[k] = e.pending[k]
    BY <1>10, <1>11, <1>12
<1>14. u.registered[h] = 0 /\ u.pending[h] = <<>>  BY <1>10, <1>11, <1>12
<1>15. Shape(u)
    <2>1. /\ Len(e.groups) <= MaxGroups /\ Len(e.starts) <= MaxHostStarts
          /\ Len(e.messages) <= MaxMessages /\ e.registered[e.coordinator] # 0
          /\ \A k \in Hosts : Len(e.pending[k]) <= QueueLimit
          /\ \A n \in DOMAIN e.starts : GroupOf(e, n) \in DOMAIN e.groups
        BY <1>5 DEF Shape
    <2>2. \A k \in Hosts : Len(u.pending[k]) <= QueueLimit
        <3>1. Len(<<>>) = 0 /\ QueueLimit \in Nat  BY BoundsAssumption
        <3> QED  BY <3>1, <2>1, <1>13, <1>14
    <2>3. \A k \in Hosts : u.registered[k] # 0 =>
              u.registered[k] \in DOMAIN u.groups /\ u.groups[u.registered[k]].id = k
        BY <1>5, <1>12, <1>13, <1>14, RegisteredGroup
    <2>4. u.registered[u.coordinator] # 0
        <3>1. e.coordinator \in Hosts  BY <1>5, ShapeTypes
        <3> QED  BY <3>1, <2>1, <1>8, <1>12, <1>13
    <2> QED  BY <2>1, <2>2, <2>3, <2>4, <1>12 DEF Shape, GroupOf
<1>16. Core(u)
    <2>1. HoldOK(e) /\ FlightOK(e) /\ LiveOK(e) /\ ReachOK(e)  BY <1>6 DEF Core
    <2>2. HoldOK(u)  BY <2>1, <1>12 DEF HoldOK, Holds, GroupOf
    <2>3. \A k : AloneIn(u, k) <=> AloneIn(e, k)  BY <1>12 DEF AloneIn, GroupOf
    <2>4. FlightOK(u)
        BY <2>1, <2>3, <1>12 DEF FlightOK, FlightAt, OnlyFlight, Holds, GroupOf
    <2>5. LiveOK(u)  BY <2>1, <2>3, <1>12 DEF LiveOK, Holds
    <2>6. ReachOK(u)
        <3> SUFFICES ASSUME NEW n \in DOMAIN e.starts, IsOpen(e, n)  PROVE ReachAt(u, n)
            BY <1>12 DEF ReachOK, IsOpen
        <3> DEFINE k == GroupOf(e, n)
        <3>1. ReachAt(e, n)  BY <2>1 DEF ReachOK
        <3>2. n # 0 /\ k \in DOMAIN e.groups  BY <1>5, StartIndex
        <3>3. ASSUME Holds(e, k) = n, Current(e, k)  PROVE Current(u, k)
            <4>1. k # g  BY <3>2, <3>3, <1>3
            <4>2. e.groups[k].id \in Hosts
                <5>1. e.groups[k] \in Group  BY <3>2, <1>5, ShapeTypes
                <5> QED  BY <5>1 DEF Group
            <4>3. e.registered[e.groups[k].id] = k  BY <3>3 DEF Current
            <4>4. e.groups[k].id # h  BY <4>1, <4>3, <1>8
            <4> QED  BY <4>2, <4>3, <4>4, <1>12, <1>13 DEF Current
        <3> QED  BY <3>1, <3>3, <1>12 DEF ReachAt, Holds, GroupOf
    <2> QED  BY <2>2, <2>4, <2>5, <2>6 DEF Core
<1>17. AsksButOK(u, h)
    <2>1. AsksOK(e)  BY <1>5 DEF Mail
    <2>2. ASSUME NEW k \in Hosts \ {h}, u.asks[k] # 0
          PROVE  AskOK(u, k) /\ u.asks[k] # u.asks[h]
        <3>1. AskOK(e, k)  BY <2>1, <2>2, <1>12 DEF AsksOK
        <3>2. e.asks[k] # e.asks[h]  BY <2>1, <2>2, <1>5, <1>12, AsksDiffer
        <3>3. u.registered[k] = e.registered[k]  BY <1>13
        <3> QED  BY <3>1, <3>2, <3>3, <1>12 DEF AskOK
    <2> QED  BY <2>1, <2>2, <1>12 DEF AsksButOK, AsksOK
<1>18. /\ Shape(r) /\ Quiet(u, r) /\ AsksOK(r)
       /\ r.messages = u.messages /\ r.pending = u.pending
    BY <1>15, <1>17, ClearedAsks
<1> HIDE DEF r
<1>19. Core(r)  BY <1>16, <1>18, SameCore DEF Quiet
<1>20. HeardOK(r)
    <2>1. HeardOK(e)  BY <1>5 DEF Mail
    <2> QED  BY <2>1, <1>12, <1>18 DEF HeardOK, Quiet, GroupOf
<1>21. PendingOK(r)
    <2>1. PendingOK(e)  BY <1>5 DEF Mail
    <2> SUFFICES ASSUME NEW k \in Hosts
                 PROVE  /\ r.registered[k] = 0 => r.pending[k] = <<>>
                        /\ \A m \in Waiting(r, k) :
                              /\ m \in DOMAIN r.messages
                              /\ r.messages[m].to = r.registered[k]
                              /\ r.messages[m].heard = <<>>
        BY DEF PendingOK
    <2>2. CASE k = h
        <3>1. r.pending[k] = <<>>  BY <2>2, <1>14, <1>18
        <3>2. Waiting(r, k) = {}  BY <3>1 DEF Waiting
        <3> QED  BY <3>1, <3>2
    <2>3. CASE k # h
        <3>1. r.registered[k] = e.registered[k] /\ r.pending[k] = e.pending[k]
            BY <2>3, <1>13, <1>18 DEF Quiet
        <3>2. Waiting(r, k) = Waiting(e, k)  BY <3>1 DEF Waiting
        <3> QED  BY <2>1, <3>1, <3>2, <1>12, <1>18 DEF PendingOK
    <2> QED  BY <2>2, <2>3
<1>22. Served(r)
    <2> SUFFICES ASSUME NEW k \in Hosts  PROVE ServedAt(r, k)
        BY DEF Served
    <2>1. CASE k = h
        <3>1. r.registered[k] = 0  BY <2>1, <1>14, <1>18 DEF Quiet
        <3> QED  BY <3>1 DEF ServedAt
    <2>2. CASE k # h
        <3>1. r.registered[k] = e.registered[k] /\ r.pending[k] = e.pending[k]
              /\ r.closed = e.closed /\ r.groups = e.groups /\ r.starts = e.starts
            BY <2>2, <1>12, <1>13, <1>18 DEF Quiet
        <3>2. ServedAt(e, k)  BY <1>7 DEF Served
        <3> QED  BY <3>1, <3>2 DEF ServedAt, Holds, AloneIn, GroupOf
    <2> QED  BY <2>1, <2>2
<1>23. AlarmsKept(s, r)  BY <1>5, <1>12, <1>18 DEF AlarmsKept
<1> QED  BY <1>4, <1>18, <1>19, <1>20, <1>21, <1>22, <1>23 DEF Keeps, IInv, Mail

\* Orchestrator.start().
LEMMA BootsKeeps ==
    ASSUME NEW s, IInv(s), Len(s.starts) < MaxHostStarts
    PROVE  Keeps(s, [Began(s, s.registered[s.coordinator], "start") EXCEPT !.booted = TRUE])
<1> DEFINE g == s.registered[s.coordinator]
           c == "start"
           t == Began(s, g, c)
<1>1. g \in DOMAIN s.groups
    <2>1. Shape(s)  BY DEF IInv
    <2>2. s.coordinator \in Hosts /\ g # 0  BY <2>1, ShapeTypes DEF Shape
    <2> QED  BY <2>1, <2>2, RegisteredGroup
<1>2. c \in Caller  BY DEF Caller
<1> HIDE DEF g, c
<1>3. IInv(t) /\ AlarmsKept(s, t)  BY <1>1, <1>2, BeganKeeps
<1> HIDE DEF t
<1>4. Keeps(t, [t EXCEPT !.booted = TRUE])  BY <1>3, BootedKeeps
<1>5. Keeps(s, [t EXCEPT !.booted = TRUE])  BY <1>3, <1>4, KeepsMore
<1> QED  BY <1>5 DEF t, g, c

\* addHost().
LEMMA AddHostKeeps ==
    ASSUME NEW s, IInv(s), NEW h \in Hosts, s.registered[h] = 0,
           Len(s.groups) < MaxGroups, Len(s.starts) < MaxHostStarts
    PROVE  Keeps(s, Began(AddedTo(s, h), Len(s.groups) + 1, "addHost"))
<1> DEFINE g == Len(s.groups) + 1
           c == "addHost"
           t == AddedTo(s, h)
<1>2. IInv(t) /\ AlarmsKept(s, t) /\ g \in DOMAIN t.groups /\ t.starts = s.starts
    BY JoinedKeeps
<1> HIDE DEF t
<1>3. c \in Caller  BY DEF Caller
<1> HIDE DEF g, c
<1>4. Keeps(t, Began(t, g, c))  BY <1>2, <1>3, BeganKeeps DEF Keeps
<1>5. Keeps(s, Began(t, g, c))  BY <1>2, <1>4, KeepsMore
<1> QED  BY <1>5 DEF t, g, c

\* restartHost().
LEMMA RestartHostKeeps ==
    ASSUME NEW s, IInv(s), NEW h \in Hosts, s.registered[h] # 0, Len(s.starts) < MaxHostStarts
    PROVE  Keeps(s, Began(s, s.registered[h], "restartHost"))
<1> DEFINE c == "restartHost"
<1>1. s.registered[h] \in DOMAIN s.groups  BY RegisteredGroup DEF IInv
<1>2. c \in Caller  BY DEF Caller
<1> HIDE DEF c
<1>3. Keeps(s, Began(s, s.registered[h], c))  BY <1>1, <1>2, BeganKeeps DEF Keeps
<1> QED  BY <1>3 DEF c

\* A start makes its session: Opens.
OpenedBy(s, n) ==
    [s EXCEPT !.groups[s.starts[n].group].host = n,
              !.starts[n].pc = "handshake", !.starts[n].phase = "starting",
              !.starts[n].late = MadeLate(s, s.starts[n].group)]

\* It keeps the invariant.
LEMMA OpenedKeeps ==
    ASSUME NEW s, IInv(s), NEW n \in DOMAIN s.starts, s.starts[n].pc = "memory"
    PROVE  Keeps(s, OpenedBy(s, n))
<1> DEFINE g == s.starts[n].group
           late == MadeLate(s, g)
           z == s.starts[n]
           v == s.groups[g]
           x == [z EXCEPT !.pc = "handshake", !.phase = "starting", !.late = late]
           y == [v EXCEPT !.host = n]
           w == WithStart(WithGroup(s, g, y), n, x)
           r == OpenedBy(s, n)
<1>1. Shape(s) /\ Mail(s)  BY DEF IInv
<1>2. g \in DOMAIN s.groups  BY <1>1 DEF Shape, GroupOf
<1>3. s \in State /\ s.starts \in Seq(Start) /\ s.groups \in Seq(Group)  BY <1>1, ShapeTypes
<1>4. z \in Start /\ v \in Group  BY <1>2, <1>3
<1>5. n \in 0 .. MaxHostStarts
    <2>1. n \in 1 .. MaxHostStarts  BY <1>1, StartIndex
    <2>2. MaxHostStarts \in Nat  BY BoundsAssumption
    <2> QED  BY ONLY <2>1, <2>2
<1>6. late \in BOOLEAN  BY DEF MadeLate
<1>7. r = w
    <2>1. r = [s EXCEPT !.groups[g].host = n, !.starts[n].pc = "handshake",
                        !.starts[n].phase = "starting", !.starts[n].late = late]
        BY DEF OpenedBy
    <2> HIDE DEF r, late
    <2> QED  BY ONLY ZenonT(60), <2>1, <1>3, n \in DOMAIN s.starts, g \in DOMAIN s.groups
             DEF WithStart, WithGroup, State
<1> HIDE DEF z, v, late
<1>8. /\ x \in Start /\ x.pc = "handshake" /\ x.phase = "starting" /\ x.late = late
      /\ x.group = z.group /\ x.by = z.by /\ x.alone = z.alone
    BY ONLY <1>4, <1>6 DEF Start, Pc, Phase
<1>9. y \in Group /\ y.id = v.id /\ y.host = n /\ y.ready = v.ready
    BY ONLY <1>4, <1>5 DEF Group
<1> HIDE DEF x, y
<1>10. /\ x.group = s.starts[n].group /\ x.by = s.starts[n].by /\ x.alone = s.starts[n].alone
       /\ y.id = s.groups[g].id /\ y.ready = s.groups[g].ready
    BY <1>8, <1>9 DEF z, v
<1>11. Went(s, w, n, x, g, y)  BY <1>1, <1>2, <1>8, <1>9, <1>10, WithStartAndGroup
<1> HIDE DEF w, r
<1>12. IInv(w) /\ AlarmsKept(s, w)
    <2>1. x.late <=> MadeLate(s, g)  BY <1>8 DEF late
    <2> HIDE DEF g
    <2>2. g = s.starts[n].group  BY DEF g
    <2> QED  BY <2>1, <2>2, <1>8, <1>9, <1>10, <1>11, OpensKeeps
<1> QED  BY <1>7, <1>12 DEF Keeps, r

-----------------------------------------------------------------------------
(* The theorems.                                                           *)

\* The invariant of the specification.
HostsInv == IInv(Now)
\* No step but a timeout raises an alarm.
QuietStep == HostsInv' /\ AlarmsKept(Now, Now')

\* The variables after a step that becomes a state.
LEMMA BecomesState ==
    ASSUME NEW s, s \in State, Becomes(s)
    PROVE  Now' = s
BY DEF Becomes, Now, State

\* A step that becomes a state in which the invariant holds.
LEMMA KeptStep ==
    ASSUME NEW s, Keeps(Now, s), Becomes(s)
    PROVE  QuietStep
<1>1. s \in State /\ IInv(s)  BY DEF Keeps, IInv, Shape
<1>2. Now' = s  BY <1>1, BecomesState
<1>3. IInv(Now')  BY <1>1, <1>2
<1>4. AlarmsKept(Now, Now')  BY <1>2 DEF Keeps
<1> QED  BY <1>3, <1>4 DEF QuietStep, HostsInv

\* What the record of the variables holds.
LEMMA NowFields ==
    /\ Now.groups = groups /\ Now.starts = starts /\ Now.messages = messages
    /\ Now.registered = registered /\ Now.pending = pending /\ Now.asks = asks
    /\ Now.timers = timers /\ Now.coordinator = coordinator /\ Now.closed = closed
    /\ Now.booted = booted
BY DEF Now

\* The steps of a start.
LEMMA StartStepQuiet ==
    ASSUME HostsInv, NEW n \in DOMAIN starts, StartStep(n)
    PROVE  QuietStep
<1>1. IInv(Now) /\ Shape(Now)  BY DEF HostsInv, IInv
<1>2. n \in DOMAIN Now.starts  BY NowFields
<1>3. CASE Opens(n)
    <2>1. Now.starts[n].pc = "memory"  BY <1>3, NowFields DEF Opens
    <2>2. Becomes(OpenedBy(Now, n))  BY <1>3 DEF Opens, OpenedBy, MadeLate, Now
    <2> QED  BY <2>1, <2>2, <1>1, <1>2, OpenedKeeps, KeptStep
<1>4. CASE HandshakeDone(n)
    <2>1. Now.starts[n].pc = "handshake" /\ Now.starts[n].phase = "starting"
        BY <1>4, NowFields DEF HandshakeDone
    <2>2. Becomes(MovedTo(Now, n, "settled", "live"))
        BY <1>4 DEF HandshakeDone, MovedTo
    <2> QED  BY <2>1, <2>2, <1>1, <1>2, HandshakeDoneKeeps, KeptStep
<1>5. CASE HandshakeFails(n)
    <2> DEFINE q == IF starts[n].phase = "starting" /\ IsCodex(Now, n)
                    THEN "broken" ELSE starts[n].phase
               t == MovedTo(Now, n, "failed", q)
    <2>1. Now.starts[n].pc \in {"handshake", "settled"}  BY <1>5, NowFields DEF HandshakeFails
    <2>2. q \in Phase
        <3>1. Now.starts[n].phase \in Phase  BY <1>1, <1>2, FailedSame
        <3> QED  BY <3>1, NowFields DEF Phase
    <2>3. q \in {"starting", "live"} => q = Now.starts[n].phase  BY NowFields
    <2>4. Becomes(IF starts[n].by = "start" THEN EndMeeting(t) ELSE t)
        BY <1>5 DEF HandshakeFails, MovedTo
    <2> HIDE DEF q
    <2>5. Keeps(Now, t) /\ Keeps(Now, EndMeeting(t))  BY <2>1, <2>2, <2>3, <1>1, <1>2, FailedKeeps
    <2> HIDE DEF t
    <2> QED  BY <2>4, <2>5, KeptStep
<1>6. CASE Returns(n)
    <2>1. Now.starts[n].pc = "settled" /\ Becomes(Returned(Now, n))
        BY <1>6, NowFields DEF Returns
    <2> QED  BY <2>1, <1>1, <1>2, ReturnedKeeps, KeptStep
<1> QED  BY <1>3, <1>4, <1>5, <1>6 DEF StartStep

\* The steps of a session.
LEMMA SessionStepQuiet ==
    ASSUME HostsInv, NEW n \in DOMAIN starts, SessionStep(n)
    PROVE  QuietStep
<1>1. IInv(Now) /\ Shape(Now) /\ HoldOK(Now) /\ Mail(Now)  BY DEF HostsInv, IInv, Core
<1>2. n \in DOMAIN Now.starts  BY NowFields
<1>3. CASE SessionEnds(n)
    <2>1. Now.starts[n].phase # "none"  BY <1>3, NowFields DEF SessionEnds
    <2>2. Becomes(Ended(InPhase(Now, n, "dead"), Now.starts[n].group))
        BY <1>3, NowFields DEF SessionEnds, InPhase
    <2> QED  BY <2>1, <2>2, <1>1, <1>2, SessionEndsKeeps, KeptStep
<1>4. CASE AuthRequired(n)
    <2> DEFINE g == Now.starts[n].group
               t == Hushed(Now, g)
               p == IF IsCodex(t, n) THEN "broken" ELSE "closing"
               u == IF Holds(t, g) = n THEN t ELSE InPhase(t, n, p)
    <2>1. Now.starts[n].phase # "none"  BY <1>4, NowFields DEF AuthRequired
    <2>2. p \in Phase /\ p \notin {"starting", "live"}  BY DEF Phase
    <2>3. Becomes(DropHost(u, g))  BY <1>4, NowFields DEF AuthRequired, Hushed, InPhase
    <2> HIDE DEF p
    <2>4. u = IF Holds(Hushed(Now, g), g) = n THEN Hushed(Now, g)
              ELSE InPhase(Hushed(Now, g), n, p)
        OBVIOUS
    <2> HIDE DEF u
    <2>5. g = Now.starts[n].group  OBVIOUS
    <2> HIDE DEF g
    <2>6. Keeps(Now, DropHost(u, g))
        BY <2>1, <2>2, <2>4, <2>5, <1>1, <1>2, AuthRequiredKeeps
    <2> QED  BY <2>3, <2>6, KeptStep
<1>5. CASE Speaks(n)
    <2> DEFINE h == groups[starts[n].group].id
    <2>1. Becomes(Spoken(Now, h))  BY <1>5 DEF Speaks
    <2>2. h \in Hosts
        <3>1. GroupOf(Now, n) \in DOMAIN Now.groups  BY <1>1, <1>2, StartIndex
        <3>2. Now.groups[GroupOf(Now, n)] \in Group  BY <3>1, <1>1, ShapeTypes
        <3> QED  BY <3>2, NowFields DEF Group, GroupOf
    <2> HIDE DEF h
    <2>3. Talk(Now, Spoken(Now, h))  BY <2>2, <1>1, SpokenTalk
    <2> QED  BY <2>1, <2>3, <1>1, TalkIsKept, KeptStep
<1> QED  BY <1>3, <1>4, <1>5 DEF SessionStep

\* What is done to a host.
LEMMA HostStepQuiet ==
    ASSUME HostsInv, NEW h \in Hosts, HostStep(h)
    PROVE  QuietStep
<1>1. IInv(Now) /\ Shape(Now) /\ Mail(Now)  BY DEF HostsInv, IInv
<1>2. CASE AddHost(h)
    <2>1. /\ Now.registered[h] = 0 /\ Len(Now.groups) < MaxGroups
          /\ Len(Now.starts) < MaxHostStarts
        BY <1>2, NowFields DEF AddHost
    <2>2. Becomes(Began(AddedTo(Now, h), Len(Now.groups) + 1, "addHost"))
        BY <1>2, NowFields DEF AddHost, AddedTo
    <2> QED  BY <2>1, <2>2, <1>1, AddHostKeeps, KeptStep
<1>3. CASE RestartHost(h)
    <2>1. Now.registered[h] # 0 /\ Len(Now.starts) < MaxHostStarts
          /\ Becomes(Began(Now, Now.registered[h], "restartHost"))
        BY <1>3, NowFields DEF RestartHost
    <2> QED  BY <2>1, <1>1, RestartHostKeeps, KeptStep
<1>4. CASE RemoveHost(h)
    <2>1. Now.registered[h] # 0 /\ h # Now.coordinator /\ Becomes(Removed(Now, h))
        BY <1>4, NowFields DEF RemoveHost
    <2> QED  BY <2>1, <1>1, RemovedKeeps, KeptStep
<1>5. CASE SetCoordinator(h)
    <2>1. Now.registered[h] # 0 /\ h \in Coordinators /\ Becomes([Now EXCEPT !.coordinator = h])
        BY <1>5, NowFields DEF SetCoordinator
    <2>2. Keeps(Now, [Now EXCEPT !.coordinator = h])  BY <2>1, <1>1, SetCoordinatorKeeps
    <2> DEFINE r == [Now EXCEPT !.coordinator = h]
    <2>3. Becomes(r) /\ Keeps(Now, r)  BY <2>1, <2>2
    <2> HIDE DEF r
    <2> QED  BY <2>3, KeptStep
<1>6. CASE Ask(h)
    <2>1. /\ Now.registered[h] # 0 /\ ~Now.closed /\ Len(Now.messages) < MaxMessages
          /\ Becomes(Tracked(Published(Now, h), h, Len(Now.messages) + 1))
        BY <1>6, NowFields DEF Ask
    <2> QED  BY <2>1, <1>1, AskKeeps, KeptStep
<1> QED  BY <1>2, <1>3, <1>4, <1>5, <1>6 DEF HostStep

\* Every other step, but a timeout.
LEMMA OtherStepQuiet ==
    ASSUME HostsInv,
           \/ Boots
           \/ \E h \in Hosts, k \in Hosts : Tell(h, k)
           \/ DecisionResolved
           \/ End
    PROVE  QuietStep
<1>1. IInv(Now) /\ Shape(Now) /\ HoldOK(Now) /\ Mail(Now) /\ Core(Now)
    BY DEF HostsInv, IInv, Core
<1>2. CASE Boots
    <2> DEFINE r == [Began(Now, Now.registered[Now.coordinator], "start") EXCEPT !.booted = TRUE]
    <2>1. Len(Now.starts) < MaxHostStarts /\ Becomes(r)
        BY <1>2, NowFields DEF Boots
    <2>2. Keeps(Now, r)  BY <2>1, <1>1, BootsKeeps
    <2> HIDE DEF r
    <2> QED  BY <2>1, <2>2, KeptStep
<1>3. ASSUME NEW h \in Hosts, NEW k \in Hosts, Tell(h, k)  PROVE QuietStep
    <2>1. Now.registered[k] # 0 /\ Becomes(Published(Now, k))  BY <1>3, NowFields DEF Tell
    <2>2. Talk(Now, Published(Now, k))  BY <2>1, <1>1, PublishedTalk
    <2> QED  BY <2>1, <2>2, <1>1, TalkIsKept, KeptStep
<1>4. CASE DecisionResolved
    <2> DEFINE others == {h \in Hosts \ {Default} : registered[h] # 0}
    <2>1. PICK told \in 1 .. MaxMessages :
              /\ Len(messages) + told <= MaxMessages
              /\ \E to \in Bijection(1 .. told, others) : Becomes(PublishedTo(Now, to))
        BY <1>4 DEF DecisionResolved
    <2>2. PICK to \in Bijection(1 .. told, others) : Becomes(PublishedTo(Now, to))  BY <2>1
    <2>3. others \subseteq Hosts /\ \A h \in others : Now.registered[h] # 0  BY NowFields
    <2>4. Len(Now.messages) + told <= MaxMessages  BY <2>1, NowFields
    <2> HIDE DEF others
    <2>5. Keeps(Now, PublishedTo(Now, to))  BY <2>2, <2>3, <2>4, <1>1, DecisionKeeps
    <2> QED  BY <2>2, <2>5, KeptStep
<1>5. CASE End
    <2>1. Becomes(EndMeeting(Now))  BY <1>5 DEF End
    <2>2. Keeps(Now, EndMeeting(Now))  BY <1>1, EndMeetingKeeps DEF Keeps
    <2> QED  BY <2>1, <2>2, KeptStep
<1> QED  BY <1>2, <1>3, <1>4, <1>5

\* A timeout tells the coordinator only of the question its host still owes an answer to.
AlarmTrue(s, m) ==
    LET g == s.messages[m].to IN
    /\ ~s.closed /\ ~s.messages[m].answered
    /\ s.registered[s.groups[g].id] = g
    /\ \A k \in DOMAIN s.messages : k > m /\ s.messages[k].asked => s.messages[k].to # g

\* It is the step of a question whose timer is armed.
LEMMA TimeoutStep ==
    ASSUME HostsInv, NEW m \in DOMAIN messages, AskTimesOut(m)
    PROVE  /\ HostsInv' /\ AlarmTrue(Now, m)
           /\ \A k \in DOMAIN messages \ {m} : messages'[k].alarmed = messages[k].alarmed
<1>1. IInv(Now) /\ Shape(Now) /\ Mail(Now)  BY DEF HostsInv, IInv
<1>2. m \in Now.timers /\ Becomes(TimedOut(Now, m))
    BY <1>1, NowFields DEF AskTimesOut, TimedOut
<1>3. /\ IInv(TimedOut(Now, m))
      /\ \A k \in DOMAIN Now.messages \ {m} :
            TimedOut(Now, m).messages[k].alarmed = Now.messages[k].alarmed
    BY <1>1, <1>2, TimesOutKeeps
<1>4. Now' = TimedOut(Now, m)  BY <1>2, <1>3, BecomesState DEF IInv, Shape
<1>5. HostsInv'  BY <1>3, <1>4 DEF HostsInv
<1>6. messages' = TimedOut(Now, m).messages  BY <1>2 DEF Becomes
<1> DEFINE h == Now.groups[Now.messages[m].to].id
<1>7. h \in Hosts /\ Now.asks[h] = m /\ AskOK(Now, h)  BY <1>1, <1>2, TimerOfHost
<1>8. AlarmTrue(Now, m)
    <2>1. Now.messages[m].to = Now.registered[h]  BY ONLY <1>7 DEF AskOK
    <2> QED  BY ONLY <1>7, <2>1 DEF AskOK, AlarmTrue
<1> QED  BY <1>3, <1>5, <1>6, <1>8, NowFields

\* The Meeting starts with one group, which nothing has been sent to.
LEMMA HostsInitInv ==
    ASSUME HostsInit
    PROVE  HostsInv
<1> DEFINE s == Now
           v == NewGroup(Default)
<1>1. /\ s.groups = <<v>> /\ s.starts = <<>> /\ s.messages = <<>>
      /\ s.registered = [h \in Hosts |-> IF h = Default THEN 1 ELSE 0]
      /\ s.pending = [h \in Hosts |-> <<>>] /\ s.asks = [h \in Hosts |-> 0]
      /\ s.timers = {} /\ s.coordinator = Default /\ s.closed = FALSE /\ s.booted = FALSE
    BY NowFields DEF HostsInit
<1>2. Default \in Hosts /\ Default \in Coordinators  BY HostsAssumption
<1>3. /\ MaxGroups \in Nat \ {0} /\ MaxHostStarts \in Nat \ {0} /\ MaxMessages \in Nat \ {0}
      /\ QueueLimit \in Nat \ {0}
    BY BoundsAssumption
<1>4. v \in Group /\ v.id = Default /\ v.host = 0 /\ ~v.ready  BY <1>2, <1>3 DEF NewGroup, Group
<1>5. s \in State
    <2>1. s = [groups |-> s.groups, starts |-> s.starts, messages |-> s.messages,
               registered |-> s.registered, pending |-> s.pending, asks |-> s.asks,
               timers |-> s.timers, coordinator |-> s.coordinator, closed |-> s.closed,
               booted |-> s.booted]
        BY DEF Now
    <2> HIDE DEF s, v
    <2>2. s.groups \in Seq(Group)
        <3>1. <<v>> \in Seq(Group)  BY ONLY <1>4
        <3> QED  BY ONLY <3>1, <1>1
    <2>3. s.starts \in Seq(Start) /\ s.messages \in Seq(Message)  BY <1>1
    <2>4. s.registered \in [Hosts -> Nat] /\ s.asks \in [Hosts -> Nat]  BY <1>1
    <2>5. s.pending \in [Hosts -> Seq(Nat)]  BY <1>1
    <2>6. s.timers \in SUBSET Nat /\ s.coordinator \in Coordinators /\ s.closed \in BOOLEAN
          /\ s.booted \in BOOLEAN
        BY <1>1, <1>2
    <2> QED  BY ONLY <2>1, <2>2, <2>3, <2>4, <2>5, <2>6 DEF State
<1> HIDE DEF s, v
<1>6. DOMAIN s.groups = {1} /\ s.groups[1] = v /\ Len(s.groups) = 1  BY <1>1
<1>7. DOMAIN s.starts = {} /\ DOMAIN s.messages = {} /\ Len(s.starts) = 0
      /\ Len(s.messages) = 0
    BY <1>1
<1>8. Shape(s)
    <2>1. Len(s.groups) <= MaxGroups /\ Len(s.starts) <= MaxHostStarts
          /\ Len(s.messages) <= MaxMessages
        BY <1>6, <1>7, <1>3
    <2>2. ASSUME NEW h \in Hosts  PROVE s.pending[h] = <<>> /\ Len(s.pending[h]) <= QueueLimit
        BY <1>1, <1>3
    <2>3. ASSUME NEW h \in Hosts, s.registered[h] # 0
          PROVE  s.registered[h] \in DOMAIN s.groups /\ s.groups[s.registered[h]].id = h
        BY <2>3, <1>1, <1>4, <1>6
    <2>4. s.registered[s.coordinator] # 0  BY <1>1, <1>2
    <2> QED  BY <2>1, <2>2, <2>3, <2>4, <1>5, <1>7 DEF Shape
<1>9. Core(s)
    <2>1. \A g \in DOMAIN s.groups : Holds(s, g) = 0 /\ ~s.groups[g].ready
        BY <1>4, <1>6 DEF Holds
    <2> QED  BY <2>1, <1>7 DEF Core, HoldOK, FlightOK, LiveOK, ReachOK
<1>10. Mail(s)
    <2>1. \A h \in Hosts : s.pending[h] = <<>> /\ Waiting(s, h) = {}  BY <1>1 DEF Waiting
    <2>2. \A h \in Hosts : s.asks[h] = 0  BY <1>1
    <2>3. s.timers = {s.asks[h] : h \in Hosts} \ {0}  BY <1>1
    <2> QED  BY <2>1, <2>2, <2>3, <1>7 DEF Mail, PendingOK, HeardOK, AsksOK
<1>11. Served(s)  BY <1>1 DEF Served, ServedAt
<1> QED  BY <1>8, <1>9, <1>10, <1>11 DEF HostsInv, IInv, s

\* Every step keeps the invariant, and what it says of an alarm is true.
LEMMA NextKeeps ==
    ASSUME HostsInv, [HostsNext]_hostVars
    PROVE  HostsInv' /\ (QuietStep \/ \E m \in DOMAIN messages : AskTimesOut(m))
<1>1. CASE UNCHANGED hostVars
    <2>1. Now' = Now  BY <1>1 DEF hostVars, Now
    <2>2. IInv(Now')  BY <2>1 DEF HostsInv
    <2>3. AlarmsKept(Now, Now')  BY <2>1 DEF AlarmsKept
    <2> QED  BY <2>2, <2>3 DEF HostsInv, QuietStep
<1>2. ASSUME NEW n \in DOMAIN starts, StartStep(n) \/ SessionStep(n)  PROVE QuietStep
    BY <1>2, StartStepQuiet, SessionStepQuiet
<1>3. ASSUME NEW h \in Hosts, HostStep(h)  PROVE QuietStep  BY <1>3, HostStepQuiet
<1>4. ASSUME \/ Boots
             \/ \E h \in Hosts, k \in Hosts : Tell(h, k)
             \/ DecisionResolved
             \/ End
      PROVE  QuietStep
    BY <1>4, OtherStepQuiet
<1>5. ASSUME NEW m \in DOMAIN messages, AskTimesOut(m)  PROVE HostsInv'
    BY <1>5, TimeoutStep
<1>6. QuietStep => HostsInv'  BY DEF QuietStep
<1> QED  BY <1>1, <1>2, <1>3, <1>4, <1>5, <1>6 DEF HostsNext

\* The groups of a Meeting, their starts, the messages, the questions and the
\* timers satisfy the inductive invariant at every moment.
THEOREM HostsInvariant == HostsSpec => []HostsInv
<1>1. HostsInit => HostsInv  BY HostsInitInv
<1>2. HostsInv /\ [HostsNext]_hostVars => HostsInv'  BY NextKeeps
<1> QED  BY <1>1, <1>2, PTL DEF HostsSpec

\* The types: in particular the timers armed are those of the questions hosts owe
\* an answer to, and the coordinator stays registered, which coordinatorTalkerHost()
\* relies on.
THEOREM HostsTyped == HostsSpec => []HostsTypeOK
<1>1. ASSUME HostsInv  PROVE HostsTypeOK
    <2>1. Shape(Now) /\ Mail(Now)  BY <1>1 DEF HostsInv, IInv
    <2>2. /\ groups \in Seq(Group) /\ starts \in Seq(Start) /\ messages \in Seq(Message)
          /\ registered \in [Hosts -> Nat] /\ asks \in [Hosts -> Nat]
          /\ coordinator \in Coordinators /\ {closed, booted} \subseteq BOOLEAN
        BY <2>1, NowFields, ShapeTypes
    <2>3. /\ Len(groups) <= MaxGroups /\ Len(starts) <= MaxHostStarts
          /\ Len(messages) <= MaxMessages
          /\ \A h \in Hosts : Len(pending[h]) <= QueueLimit
          /\ \A h \in Hosts : registered[h] # 0 =>
                registered[h] \in DOMAIN groups /\ groups[registered[h]].id = h
          /\ registered[coordinator] # 0
        BY <2>1, NowFields DEF Shape
    <2>4. /\ timers = {asks[h] : h \in Hosts} \ {0}
          /\ \A h \in Hosts : asks[h] # 0 => asks[h] \in DOMAIN messages
        BY <2>1, NowFields DEF Mail, AsksOK, AskOK
    <2>5. registered \in [Hosts -> 0 .. Len(groups)]
        <3>1. ASSUME NEW h \in Hosts  PROVE registered[h] \in 0 .. Len(groups)
            <4>1. registered[h] \in Nat /\ Len(groups) \in Nat
                  /\ DOMAIN groups = 1 .. Len(groups)
                BY <2>2
            <4>2. registered[h] = 0 \/ registered[h] \in 1 .. Len(groups)  BY <4>1, <2>3
            <4> QED  BY ONLY <4>1, <4>2
        <3> QED  BY <3>1, <2>2
    <2>6. asks \in [Hosts -> 0 .. Len(messages)]
        <3>1. ASSUME NEW h \in Hosts  PROVE asks[h] \in 0 .. Len(messages)
            <4>1. asks[h] \in Nat /\ Len(messages) \in Nat
                  /\ DOMAIN messages = 1 .. Len(messages)
                BY <2>2
            <4>2. asks[h] = 0 \/ asks[h] \in 1 .. Len(messages)  BY <4>1, <2>4
            <4> QED  BY ONLY <4>1, <4>2
        <3> QED  BY <3>1, <2>2
    <2> QED  BY <2>2, <2>3, <2>4, <2>5, <2>6 DEF HostsTypeOK
<1> QED  BY <1>1, HostsInvariant, PTL

\* A message is heard once at most, by the group it was sent to, whatever hosts are
\* removed, added under the same id or restarted while it waits.
THEOREM MessagesReachAddressee == HostsSpec => []HeardByAddressee
<1>1. ASSUME HostsInv  PROVE HeardByAddressee
    BY <1>1, NowFields DEF HostsInv, IInv, Mail, HeardOK, HeardByAddressee, GroupOf
<1> QED  BY <1>1, HostsInvariant, PTL

\* A host that counts as ready has a session that takes turns, and nothing waits for
\* it, but for the two exceptions the property names.
THEOREM ReadyHostServed == HostsSpec => []ReadyHostIsServed
<1>1. ASSUME HostsInv  PROVE ReadyHostIsServed
    <2>1. Shape(Now) /\ LiveOK(Now) /\ Served(Now)  BY <1>1 DEF HostsInv, IInv, Core
    <2>2. ASSUME NEW h \in Hosts, ~closed, registered[h] # 0, IsReady(registered[h]),
                 Alone(registered[h])
          PROVE  /\ starts[groups[registered[h]].host].phase = "live"
                 /\ starts[groups[registered[h]].host].by # "start" => pending[h] = <<>>
        <3>1. /\ Now.groups[registered[h]].ready /\ Holds(Now, registered[h]) # 0
              /\ Holds(Now, registered[h]) = groups[registered[h]].host
            BY <2>2, NowFields DEF IsReady, Holds
        <3>2. AloneIn(Now, registered[h])  BY <2>2, NowFields DEF Alone, AloneIn, GroupOf
        <3>3. registered[h] \in DOMAIN Now.groups  BY <2>1, <2>2, NowFields DEF Shape
        <3>4. starts[groups[registered[h]].host].phase = "live"
            BY <2>1, <3>1, <3>2, <3>3, NowFields DEF LiveOK
        <3>5. ServedAt(Now, h)  BY <2>1 DEF Served
        <3>6. starts[groups[registered[h]].host].by # "start" => pending[h] = <<>>
            BY <3>1, <3>2, <3>5, <2>2, NowFields DEF ServedAt
        <3> QED  BY <3>4, <3>6
    <2> QED  BY <2>2 DEF ReadyHostIsServed
<1> QED  BY <1>1, HostsInvariant, PTL

\* A session that goes on is where the next end() reaches it, but for the exceptions
\* the property names.
THEOREM OpenSessionsReachable == HostsSpec => []SessionsReachable
<1>1. ASSUME HostsInv  PROVE SessionsReachable
    BY <1>1, NowFields
    DEF HostsInv, IInv, Core, ReachOK, ReachAt, IsOpen, Current, Holds, GroupOf,
        SessionsReachable
<1> QED  BY <1>1, HostsInvariant, PTL

\* The watchdog never raises a false alarm.
THEOREM AlarmsTrue == HostsSpec => AlarmsAreTrue
<1> DEFINE Raised ==
        \A m \in DOMAIN messages :
          (messages'[m].alarmed /\ ~messages[m].alarmed) =>
             LET g == messages[m].to IN
             /\ ~closed /\ ~messages[m].answered
             /\ registered[groups[g].id] = g
             /\ \A k \in DOMAIN messages :
                   k > m /\ messages[k].asked => messages[k].to # g
<1>1. ASSUME QuietStep  PROVE Raised
    <2>1. \A m \in DOMAIN messages : messages'[m].alarmed = messages[m].alarmed
        BY <1>1, NowFields DEF QuietStep, AlarmsKept, Now
    <2> QED  BY <2>1
<1>2. ASSUME HostsInv, NEW m \in DOMAIN messages, AskTimesOut(m)  PROVE Raised
    <2>1. AlarmTrue(Now, m)
          /\ \A k \in DOMAIN messages \ {m} : messages'[k].alarmed = messages[k].alarmed
        BY <1>2, TimeoutStep
    <2> QED  BY <2>1, NowFields DEF AlarmTrue
<1>3. ASSUME HostsInv, [HostsNext]_hostVars  PROVE [Raised]_hostVars
    BY <1>1, <1>2, <1>3, NextKeeps
<1> QED  BY <1>3, HostsInvariant, PTL DEF HostsSpec, AlarmsAreTrue

=============================================================================
