-------------------------- MODULE TaskMailboxProofs --------------------------
(***************************************************************************)
(* Proofs about TaskMailbox, for any number of messages, attempts,         *)
(* sessions, pending appends, crashes and failures: memory and journal     *)
(* agree, an acknowledgement follows its delivery, and nothing is sent     *)
(* twice to one session.                                                   *)
(*                                                                         *)
(* The parts about the mailbox take its memory b, the journal d, the       *)
(* pending appends q, the overtaken messages o and the number u of         *)
(* messages as parameters: a step changes them one after the other.        *)
(***************************************************************************)
EXTENDS TaskMailbox, SequenceTheorems, WellFoundedInduction, TLAPS

-----------------------------------------------------------------------------
(* The inductive invariant.                                                *)

\* Shapes.
Statuses == {"absent", "queued", "delivered", "acknowledged"}
MailShape(b, d, q, u) ==
    /\ b \in [Messages -> Message]
    /\ d \in [Messages -> Statuses]
    /\ q \in Seq(JournalAppend)
    /\ u \in 0 .. MaxMessages

\* q holds the append of a delivery of m.
Carries(q, m) == \E i \in DOMAIN q : q[i].msg = m /\ q[i].event = "delivered"

\* What may be under way for a message of that status that nothing overtook.
Fits(status) ==
    CASE status = "absent" -> {"enqueued"}
      [] status = "queued" -> {"failed", "delivered"}
      [] status \in {"delivered", "acknowledged"} -> {"acknowledged"}

\* What a caller waits for.
EventsOf(then) ==
    CASE then \in {"fork", "rework", "restart", "steer", "correct"} -> {"enqueued"}
      [] then = "sent" -> {"delivered"}
      [] then = "ack"  -> {"acknowledged"}
      [] then = "lost" -> {"failed"}
      [] then = "none" -> {"enqueued", "failed"}

\* An append fits the message it is about.
WriteOK(b, o, u, w) ==
    /\ w.msg <= u
    /\ w.event \in EventsOf(w.then)
    /\ w.then = "correct" => b[w.msg].kind = "correction"
    /\ w.then = "steer" => b[w.msg].kind = "steer"
    /\ w.event = "enqueued" <=> b[w.msg].status = "absent"
    /\ w.msg \notin o => w.event \in Fits(b[w.msg].status)
WritesOK(b, o, u, q) == \A i \in DOMAIN q : WriteOK(b, o, u, q[i])

\* A message is created alone, and its delivery is the last thing under way.
OrderOK(q, o) ==
    \A i, j \in DOMAIN q :
        i < j /\ q[i].msg = q[j].msg =>
            /\ q[i].event # "enqueued"
            /\ q[i].msg \notin o => q[i].event # "delivered"

\* Memory and journal agree about m.
MessageOK(b, d, o, u, m) ==
    /\ b[m].status = "absent" <=> d[m] = "absent"
    /\ m > u => b[m].status = "absent"
    /\ m \notin o =>
          \/ b[m].status = d[m]
          \/ b[m].status = "queued" /\ d[m] = "delivered" /\ crashes > 0
MessagesOK(b, d, o, u) == \A m \in Messages : MessageOK(b, d, o, u, m)

MailOK(b, d, q, o, u) ==
    /\ MailShape(b, d, q, u)
    /\ WritesOK(b, o, u, q)
    /\ OrderOK(q, o)
    /\ MessagesOK(b, d, o, u)

\* m was sent, for all the mailbox knows.
Told(b, q, m) == Carries(q, m) \/ b[m].status \in {"delivered", "acknowledged"}

\* What the session was sent is not queued, and steering begins when it has spoken.
HeardOK ==
    \A m \in heard :
        /\ box[m].status # "absent"
        /\ worker.session # 0 /\ box[m].kind = "steer" => ~worker.unread
        /\ failures = 0 /\ worker.session # 0 /\ box[m].kind # "steer" /\ m \notin overtaken
             => Told(box, writes, m)

\* Only steering is given up while every append succeeds.
RetriesOK == failures = 0 =>
    \A i \in DOMAIN writes : writes[i].event = "failed" => box[writes[i].msg].kind = "steer"

\* A turn is interrupted for a message its session was not sent.
InterruptsOK ==
    \A i \in interrupts :
        /\ box[i[1]].status # "absent" /\ box[i[1]].kind = "steer"
        /\ i[2] = worker.session => ~worker.unread /\ i[1] \notin heard

Mail == MailOK(box, durable, writes, overtaken, used)

MailboxInv ==
    /\ TypeOK
    /\ Mail
    /\ HeardOK /\ RetriesOK /\ InterruptsOK /\ RepeatedOnFailure
-----------------------------------------------------------------------------
(* Numbers and sequences.                                                  *)

\* The bounds are numbers.
LEMMA Bounds ==
    /\ MaxMessages \in Nat \ {0} /\ MaxAttempts \in Nat \ {0} /\ MaxSessions \in Nat \ {0}
    /\ MaxPending \in Nat /\ MaxCrashes \in Nat /\ MaxFailures \in Nat
    /\ Messages \subseteq Nat \ {0} /\ Sessions \subseteq Nat \ {0}
BY BoundsAssumption DEF Messages, Sessions

\* A set of numbers that is not empty has a least one.
LEMMA LeastExists ==
    ASSUME NEW S \in SUBSET Nat, S # {}
    PROVE  Min(S) \in S
<1>1. PICK x \in S : \A y \in S : ~(<<y, x>> \in OpToRel(<, Nat))
  BY NatLessThanWellFounded, WFMin
<1>2. \A y \in S : ~(y < x)
  BY <1>1 DEF OpToRel
<1>3. \A y \in S : x <= y
  BY <1>2
<1> QED
  BY <1>3 DEF Min

\* The append in front of the queue, and the others that move up.
LEMMA HeadTail ==
    ASSUME NEW q \in Seq(JournalAppend), q # <<>>
    PROVE  /\ Head(q) \in JournalAppend /\ Head(q) = q[1] /\ 1 \in DOMAIN q
           /\ Tail(q) \in Seq(JournalAppend)
           /\ \A i \in DOMAIN Tail(q) :
                 /\ i \in Nat /\ i + 1 \in DOMAIN q /\ i + 1 > 1
                 /\ Tail(q)[i] = q[i + 1]
           /\ \A i \in DOMAIN q :
                 \/ i = 1
                 \/ i - 1 \in DOMAIN Tail(q) /\ Tail(q)[i - 1] = q[i]
OBVIOUS

\* The last append of a longer queue, and the others that stay.
LEMMA Longer ==
    ASSUME NEW q \in Seq(JournalAppend), NEW x \in JournalAppend
    PROVE  /\ Append(q, x) \in Seq(JournalAppend)
           /\ Len(q) + 1 \in DOMAIN Append(q, x) /\ Append(q, x)[Len(q) + 1] = x
           /\ Append(q, x) # <<>>
           /\ \A i \in DOMAIN q : i \in DOMAIN Append(q, x) /\ Append(q, x)[i] = q[i]
           /\ \A i \in DOMAIN Append(q, x) :
                 /\ i \in Nat
                 /\ \/ i \in DOMAIN q /\ i < Len(q) + 1 /\ Append(q, x)[i] = q[i]
                    \/ i = Len(q) + 1 /\ Append(q, x)[i] = x
OBVIOUS

-----------------------------------------------------------------------------
(* The mailbox.                                                            *)

\* A delivery, a receipt or a failure is appended.
LEMMA MailPush ==
    ASSUME NEW b, NEW d, NEW q, NEW o, NEW u, NEW x \in JournalAppend,
           MailOK(b, d, q, o, u), WriteOK(b, o, u, x), x.event # "enqueued",
           x.msg \notin o => ~Carries(q, x.msg)
    PROVE  MailOK(b, d, Append(q, x), o, u)
<1>1. q \in Seq(JournalAppend)
  BY DEF MailOK, MailShape
<1>2. WritesOK(b, o, u, Append(q, x))
  BY <1>1, Longer DEF MailOK, WritesOK
<1>3. OrderOK(Append(q, x), o)
  <2> SUFFICES ASSUME NEW i \in DOMAIN Append(q, x), NEW j \in DOMAIN Append(q, x), i < j,
                      Append(q, x)[i].msg = Append(q, x)[j].msg
               PROVE  /\ Append(q, x)[i].event # "enqueued"
                      /\ Append(q, x)[i].msg \notin o => Append(q, x)[i].event # "delivered"
    BY DEF OrderOK
  <2>1. i \in DOMAIN q /\ Append(q, x)[i] = q[i]
    BY <1>1, Longer
  <2>2. CASE j \in DOMAIN q /\ Append(q, x)[j] = q[j]
    BY <2>1, <2>2 DEF MailOK, OrderOK
  <2>3. CASE Append(q, x)[j] = x
    <3>1. WriteOK(b, o, u, q[i])
      BY <2>1 DEF MailOK, WritesOK
    <3>2. q[i].event # "enqueued"
      BY <3>1, <2>1, <2>3 DEF WriteOK
    <3> QED
      BY <3>2, <2>1, <2>3 DEF Carries
  <2> QED
    BY <1>1, <2>2, <2>3, Longer
<1> QED
  BY <1>1, <1>2, <1>3, Longer DEF MailOK, MailShape

\* The append in front fails.
LEMMA MailLose ==
    ASSUME NEW b, NEW d, NEW q, NEW o, NEW u, MailOK(b, d, q, o, u), q # <<>>
    PROVE  MailOK(b, d, Tail(q), o, u)
<1>1. q \in Seq(JournalAppend)
  BY DEF MailOK, MailShape
<1>2. WritesOK(b, o, u, Tail(q))
  BY <1>1, HeadTail DEF MailOK, WritesOK
<1>3. OrderOK(Tail(q), o)
  <2> SUFFICES ASSUME NEW i \in DOMAIN Tail(q), NEW j \in DOMAIN Tail(q), i < j,
                      Tail(q)[i].msg = Tail(q)[j].msg
               PROVE  /\ Tail(q)[i].event # "enqueued"
                      /\ Tail(q)[i].msg \notin o => Tail(q)[i].event # "delivered"
    BY DEF OrderOK
  <2>1. i + 1 < j + 1
    BY <1>1, HeadTail
  <2> QED
    BY <1>1, <2>1, HeadTail DEF MailOK, OrderOK
<1> QED
  BY <1>1, <1>2, <1>3, HeadTail DEF MailOK, MailShape

\* A message is overtaken.
LEMMA MailOvertaken ==
    ASSUME NEW b, NEW d, NEW q, NEW o, NEW u, NEW p, MailOK(b, d, q, o, u), o \subseteq p
    PROVE  MailOK(b, d, q, p, u)
<1>1. WritesOK(b, p, u, q)
  <2>1. \A i \in DOMAIN q : WriteOK(b, p, u, q[i])
    BY DEF MailOK, WritesOK, WriteOK
  <2> QED
    BY <2>1 DEF WritesOK
<1>2. OrderOK(q, p)
  BY DEF MailOK, OrderOK
<1>3. MessagesOK(b, d, p, u)
  BY DEF MailOK, MessagesOK, MessageOK
<1> QED
  BY <1>1, <1>2, <1>3 DEF MailOK

\* What the append in front makes of memory and journal.
Remembers(b, w) == [b EXCEPT ![w.msg].status = Updated(w.event)]
Keeps(d, w) == [d EXCEPT ![w.msg] = Replayed(w.event, @)]

\* It returns.
LEMMA MailTaken ==
    ASSUME NEW b, NEW d, NEW q, NEW o, NEW u, MailOK(b, d, q, o, u), q # <<>>
    PROVE  /\ MailOK(Remembers(b, Head(q)), Keeps(d, Head(q)), Tail(q), o, u)
           /\ Head(q).event = "enqueued" =>
                 \A i \in DOMAIN Tail(q) : Tail(q)[i].msg # Head(q).msg
           /\ Head(q).msg \notin o /\ Head(q).event = "delivered" =>
                 \A i \in DOMAIN Tail(q) : Tail(q)[i].msg # Head(q).msg
<1> DEFINE w == Head(q)
           c == Remembers(b, w)
           e == Keeps(d, w)
<1>1. /\ q \in Seq(JournalAppend) /\ w \in JournalAppend
      /\ b \in [Messages -> Message] /\ d \in [Messages -> Statuses]
  BY HeadTail DEF MailOK, MailShape
<1>2. /\ w.msg \in Messages
      /\ w.event \in {"enqueued", "delivered", "acknowledged", "failed"}
  BY <1>1 DEF JournalAppend
<1>3. WriteOK(b, o, u, w)
  BY <1>1, HeadTail DEF MailOK, WritesOK
<1>4. \A i \in DOMAIN Tail(q) :
          /\ WriteOK(b, o, u, Tail(q)[i]) /\ Tail(q)[i] \in JournalAppend
          /\ Tail(q)[i].msg = w.msg =>
                /\ w.event # "enqueued"
                /\ w.msg \notin o => w.event # "delivered"
  <2> SUFFICES ASSUME NEW i \in DOMAIN Tail(q)
               PROVE  /\ WriteOK(b, o, u, Tail(q)[i]) /\ Tail(q)[i] \in JournalAppend
                      /\ Tail(q)[i].msg = w.msg =>
                            /\ w.event # "enqueued"
                            /\ w.msg \notin o => w.event # "delivered"
    OBVIOUS
  <2>1. i + 1 \in DOMAIN q /\ Tail(q)[i] = q[i + 1] /\ 1 < i + 1 /\ 1 \in DOMAIN q /\ w = q[1]
    BY <1>1, HeadTail
  <2> QED
    BY <1>1, <2>1 DEF MailOK, WritesOK, OrderOK
<1>5. /\ c \in [Messages -> Message]
      /\ \A m \in Messages : /\ c[m].kind = b[m].kind
                             /\ m # w.msg => c[m] = b[m]
      /\ c[w.msg].status = Updated(w.event)
  <2>1. Updated(w.event) \in {"queued", "delivered", "acknowledged"}
    BY <1>2 DEF Updated
  <2> QED
    BY <1>1, <1>2, <2>1 DEF Remembers, Message
<1>6. /\ e \in [Messages -> Statuses]
      /\ \A m \in Messages : m # w.msg => e[m] = d[m]
      /\ e[w.msg] = Replayed(w.event, d[w.msg])
  <2>1. d[w.msg] \in Statuses
    BY <1>1, <1>2
  <2>2. Replayed(w.event, d[w.msg]) \in Statuses
    BY <1>2, <2>1 DEF Replayed, Statuses
  <2> QED
    BY <1>1, <1>2, <2>2 DEF Keeps
<1> HIDE DEF w, c, e
<1>7. WritesOK(c, o, u, Tail(q))
  <2> SUFFICES ASSUME NEW i \in DOMAIN Tail(q)
               PROVE  WriteOK(c, o, u, Tail(q)[i])
    BY DEF WritesOK
  <2> DEFINE x == Tail(q)[i]
  <2>1. /\ WriteOK(b, o, u, x) /\ x \in JournalAppend /\ x.msg \in Messages
        /\ x.msg = w.msg => /\ w.event # "enqueued"
                            /\ w.msg \notin o => w.event # "delivered"
    BY <1>4 DEF JournalAppend
  <2> HIDE DEF x
  <2>2. ASSUME x.msg # w.msg PROVE WriteOK(c, o, u, x)
    <3>1. c[x.msg] = b[x.msg]
      BY <1>5, <2>1, <2>2
    <3> QED
      BY <2>1, <3>1 DEF WriteOK
  <2>3. ASSUME x.msg = w.msg PROVE WriteOK(c, o, u, x)
    <3>1. /\ b[w.msg].status # "absent" /\ x.event # "enqueued"
          /\ Updated(w.event) # "absent"
      BY <1>2, <1>3, <2>1, <2>3 DEF WriteOK, Updated
    <3>2. w.msg \notin o => x.event \in Fits(Updated(w.event))
      <4> SUFFICES ASSUME w.msg \notin o PROVE x.event \in Fits(Updated(w.event))
        OBVIOUS
      <4>1. b[w.msg].status \in Statuses
        BY <1>1, <1>2 DEF Message, Statuses
      <4>2. /\ w.event \in Fits(b[w.msg].status) /\ x.event \in Fits(b[w.msg].status)
            /\ w.event # "delivered" /\ w.event # "enqueued"
        BY <1>3, <2>1, <2>3 DEF WriteOK
      <4> QED
        BY <4>1, <4>2, <3>1 DEF Fits, Updated, Statuses
    <3> QED
      BY <1>2, <1>5, <2>1, <2>3, <3>1, <3>2 DEF WriteOK
  <2> QED
    BY <2>2, <2>3 DEF x
<1>8. OrderOK(Tail(q), o)
  BY MailLose DEF MailOK
<1>9. MessagesOK(c, e, o, u)
  <2> SUFFICES ASSUME NEW m \in Messages
               PROVE  MessageOK(c, e, o, u, m)
    BY DEF MessagesOK
  <2>1. MessageOK(b, d, o, u, m)
    BY DEF MailOK, MessagesOK
  <2>2. CASE m # w.msg
    BY <1>5, <1>6, <2>1, <2>2 DEF MessageOK
  <2>3. CASE m = w.msg
    <3>1. b[m].status \in Statuses /\ d[m] \in Statuses
      BY <1>1 DEF Message, Statuses
    <3>2. c[m].status = Updated(w.event) /\ e[m] = Replayed(w.event, d[m])
      BY <1>5, <1>6, <2>3
    <3>3. c[m].status # "absent" /\ e[m] # "absent"
      BY <1>2, <3>1, <3>2 DEF Updated, Replayed, Statuses
    <3>4. ~(m > u)
      BY <1>2, <1>3, <2>3, Bounds DEF WriteOK, MailOK, MailShape
    <3>5. m \notin o => c[m].status = e[m]
      <4> SUFFICES ASSUME m \notin o PROVE c[m].status = e[m]
        OBVIOUS
      <4>1. /\ w.event \in Fits(b[m].status)
            /\ w.event = "enqueued" <=> b[m].status = "absent"
        BY <1>3, <2>3 DEF WriteOK
      <4>2. b[m].status = d[m] \/ (b[m].status = "queued" /\ d[m] = "delivered")
        BY <2>1 DEF MessageOK
      <4> QED
        BY <1>2, <3>1, <3>2, <4>1, <4>2 DEF Fits, Updated, Replayed, Statuses
    <3> QED
      BY <3>3, <3>4, <3>5 DEF MessageOK
  <2> QED
    BY <2>2, <2>3
<1>10. Tail(q) \in Seq(JournalAppend) /\ u \in 0 .. MaxMessages
  BY <1>1, HeadTail DEF MailOK, MailShape
<1>11. MailOK(c, e, Tail(q), o, u)
  BY <1>5, <1>6, <1>7, <1>8, <1>9, <1>10 DEF MailOK, MailShape
<1> QED
  BY <1>4, <1>11 DEF w, c, e

\* A message is created.
LEMMA MailCreates ==
    ASSUME NEW b, NEW d, NEW q, NEW o, NEW u, MailOK(b, d, q, o, u), u < MaxMessages,
           NEW new \in Message, new.status = "absent",
           NEW x \in JournalAppend, x.msg = u + 1, x.event = "enqueued",
           x.event \in EventsOf(x.then),
           x.then = "correct" => new.kind = "correction",
           x.then = "steer" => new.kind = "steer"
    PROVE  /\ MailOK([b EXCEPT ![u + 1] = new], d, Append(q, x), o, u + 1)
           /\ b[u + 1].status = "absent" /\ u + 1 \in Messages
<1> DEFINE c == [b EXCEPT ![u + 1] = new]
<1>1. /\ q \in Seq(JournalAppend) /\ b \in [Messages -> Message]
      /\ u + 1 \in Messages /\ u + 1 \in 0 .. MaxMessages /\ u \in Nat
      /\ \A i \in DOMAIN q : WriteOK(b, o, u, q[i]) /\ q[i] \in JournalAppend
  BY Bounds DEF MailOK, MailShape, WritesOK, Messages
<1>2. /\ c \in [Messages -> Message] /\ c[u + 1] = new
      /\ \A m \in Messages : m # u + 1 => c[m] = b[m]
  BY <1>1
<1> HIDE DEF c
<1>3. \A i \in DOMAIN q : q[i].msg \in Messages /\ q[i].msg # u + 1 /\ q[i].msg <= u + 1
  BY <1>1, Bounds DEF WriteOK, JournalAppend
<1>4. b[u + 1].status = "absent" /\ d[u + 1] = "absent"
  BY <1>1 DEF MailOK, MessagesOK, MessageOK
<1>5. WriteOK(c, o, u + 1, x)
  BY <1>1, <1>2 DEF WriteOK, Fits
<1>6. \A i \in DOMAIN q : WriteOK(c, o, u + 1, q[i])
  BY <1>1, <1>2, <1>3 DEF WriteOK
<1>7. WritesOK(c, o, u + 1, Append(q, x))
  BY <1>1, <1>5, <1>6, Longer DEF WritesOK
<1>8. OrderOK(Append(q, x), o)
  <2> SUFFICES ASSUME NEW i \in DOMAIN Append(q, x), NEW j \in DOMAIN Append(q, x), i < j,
                      Append(q, x)[i].msg = Append(q, x)[j].msg
               PROVE  /\ Append(q, x)[i].event # "enqueued"
                      /\ Append(q, x)[i].msg \notin o => Append(q, x)[i].event # "delivered"
    BY DEF OrderOK
  <2>1. i \in DOMAIN q /\ Append(q, x)[i] = q[i]
    BY <1>1, Longer
  <2>2. Append(q, x)[j] # x
    BY <1>3, <2>1
  <2>3. j \in DOMAIN q /\ Append(q, x)[j] = q[j]
    BY <1>1, <2>2, Longer
  <2> QED
    BY <2>1, <2>3 DEF MailOK, OrderOK
<1>9. MessagesOK(c, d, o, u + 1)
  <2> SUFFICES ASSUME NEW m \in Messages
               PROVE  MessageOK(c, d, o, u + 1, m)
    BY DEF MessagesOK
  <2>1. MessageOK(b, d, o, u, m) /\ m \in Nat
    BY Bounds DEF MailOK, MessagesOK
  <2>2. ASSUME m # u + 1 PROVE MessageOK(c, d, o, u + 1, m)
    BY <1>1, <1>2, <2>1, <2>2 DEF MessageOK
  <2>3. ASSUME m = u + 1 PROVE MessageOK(c, d, o, u + 1, m)
    BY <1>1, <1>2, <1>4, <2>3 DEF MessageOK
  <2> QED
    BY <2>2, <2>3
<1>10. MailOK(c, d, Append(q, x), o, u + 1)
  BY <1>1, <1>2, <1>7, <1>8, <1>9, Longer DEF MailOK, MailShape
<1> QED
  BY <1>1, <1>4, <1>10 DEF c

-----------------------------------------------------------------------------
(* The worker.                                                             *)

\* The session is the same or gone, and has not begun to listen anew.
Calm(w, v) == v.session \in {0, w.session} /\ (v.session # 0 /\ v.unread => w.unread)

\* What becomes of a worker is a worker, in its session or in none.
LEMMA ReleasedWorker ==
    ASSUME NEW w \in Worker
    PROVE  Released(w) \in Worker /\ Calm(w, Released(w))
BY DEF Worker, Released, Calm

LEMMA ParkedWorker ==
    ASSUME NEW w \in Worker, NEW status \in {"pending", "parked"}
    PROVE  Parked(w, status) \in Worker /\ Calm(w, Parked(w, status))
<1>1. Released(w) \in Worker /\ Calm(w, Released(w))
  BY ReleasedWorker
<1> QED
  BY <1>1 DEF Worker, Parked, Calm

LEMMA DisposedWorker ==
    ASSUME NEW w \in Worker
    PROVE  Disposed(w) \in Worker /\ Calm(w, Disposed(w))
BY DEF Worker, Disposed, Calm

LEMMA FreshWorker ==
    ASSUME NEW w \in Worker, w.attempt < MaxAttempts
    PROVE  FreshAttempt(w) \in Worker /\ Calm(w, FreshAttempt(w))
<1>1. w.attempt + 1 \in 1 .. MaxAttempts
  BY Bounds DEF Worker
<1> QED
  BY <1>1 DEF Worker, FreshAttempt, Calm

LEMMA SubmittedWorker ==
    ASSUME NEW w \in Worker
    PROVE  Submitted(w) \in Worker /\ Calm(w, Submitted(w))
BY ParkedWorker DEF Worker, Submitted, Calm

\* A receipt does not touch the session.
SameSession(w, v) == v.session = w.session /\ v.unread = w.unread /\ v.attempt = w.attempt

LEMMA ForgetsWorker ==
    ASSUME NEW w \in Worker, NEW m
    PROVE  /\ Forgets(w, m) \in Worker /\ SameSession(w, Forgets(w, m))
           /\ m # 0 => Forgets(w, m).consumed # m
BY DEF Worker, Forgets, SameSession

LEMMA DroppedWorker ==
    ASSUME NEW w \in Worker
    PROVE  Dropped(w) \in Worker /\ SameSession(w, Dropped(w))
BY ForgetsWorker DEF Dropped, SameSession

LEMMA DrainedWorker ==
    ASSUME NEW w \in Worker
    PROVE  Drained(w) \in Worker /\ SameSession(w, Drained(w))
<1>1. ASSUME w.draining # 0 PROVE Drained(w) = w
  BY <1>1 DEF Drained
<1>2. ASSUME w.draining = 0, MustDrain(w) PROVE Drained(w) = [w EXCEPT !.draining = w.session]
  BY <1>2 DEF Drained
<1>3. ASSUME w.draining = 0, ~MustDrain(w) PROVE Drained(w) = Dropped(w)
  BY <1>3 DEF Drained
<1> QED
  BY <1>1, <1>2, <1>3, DroppedWorker DEF Worker, SameSession

\* What calmly follows what calmly follows.
LEMMA CalmAfterSame ==
    ASSUME NEW w, NEW v, NEW x, SameSession(w, v), Calm(v, x)
    PROVE  Calm(w, x)
BY DEF SameSession, Calm

LEMMA CalmAfterCalm ==
    ASSUME NEW w, NEW v, NEW x, Calm(w, v), Calm(v, x)
    PROVE  Calm(w, x)
BY DEF Calm

-----------------------------------------------------------------------------
(* What a step leaves.                                                     *)

\* Shapes of what is not the mailbox's.
OtherShape ==
    /\ worker \in Worker
    /\ interrupts \subseteq Messages \X Sessions
    /\ heard \subseteq Messages /\ repeated \subseteq Messages /\ overtaken \subseteq Messages
    /\ crashes \in 0 .. MaxCrashes /\ failures \in 0 .. MaxFailures

LEMMA ShapesOfType ==
    Mail => (TypeOK <=> OtherShape)
BY DEF TypeOK, OtherShape, Mail, MailOK, MailShape, Statuses

\* No message is lost from memory, none is taken back.
MessagesKept ==
    /\ \A m \in Messages : box[m].status # "absent" =>
          box'[m].status # "absent" /\ box'[m].kind = box[m].kind
    /\ failures' = 0 => failures = 0
    /\ overtaken \subseteq overtaken'
ToldKept ==
    failures' = 0 => \A m \in Messages :
        box[m].status # "absent" /\ box[m].kind # "steer" /\ Told(box, writes, m)
           => Told(box', writes', m)
\* Only steering is given up.
FailedKept ==
    failures' = 0 => \A i \in DOMAIN writes' : writes'[i].event = "failed" =>
        \/ \E j \in DOMAIN writes : writes[j] = writes'[i]
        \/ box'[writes'[i].msg].kind = "steer"
\* What the session is sent now.
NewlyHeard ==
    \A m \in heard' \ heard :
        /\ box'[m].status # "absent"
        /\ worker'.session # 0 /\ box'[m].kind = "steer" =>
              /\ ~worker'.unread
              /\ \A i \in interrupts' : i[2] = worker'.session => i[1] # m
        /\ failures' = 0 /\ box'[m].kind # "steer" => Told(box', writes', m)
NewlyInterrupted ==
    \A i \in interrupts' \ interrupts :
        /\ box'[i[1]].status # "absent" /\ box'[i[1]].kind = "steer"
        /\ ~worker'.unread /\ i[1] \notin heard'

\* That is all it takes.
LEMMA StepKeeps ==
    ASSUME MailboxInv, Mail', OtherShape', Calm(worker, worker'), MessagesKept, ToldKept,
           FailedKept, NewlyHeard, NewlyInterrupted, RepeatedOnFailure'
    PROVE  MailboxInv'
<1>1. TypeOK'
  <2>1. (Mail => (TypeOK <=> OtherShape))'
    BY ShapesOfType, PTL
  <2> QED
    BY <2>1
<1>2. OtherShape
  BY ShapesOfType DEF MailboxInv
<1>3. HeardOK'
  <2> SUFFICES ASSUME NEW m \in heard'
               PROVE  /\ box'[m].status # "absent"
                      /\ worker'.session # 0 /\ box'[m].kind = "steer" => ~worker'.unread
                      /\ failures' = 0 /\ worker'.session # 0 /\ box'[m].kind # "steer"
                            /\ m \notin overtaken' => Told(box', writes', m)
    BY DEF HeardOK, Told, Carries
  <2>1. CASE m \notin heard
    BY <2>1 DEF NewlyHeard
  <2>2. CASE m \in heard
    <3>1. /\ m \in Messages /\ box[m].status # "absent"
          /\ worker.session # 0 /\ box[m].kind = "steer" => ~worker.unread
          /\ failures = 0 /\ worker.session # 0 /\ box[m].kind # "steer" /\ m \notin overtaken
               => Told(box, writes, m)
      BY <1>2, <2>2 DEF MailboxInv, HeardOK, OtherShape
    <3>2. box'[m].status # "absent" /\ box'[m].kind = box[m].kind
      BY <3>1 DEF MessagesKept
    <3>3. worker'.session # 0 => worker.session # 0 /\ (worker'.unread => worker.unread)
      BY DEF Calm
    <3>4. ASSUME failures' = 0, worker'.session # 0, box'[m].kind # "steer", m \notin overtaken'
          PROVE  Told(box', writes', m)
      BY <3>1, <3>2, <3>3, <3>4 DEF MessagesKept, ToldKept
    <3> QED
      BY <3>1, <3>2, <3>3, <3>4
  <2> QED
    BY <2>1, <2>2
<1>4. RetriesOK'
  <2> SUFFICES ASSUME failures' = 0, NEW i \in DOMAIN writes', writes'[i].event = "failed"
               PROVE  box'[writes'[i].msg].kind = "steer"
    BY DEF RetriesOK
  <2>1. ASSUME NEW j \in DOMAIN writes, writes[j] = writes'[i]
        PROVE  box'[writes'[i].msg].kind = "steer"
    <3>1. box[writes[j].msg].kind = "steer" /\ failures = 0
      BY <2>1 DEF MailboxInv, RetriesOK, MessagesKept
    <3>2. WriteOK(box, overtaken, used, writes[j]) /\ writes[j] \in JournalAppend
      BY DEF MailboxInv, Mail, MailOK, WritesOK, MailShape
    <3>3. writes[j].msg \in Messages /\ box[writes[j].msg].status # "absent"
      BY <2>1, <3>2 DEF WriteOK, JournalAppend
    <3> QED
      BY <2>1, <3>1, <3>3 DEF MessagesKept
  <2> QED
    BY <2>1 DEF FailedKept
<1>5. InterruptsOK'
  <2> SUFFICES ASSUME NEW i \in interrupts'
               PROVE  /\ box'[i[1]].status # "absent" /\ box'[i[1]].kind = "steer"
                      /\ i[2] = worker'.session => ~worker'.unread /\ i[1] \notin heard'
    BY DEF InterruptsOK
  <2>1. CASE i \notin interrupts
    BY <2>1 DEF NewlyInterrupted
  <2>2. CASE i \in interrupts
    <3>1. /\ box[i[1]].status # "absent" /\ box[i[1]].kind = "steer"
          /\ i[2] = worker.session => ~worker.unread /\ i[1] \notin heard
      BY <2>2 DEF MailboxInv, InterruptsOK
    <3>2. i[1] \in Messages /\ i[2] \in Sessions /\ i[2] # 0
      BY <1>2, <2>2, Bounds DEF OtherShape
    <3>3. box'[i[1]].status # "absent" /\ box'[i[1]].kind = "steer"
      BY <3>1, <3>2 DEF MessagesKept
    <3>4. ASSUME i[2] = worker'.session PROVE ~worker'.unread /\ i[1] \notin heard'
      <4>1. worker'.session = worker.session /\ worker'.session # 0
        BY <3>2, <3>4 DEF Calm
      <4>2. ~worker'.unread /\ i[1] \notin heard
        BY <3>1, <3>4, <4>1 DEF Calm
      <4> QED
        BY <3>3, <3>4, <4>1, <4>2 DEF NewlyHeard
    <3> QED
      BY <3>3, <3>4
  <2> QED
    BY <2>1, <2>2
<1> QED
  BY <1>1, <1>3, <1>4, <1>5 DEF MailboxInv

\* The mailbox after a step, in its parts.
LEMMA MailNext ==
    ASSUME MailOK(box', durable', writes', overtaken', used'), crashes' = crashes
    PROVE  Mail'
BY DEF Mail, MailOK, MessagesOK, MessageOK, MailShape, WritesOK, WriteOK, OrderOK

\* A step that only moves the worker.
LEMMA WorkerMoves ==
    ASSUME MailboxInv, worker' \in Worker, Calm(worker, worker'),
           UNCHANGED <<mailbox, writes, interrupts, counters, history>>
    PROVE  MailboxInv'
<1>1. OtherShape
  BY ShapesOfType DEF MailboxInv
<1>2. OtherShape'
  BY <1>1 DEF OtherShape, counters, history
<1>3. Mail'
  BY MailNext DEF MailboxInv, Mail, mailbox, counters, history
<1>4. /\ MessagesKept /\ ToldKept /\ FailedKept /\ NewlyHeard /\ NewlyInterrupted
      /\ RepeatedOnFailure'
  BY DEF MessagesKept, ToldKept, FailedKept, NewlyHeard, NewlyInterrupted, RepeatedOnFailure,
         MailboxInv, mailbox, counters, history
<1> QED
  BY <1>2, <1>3, <1>4, StepKeeps

\* A step that enqueues a message.
LEMMA Enqueues ==
    ASSUME MailboxInv, NEW kind \in Kinds, NEW attempt \in 1 .. MaxAttempts,
           NEW then \in {"none", "fork", "rework", "restart", "steer", "correct"},
           then = "correct" => kind = "correction", then = "steer" => kind = "steer",
           Enqueue(kind, attempt, then), worker' \in Worker, Calm(worker, worker'),
           UNCHANGED <<interrupts, durable, counters, history>>
    PROVE  MailboxInv'
<1> DEFINE new == [status |-> "absent", kind |-> kind, attempt |-> attempt]
           x == [event |-> "enqueued", msg |-> used + 1, then |-> then,
                 session |-> AwaitedBy(then)]
<1>1. OtherShape /\ Mail
  BY ShapesOfType DEF MailboxInv
<1>2. /\ used < MaxMessages /\ used' = used + 1
      /\ box' = [box EXCEPT ![used + 1] = new] /\ writes' = Append(writes, x)
  BY DEF Enqueue
<1>3. /\ used \in 0 .. MaxMessages /\ writes \in Seq(JournalAppend)
      /\ box \in [Messages -> Message] /\ used + 1 \in Messages
  BY <1>1, <1>2, Bounds DEF Mail, MailOK, MailShape, Messages
<1>4. new \in Message
  BY DEF Message
<1>5. x \in JournalAppend
  <2>1. AwaitedBy(then) \in {0} \cup Sessions
    BY <1>1 DEF AwaitedBy, OtherShape, Worker
  <2> QED
    BY <1>3, <2>1 DEF JournalAppend, Continuation
<1>6. /\ x.msg = used + 1 /\ x.event = "enqueued" /\ x.event \in EventsOf(x.then)
      /\ new.status = "absent"
      /\ x.then = "correct" => new.kind = "correction"
      /\ x.then = "steer" => new.kind = "steer"
  BY DEF EventsOf
<1> HIDE DEF new, x
<1>7. MailOK(box', durable, writes', overtaken, used') /\ box[used + 1].status = "absent"
  BY <1>1, <1>2, <1>4, <1>5, <1>6, MailCreates DEF Mail
<1>8. Mail'
  BY <1>7, MailNext DEF counters, history
<1>9. OtherShape'
  BY <1>1 DEF OtherShape, counters, history
<1>10. \A m \in Messages : box[m].status # "absent" => box'[m] = box[m]
  BY <1>2, <1>3, <1>7
<1>11. MessagesKept
  BY <1>10 DEF MessagesKept, counters, history
<1>12. ToldKept
  <2> SUFFICES ASSUME NEW m \in Messages, box[m].status # "absent", Told(box, writes, m)
               PROVE  Told(box', writes', m)
    BY DEF ToldKept
  <2> QED
    BY <1>2, <1>3, <1>5, <1>10, Longer DEF Told, Carries
<1>13. FailedKept
  BY <1>2, <1>3, <1>5, <1>6, Longer DEF FailedKept
<1>14. NewlyHeard /\ NewlyInterrupted /\ RepeatedOnFailure'
  BY DEF NewlyHeard, NewlyInterrupted, RepeatedOnFailure, MailboxInv, counters, history
<1> QED
  BY <1>8, <1>9, <1>11, <1>12, <1>13, <1>14, StepKeeps

-----------------------------------------------------------------------------
(* The steps that enqueue a message or move the worker alone.              *)

LEMMA ReviewedKeeps == ASSUME MailboxInv, Reviewed PROVE MailboxInv'
<1>1. worker \in Worker
  BY ShapesOfType DEF MailboxInv, OtherShape
<1>2. ASSUME worker' = [worker EXCEPT !.status = "accepted"]
      PROVE  worker' \in Worker /\ Calm(worker, worker')
  BY <1>1, <1>2 DEF Worker, Calm
<1>3. ASSUME worker' = [FreshAttempt(worker) EXCEPT !.delivery = TRUE],
             worker.attempt < MaxAttempts
      PROVE  worker' \in Worker /\ Calm(worker, worker')
  <2>1. FreshAttempt(worker) \in Worker /\ Calm(worker, FreshAttempt(worker))
    BY <1>1, <1>3, FreshWorker
  <2> QED
    BY <1>3, <2>1 DEF Worker, Calm
<1>4. worker' \in Worker /\ Calm(worker, worker')
  BY <1>1, <1>2, <1>3, DisposedWorker DEF Reviewed
<1> QED
  BY <1>4, WorkerMoves DEF Reviewed

LEMMA EndsKeeps == ASSUME MailboxInv, Ends PROVE MailboxInv'
<1>1. worker \in Worker
  BY ShapesOfType DEF MailboxInv, OtherShape
<1> QED
  BY <1>1, DisposedWorker, WorkerMoves DEF Ends

LEMMA ResumedKeeps == ASSUME MailboxInv, Resumed PROVE MailboxInv'
<1>1. worker \in Worker
  BY ShapesOfType DEF MailboxInv, OtherShape
<1>2. worker' \in Worker /\ Calm(worker, worker')
  BY <1>1 DEF Resumed, Worker, Calm
<1> QED
  BY <1>2, WorkerMoves DEF Resumed

\* A new session was sent nothing, and nothing waits for it.
LEMMA LaunchedKeeps == ASSUME MailboxInv, Launched PROVE MailboxInv'
<1>1. OtherShape /\ Mail /\ TypeOK /\ RepeatedOnFailure /\ RetriesOK /\ InterruptsOK
  BY ShapesOfType DEF MailboxInv
<1> DEFINE s == Min(Sessions \ Remembered)
<1>2. s \in Sessions \ Remembered
  <2>1. Sessions \ Remembered \subseteq Nat
    BY Bounds
  <2> QED
    BY <2>1, LeastExists DEF Launched
<1> HIDE DEF s
<1>3. worker' \in Worker
  <2> DEFINE attempt == IF worker.delivery THEN worker.attempt ELSE 1
  <2>1. worker \in Worker /\ attempt \in 1 .. MaxAttempts
    BY <1>1, Bounds DEF OtherShape, Worker
  <2>2. worker' = [worker EXCEPT !.attempt = attempt, !.delivery = TRUE, !.session = s,
                                !.starting = TRUE, !.status = "running", !.unread = TRUE]
    BY <2>1 DEF Launched, s
  <2> HIDE DEF attempt
  <2> QED
    BY <1>2, <2>1, <2>2 DEF Worker
<1>4. worker'.session = s
  BY <1>1 DEF Launched, OtherShape, Worker, s
<1>5. OtherShape'
  BY <1>1, <1>3 DEF Launched, OtherShape, counters
<1>6. Mail'
  BY <1>1, MailNext DEF Launched, Mail, mailbox, counters
<1>7. TypeOK'
  <2>1. (Mail => (TypeOK <=> OtherShape))'
    BY ShapesOfType, PTL
  <2> QED
    BY <1>5, <1>6, <2>1
<1>8. \A i \in interrupts' : i[2] # worker'.session
  BY <1>2, <1>4 DEF Launched, Remembered
<1>9. InterruptsOK'
  BY <1>1, <1>8 DEF InterruptsOK, Launched, mailbox
<1>10. HeardOK'
  BY DEF HeardOK, Launched
<1>11. RetriesOK' /\ RepeatedOnFailure'
  BY <1>1 DEF RetriesOK, RepeatedOnFailure, Launched, mailbox, counters
<1> QED
  BY <1>6, <1>7, <1>9, <1>10, <1>11 DEF MailboxInv

LEMMA FollowsUpKeeps == ASSUME MailboxInv, FollowsUp PROVE MailboxInv'
<1> DEFINE fresh == NeedsFreshAttempt(worker)
           attempt == IF fresh THEN worker.attempt + 1 ELSE worker.attempt
           then == IF fresh THEN "fork" ELSE "none"
<1>1. worker \in Worker
  BY ShapesOfType DEF MailboxInv, OtherShape
<1>2. /\ Enqueue("follow-up", attempt, then) /\ worker' = worker
      /\ UNCHANGED <<interrupts, durable, counters, history>>
      /\ fresh => worker.attempt < MaxAttempts
  BY DEF FollowsUp
<1>3. attempt \in 1 .. MaxAttempts /\ "follow-up" \in Kinds
  BY <1>1, <1>2, Bounds DEF Worker, Kinds
<1>4. then \in {"fork", "none"}
  OBVIOUS
<1>5. Calm(worker, worker') /\ worker' \in Worker
  BY <1>1, <1>2 DEF Calm
<1> HIDE DEF attempt, then
<1> QED
  BY <1>2, <1>3, <1>4, <1>5, Enqueues

LEMMA SteerKeeps == ASSUME MailboxInv, Steer PROVE MailboxInv'
<1>1. worker \in Worker
  BY ShapesOfType DEF MailboxInv, OtherShape
<1>2. worker.attempt \in 1 .. MaxAttempts /\ "steer" \in Kinds
  BY <1>1 DEF Worker, Kinds
<1>3. Calm(worker, worker') /\ worker' \in Worker
  BY <1>1 DEF Calm, Steer
<1> QED
  BY <1>2, <1>3, Enqueues DEF Steer

LEMMA AsksForReportKeeps == ASSUME MailboxInv, AsksForReport PROVE MailboxInv'
<1>1. worker \in Worker
  BY ShapesOfType DEF MailboxInv, OtherShape
<1>2. worker.attempt \in 1 .. MaxAttempts /\ "correction" \in Kinds
  BY <1>1 DEF Worker, Kinds
<1>3. Calm(worker, worker') /\ worker' \in Worker
  BY <1>1 DEF Calm, AsksForReport
<1> QED
  BY <1>2, <1>3, Enqueues DEF AsksForReport

LEMMA RecoversReportKeeps == ASSUME MailboxInv, RecoversReport PROVE MailboxInv'
<1>1. worker \in Worker
  BY ShapesOfType DEF MailboxInv, OtherShape
<1>2. worker.attempt + 1 \in 1 .. MaxAttempts /\ "follow-up" \in Kinds
  BY <1>1, Bounds DEF Worker, Kinds, RecoversReport
<1>3. Calm(worker, worker') /\ worker' \in Worker
  BY <1>1 DEF Calm, RecoversReport, Worker
<1> QED
  BY <1>2, <1>3, Enqueues DEF RecoversReport

LEMMA RestartsStalledKeeps == ASSUME MailboxInv, RestartsStalled PROVE MailboxInv'
<1>1. worker \in Worker
  BY ShapesOfType DEF MailboxInv, OtherShape
<1>2. worker.attempt \in 1 .. MaxAttempts /\ "follow-up" \in Kinds
  BY <1>1 DEF Worker, Kinds
<1>3. Calm(worker, worker') /\ worker' \in Worker
  BY <1>1 DEF Calm, RestartsStalled
<1> QED
  BY <1>2, <1>3, Enqueues DEF RestartsStalled

-----------------------------------------------------------------------------
(* What is sent and what is acknowledged.                                  *)

\* The first receipt of a drain is one more append, or none.
LEMMA DrainAppends ==
    ASSUME MailboxInv
    PROVE  \/ Drain(worker) = <<>> /\ writes \o Drain(worker) = writes
           \/ \E x \in JournalAppend :
                 /\ writes \o Drain(worker) = Append(writes, x)
                 /\ x.event = "acknowledged" /\ x.then = "ack"
                 /\ x.msg \in Messages /\ Status(x.msg) = "delivered"
<1>1. writes \in Seq(JournalAppend) /\ worker \in Worker
  BY ShapesOfType DEF MailboxInv, OtherShape, Mail, MailOK, MailShape
<1>2. ASSUME ~(worker.draining = 0 /\ MustDrain(worker))
      PROVE  Drain(worker) = <<>> /\ writes \o Drain(worker) = writes
  <2>1. Drain(worker) = <<>>
    BY <1>2 DEF Drain
  <2> QED
    BY <1>1, <2>1, ConcatEmptySeq
<1>3. ASSUME worker.draining = 0, MustDrain(worker)
      PROVE  \E x \in JournalAppend :
                 /\ writes \o Drain(worker) = Append(writes, x)
                 /\ x.event = "acknowledged" /\ x.then = "ack"
                 /\ x.msg \in Messages /\ Status(x.msg) = "delivered"
  <2> DEFINE x == Write("acknowledged", worker.consumed, "ack")
  <2>1. /\ x.event = "acknowledged" /\ x.then = "ack" /\ x.msg = worker.consumed
        /\ worker.consumed \in Messages /\ Status(worker.consumed) = "delivered"
    BY <1>1, <1>3 DEF Write, MustDrain, Worker
  <2>2. x \in JournalAppend
    <3>1. AwaitedBy("ack") \in {0} \cup Sessions
      BY <1>1 DEF AwaitedBy, Worker
    <3> QED
      BY <2>1, <3>1 DEF Write, JournalAppend, Continuation
  <2>3. Drain(worker) = <<x>>
    BY <1>3 DEF Drain
  <2> HIDE DEF x
  <2>4. writes \o Drain(worker) = Append(writes, x)
    BY <1>1, <2>2, <2>3, AppendIsConcat
  <2> QED
    BY <2>1, <2>2, <2>4
<1> QED
  BY <1>2, <1>3

\* A message in memory was created.
LEMMA Created ==
    ASSUME NEW b, NEW d, NEW q, NEW o, NEW u, MailOK(b, d, q, o, u),
           NEW m \in Messages, b[m].status # "absent"
    PROVE  m <= u
<1>1. MessageOK(b, d, o, u, m)
  BY DEF MailOK, MessagesOK
<1>2. ~(m > u)
  BY <1>1 DEF MessageOK
<1> QED
  BY <1>2, Bounds DEF MailOK, MailShape

\* A receipt of what was delivered may be appended at any time.
LEMMA ReceiptFits ==
    ASSUME NEW b, NEW d, NEW q, NEW o, NEW u, MailOK(b, d, q, o, u),
           NEW x \in JournalAppend, x.event = "acknowledged", x.then = "ack",
           x.msg \in Messages, b[x.msg].status = "delivered"
    PROVE  MailOK(b, d, Append(q, x), o, u)
<1>1. x.msg <= u
  BY Created
<1>2. WriteOK(b, o, u, x)
  BY <1>1 DEF WriteOK, EventsOf, Fits
<1>3. x.msg \notin o => ~Carries(q, x.msg)
  <2> SUFFICES ASSUME x.msg \notin o, NEW i \in DOMAIN q, q[i].msg = x.msg,
                      q[i].event = "delivered"
               PROVE  FALSE
    BY DEF Carries
  <2>1. WriteOK(b, o, u, q[i])
    BY DEF MailOK, WritesOK
  <2> QED
    BY <2>1 DEF WriteOK, Fits
<1> QED
  BY <1>2, <1>3, MailPush

\* A delivery that goes out while the message is queued, and the overtaken it makes.
LEMMA DeliveryFits ==
    ASSUME NEW b, NEW d, NEW q, NEW o, NEW p, NEW u, MailOK(b, d, q, o, u), o \subseteq p,
           NEW x \in JournalAppend, x.event = "delivered", x.then = "sent",
           x.msg \in Messages, b[x.msg].status = "queued",
           x.msg \notin p => ~Carries(q, x.msg)
    PROVE  MailOK(b, d, Append(q, x), p, u)
<1>1. MailOK(b, d, q, p, u)
  BY MailOvertaken
<1>2. x.msg <= u
  BY Created
<1>3. WriteOK(b, p, u, x)
  BY <1>2 DEF WriteOK, EventsOf, Fits
<1> QED
  BY <1>1, <1>3, MailPush

\* A failure that goes out while the message is queued, or overtaken.
LEMMA FailureFits ==
    ASSUME NEW b, NEW d, NEW q, NEW o, NEW p, NEW u, MailOK(b, d, q, o, u), o \subseteq p,
           NEW x \in JournalAppend, x.event = "failed", x.then \in {"none", "lost"},
           x.msg \in Messages, b[x.msg].status # "absent",
           x.msg \notin p => b[x.msg].status = "queued" /\ ~Carries(q, x.msg)
    PROVE  MailOK(b, d, Append(q, x), p, u)
<1>1. MailOK(b, d, q, p, u)
  BY MailOvertaken
<1>2. x.msg <= u
  BY Created
<1>3. WriteOK(b, p, u, x)
  BY <1>2 DEF WriteOK, EventsOf, Fits
<1> QED
  BY <1>1, <1>3, MailPush

\* A step that may have begun a drain.
LEMMA Drains ==
    ASSUME MailboxInv, writes' = writes \o Drain(worker), UNCHANGED <<mailbox, counters, history>>
    PROVE  /\ Mail' /\ MessagesKept /\ ToldKept /\ FailedKept /\ NewlyHeard
           /\ RepeatedOnFailure'
<1>1. writes \in Seq(JournalAppend) /\ Mail
  BY DEF MailboxInv, Mail, MailOK, MailShape
<1>2. ASSUME writes' = writes
      PROVE  Mail' /\ ToldKept /\ FailedKept
  <2>1. Mail'
    BY <1>1, <1>2, MailNext DEF Mail, mailbox, counters, history
  <2> QED
    BY <1>2, <2>1 DEF ToldKept, FailedKept, mailbox
<1>3. ASSUME NEW x \in JournalAppend, writes' = Append(writes, x),
             x.event = "acknowledged", x.then = "ack",
             x.msg \in Messages, Status(x.msg) = "delivered"
      PROVE  Mail' /\ ToldKept /\ FailedKept
  <2>1. MailOK(box, durable, Append(writes, x), overtaken, used)
    BY <1>1, <1>3, ReceiptFits DEF Mail, Status
  <2>2. Mail'
    BY <1>3, <2>1, MailNext DEF mailbox, counters, history
  <2>3. ToldKept
    BY <1>1, <1>3, Longer DEF ToldKept, Told, Carries, mailbox
  <2>4. FailedKept
    BY <1>1, <1>3, Longer DEF FailedKept
  <2> QED
    BY <2>2, <2>3, <2>4
<1>4. Mail' /\ ToldKept /\ FailedKept
  BY <1>2, <1>3, DrainAppends
<1>5. MessagesKept /\ NewlyHeard /\ RepeatedOnFailure'
  BY DEF MessagesKept, NewlyHeard, RepeatedOnFailure, MailboxInv, mailbox, counters, history
<1> QED
  BY <1>4, <1>5

\* What sending a follow-up, or none, makes of the mailbox and of the session's memory;
\* the caller left memory c, journal e and appends q.
Talks(c, e, q) ==
    /\ MailOK(c, e, writes', overtaken', used)
    /\ overtaken \subseteq overtaken' /\ overtaken' \subseteq Messages
    /\ heard' \subseteq Messages /\ repeated' \subseteq Messages
    /\ failures = 0 => repeated' \subseteq overtaken'
    /\ \A m \in Messages : Carries(q, m) => Carries(writes', m)
    /\ \A m \in heard' \ heard :
          c[m].status # "absent" /\ c[m].kind # "steer" /\ Carries(writes', m)
    /\ \A i \in DOMAIN writes' : writes'[i].event = "failed" =>
          \E j \in DOMAIN q : q[j] = writes'[i]

LEMMA Silent ==
    ASSUME MailboxInv, NEW c, NEW e, NEW q, MailOK(c, e, q, overtaken, used),
           TellsNothing, writes' = q
    PROVE  Talks(c, e, q)
BY ShapesOfType DEF Talks, TellsNothing, MailboxInv, RepeatedOnFailure, OtherShape

LEMMA Sends ==
    ASSUME MailboxInv, NEW c, NEW e, NEW q, MailOK(c, e, q, overtaken, used),
           NEW ms \in SUBSET Messages,
           \A m \in ms : c[m].status = "queued" /\ c[m].kind # "steer" /\ c[m] = box[m],
           \A m \in Messages : Carries(q, m) => Carries(writes, m),
           worker.session # 0, SendsFollowUp(ms, q)
    PROVE  Talks(c, e, q)
<1>1. CASE ms = {}
  BY <1>1, Silent DEF SendsFollowUp
<1>2. CASE ms # {}
  <2> DEFINE m == Min(ms)
             x == Write("delivered", m, "sent")
  <2>1. m \in ms /\ m \in Messages
    BY <1>2, Bounds, LeastExists
  <2>2. Tells(m) /\ writes' = Append(q, x)
    BY <1>2 DEF SendsFollowUp
  <2>3. /\ x \in JournalAppend /\ x.event = "delivered" /\ x.then = "sent" /\ x.msg = m
    BY <2>1 DEF Write, AwaitedBy, JournalAppend, Continuation
  <2> HIDE DEF m, x
  <2>4. OtherShape /\ q \in Seq(JournalAppend)
    BY ShapesOfType DEF MailboxInv, MailOK, MailShape
  <2>5. /\ heard' = heard \cup {m}
        /\ repeated' = IF m \in heard THEN repeated \cup {m} ELSE repeated
        /\ overtaken' = IF Sending(m) THEN overtaken \cup {m} ELSE overtaken
    BY <2>2 DEF Tells, Overtakes
  <2>6. m \notin overtaken' => ~Carries(q, m)
    BY <2>1, <2>5 DEF Carries, Sending
  <2>7. MailOK(c, e, writes', overtaken', used)
    <3>1. overtaken \subseteq overtaken'
      BY <2>5
    <3> QED
      BY <2>1, <2>2, <2>3, <2>6, <3>1, DeliveryFits
  <2>8. ASSUME failures = 0 PROVE repeated' \subseteq overtaken'
    <3>1. repeated \subseteq overtaken
      BY <2>8 DEF MailboxInv, RepeatedOnFailure
    <3>2. ASSUME m \in heard PROVE m \in overtaken'
      <4>1. m \in overtaken \/ Told(box, writes, m)
        BY <2>1, <2>8, <3>2 DEF MailboxInv, HeardOK
      <4>2. box[m].status = "queued"
        BY <2>1
      <4> QED
        BY <2>5, <4>1, <4>2 DEF Told, Carries, Sending
    <3> QED
      BY <2>5, <3>1, <3>2
  <2>9. /\ \A n \in Messages : Carries(q, n) => Carries(writes', n)
        /\ Carries(writes', m)
    BY <2>2, <2>3, <2>4, Longer DEF Carries
  <2>10. \A i \in DOMAIN writes' : writes'[i].event = "failed" =>
            \E j \in DOMAIN q : q[j] = writes'[i]
    BY <2>2, <2>3, <2>4, Longer
  <2>11. \A n \in heard' \ heard :
            c[n].status # "absent" /\ c[n].kind # "steer" /\ Carries(writes', n)
    BY <2>1, <2>5, <2>9
  <2>12. /\ overtaken \subseteq overtaken' /\ overtaken' \subseteq Messages
         /\ heard' \subseteq Messages /\ repeated' \subseteq Messages
    BY <2>1, <2>4, <2>5 DEF OtherShape
  <2> QED
    BY <2>7, <2>8, <2>9, <2>10, <2>11, <2>12 DEF Talks
<1> QED
  BY <1>1, <1>2

\* What is deliverable now.
LEMMA FollowUpsQueued ==
    ASSUME NEW w, NEW m \in FollowUps(w)
    PROVE  m \in Messages /\ box[m].status = "queued" /\ box[m].kind # "steer"
BY DEF FollowUps, Deliverable, Status

\* A step that sends a follow-up while the mailbox stays as it is.
LEMMA TalksKeeps ==
    ASSUME MailboxInv, Talks(box, durable, writes), worker' \in Worker, Calm(worker, worker'),
           UNCHANGED <<mailbox, interrupts, counters>>
    PROVE  MailboxInv'
<1>1. OtherShape
  BY ShapesOfType DEF MailboxInv
<1>2. OtherShape'
  BY <1>1 DEF Talks, OtherShape, counters
<1>3. Mail'
  BY MailNext DEF Talks, mailbox, counters
<1>4. MessagesKept /\ FailedKept /\ RepeatedOnFailure'
  BY DEF Talks, MessagesKept, FailedKept, RepeatedOnFailure, mailbox, counters
<1>5. ToldKept
  BY DEF Talks, ToldKept, Told, mailbox
<1>6. NewlyHeard
  BY DEF Talks, NewlyHeard, Told, mailbox
<1>7. NewlyInterrupted
  BY DEF NewlyInterrupted
<1> QED
  BY <1>2, <1>3, <1>4, <1>5, <1>6, <1>7, StepKeeps

LEMMA PromptsKeeps == ASSUME MailboxInv, Prompts PROVE MailboxInv'
<1>1. worker \in Worker /\ Mail
  BY ShapesOfType DEF MailboxInv, OtherShape
<1>2. worker' \in Worker /\ Calm(worker, worker')
  BY <1>1 DEF Prompts, Worker, Calm
<1>3. FollowUps(worker) \subseteq Messages
  BY DEF FollowUps
<1>4. Talks(box, durable, writes)
  BY <1>1, <1>3, FollowUpsQueued, Sends DEF Prompts, Live, Mail
<1> QED
  BY <1>2, <1>4, TalksKeeps DEF Prompts

LEMMA TurnEndsKeeps == ASSUME MailboxInv, TurnEnds PROVE MailboxInv'
<1> DEFINE w == Drained(worker)
<1>1. worker \in Worker /\ Mail
  BY ShapesOfType DEF MailboxInv, OtherShape
<1>2. w \in Worker /\ SameSession(worker, w)
  BY <1>1, DrainedWorker
<1>3. UNCHANGED <<mailbox, interrupts, counters>>
  BY DEF TurnEnds
<1>4. \/ /\ w.draining # 0 /\ worker' = [w EXCEPT !.boundary = @ \cup {w.draining}]
         /\ writes' = writes \o Drain(worker) /\ TellsNothing
      \/ worker' = w /\ DeliversFollowUp(w, FollowUps(w), writes)
  BY DEF TurnEnds
<1>5. worker.session # 0
  BY DEF TurnEnds, CanHear, Live
<1> HIDE DEF w
<1>6. CASE /\ w.draining # 0 /\ worker' = [w EXCEPT !.boundary = @ \cup {w.draining}]
           /\ writes' = writes \o Drain(worker) /\ TellsNothing
  <2>1. worker' \in Worker /\ SameSession(w, worker')
    BY <1>2, <1>6 DEF Worker, SameSession
  <2>2. Calm(worker, worker')
    BY <1>2, <2>1 DEF SameSession, Calm
  <2>3. OtherShape'
    BY <1>3, <1>6, <2>1, ShapesOfType DEF MailboxInv, OtherShape, TellsNothing, counters
  <2>4. NewlyInterrupted
    BY <1>3 DEF NewlyInterrupted
  <2> QED
    BY <1>3, <1>6, <2>2, <2>3, <2>4, Drains, StepKeeps DEF TellsNothing, history
<1>7. CASE worker' = w /\ DeliversFollowUp(w, FollowUps(w), writes)
  <2>1. worker' \in Worker /\ Calm(worker, worker')
    BY <1>2, <1>7 DEF SameSession, Calm
  <2>2. Talks(box, durable, writes)
    <3>1. FollowUps(w) \subseteq Messages
      BY DEF FollowUps
    <3>2. MailOK(box, durable, writes, overtaken, used)
      BY <1>1 DEF Mail
    <3>3. CASE SendsFollowUp(FollowUps(w), writes)
      BY <1>5, <3>1, <3>2, <3>3, FollowUpsQueued, Sends
    <3>4. CASE TellsNothing /\ writes' = writes
      BY <3>2, <3>4, Silent
    <3> QED
      BY <1>7, <3>3, <3>4 DEF DeliversFollowUp
  <2> QED
    BY <1>3, <2>1, <2>2, TalksKeeps
<1> QED
  BY <1>4, <1>6, <1>7

LEMMA SpeaksKeeps == ASSUME MailboxInv, Speaks PROVE MailboxInv'
<1> DEFINE w == Drained(worker)
           steer == worker.unread /\ w.steering = 0 /\ Steers(worker) # {}
           m == Min(Steers(worker))
<1>1. OtherShape /\ worker \in Worker
  BY ShapesOfType DEF MailboxInv, OtherShape
<1>2. w \in Worker /\ SameSession(worker, w)
  BY <1>1, DrainedWorker
<1>3. writes' = writes \o Drain(worker) /\ UNCHANGED <<mailbox, counters, history>>
  BY DEF Speaks
<1>4. \/ /\ worker' = [w EXCEPT !.unread = FALSE, !.steering = IF steer THEN m ELSE @]
         /\ interrupts' = IF steer THEN interrupts \cup {<<m, worker.session>>} ELSE interrupts
      \/ worker' = w /\ UNCHANGED interrupts
  BY DEF Speaks
<1>5. worker.session \in Sessions
  BY <1>1 DEF Speaks, CanHear, Live, Worker
<1>6. ASSUME steer
      PROVE  /\ m \in Messages /\ box[m].status # "absent" /\ box[m].kind = "steer"
             /\ m \notin heard
  <2>1. Steers(worker) \in SUBSET Nat
    BY Bounds DEF Steers
  <2>2. m \in Steers(worker)
    BY <1>6, <2>1, LeastExists
  <2> HIDE DEF m
  <2>3. m \in Messages /\ box[m].status = "queued" /\ box[m].kind = "steer"
    BY <2>2 DEF Steers, Status
  <2>4. m \notin heard
    BY <1>5, <1>6, <2>3, Bounds DEF MailboxInv, HeardOK
  <2> QED
    BY <2>3, <2>4
<1> HIDE DEF w, m
<1>7. worker' \in Worker /\ Calm(worker, worker')
  <2>1. CASE worker' = w
    BY <1>2, <2>1 DEF SameSession, Calm
  <2>2. CASE worker' = [w EXCEPT !.unread = FALSE, !.steering = IF steer THEN m ELSE @]
    <3>1. (IF steer THEN m ELSE w.steering) \in {0} \cup Messages
      BY <1>2, <1>6 DEF Worker
    <3>2. worker' \in Worker /\ worker'.session = w.session /\ worker'.unread = FALSE
      BY <1>2, <2>2, <3>1 DEF Worker
    <3> QED
      BY <1>2, <3>2 DEF SameSession, Calm
  <2> QED
    BY <1>4, <2>1, <2>2
<1>8. interrupts' \subseteq Messages \X Sessions
  BY <1>1, <1>4, <1>5, <1>6 DEF OtherShape
<1>9. OtherShape'
  BY <1>1, <1>3, <1>7, <1>8 DEF OtherShape, counters, history
<1>10. NewlyInterrupted
  <2> SUFFICES ASSUME NEW i \in interrupts', i \notin interrupts
               PROVE  /\ box'[i[1]].status # "absent" /\ box'[i[1]].kind = "steer"
                      /\ ~worker'.unread /\ i[1] \notin heard'
    BY DEF NewlyInterrupted
  <2>1. /\ steer /\ i = <<m, worker.session>>
        /\ worker' = [w EXCEPT !.unread = FALSE, !.steering = IF steer THEN m ELSE @]
    BY <1>4
  <2>2. ~worker'.unread
    BY <1>2, <2>1 DEF Worker
  <2> QED
    BY <1>3, <1>6, <2>1, <2>2 DEF mailbox, history
<1> QED
  BY <1>3, <1>7, <1>9, <1>10, Drains, StepKeeps

LEMMA ReportsKeeps == ASSUME MailboxInv, Reports PROVE MailboxInv'
<1> DEFINE v == Drained(worker)
           w == [v EXCEPT !.reported = TRUE, !.unread = FALSE]
<1>1. OtherShape /\ worker \in Worker
  BY ShapesOfType DEF MailboxInv, OtherShape
<1>2. v \in Worker /\ SameSession(worker, v)
  BY <1>1, DrainedWorker
<1>3. /\ writes' = writes \o Drain(worker)
      /\ UNCHANGED <<mailbox, interrupts, counters, history>>
      /\ worker' = IF w.draining # 0 THEN [w EXCEPT !.parking = @ \cup {w.draining}]
                   ELSE Submitted(w)
  BY DEF Reports
<1> HIDE DEF v
<1>4. w \in Worker /\ Calm(worker, w) /\ w.session = worker.session
  BY <1>2 DEF Worker, SameSession, Calm
<1> HIDE DEF w
<1>5. worker' \in Worker /\ Calm(worker, worker')
  <2>1. CASE worker' = Submitted(w)
    BY <1>4, <2>1, SubmittedWorker, CalmAfterCalm
  <2>2. CASE worker' = [w EXCEPT !.parking = @ \cup {w.draining}] /\ w.draining # 0
    BY <1>4, <2>2 DEF Worker, Calm
  <2> QED
    BY <1>3, <2>1, <2>2
<1>6. OtherShape'
  BY <1>1, <1>3, <1>5 DEF OtherShape, counters, history
<1>7. NewlyInterrupted
  BY <1>3 DEF NewlyInterrupted
<1> QED
  BY <1>3, <1>5, <1>6, <1>7, Drains, StepKeeps

-----------------------------------------------------------------------------
(* Steering.                                                               *)

\* What Write appends is well formed.
LEMMA WriteType ==
    ASSUME MailboxInv, NEW m \in Messages, NEW then \in Continuation,
           NEW event \in {"enqueued", "delivered", "acknowledged", "failed"}
    PROVE  /\ Write(event, m, then) \in JournalAppend
           /\ Write(event, m, then).msg = m /\ Write(event, m, then).event = event
           /\ Write(event, m, then).then = then
<1>1. worker \in Worker
  BY ShapesOfType DEF MailboxInv, OtherShape
<1>2. AwaitedBy(then) \in {0} \cup Sessions
  BY <1>1 DEF AwaitedBy, Worker
<1> QED
  BY <1>2 DEF Write, JournalAppend

LEMMA SteeredKeeps ==
    ASSUME MailboxInv, NEW m \in Messages, NEW s \in Sessions, Steered(m, s)
    PROVE  MailboxInv'
<1> DEFINE x == Write("delivered", m, "sent")
<1>1. OtherShape /\ Mail /\ worker \in Worker /\ writes \in Seq(JournalAppend)
  BY ShapesOfType DEF MailboxInv, OtherShape, Mail, MailOK, MailShape
<1>2. /\ <<m, s>> \in interrupts /\ s = worker.session
      /\ interrupts' = interrupts \ {<<m, s>>} /\ UNCHANGED <<mailbox, counters>>
      /\ heard' = heard \cup {m}
      /\ repeated' = IF m \in heard THEN repeated \cup {m} ELSE repeated
      /\ overtaken' = IF Sending(m) THEN overtaken \cup {m} ELSE overtaken
      /\ \/ box[m].status = "queued" /\ writes' = Append(writes, x) /\ worker' = worker
         \/ writes' = writes /\ worker' = [worker EXCEPT !.consumed = m]
  BY DEF Steered, Tells, Overtakes, Status
<1>3. box[m].status # "absent" /\ box[m].kind = "steer" /\ ~worker.unread /\ m \notin heard
  BY <1>2 DEF MailboxInv, InterruptsOK
<1>4. /\ x \in JournalAppend /\ x.event = "delivered" /\ x.then = "sent" /\ x.msg = m
  BY WriteType DEF Continuation
<1> HIDE DEF x
<1>5. worker' \in Worker /\ SameSession(worker, worker')
  BY <1>1, <1>2 DEF Worker, SameSession
<1>6. Calm(worker, worker') /\ worker'.session = s /\ ~worker'.unread
  BY <1>2, <1>3, <1>5 DEF SameSession, Calm
<1>7. OtherShape'
  BY <1>1, <1>2, <1>5 DEF OtherShape, counters
<1>8. overtaken \subseteq overtaken' /\ (m \notin overtaken' => ~Carries(writes, m))
  BY <1>2 DEF Carries, Sending
<1>9. Mail'
  <2>1. CASE box[m].status = "queued" /\ writes' = Append(writes, x)
    <3>1. MailOK(box, durable, Append(writes, x), overtaken', used)
      BY <1>1, <1>4, <1>8, <2>1, DeliveryFits DEF Mail
    <3> QED
      BY <1>2, <2>1, <3>1, MailNext DEF mailbox, counters
  <2>2. CASE writes' = writes
    <3>1. MailOK(box, durable, writes, overtaken', used)
      BY <1>1, <1>8, MailOvertaken DEF Mail
    <3> QED
      BY <1>2, <2>2, <3>1, MailNext DEF mailbox, counters
  <2> QED
    BY <1>2, <2>1, <2>2
<1>10. MessagesKept
  BY <1>2, <1>8 DEF MessagesKept, mailbox, counters
<1>11. ToldKept /\ FailedKept
  BY <1>1, <1>2, <1>4, Longer DEF ToldKept, FailedKept, Told, Carries, mailbox
<1>12. \A i \in interrupts' : i[2] = worker'.session => i[1] # m
  <2> SUFFICES ASSUME NEW i \in interrupts', i[2] = s, i[1] = m PROVE FALSE
    BY <1>6
  <2>1. i \in Messages \X Sessions
    BY <1>1, <1>2 DEF OtherShape
  <2>2. i = <<m, s>>
    BY <2>1
  <2> QED
    BY <1>2, <2>2
<1>13. NewlyHeard
  BY <1>2, <1>3, <1>6, <1>12 DEF NewlyHeard, mailbox
<1>14. NewlyInterrupted /\ RepeatedOnFailure'
  BY <1>2, <1>3, <1>8 DEF NewlyInterrupted, RepeatedOnFailure, MailboxInv, counters
<1> QED
  BY <1>6, <1>7, <1>9, <1>10, <1>11, <1>13, <1>14, StepKeeps

LEMMA SteerFailsKeeps ==
    ASSUME MailboxInv, NEW m \in Messages, NEW s \in Sessions, SteerFails(m, s)
    PROVE  MailboxInv'
<1>1. OtherShape /\ Mail /\ worker \in Worker /\ writes \in Seq(JournalAppend)
  BY ShapesOfType DEF MailboxInv, OtherShape, Mail, MailOK, MailShape
<1>2. /\ <<m, s>> \in interrupts /\ worker' = [worker EXCEPT !.steering = 0]
      /\ interrupts' = interrupts \ {<<m, s>>}
      /\ UNCHANGED <<mailbox, counters, heard, repeated>>
  BY DEF SteerFails
<1>3. box[m].status # "absent" /\ box[m].kind = "steer"
  BY <1>2 DEF MailboxInv, InterruptsOK
<1>4. worker' \in Worker /\ Calm(worker, worker')
  BY <1>1, <1>2 DEF Worker, Calm
<1>5. \/ writes' = writes /\ overtaken' = overtaken
      \/ \E x \in JournalAppend :
            /\ writes' = Append(writes, x)
            /\ x.event = "failed" /\ x.then \in {"none", "lost"} /\ x.msg = m
            /\ overtaken' = IF Delivering(m) THEN overtaken \cup {m} ELSE overtaken
            /\ Status(m) # "acknowledged"
  BY WriteType DEF SteerFails, Overtakes, Continuation
<1>6. /\ Mail' /\ overtaken \subseteq overtaken' /\ overtaken' \subseteq Messages
      /\ ToldKept /\ FailedKept
  <2>1. CASE writes' = writes /\ overtaken' = overtaken
    <3>1. Mail'
      BY <1>1, <1>2, <2>1, MailNext DEF Mail, mailbox, counters
    <3> QED
      BY <1>1, <1>2, <2>1, <3>1 DEF ToldKept, FailedKept, mailbox, OtherShape
  <2>2. ASSUME NEW x \in JournalAppend, writes' = Append(writes, x),
               x.event = "failed", x.then \in {"none", "lost"}, x.msg = m,
               overtaken' = IF Delivering(m) THEN overtaken \cup {m} ELSE overtaken,
               Status(m) # "acknowledged"
        PROVE  /\ Mail' /\ overtaken \subseteq overtaken' /\ overtaken' \subseteq Messages
               /\ ToldKept /\ FailedKept
    <3>1. overtaken \subseteq overtaken' /\ overtaken' \subseteq Messages
      BY <1>1, <2>2 DEF OtherShape
    <3>2. m \notin overtaken' => box[m].status = "queued" /\ ~Carries(writes, m)
      <4>1. box[m].status \in Statuses
        BY <1>1 DEF Mail, MailOK, MailShape, Message, Statuses
      <4> QED
        BY <1>3, <2>2, <4>1 DEF Delivering, Sending, Carries, Status, Statuses
    <3>3. MailOK(box, durable, Append(writes, x), overtaken', used)
      BY <1>1, <1>3, <2>2, <3>1, <3>2, FailureFits DEF Mail
    <3>4. Mail'
      BY <1>2, <2>2, <3>3, MailNext DEF mailbox, counters
    <3>5. ToldKept
      BY <1>1, <1>2, <2>2, Longer DEF ToldKept, Told, Carries, mailbox
    <3>6. FailedKept
      BY <1>1, <1>2, <1>3, <2>2, Longer DEF FailedKept, mailbox
    <3> QED
      BY <3>1, <3>4, <3>5, <3>6
  <2> QED
    BY <1>5, <2>1, <2>2
<1>7. OtherShape'
  BY <1>1, <1>2, <1>4, <1>6 DEF OtherShape, counters
<1>8. MessagesKept /\ NewlyHeard /\ NewlyInterrupted /\ RepeatedOnFailure'
  BY <1>2, <1>6 DEF MessagesKept, NewlyHeard, NewlyInterrupted, RepeatedOnFailure, MailboxInv,
                   mailbox, counters
<1> QED
  BY <1>4, <1>6, <1>7, <1>8, StepKeeps

-----------------------------------------------------------------------------
(* The journal.                                                            *)

\* Everything that holds once the mailbox took over what the append in front says.
TakenOver(c, e, q) ==
    /\ MailOK(c, e, q, overtaken, used)
    /\ \A m \in Messages : Carries(q, m) => Carries(writes, m)
    /\ \A m \in Messages :
          /\ c[m].kind = box[m].kind
          /\ box[m].status # "absent" => c[m].status # "absent"
          /\ m # Head(writes).msg => c[m] = box[m]
    /\ c[Head(writes).msg].status = Updated(Head(writes).event)
    /\ Head(writes).event = "enqueued" => ~Carries(q, Head(writes).msg)
    /\ failures = 0 => \A m \in Messages :
          box[m].status # "absent" /\ box[m].kind # "steer" /\ Told(box, writes, m)
             => Told(c, q, m)
    /\ \A i \in DOMAIN q : q[i].event = "failed" =>
          (\E j \in DOMAIN writes : writes[j] = q[i]) \/ c[q[i].msg].kind = "steer"

LEMMA HeadOK ==
    ASSUME MailboxInv, writes # <<>>
    PROVE  /\ Head(writes) \in JournalAppend /\ Head(writes).msg \in Messages
           /\ WriteOK(box, overtaken, used, Head(writes))
           /\ Head(writes) = writes[1] /\ 1 \in DOMAIN writes
           /\ writes \in Seq(JournalAppend) /\ Tail(writes) \in Seq(JournalAppend)
           /\ box \in [Messages -> Message]
<1>1. writes \in Seq(JournalAppend) /\ box \in [Messages -> Message]
  BY DEF MailboxInv, Mail, MailOK, MailShape
<1>2. /\ Head(writes) \in JournalAppend /\ Head(writes) = writes[1] /\ 1 \in DOMAIN writes
      /\ Tail(writes) \in Seq(JournalAppend)
  BY <1>1, HeadTail
<1> QED
  BY <1>1, <1>2 DEF MailboxInv, Mail, MailOK, WritesOK, JournalAppend

LEMMA TakesOver ==
    ASSUME MailboxInv, writes # <<>>
    PROVE  TakenOver(Remembers(box, Head(writes)), Keeps(durable, Head(writes)), Tail(writes))
<1> DEFINE w == Head(writes)
           c == Remembers(box, w)
           e == Keeps(durable, w)
           q == Tail(writes)
<1>1. /\ w \in JournalAppend /\ w.msg \in Messages /\ WriteOK(box, overtaken, used, w)
      /\ w = writes[1] /\ writes \in Seq(JournalAppend) /\ box \in [Messages -> Message]
  BY HeadOK
<1>2. Updated(w.event) \in {"queued", "delivered", "acknowledged"}
  BY <1>1 DEF Updated, JournalAppend
<1>3. /\ MailOK(c, e, q, overtaken, used)
      /\ w.event = "enqueued" => \A i \in DOMAIN q : q[i].msg # w.msg
  BY MailTaken DEF MailboxInv, Mail
<1>4. /\ \A m \in Messages : c[m].kind = box[m].kind /\ (m # w.msg => c[m] = box[m])
      /\ c[w.msg].status = Updated(w.event)
  BY <1>1 DEF Remembers, Message
<1>5. /\ \A i \in DOMAIN q : i + 1 \in DOMAIN writes /\ q[i] = writes[i + 1]
      /\ \A i \in DOMAIN writes : i = 1 \/ (i - 1 \in DOMAIN q /\ q[i - 1] = writes[i])
  BY <1>1, HeadTail
<1> HIDE DEF w, c, e, q
<1>6. \A m \in Messages : Carries(q, m) => Carries(writes, m)
  BY <1>5 DEF Carries
<1>7. \A m \in Messages : box[m].status # "absent" => c[m].status # "absent"
  BY <1>2, <1>4
<1>8. ASSUME failures = 0, NEW m \in Messages, box[m].status # "absent",
             box[m].kind # "steer", Told(box, writes, m)
      PROVE  Told(c, q, m)
  <2>1. CASE m # w.msg
    <3>1. c[m] = box[m]
      BY <1>4, <2>1
    <3>2. Carries(writes, m) => Carries(q, m)
      BY <1>1, <1>5, <2>1 DEF Carries
    <3> QED
      BY <1>8, <3>1, <3>2 DEF Told
  <2>2. CASE m = w.msg
    <3>1. w.event # "enqueued"
      BY <1>1, <1>8, <2>2 DEF WriteOK
    <3>2. w.event # "failed"
      BY <1>1, <1>8, <2>2, HeadOK DEF MailboxInv, RetriesOK
    <3>3. w.event \in {"delivered", "acknowledged"}
      BY <1>1, <3>1, <3>2 DEF JournalAppend
    <3> QED
      BY <1>4, <2>2, <3>3 DEF Told, Updated
  <2> QED
    BY <2>1, <2>2
<1>9. \A i \in DOMAIN q : \E j \in DOMAIN writes : writes[j] = q[i]
  BY <1>5
<1>10. w.event = "enqueued" => ~Carries(q, w.msg)
  BY <1>3 DEF Carries
<1>11. TakenOver(c, e, q)
  BY <1>3, <1>4, <1>6, <1>7, <1>8, <1>9, <1>10 DEF TakenOver, w
<1> QED
  BY <1>11 DEF w, c, e, q

\* A receipt, or steering that is given up, is one more append.
LEMMA TakesMore ==
    ASSUME MailboxInv, writes # <<>>, NEW c, NEW e, NEW q, TakenOver(c, e, q),
           NEW x \in JournalAppend, x.event \in {"acknowledged", "failed"},
           x.event = "failed" => c[x.msg].kind = "steer",
           MailOK(c, e, Append(q, x), overtaken, used)
    PROVE  TakenOver(c, e, Append(q, x))
<1>1. q \in Seq(JournalAppend)
  BY DEF TakenOver, MailOK, MailShape
<1>2. \A m : Carries(Append(q, x), m) <=> Carries(q, m)
  BY <1>1, Longer DEF Carries
<1>3. \A i \in DOMAIN Append(q, x) : Append(q, x)[i].event = "failed" =>
          \/ \E j \in DOMAIN writes : writes[j] = Append(q, x)[i]
          \/ c[Append(q, x)[i].msg].kind = "steer"
  BY <1>1, Longer DEF TakenOver
<1>4. \A m \in Messages : Carries(Append(q, x), m) => Carries(writes, m)
  BY <1>2 DEF TakenOver
<1>5. Head(writes).event = "enqueued" => ~Carries(Append(q, x), Head(writes).msg)
  BY <1>2 DEF TakenOver
<1>6. failures = 0 => \A m \in Messages :
          box[m].status # "absent" /\ box[m].kind # "steer" /\ Told(box, writes, m)
             => Told(c, Append(q, x), m)
  BY <1>2 DEF TakenOver, Told
<1> QED
  BY <1>3, <1>4, <1>5, <1>6 DEF TakenOver

\* The rest is up to the caller.
LEMMA TakenAndTalked ==
    ASSUME MailboxInv, writes # <<>>, NEW c, NEW e, NEW q, TakenOver(c, e, q),
           Talks(c, e, q), box' = c, durable' = e, UNCHANGED <<used, counters>>,
           worker' \in Worker, Calm(worker, worker'),
           interrupts' \subseteq Messages \X Sessions, NewlyInterrupted
    PROVE  MailboxInv'
<1>1. OtherShape
  BY ShapesOfType DEF MailboxInv
<1>2. OtherShape'
  BY <1>1 DEF Talks, OtherShape, counters
<1>3. Mail'
  BY MailNext DEF Talks, counters
<1>4. MessagesKept
  BY DEF MessagesKept, TakenOver, Talks, counters
<1>5. ToldKept
  BY DEF ToldKept, Told, TakenOver, Talks, counters
<1>6. FailedKept
  <2> SUFFICES ASSUME NEW i \in DOMAIN writes', writes'[i].event = "failed"
               PROVE  \/ \E j \in DOMAIN writes : writes[j] = writes'[i]
                      \/ c[writes'[i].msg].kind = "steer"
    BY DEF FailedKept
  <2>1. PICK j \in DOMAIN q : q[j] = writes'[i]
    BY DEF Talks
  <2> QED
    BY <2>1 DEF TakenOver
<1>7. NewlyHeard
  BY DEF NewlyHeard, Told, Talks
<1>8. RepeatedOnFailure'
  BY DEF RepeatedOnFailure, Talks, counters
<1> QED
  BY <1>2, <1>3, <1>4, <1>5, <1>6, <1>7, <1>8, StepKeeps

\* The end of a drain.
LEMMA DrainEndsWorker ==
    ASSUME NEW w \in Worker, NEW s, NEW ms, DrainEnds(w, s, ms)
    PROVE  /\ worker' \in Worker /\ Calm(w, worker')
           /\ \/ w.session # 0 /\ SendsFollowUp(ms, Tail(writes))
              \/ TellsNothing /\ writes' = Tail(writes)
<1> DEFINE idle == [w EXCEPT !.draining = IF @ = s THEN 0 ELSE @,
                             !.boundary = @ \ {s}, !.parking = @ \ {s}]
<1>1. idle \in Worker /\ SameSession(w, idle)
  BY DEF Worker, SameSession
<1>2. worker' = Submitted(idle) \/ worker' = idle
  BY DEF DrainEnds
<1>3. DeliversFollowUp(idle, ms, Tail(writes)) \/ (TellsNothing /\ writes' = Tail(writes))
  BY DEF DrainEnds
<1> HIDE DEF idle
<1>4. worker' \in Worker /\ Calm(w, worker')
  BY <1>1, <1>2, SubmittedWorker, CalmAfterSame DEF SameSession, Calm
<1>5. \/ w.session # 0 /\ SendsFollowUp(ms, Tail(writes))
      \/ TellsNothing /\ writes' = Tail(writes)
  BY <1>1, <1>3 DEF DeliversFollowUp, CanHear, Live, SameSession
<1> QED
  BY <1>4, <1>5

LEMMA AppendedKeeps == ASSUME MailboxInv, Appended PROVE MailboxInv'
<1> DEFINE w == Head(writes)
           c == Remembers(box, w)
           e == Keeps(durable, w)
           q == Tail(writes)
<1>1. OtherShape /\ worker \in Worker /\ writes # <<>>
  BY ShapesOfType DEF MailboxInv, OtherShape, Appended
<1>2. /\ w \in JournalAppend /\ w.msg \in Messages /\ WriteOK(box, overtaken, used, w)
      /\ q \in Seq(JournalAppend)
  BY <1>1, HeadOK
<1>3. TakenOver(c, e, q)
  BY <1>1, TakesOver
<1>4. box' = c /\ durable' = e /\ UNCHANGED <<used, counters>>
  BY DEF Appended, Remembers, Keeps
<1>5. MailOK(c, e, q, overtaken, used)
  BY <1>3 DEF TakenOver
<1>6. \/ GoesOn(w) /\ writes' = q /\ UNCHANGED <<worker, interrupts, history>>
      \/ (Forks(w) \/ Restarts(w) \/ Sent(w)) /\ writes' = q /\ UNCHANGED <<interrupts, history>>
      \/ CannotSteer(w) /\ UNCHANGED <<interrupts, history>>
      \/ Steering(w) /\ writes' = q /\ UNCHANGED history
      \/ Corrects(w) /\ UNCHANGED <<worker, interrupts>>
      \/ Acknowledged(w) /\ UNCHANGED interrupts
  BY DEF Appended
<1>7. w.event = "enqueued" =>
          /\ box[w.msg].status = "absent" /\ c[w.msg].status = "queued"
          /\ ~Carries(q, w.msg) /\ w.msg \notin heard
  BY <1>2, <1>3 DEF TakenOver, Updated, WriteOK, MailboxInv, HeardOK
<1> USE <1>1
<1> HIDE DEF w, c, e, q
\* Nothing is sent, and no turn is interrupted.
<1>8. ASSUME NEW p, TakenOver(c, e, p), writes' = p, TellsNothing,
             worker' \in Worker, Calm(worker, worker'), UNCHANGED interrupts
      PROVE  MailboxInv'
  <2>1. Talks(c, e, p)
    BY <1>8, Silent DEF TakenOver
  <2>2. interrupts' \subseteq Messages \X Sessions /\ NewlyInterrupted
    BY <1>8 DEF NewlyInterrupted, OtherShape
  <2> QED
    BY <1>4, <1>8, <2>1, <2>2, TakenAndTalked
<1>9. CASE GoesOn(w) /\ writes' = q /\ UNCHANGED <<worker, interrupts, history>>
  <2>1. worker' \in Worker /\ Calm(worker, worker')
    BY <1>9 DEF Calm
  <2> QED
    BY <1>3, <1>8, <1>9, <2>1 DEF history, TellsNothing
<1>10. CASE (Forks(w) \/ Restarts(w) \/ Sent(w)) /\ writes' = q /\ UNCHANGED <<interrupts, history>>
  <2>1. ASSUME Forks(w) PROVE worker' \in Worker /\ Calm(worker, worker')
    BY <2>1, FreshWorker DEF Forks
  <2>2. ASSUME Restarts(w) PROVE worker' \in Worker /\ Calm(worker, worker')
    BY <2>2, ParkedWorker DEF Restarts
  <2>3. ASSUME Sent(w) PROVE worker' \in Worker /\ Calm(worker, worker')
    BY <1>2, <2>3 DEF Sent, Worker, Calm
  <2> QED
    BY <1>3, <1>8, <1>10, <2>1, <2>2, <2>3 DEF history, TellsNothing
<1>11. CASE CannotSteer(w) /\ UNCHANGED <<interrupts, history>>
  <2> DEFINE x == Write("failed", w.msg, "none")
  <2>1. /\ worker' = [worker EXCEPT !.steering = 0] /\ writes' = Append(q, x)
        /\ w.then = "steer"
    BY <1>11 DEF CannotSteer, q
  <2>2. x \in JournalAppend /\ x.event = "failed" /\ x.then = "none" /\ x.msg = w.msg
    BY <1>2, WriteType DEF Continuation
  <2> HIDE DEF x
  <2>3. worker' \in Worker /\ Calm(worker, worker')
    BY <2>1 DEF Worker, Calm
  <2>4. w.event = "enqueued" /\ c[w.msg].kind = "steer"
    BY <1>2, <1>3, <2>1 DEF WriteOK, EventsOf, TakenOver
  <2>5. MailOK(c, e, Append(q, x), overtaken, used)
    BY <1>2, <1>5, <1>7, <2>2, <2>4, FailureFits
  <2>6. TakenOver(c, e, Append(q, x))
    BY <1>3, <2>2, <2>4, <2>5, TakesMore
  <2> QED
    BY <1>8, <1>11, <2>1, <2>3, <2>6 DEF history, TellsNothing
<1>12. CASE Steering(w) /\ writes' = q /\ UNCHANGED history
  <2>1. /\ w.then = "steer" /\ ~worker.unread /\ worker.session # 0
        /\ worker' = [worker EXCEPT !.steering = w.msg]
        /\ interrupts' = interrupts \cup {<<w.msg, worker.session>>}
    BY <1>12 DEF Steering
  <2>2. /\ worker' \in Worker /\ Calm(worker, worker') /\ ~worker'.unread
        /\ worker.session \in Sessions
    BY <1>2, <2>1 DEF Worker, Calm
  <2>3. w.event = "enqueued" /\ c[w.msg].kind = "steer"
    BY <1>2, <1>3, <2>1 DEF WriteOK, EventsOf, TakenOver
  <2>4. Talks(c, e, q)
    BY <1>5, <1>12, Silent DEF history, TellsNothing
  <2>5. interrupts' \subseteq Messages \X Sessions
    BY <1>2, <2>1, <2>2 DEF OtherShape
  <2>6. NewlyInterrupted
    BY <1>4, <1>7, <1>12, <2>1, <2>2, <2>3 DEF NewlyInterrupted, history
  <2> QED
    BY <1>3, <1>4, <2>2, <2>4, <2>5, <2>6, TakenAndTalked
<1>13. CASE Corrects(w) /\ UNCHANGED <<worker, interrupts>>
  <2> DEFINE x == Write("delivered", w.msg, "sent")
  <2>1. /\ w.then = "correct" /\ writes' = Append(q, x)
        /\ Tells(w.msg) \/ TellsNothing
    BY <1>13 DEF Corrects, q
  <2>2. x \in JournalAppend /\ x.event = "delivered" /\ x.then = "sent" /\ x.msg = w.msg
    BY <1>2, WriteType DEF Continuation
  <2> HIDE DEF x
  <2>3. w.event = "enqueued" /\ c[w.msg].kind # "steer"
    BY <1>2, <1>3, <2>1 DEF WriteOK, EventsOf, TakenOver
  <2>4. /\ overtaken \subseteq overtaken' /\ overtaken' \subseteq Messages
        /\ heard' \subseteq heard \cup {w.msg} /\ repeated' = repeated
    BY <1>2, <1>7, <2>1, <2>3 DEF Tells, TellsNothing, Overtakes, OtherShape
  <2>5. MailOK(c, e, writes', overtaken', used)
    BY <1>2, <1>5, <1>7, <2>1, <2>2, <2>3, <2>4, DeliveryFits
  <2>6. Carries(writes', w.msg) /\ \A m \in Messages : Carries(q, m) => Carries(writes', m)
    BY <1>2, <2>1, <2>2, Longer DEF Carries
  <2>7. \A i \in DOMAIN writes' : writes'[i].event = "failed" =>
            \E j \in DOMAIN q : q[j] = writes'[i]
    BY <1>2, <2>1, <2>2, Longer
  <2>8. failures = 0 => repeated' \subseteq overtaken'
    BY <2>4 DEF MailboxInv, RepeatedOnFailure
  <2>9. \A m \in heard' \ heard :
            c[m].status # "absent" /\ c[m].kind # "steer" /\ Carries(writes', m)
    BY <1>7, <2>3, <2>4, <2>6
  <2>10. heard' \subseteq Messages /\ repeated' \subseteq Messages
    BY <1>2, <2>4 DEF OtherShape
  <2>11. Talks(c, e, q)
    BY <2>4, <2>5, <2>6, <2>7, <2>8, <2>9, <2>10 DEF Talks
  <2>12. /\ worker' \in Worker /\ Calm(worker, worker')
         /\ interrupts' \subseteq Messages \X Sessions /\ NewlyInterrupted
    BY <1>13 DEF Calm, NewlyInterrupted, OtherShape
  <2> QED
    BY <1>3, <1>4, <2>11, <2>12, TakenAndTalked
<1>14. CASE Acknowledged(w) /\ UNCHANGED interrupts
  <2> DEFINE rest == Forgets(worker, w.msg)
             x == [w EXCEPT !.msg = rest.consumed]
             ms == FollowUps(rest) \ {w.msg}
  <2>1. /\ rest \in Worker /\ SameSession(worker, rest) /\ rest.consumed # w.msg
    BY <1>2, Bounds, ForgetsWorker
  <2>2. w.then = "ack" /\ w.event = "acknowledged"
    BY <1>2, <1>14 DEF Acknowledged, WriteOK, EventsOf
  <2>3. CASE MustDrain(rest)
    <3>1. worker' = rest /\ writes' = Append(q, x) /\ TellsNothing
      BY <1>14, <2>3 DEF Acknowledged, q
    <3>2. rest.consumed \in Messages /\ box[rest.consumed].status = "delivered"
      BY <2>1, <2>3 DEF MustDrain, Status, Worker
    <3>3. /\ x \in JournalAppend /\ x.event = "acknowledged" /\ x.then = "ack"
          /\ x.msg = rest.consumed
      BY <1>2, <2>2, <3>2 DEF JournalAppend
    <3> HIDE DEF x, rest
    <3>4. c[x.msg].status = "delivered"
      BY <1>3, <2>1, <3>2, <3>3 DEF TakenOver, w
    <3>5. MailOK(c, e, Append(q, x), overtaken, used)
      BY <1>5, <3>2, <3>3, <3>4, ReceiptFits
    <3>6. TakenOver(c, e, Append(q, x))
      BY <1>3, <3>3, <3>5, TakesMore
    <3>7. worker' \in Worker /\ Calm(worker, worker')
      BY <2>1, <3>1 DEF SameSession, Calm
    <3> QED
      BY <1>8, <1>14, <3>1, <3>6, <3>7
  <2>4. CASE ~MustDrain(rest)
    <3>1. DrainEnds(Dropped(rest), w.session, ms)
      BY <1>14, <2>4 DEF Acknowledged
    <3>2. Dropped(rest) \in Worker /\ SameSession(rest, Dropped(rest))
      BY <2>1, DroppedWorker
    <3>3. \A m \in ms : /\ m \in Messages /\ c[m] = box[m] /\ c[m].status = "queued"
                        /\ c[m].kind # "steer"
      BY <1>3, FollowUpsQueued DEF TakenOver, w
    <3> HIDE DEF rest, ms
    <3>4. /\ worker' \in Worker /\ Calm(Dropped(rest), worker')
          /\ \/ Dropped(rest).session # 0 /\ SendsFollowUp(ms, q)
             \/ TellsNothing /\ writes' = q
      BY <3>1, <3>2, DrainEndsWorker DEF q
    <3>5. Calm(worker, worker')
      BY <2>1, <3>2, <3>4, CalmAfterSame
    <3>6. CASE TellsNothing /\ writes' = q
      BY <1>3, <1>8, <1>14, <3>4, <3>5, <3>6
    <3>7. CASE Dropped(rest).session # 0 /\ SendsFollowUp(ms, q)
      <4>1. worker.session # 0 /\ ms \in SUBSET Messages
        BY <2>1, <3>2, <3>3, <3>7 DEF SameSession
      <4>2. \A m \in Messages : Carries(q, m) => Carries(writes, m)
        BY <1>3 DEF TakenOver
      <4>3. Talks(c, e, q)
        BY <1>5, <3>3, <3>7, <4>1, <4>2, Sends
      <4>4. interrupts' \subseteq Messages \X Sessions /\ NewlyInterrupted
        BY <1>14 DEF NewlyInterrupted, OtherShape
      <4> QED
        BY <1>3, <1>4, <3>4, <3>5, <4>3, <4>4, TakenAndTalked
    <3> QED
      BY <3>4, <3>6, <3>7
  <2> QED
    BY <2>3, <2>4
<1> QED
  BY <1>6, <1>9, <1>10, <1>11, <1>12, <1>13, <1>14

\* A failed append.
LEMMA Failed ==
    ASSUME MailboxInv, UNCHANGED <<mailbox, interrupts, crashes>>,
           failures' = failures + 1, failures' \in 0 .. MaxFailures,
           MailOK(box, durable, writes', overtaken', used),
           overtaken \subseteq overtaken', overtaken' \subseteq Messages,
           heard' \subseteq Messages, repeated' \subseteq Messages,
           \A m \in heard' \ heard : box[m].status # "absent" /\ box[m].kind # "steer",
           worker' \in Worker, Calm(worker, worker')
    PROVE  MailboxInv'
<1>1. OtherShape
  BY ShapesOfType DEF MailboxInv
<1>2. failures' # 0
  BY <1>1 DEF OtherShape
<1>3. OtherShape'
  BY <1>1 DEF OtherShape
<1>4. Mail'
  BY MailNext DEF mailbox
<1>5. /\ MessagesKept /\ ToldKept /\ FailedKept /\ NewlyHeard /\ NewlyInterrupted
      /\ RepeatedOnFailure'
  BY <1>2 DEF MessagesKept, ToldKept, FailedKept, NewlyHeard, NewlyInterrupted,
              RepeatedOnFailure, mailbox
<1> QED
  BY <1>3, <1>4, <1>5, StepKeeps

LEMMA AppendFailsKeeps == ASSUME MailboxInv, AppendFails PROVE MailboxInv'
<1> DEFINE w == Head(writes)
           q == Tail(writes)
           x == Write("failed", w.msg, "none")
           lost == Status(w.msg) # "acknowledged"
<1>1. /\ OtherShape /\ worker \in Worker /\ writes # <<>>
      /\ RepeatedOnFailure /\ MailOK(box, durable, writes, overtaken, used)
  BY ShapesOfType DEF MailboxInv, OtherShape, AppendFails, Mail
<1>2. /\ w \in JournalAppend /\ w.msg \in Messages /\ WriteOK(box, overtaken, used, w)
      /\ q \in Seq(JournalAppend) /\ box[w.msg].status \in Statuses
  BY <1>1, HeadOK DEF Message, Statuses
<1>3. x \in JournalAppend /\ x.event = "failed" /\ x.then = "none" /\ x.msg = w.msg
  BY <1>2, WriteType DEF Continuation
<1>4. /\ UNCHANGED <<mailbox, interrupts, crashes>> /\ failures' = failures + 1
      /\ failures' \in 0 .. MaxFailures
  BY <1>1, Bounds DEF AppendFails, OtherShape
<1>5. MailOK(box, durable, q, overtaken, used)
  BY <1>1, MailLose
<1>6. w.msg \notin overtaken /\ w.event = "delivered" => ~Carries(q, w.msg)
  BY <1>1, MailTaken DEF Carries
<1>7. \/ /\ w.then = "sent"
         /\ worker' = [worker EXCEPT !.steering = IF box[w.msg].kind = "steer" THEN 0 ELSE @]
         /\ writes' = q \o (IF lost THEN <<x>> ELSE <<>>)
         /\ TellsNothing
      \/ w.then = "ack" /\ DrainEnds(worker, w.session, FollowUps(worker))
      \/ /\ w.then = "lost"
         /\ writes' = q \o (IF lost THEN <<x>> ELSE <<>>)
         /\ overtaken' = IF Delivering(w.msg) THEN overtaken \cup {w.msg} ELSE overtaken
         /\ UNCHANGED <<worker, heard, repeated>>
      \/ /\ w.then \notin {"sent", "ack", "lost"}
         /\ writes' = q /\ UNCHANGED worker /\ TellsNothing
  BY DEF AppendFails, Overtakes
<1> USE <1>1
<1> HIDE DEF w, q, x
<1>8. ASSUME writes' = q \o (IF lost THEN <<x>> ELSE <<>>),
             overtaken \subseteq overtaken', overtaken' \subseteq Messages,
             UNCHANGED <<heard, repeated>>, worker' \in Worker, Calm(worker, worker'),
             box[w.msg].status # "absent",
             w.msg \notin overtaken' /\ lost =>
                 box[w.msg].status = "queued" /\ ~Carries(q, w.msg)
      PROVE  MailboxInv'
  <2>1. MailOK(box, durable, q, overtaken', used)
    BY <1>5, <1>8, MailOvertaken
  <2>2. MailOK(box, durable, writes', overtaken', used)
    <3>1. CASE lost
      <4>1. writes' = Append(q, x)
        BY <1>2, <1>3, <1>8, <3>1, AppendIsConcat
      <4> QED
        BY <1>2, <1>3, <1>8, <2>1, <3>1, <4>1, FailureFits
    <3>2. CASE ~lost
      <4>1. writes' = q
        BY <1>2, <1>8, <3>2, ConcatEmptySeq
      <4> QED
        BY <2>1, <4>1
    <3> QED
      BY <3>1, <3>2
  <2> QED
    BY <1>4, <1>8, <2>2, Failed DEF OtherShape
<1>9. CASE /\ w.then = "sent"
           /\ worker' = [worker EXCEPT !.steering = IF box[w.msg].kind = "steer" THEN 0 ELSE @]
           /\ writes' = q \o (IF lost THEN <<x>> ELSE <<>>)
           /\ TellsNothing
  <2>1. worker' \in Worker /\ Calm(worker, worker')
    BY <1>9 DEF Worker, Calm
  <2>2. w.event = "delivered" /\ box[w.msg].status # "absent"
    BY <1>2, <1>9 DEF WriteOK, EventsOf
  <2>3. w.msg \notin overtaken => box[w.msg].status = "queued" /\ ~Carries(q, w.msg)
    BY <1>2, <1>6, <2>2 DEF WriteOK, Fits, Statuses
  <2> QED
    BY <1>8, <1>9, <2>1, <2>2, <2>3 DEF TellsNothing, OtherShape
<1>10. CASE w.then = "ack" /\ DrainEnds(worker, w.session, FollowUps(worker))
  <2>1. /\ worker' \in Worker /\ Calm(worker, worker')
        /\ \/ worker.session # 0 /\ SendsFollowUp(FollowUps(worker), q)
           \/ TellsNothing /\ writes' = q
    BY <1>10, DrainEndsWorker DEF q
  <2>2. Talks(box, durable, q)
    <3>1. CASE TellsNothing /\ writes' = q
      BY <1>5, <3>1, Silent
    <3>2. CASE worker.session # 0 /\ SendsFollowUp(FollowUps(worker), q)
      <4>1. FollowUps(worker) \in SUBSET Messages
        BY DEF FollowUps
      <4>2. \A m \in Messages : Carries(q, m) => Carries(writes, m)
        BY TakesOver DEF TakenOver, q
      <4> QED
        BY <1>5, <3>2, <4>1, <4>2, FollowUpsQueued, Sends
    <3> QED
      BY <2>1, <3>1, <3>2
  <2> QED
    BY <1>4, <2>1, <2>2, Failed DEF Talks
<1>11. CASE /\ w.then = "lost"
            /\ writes' = q \o (IF lost THEN <<x>> ELSE <<>>)
            /\ overtaken' = IF Delivering(w.msg) THEN overtaken \cup {w.msg} ELSE overtaken
            /\ UNCHANGED <<worker, heard, repeated>>
  <2>1. worker' \in Worker /\ Calm(worker, worker')
    BY <1>11 DEF Calm
  <2>2. w.event = "failed" /\ box[w.msg].status # "absent"
    BY <1>2, <1>11 DEF WriteOK, EventsOf
  <2>3. overtaken \subseteq overtaken' /\ overtaken' \subseteq Messages
    BY <1>2, <1>11 DEF OtherShape
  <2>4. Carries(q, w.msg) => Carries(writes, w.msg)
    BY <1>2, TakesOver DEF TakenOver, q
  <2>5. w.msg \notin overtaken' /\ lost =>
            box[w.msg].status = "queued" /\ ~Carries(q, w.msg)
    BY <1>2, <1>11, <2>2, <2>4 DEF Delivering, Sending, Carries, Status, Statuses
  <2> QED
    BY <1>8, <1>11, <2>1, <2>2, <2>3, <2>5
<1>12. CASE /\ w.then \notin {"sent", "ack", "lost"}
            /\ writes' = q /\ UNCHANGED worker /\ TellsNothing
  <2>1. worker' \in Worker /\ Calm(worker, worker')
    BY <1>12 DEF Calm
  <2> QED
    BY <1>4, <1>5, <1>12, <2>1, Failed DEF TellsNothing, OtherShape
<1> QED
  BY <1>7, <1>9, <1>10, <1>11, <1>12

\* A restart finds what the journal kept, and nothing under way.
LEMMA CrashKeeps == ASSUME MailboxInv, Crash PROVE MailboxInv'
<1>1. OtherShape /\ MailOK(box, durable, writes, overtaken, used) /\ RepeatedOnFailure
  BY ShapesOfType DEF MailboxInv, Mail
<1>2. /\ worker'.session = 0 /\ worker' \in Worker /\ writes' = <<>> /\ interrupts' = {}
      /\ UNCHANGED <<durable, used, failures, history>> /\ crashes' = crashes + 1
      /\ crashes' \in 0 .. MaxCrashes
      /\ box' = [m \in Messages |-> Restored(m)]
  <2>1. worker' \in Worker /\ worker'.session = 0
    <3> DEFINE status == IF worker.status = "running" \/ worker.status = "pending"
                         THEN "ended" ELSE worker.status
    <3>1. worker \in Worker
      BY <1>1 DEF OtherShape
    <3>2. status \in {"pending", "running", "parked", "ended", "accepted"}
      BY <3>1 DEF Worker
    <3>3. worker' = [worker EXCEPT !.status = status,
                                  !.session = 0, !.starting = FALSE, !.unread = FALSE,
                                  !.reported = FALSE, !.recovered = FALSE, !.steering = 0,
                                  !.consumed = 0, !.draining = 0, !.boundary = {},
                                  !.parking = {}]
      BY <3>1 DEF Crash
    <3> HIDE DEF status
    <3> QED
      BY <3>1, <3>2, <3>3 DEF Worker
  <2> QED
    BY <1>1, <2>1, Bounds DEF Crash, OtherShape
<1>3. OtherShape'
  BY <1>1, <1>2 DEF OtherShape, history
<1>4. \A m \in Messages :
          /\ box'[m] \in Message
          /\ box'[m].status = IF durable[m] = "delivered" THEN "queued" ELSE durable[m]
  BY <1>1, <1>2 DEF MailOK, MailShape, Restored, Message, Statuses
<1>5. MailShape(box', durable', writes', used')
  BY <1>1, <1>2, <1>4 DEF MailOK, MailShape
<1>6. \A m \in Messages :
          /\ box'[m].status = "absent" <=> durable'[m] = "absent"
          /\ m > used' => box'[m].status = "absent"
          /\ m \notin overtaken' =>
                \/ box'[m].status = durable'[m]
                \/ box'[m].status = "queued" /\ durable'[m] = "delivered" /\ crashes' > 0
  <2> SUFFICES ASSUME NEW m \in Messages
               PROVE  /\ box'[m].status = "absent" <=> durable'[m] = "absent"
                      /\ m > used' => box'[m].status = "absent"
                      /\ box'[m].status = durable'[m]
                         \/ (/\ box'[m].status = "queued" /\ durable'[m] = "delivered"
                             /\ crashes' > 0)
    OBVIOUS
  <2>1. MessageOK(box, durable, overtaken, used, m)
    BY <1>1 DEF MailOK, MessagesOK
  <2>2. m > used => durable[m] = "absent"
    BY <2>1 DEF MessageOK
  <2>3. crashes' > 0
    BY <1>1, <1>2 DEF OtherShape
  <2> QED
    BY <1>2, <1>4, <2>2, <2>3
<1>7. Mail'
  BY <1>2, <1>5, <1>6 DEF Mail, MailOK, WritesOK, OrderOK, MessagesOK, MessageOK, MailShape
<1>8. TypeOK'
  <2>1. (Mail => (TypeOK <=> OtherShape))'
    BY ShapesOfType, PTL
  <2> QED
    BY <1>3, <1>7, <2>1
<1>9. RetriesOK' /\ InterruptsOK' /\ RepeatedOnFailure'
  BY <1>1, <1>2 DEF RetriesOK, InterruptsOK, RepeatedOnFailure, history
<1>10. HeardOK'
  <2> SUFFICES ASSUME NEW m \in heard
               PROVE  box'[m].status # "absent"
    BY <1>2 DEF HeardOK, history
  <2>1. m \in Messages /\ box[m].status # "absent"
    BY <1>1 DEF OtherShape, MailboxInv, HeardOK
  <2>2. durable[m] # "absent"
    BY <1>1, <2>1 DEF MailOK, MessagesOK, MessageOK
  <2> QED
    BY <1>4, <2>1, <2>2
<1> QED
  BY <1>7, <1>8, <1>9, <1>10 DEF MailboxInv

-----------------------------------------------------------------------------
(* The theorems.                                                           *)

\* The empty mailbox.
LEMMA MailboxInit == Init => MailboxInv
<1> SUFFICES ASSUME Init PROVE MailboxInv
  OBVIOUS
<1>1. worker \in Worker
  BY Bounds DEF Init, Worker
<1>2. box \in [Messages -> Message]
  BY Bounds DEF Init, Message, Kinds
<1>3. OtherShape
  BY <1>1, Bounds DEF Init, OtherShape
<1>4. MailShape(box, durable, writes, used)
  BY <1>2, Bounds DEF Init, MailShape, Statuses
<1>5. Mail
  BY <1>4 DEF Init, Mail, MailOK, WritesOK, OrderOK, MessagesOK, MessageOK
<1>6. HeardOK /\ RetriesOK /\ InterruptsOK /\ RepeatedOnFailure
  BY DEF Init, HeardOK, RetriesOK, InterruptsOK, RepeatedOnFailure
<1> QED
  BY <1>3, <1>5, <1>6, ShapesOfType DEF MailboxInv

\* A step that changes nothing.
LEMMA StutterKeeps == ASSUME MailboxInv, UNCHANGED vars PROVE MailboxInv'
<1>1. OtherShape
  BY ShapesOfType DEF MailboxInv
<1>2. worker' \in Worker /\ Calm(worker, worker')
  BY <1>1 DEF OtherShape, vars, Calm
<1> QED
  BY <1>2, WorkerMoves DEF vars, mailbox, counters, history

LEMMA MailboxStep == MailboxInv /\ [Next]_vars => MailboxInv'
<1> SUFFICES ASSUME MailboxInv, [Next]_vars PROVE MailboxInv'
  OBVIOUS
<1>1. CASE FollowsUp \/ Steer \/ AsksForReport \/ RecoversReport \/ RestartsStalled
  BY <1>1, FollowsUpKeeps, SteerKeeps, AsksForReportKeeps, RecoversReportKeeps,
     RestartsStalledKeeps
<1>2. CASE Reviewed \/ Ends \/ Resumed \/ Launched
  BY <1>2, ReviewedKeeps, EndsKeeps, ResumedKeeps, LaunchedKeeps
<1>3. CASE Prompts \/ Speaks \/ TurnEnds \/ Reports
  BY <1>3, PromptsKeeps, SpeaksKeeps, TurnEndsKeeps, ReportsKeeps
<1>4. CASE \E m \in Messages, s \in Sessions : Steered(m, s) \/ SteerFails(m, s)
  BY <1>4, SteeredKeeps, SteerFailsKeeps
<1>5. CASE Appended \/ AppendFails \/ Crash
  BY <1>5, AppendedKeeps, AppendFailsKeeps, CrashKeeps
<1>6. CASE UNCHANGED vars
  BY <1>6, StutterKeeps
<1> QED
  BY <1>1, <1>2, <1>3, <1>4, <1>5, <1>6 DEF Next

\* The invariant of the mailbox holds throughout.
THEOREM MailboxInvariant == Spec => []MailboxInv
<1>1. Init => MailboxInv
  BY MailboxInit
<1>2. MailboxInv /\ [Next]_vars => MailboxInv'
  BY MailboxStep
<1> QED
  BY <1>1, <1>2, PTL DEF Spec

LEMMA InvariantMatches == MailboxInv => MemoryMatchesJournal
<1> SUFFICES ASSUME MailboxInv PROVE MemoryMatchesJournal
  OBVIOUS
<1>1. \A m \in Messages : MessageOK(box, durable, overtaken, used, m)
  BY DEF MailboxInv, Mail, MailOK, MessagesOK
<1> QED
  BY <1>1 DEF MailboxInv, MemoryMatchesJournal, MessageOK, Status

\* Memory and journal agree: a restart replays what the mailbox said, and only what a
\* restart found unacknowledged is queued again.
THEOREM JournalMatches == Spec => []MemoryMatchesJournal
BY MailboxInvariant, InvariantMatches, PTL

\* No session is sent a message twice while every append succeeds, but for a message
\* that is sent while the append of its delivery is under way.
THEOREM SentOnce == Spec => []RepeatedOnFailure
<1>1. MailboxInv => RepeatedOnFailure
  BY DEF MailboxInv
<1> QED
  BY <1>1, MailboxInvariant, PTL

\* The journal learns that a message was read after it learnt that it was delivered.
LEMMA ReadAfterDelivery ==
    ASSUME MailboxInv, [Next]_vars, NEW m \in Messages, m \notin overtaken,
           durable[m] # "acknowledged", durable'[m] = "acknowledged"
    PROVE  durable[m] = "delivered"
<1>1. CASE Appended
  <2> DEFINE w == Head(writes)
  <2>1. /\ w.msg \in Messages /\ WriteOK(box, overtaken, used, w)
        /\ w.event \in {"enqueued", "delivered", "acknowledged", "failed"}
        /\ durable \in [Messages -> Statuses] /\ box \in [Messages -> Message]
    BY <1>1, HeadOK DEF Appended, JournalAppend, MailboxInv, Mail, MailOK, MailShape
  <2>2. durable' = [durable EXCEPT ![w.msg] = Replayed(w.event, @)]
    BY <1>1 DEF Appended
  <2> HIDE DEF w
  <2>3. w.msg = m
    BY <2>1, <2>2
  <2>4. w.event = "acknowledged"
    BY <2>1, <2>2, <2>3 DEF Replayed, Statuses
  <2>5. box[m].status \in {"delivered", "acknowledged"}
    BY <2>1, <2>3, <2>4 DEF WriteOK, Fits, Message
  <2>6. MessageOK(box, durable, overtaken, used, m)
    BY DEF MailboxInv, Mail, MailOK, MessagesOK
  <2> QED
    BY <2>5, <2>6 DEF MessageOK
<1>2. CASE ~Appended
  <2>1. durable' = durable
    BY <1>2 DEF Next, vars, FollowsUp, Steer, AsksForReport, RecoversReport, RestartsStalled,
                Reviewed, Ends, Resumed, Launched, Prompts, Speaks, TurnEnds, Reports,
                Steered, SteerFails, AppendFails, Crash, mailbox
  <2> QED
    BY <2>1
<1> QED
  BY <1>1, <1>2

THEOREM ReceiptsInOrder == Spec => AckFollowsDelivery
<1>1. MailboxInv /\ [Next]_vars =>
          [\A m \in Messages \ overtaken :
              durable[m] # "acknowledged" /\ durable'[m] = "acknowledged"
                 => durable[m] = "delivered"]_vars
  BY ReadAfterDelivery
<1> QED
  BY <1>1, MailboxInvariant, PTL DEF Spec, AckFollowsDelivery

=============================================================================
