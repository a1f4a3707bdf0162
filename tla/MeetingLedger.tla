---------------------------- MODULE MeetingLedger ----------------------------
(***************************************************************************)
(* What a Meeting promises about the work of its tasks, without queues,    *)
(* worktrees, journals or crashes (invariants 8 to 10 of ADR-0001, as far  *)
(* as electron/integration-queue.ts keeps them).                           *)
(*                                                                         *)
(* The Meeting has one head.  It is taken over once, from the base or with *)
(* candidates left on it, and from then on grows by one acceptance at a    *)
(* time.  The user's base is never rewritten: it grows by its user's       *)
(* commits, and by being moved forward to the Meeting's head.              *)
(***************************************************************************)
EXTENDS Integers, Sequences, SequencesExt

CONSTANTS
    Candidates,  \* reviewed candidate commits
    None         \* an absent value

VARIABLES
    head,        \* the head of the Meeting, or None
    accepted,    \* the candidates it has accepted
    base,        \* the head of the user's base
    published    \* the head last recorded as published, or None

vars == <<head, accepted, base, published>>

UserCommit == [cand |-> None, trailers |-> FALSE]
Accepted(c) == [cand |-> c, trailers |-> TRUE]

\* The base as it once was, with commits of candidates on top.
FromBase(h) == \E n \in 0 .. Len(base) :
                   /\ n <= Len(h)
                   /\ \A i \in 1 .. n : h[i] = base[i]
                   /\ \A i \in n + 1 .. Len(h) : h[i].cand \in Candidates

Init == head = None /\ accepted = {} /\ base = <<>> /\ published = None

TakeOver ==
    /\ head = None
    /\ head' # None
    /\ FromBase(head')
    /\ UNCHANGED <<accepted, base, published>>

\* A candidate is accepted once, and lands once, on top of all the others.
Accept(c) ==
    /\ head # None
    /\ c \notin accepted
    /\ \A i \in DOMAIN head : head[i].cand # c
    /\ head' = Append(head, Accepted(c))
    /\ accepted' = accepted \cup {c}
    /\ UNCHANGED <<base, published>>

\* A Meeting that has accepted nothing may publish what it took over.
Publish ==
    /\ IsPrefix(base, base')
    /\ IF head # None THEN base' = head ELSE FromBase(base')
    /\ UNCHANGED <<head, accepted, published>>

UserCommits ==
    /\ base' = Append(base, UserCommit)
    /\ UNCHANGED <<head, accepted, published>>

RecordPublished ==
    /\ published' # None
    /\ IsPrefix(published', base)
    /\ UNCHANGED <<head, accepted, base>>

\* Another publication begins, or this one is paused.
RecordUnpublished ==
    /\ published' = None
    /\ UNCHANGED <<head, accepted, base>>

Next ==
    \/ TakeOver
    \/ \E c \in Candidates : Accept(c)
    \/ Publish \/ UserCommits
    \/ RecordPublished \/ RecordUnpublished

Spec == Init /\ [][Next]_vars
=============================================================================
