----------------------- MODULE WorkerSchedulerProofs -----------------------
(***************************************************************************)
(* Proofs about WorkerScheduler, for any plan, limit and bounds: what a    *)
(* task that ended still owns, which tasks write together, how many work   *)
(* and when a free slot is used.                                           *)
(*                                                                         *)
(* A stretch of the scheduler is a function of the record Now, so its      *)
(* operators are proved about one by one, as functions of any such record, *)
(* and an action composes them.                                            *)
(***************************************************************************)
EXTENDS WorkerScheduler, FiniteSetTheorems, WellFoundedInduction, TLAPS

State == [handle : [Tasks -> Handle], launching : SUBSET Tasks,
          launch : [Tasks -> [LaunchPc -> Nat]], workspaces : SUBSET Tasks,
          doubled : SUBSET Tasks, overtaken : SUBSET Tasks]

-----------------------------------------------------------------------------
(* What each operator changes.                                             *)

\* A state is the record of its fields.
LEMMA StateFields ==
    ASSUME NEW s \in State
    PROVE  /\ s.handle \in [Tasks -> Handle] /\ s.launching \in SUBSET Tasks
           /\ s.launch \in [Tasks -> [LaunchPc -> Nat]] /\ s.workspaces \in SUBSET Tasks
           /\ s.doubled \in SUBSET Tasks /\ s.overtaken \in SUBSET Tasks
           /\ s = [handle |-> s.handle, launching |-> s.launching, launch |-> s.launch,
                   workspaces |-> s.workspaces, doubled |-> s.doubled,
                   overtaken |-> s.overtaken]
BY DEF State

LEMMA HandleFields ==
    ASSUME NEW h \in Handle
    PROVE  /\ h.status \in Status /\ h.session \in {"none", "starting", "live"}
           /\ h.compiled \in BOOLEAN /\ h.retried \in Retries /\ h.stalled \in BOOLEAN
           /\ h.restarted \in BOOLEAN /\ h.asking \in BOOLEAN
BY DEF Handle

LEMMA LaunchFields ==
    ASSUME NEW s \in State, NEW t \in Tasks
    PROVE  /\ s.launch[t] \in [LaunchPc -> Nat]
           /\ s.launch[t]["compile"] \in Nat /\ s.launch[t]["authority"] \in Nat
           /\ s.launch[t]["start"] \in Nat /\ s.launch[t]["stale"] \in Nat
           /\ Launches(s, t) \in Nat
BY StateFields DEF LaunchPc, Launches

LEMMA ReleasedFields ==
    ASSUME NEW s \in State, NEW T
    PROVE  LET r == Released(s, T) IN
           /\ r \in State /\ r.workspaces = s.workspaces \ T
           /\ r.handle = s.handle /\ r.launching = s.launching /\ r.launch = s.launch
           /\ r.doubled = s.doubled /\ r.overtaken = s.overtaken
BY DEF Released, State

LEMMA FinishedFields ==
    ASSUME NEW s \in State, NEW t \in Tasks, NEW pc \in LaunchPc, s.launch[t][pc] > 0
    PROVE  LET r == Finished(s, t, pc) IN
           /\ r \in State /\ r.launching = s.launching \ {t}
           /\ r.handle = s.handle /\ r.workspaces = s.workspaces
           /\ r.doubled = s.doubled /\ r.overtaken = s.overtaken
           /\ \A u \in Tasks : u # t => r.launch[u] = s.launch[u]
           /\ r.launch[t][pc] = s.launch[t][pc] - 1
           /\ \A q \in LaunchPc : q # pc => r.launch[t][q] = s.launch[t][q]
<1>1. s.launch[t] \in [LaunchPc -> Nat] /\ s.launch[t][pc] - 1 \in Nat
  BY StateFields
<1> DEFINE new == [s.launch EXCEPT ![t] = [s.launch[t] EXCEPT ![pc] = s.launch[t][pc] - 1]]
<1>2. new \in [Tasks -> [LaunchPc -> Nat]]
  BY <1>1, StateFields
<1>3. /\ \A u \in Tasks : u # t => new[u] = s.launch[u]
      /\ new[t][pc] = s.launch[t][pc] - 1
      /\ \A q \in LaunchPc : q # pc => new[t][q] = s.launch[t][q]
  BY <1>1, StateFields
<1>4. Finished(s, t, pc) = [s EXCEPT !.launch = new, !.launching = s.launching \ {t}]
  BY DEF Finished
<1> HIDE DEF new
<1>5. Finished(s, t, pc) = [handle |-> s.handle, launching |-> s.launching \ {t}, launch |-> new,
                            workspaces |-> s.workspaces, doubled |-> s.doubled,
                            overtaken |-> s.overtaken]
  BY <1>4, StateFields
<1> QED
  BY <1>2, <1>3, <1>5, StateFields DEF State

LEMMA PassesFields ==
    ASSUME NEW s \in State, NEW t \in Tasks, NEW from \in LaunchPc, NEW to \in LaunchPc,
           from # to, s.launch[t][from] > 0
    PROVE  LET r == Passes(s, t, from, to) IN
           /\ r \in State /\ r.handle = s.handle /\ r.launching = s.launching
           /\ r.workspaces = s.workspaces
           /\ r.doubled = s.doubled /\ r.overtaken = s.overtaken
           /\ \A u \in Tasks : u # t => r.launch[u] = s.launch[u]
           /\ r.launch[t][from] = s.launch[t][from] - 1
           /\ r.launch[t][to] = s.launch[t][to] + 1
           /\ \A q \in LaunchPc \ {from, to} : r.launch[t][q] = s.launch[t][q]
<1> DEFINE new == [s.launch[t] EXCEPT ![from] = s.launch[t][from] - 1,
                                      ![to] = s.launch[t][to] + 1]
           l == [s.launch EXCEPT ![t] = new]
<1>1. /\ new \in [LaunchPc -> Nat]
      /\ new[from] = s.launch[t][from] - 1 /\ new[to] = s.launch[t][to] + 1
      /\ \A q \in LaunchPc \ {from, to} : new[q] = s.launch[t][q]
  <2>1. s.launch[t] \in [LaunchPc -> Nat]
    BY StateFields
  <2>2. s.launch[t][from] - 1 \in Nat /\ s.launch[t][to] + 1 \in Nat
    BY <2>1
  <2> QED
    BY <2>1, <2>2
<1>2. Passes(s, t, from, to) = [s EXCEPT !.launch = l]
  <2>1. /\ s.launch \in [Tasks -> [LaunchPc -> Nat]]
        /\ s.launch[t] \in [LaunchPc -> Nat]
    BY StateFields
  <2> QED
    BY <2>1, StateFields DEF Passes
<1> HIDE DEF new
<1>3. l \in [Tasks -> [LaunchPc -> Nat]] /\ l[t] = new /\ \A u \in Tasks : u # t => l[u] = s.launch[u]
  BY <1>1, StateFields
<1> HIDE DEF l
<1>4. Passes(s, t, from, to) = [handle |-> s.handle, launching |-> s.launching, launch |-> l,
                               workspaces |-> s.workspaces, doubled |-> s.doubled,
                               overtaken |-> s.overtaken]
  BY <1>2, StateFields
<1> QED
  BY <1>1, <1>3, <1>4, StateFields DEF State

\* r is s with the sessions of T ended.
Parks(s, r, T, status) ==
    /\ r \in State /\ r.launching = s.launching
    /\ r.doubled = s.doubled /\ r.overtaken = s.overtaken
    /\ \A t \in Tasks \ T : r.handle[t] = s.handle[t] /\ r.launch[t] = s.launch[t]
    /\ \A t \in T : /\ r.handle[t].status = status /\ r.handle[t].session = "none"
                    /\ r.launch[t]["compile"] = s.launch[t]["compile"]
                    /\ r.launch[t]["authority"] = s.launch[t]["authority"]
                    /\ r.launch[t]["start"] = 0
                    /\ r.launch[t]["stale"] = s.launch[t]["stale"] + s.launch[t]["start"]

LEMMA ParkedFields ==
    ASSUME NEW s \in State, NEW T \in SUBSET Tasks, NEW status \in Status
    PROVE  /\ Parks(s, Parked(s, T, status), T, status)
           /\ Parked(s, T, status).workspaces = s.workspaces
<1> DEFINE h == [t \in Tasks |-> IF t \in T
                  THEN [s.handle[t] EXCEPT !.session = "none", !.asking = FALSE, !.status = status]
                  ELSE s.handle[t]]
           l == [t \in Tasks |-> IF t \in T
                  THEN [s.launch[t] EXCEPT !["start"] = 0, !["stale"] = @ + s.launch[t]["start"]]
                  ELSE s.launch[t]]
<1>1. ASSUME NEW t \in T
      PROVE  /\ h[t] \in Handle /\ h[t].status = status /\ h[t].session = "none"
  <2>1. s.handle[t] \in Handle /\ t \in Tasks
    BY StateFields
  <2> QED
    BY <2>1 DEF Handle
<1>2. ASSUME NEW t \in T
      PROVE  /\ l[t] \in [LaunchPc -> Nat]
             /\ l[t]["compile"] = s.launch[t]["compile"]
             /\ l[t]["authority"] = s.launch[t]["authority"]
             /\ l[t]["start"] = 0 /\ l[t]["stale"] = s.launch[t]["stale"] + s.launch[t]["start"]
  <2>1. t \in Tasks
    OBVIOUS
  <2> QED
    BY <2>1, LaunchFields DEF LaunchPc
<1>3. \A t \in Tasks \ T : h[t] = s.handle[t] /\ l[t] = s.launch[t]
  OBVIOUS
<1>4. h \in [Tasks -> Handle] /\ l \in [Tasks -> [LaunchPc -> Nat]]
  <2>1. \A t \in Tasks : h[t] \in Handle /\ l[t] \in [LaunchPc -> Nat]
    BY <1>1, <1>2, <1>3, StateFields
  <2> QED
    BY <2>1
<1>5. Parked(s, T, status) = [s EXCEPT !.handle = h, !.launch = l]
  BY DEF Parked
<1> HIDE DEF h, l
<1>6. Parked(s, T, status) = [handle |-> h, launching |-> s.launching, launch |-> l,
                              workspaces |-> s.workspaces, doubled |-> s.doubled,
                              overtaken |-> s.overtaken]
  BY <1>5, StateFields
<1> QED
  BY <1>1, <1>2, <1>3, <1>4, <1>6, StateFields DEF State, Parks

\* Disposing takes the session and the workspace at once.
LEMMA DisposedFields ==
    ASSUME NEW s \in State, NEW T \in SUBSET Tasks, NEW status \in Status
    PROVE  /\ Parks(s, Disposed(s, T, status), T, status)
           /\ Disposed(s, T, status).workspaces = s.workspaces \ T
<1> DEFINE q == Parked(s, T, status)
           r == Released(q, T)
<1>1. Parks(s, q, T, status) /\ q.workspaces = s.workspaces
  BY ParkedFields
<1>2. Disposed(s, T, status) = r
  BY DEF Disposed
<1> HIDE DEF q
<1>3. q \in State
  BY <1>1 DEF Parks
<1>4. /\ r \in State /\ r.workspaces = q.workspaces \ T
      /\ r.handle = q.handle /\ r.launching = q.launching /\ r.launch = q.launch
      /\ r.doubled = q.doubled /\ r.overtaken = q.overtaken
  BY <1>3, ReleasedFields
<1> HIDE DEF r
<1> QED
  BY <1>1, <1>2, <1>4 DEF Parks

\* r is s with t waiting again as new.
Waits(s, r, t, new) ==
    /\ r \in State /\ r.launching = s.launching /\ r.launch = s.launch
    /\ r.workspaces = s.workspaces /\ r.overtaken = s.overtaken
    /\ r.doubled = IF Launching(s, t) THEN s.doubled \cup {t} ELSE s.doubled
    /\ r.handle[t] = new /\ \A u \in Tasks : u # t => r.handle[u] = s.handle[u]

LEMMA AgainFields ==
    ASSUME NEW s \in State, NEW t \in Tasks, NEW new \in Handle
    PROVE  Waits(s, Again(s, t, new), t, new)
<1> DEFINE h == [s.handle EXCEPT ![t] = new]
           d == IF Launching(s, t) THEN s.doubled \cup {t} ELSE s.doubled
<1>1. h \in [Tasks -> Handle] /\ h[t] = new /\ \A u \in Tasks : u # t => h[u] = s.handle[u]
  BY StateFields
<1>2. d \in SUBSET Tasks
  BY StateFields
<1>2a. Again(s, t, new) = [s EXCEPT !.handle = h, !.doubled = d]
  BY DEF Again
<1> HIDE DEF h, d
<1>3. Again(s, t, new) = [handle |-> h, launching |-> s.launching, launch |-> s.launch,
                          workspaces |-> s.workspaces, doubled |-> d, overtaken |-> s.overtaken]
  BY <1>2a, StateFields
<1>4. Again(s, t, new) \in State
  BY <1>1, <1>2, <1>3, StateFields DEF State
<1> QED
  BY <1>1, <1>3, <1>4 DEF d, Waits

\* r is s with S launched.
Starts(s, r, S) ==
    /\ r \in State /\ r.handle = s.handle /\ r.launching = s.launching \cup S
    /\ r.workspaces = s.workspaces \cup {t \in S : s.handle[t].compiled}
    /\ r.doubled = s.doubled \cup {t \in S : Launching(s, t)}
    /\ r.overtaken = s.overtaken \cup {t \in S : s.launch[t]["stale"] > 0}
    /\ \A t \in Tasks \ S : r.launch[t] = s.launch[t]
    /\ \A t \in S :
          /\ r.launch[t]["start"] = s.launch[t]["start"]
          /\ r.launch[t]["stale"] = s.launch[t]["stale"]
          /\ IF s.handle[t].compiled
             THEN /\ r.launch[t]["compile"] = s.launch[t]["compile"]
                  /\ r.launch[t]["authority"] = s.launch[t]["authority"] + 1
             ELSE /\ r.launch[t]["compile"] = s.launch[t]["compile"] + 1
                  /\ r.launch[t]["authority"] = s.launch[t]["authority"]

LEMMA LaunchedFields ==
    ASSUME NEW s \in State, NEW S \in SUBSET Tasks
    PROVE  Starts(s, Launched(s, S), S)
<1> DEFINE l == [t \in Tasks |-> IF t \in S
                    THEN [s.launch[t] EXCEPT ![FirstAwait(s, t)] = @ + 1] ELSE s.launch[t]]
           o == s.overtaken \cup {t \in S : "stale" \in Underway(s, t)}
<1>1. ASSUME NEW t \in S
      PROVE  /\ l[t] \in [LaunchPc -> Nat]
             /\ l[t]["start"] = s.launch[t]["start"] /\ l[t]["stale"] = s.launch[t]["stale"]
             /\ IF s.handle[t].compiled
                THEN /\ l[t]["compile"] = s.launch[t]["compile"]
                     /\ l[t]["authority"] = s.launch[t]["authority"] + 1
                ELSE /\ l[t]["compile"] = s.launch[t]["compile"] + 1
                     /\ l[t]["authority"] = s.launch[t]["authority"]
  <2>1. t \in Tasks
    OBVIOUS
  <2> QED
    BY <2>1, LaunchFields DEF LaunchPc, FirstAwait
<1>2. \A t \in Tasks \ S : l[t] = s.launch[t]
  OBVIOUS
<1>3. l \in [Tasks -> [LaunchPc -> Nat]]
  <2>1. \A t \in Tasks : l[t] \in [LaunchPc -> Nat]
    BY <1>1, <1>2, StateFields
  <2> QED
    BY <2>1
<1>4. o = s.overtaken \cup {t \in S : s.launch[t]["stale"] > 0}
  BY DEF Underway, LaunchPc
<1> DEFINE n == s.launching \cup S
           w == s.workspaces \cup {t \in S : s.handle[t].compiled}
           d == s.doubled \cup {t \in S : Launching(s, t)}
<1>5. Launched(s, S) = [handle |-> s.handle, launching |-> n, launch |-> l, workspaces |-> w,
                        doubled |-> d, overtaken |-> o]
  BY DEF Launched
<1>6. n \in SUBSET Tasks /\ w \in SUBSET Tasks /\ d \in SUBSET Tasks /\ o \in SUBSET Tasks
  BY <1>4, StateFields
<1> HIDE DEF l, o, n, w, d
<1>7. Launched(s, S) \in State
  BY <1>3, <1>5, <1>6, StateFields DEF State
<1> QED
  BY <1>1, <1>2, <1>4, <1>5, <1>7 DEF n, w, d, Starts

\* A launch of t that is not of a lost session.
LEMMA LaunchingMeans ==
    ASSUME NEW s \in State, NEW t \in Tasks
    PROVE  Launching(s, t) <=> s.launch[t]["compile"] + s.launch[t]["authority"]
                                + s.launch[t]["start"] > 0
BY LaunchFields DEF Launching, Underway, LaunchPc

-----------------------------------------------------------------------------
(* The inductive invariant.                                                *)

Ended(s) == \A t \in Tasks : s.handle[t].status \in Terminal =>
                s.handle[t].session = "none" /\ t \notin s.workspaces
Sessions(s) == \A t \in Tasks : s.handle[t].session # "none" => s.handle[t].status = "running"

\* The workspaces held are compatible.
Disjoint(s) == \A t, u \in s.workspaces : t # u => ~Overlap(t, u)

\* With one launch at a time, a task that starts or works has its workspace.
BeforeSession(s, t) == s.launch[t]["compile"] + s.launch[t]["authority"]
Alone(s) ==
    \A t \in Tasks \ s.doubled :
        /\ BeforeSession(s, t) + s.launch[t]["start"] <= 1
        /\ s.handle[t].status = "running" => BeforeSession(s, t) = 0 /\ t \in s.workspaces
        /\ s.handle[t].status = "pending" /\ s.launch[t]["authority"] > 0 => t \in s.workspaces

\* And it keeps its slot until its session has one.
Slots(s) ==
    \A t \in Tasks \ (s.doubled \cup s.overtaken) :
        /\ Launches(s, t) <= 1
        /\ BeforeSession(s, t) > 0 => t \in s.launching

Good(s) ==
    s \in State /\ Ended(s) /\ Sessions(s) /\ Disjoint(s) /\ Alone(s) /\ Slots(s)

PlanOK ==
    /\ restarting \subseteq Tasks /\ revision \subseteq Tasks
    /\ closed \in BOOLEAN /\ dirty \in BOOLEAN /\ installed \in 0 .. Len(Batches)
    /\ \A t \in Tasks : Launches(Now, t) <= MaxLaunches
    /\ closed => \A t \in Tasks : handle[t].status = "absent"

SchedulerInv == Good(Now) /\ PlanOK
-----------------------------------------------------------------------------
(* Each operator keeps it.                                                 *)

LEMMA OverlapSymmetric ==
    ASSUME NEW t, NEW u, Overlap(t, u)
    PROVE  Overlap(u, t)
BY DEF Overlap

\* A release is safe for a task that neither works nor waits to.
LEMMA ReleasedGood ==
    ASSUME NEW s \in State, Good(s), NEW T \in SUBSET Tasks,
           \A t \in T : t \in s.doubled \/ s.handle[t].status \notin {"running", "pending"}
    PROVE  Good(Released(s, T))
<1> DEFINE r == Released(s, T)
<1>1. /\ r \in State /\ r.workspaces = s.workspaces \ T
      /\ r.handle = s.handle /\ r.launching = s.launching /\ r.launch = s.launch
      /\ r.doubled = s.doubled /\ r.overtaken = s.overtaken
  BY ReleasedFields
<1> HIDE DEF r
<1>2. Ended(r) /\ Sessions(r)
  BY <1>1 DEF Good, Ended, Sessions
<1>3. Disjoint(r)
  BY <1>1 DEF Good, Disjoint
<1>4. Alone(r)
  BY <1>1 DEF Good, Alone, BeforeSession
<1>5. Slots(r)
  BY <1>1 DEF Good, Slots, BeforeSession, Launches
<1> QED
  BY <1>1, <1>2, <1>3, <1>4, <1>5 DEF Good, r

\* The launches before their session are among all of them.
LEMMA FewLaunches ==
    ASSUME NEW s \in State, NEW t \in Tasks
    PROVE  BeforeSession(s, t) \in Nat /\ BeforeSession(s, t) <= Launches(s, t)
<1>1. ASSUME NEW a \in Nat, NEW b \in Nat, NEW c \in Nat, NEW d \in Nat
      PROVE  a + b \in Nat /\ a + b <= a + b + c + d
  OBVIOUS
<1>2. /\ s.launch[t]["compile"] \in Nat /\ s.launch[t]["authority"] \in Nat
      /\ s.launch[t]["start"] \in Nat /\ s.launch[t]["stale"] \in Nat
  BY LaunchFields
<1> QED
  BY <1>1, <1>2 DEF BeforeSession, Launches

LEMMA FinishedGood ==
    ASSUME NEW s \in State, Good(s), NEW t \in Tasks, NEW pc \in LaunchPc, s.launch[t][pc] > 0
    PROVE  Good(Finished(s, t, pc))
<1> DEFINE r == Finished(s, t, pc)
<1>1. /\ r \in State /\ r.launching = s.launching \ {t}
      /\ r.handle = s.handle /\ r.workspaces = s.workspaces
      /\ r.doubled = s.doubled /\ r.overtaken = s.overtaken
      /\ \A u \in Tasks : u # t => r.launch[u] = s.launch[u]
      /\ r.launch[t][pc] = s.launch[t][pc] - 1
      /\ \A q \in LaunchPc : q # pc => r.launch[t][q] = s.launch[t][q]
  BY FinishedFields
<1> HIDE DEF r
<1>2. Ended(r) /\ Sessions(r) /\ Disjoint(r)
  BY <1>1 DEF Good, Ended, Sessions, Disjoint
<1>3. /\ r.launch[t]["compile"] <= s.launch[t]["compile"]
      /\ r.launch[t]["authority"] <= s.launch[t]["authority"]
      /\ r.launch[t]["start"] <= s.launch[t]["start"]
      /\ r.launch[t]["stale"] <= s.launch[t]["stale"]
      /\ Launches(r, t) = Launches(s, t) - 1
  BY <1>1, LaunchFields DEF LaunchPc, Launches
<1>4. Alone(r)
  <2> SUFFICES ASSUME NEW u \in Tasks \ r.doubled
               PROVE  /\ BeforeSession(r, u) + r.launch[u]["start"] <= 1
                      /\ r.handle[u].status = "running" =>
                            BeforeSession(r, u) = 0 /\ u \in r.workspaces
                      /\ r.handle[u].status = "pending" /\ r.launch[u]["authority"] > 0 =>
                            u \in r.workspaces
    BY DEF Alone
  <2>1. CASE u = t
    BY <1>1, <1>3, <2>1, LaunchFields DEF Good, Alone, BeforeSession
  <2>2. CASE u # t
    BY <1>1, <2>2 DEF Good, Alone, BeforeSession
  <2> QED
    BY <2>1, <2>2
<1>5. Slots(r)
  <2> SUFFICES ASSUME NEW u \in Tasks \ (r.doubled \cup r.overtaken)
               PROVE  Launches(r, u) <= 1 /\ (BeforeSession(r, u) > 0 => u \in r.launching)
    BY DEF Slots
  <2>1. CASE u = t
    <3>1. Launches(s, t) <= 1 /\ Launches(r, t) \in Nat
      BY <1>1, <2>1, LaunchFields DEF Good, Slots
    <3>2. Launches(r, t) = 0
      BY <1>3, <3>1, LaunchFields
    <3>4. BeforeSession(r, t) = 0
      BY <1>1, <3>2, FewLaunches
    <3> QED
      BY <2>1, <3>2, <3>4
  <2>2. CASE u # t
    BY <1>1, <2>2 DEF Good, Slots, BeforeSession, Launches
  <2> QED
    BY <2>1, <2>2
<1> QED
  BY <1>1, <1>2, <1>4, <1>5 DEF Good, r

\* Ending sessions moves their starts to lost sessions and launches nothing.
LEMMA LaunchesMoved ==
    ASSUME NEW s \in State, NEW r, NEW T \in SUBSET Tasks, NEW status, Parks(s, r, T, status)
    PROVE  \A t \in Tasks : /\ Launches(r, t) = Launches(s, t)
                            /\ BeforeSession(r, t) = BeforeSession(s, t)
                            /\ r.launch[t]["authority"] = s.launch[t]["authority"]
                            /\ r.launch[t]["start"] <= s.launch[t]["start"]
<1> SUFFICES ASSUME NEW t \in Tasks
             PROVE  /\ Launches(r, t) = Launches(s, t)
                    /\ BeforeSession(r, t) = BeforeSession(s, t)
                    /\ r.launch[t]["authority"] = s.launch[t]["authority"]
                    /\ r.launch[t]["start"] <= s.launch[t]["start"]
  OBVIOUS
<1>1. CASE t \in T
  BY <1>1, LaunchFields DEF Launches, BeforeSession, Parks
<1>2. CASE t \notin T
  BY <1>2, LaunchFields DEF Launches, BeforeSession, Parks
<1> QED
  BY <1>1, <1>2

\* A task whose session ended may give its workspace back or keep it.
LEMMA ParksGood ==
    ASSUME NEW s \in State, Good(s), NEW r, NEW T \in SUBSET Tasks,
           NEW status \in Status \ {"pending", "running"}, Parks(s, r, T, status),
           s.workspaces \ T \subseteq r.workspaces, r.workspaces \subseteq s.workspaces
    PROVE  Sessions(r) /\ Disjoint(r) /\ Alone(r) /\ Slots(r)
<1>1. \A t \in Tasks : /\ Launches(r, t) = Launches(s, t)
                       /\ BeforeSession(r, t) = BeforeSession(s, t)
                       /\ r.launch[t]["authority"] = s.launch[t]["authority"]
                       /\ r.launch[t]["start"] <= s.launch[t]["start"]
  BY LaunchesMoved
<1>2. r \in State
  BY DEF Parks
<1>3. \A t \in Tasks : BeforeSession(s, t) \in Nat /\ s.launch[t]["start"] \in Nat
                       /\ r.launch[t]["start"] \in Nat
  BY <1>2, LaunchFields DEF BeforeSession
<1>4. Sessions(r) /\ Disjoint(r)
  BY DEF Good, Sessions, Disjoint, Parks
<1>5. Alone(r)
  <2> SUFFICES ASSUME NEW u \in Tasks \ r.doubled
               PROVE  /\ BeforeSession(r, u) + r.launch[u]["start"] <= 1
                      /\ r.handle[u].status = "running" =>
                            BeforeSession(r, u) = 0 /\ u \in r.workspaces
                      /\ r.handle[u].status = "pending" /\ r.launch[u]["authority"] > 0 =>
                            u \in r.workspaces
    BY DEF Alone
  <2>1. BeforeSession(s, u) + s.launch[u]["start"] <= 1
    BY DEF Good, Alone, Parks
  <2>2. BeforeSession(r, u) + r.launch[u]["start"] <= 1
    BY <1>1, <1>3, <2>1
  <2>3. CASE u \in T
    BY <2>2, <2>3 DEF Parks
  <2>4. CASE u \notin T
    BY <1>1, <2>2, <2>4 DEF Good, Alone, Parks
  <2> QED
    BY <2>3, <2>4
<1>6. Slots(r)
  BY <1>1 DEF Good, Slots, Parks
<1> QED
  BY <1>4, <1>5, <1>6

LEMMA DisposedGood ==
    ASSUME NEW s \in State, Good(s), NEW T \in SUBSET Tasks, NEW status \in Terminal
    PROVE  Good(Disposed(s, T, status))
<1> DEFINE r == Disposed(s, T, status)
<1>1. status \in Status \ {"pending", "running"}
  BY DEF Terminal, Status
<1>2. Parks(s, r, T, status) /\ r.workspaces = s.workspaces \ T
  BY <1>1, DisposedFields
<1> HIDE DEF r
<1>3. Sessions(r) /\ Disjoint(r) /\ Alone(r) /\ Slots(r)
  BY <1>1, <1>2, ParksGood
<1>4. r \in State /\ Ended(r)
  BY <1>2 DEF Good, Ended, Parks
<1> QED
  BY <1>3, <1>4 DEF Good, r

\* A report, or a review that passed, keeps the workspace.
LEMMA ParkedGood ==
    ASSUME NEW s \in State, Good(s), NEW T \in SUBSET Tasks,
           NEW status \in {"verifying", "reviewed"}
    PROVE  Good(Parked(s, T, status))
<1> DEFINE r == Parked(s, T, status)
<1>1. status \in Status \ {"pending", "running"} /\ status \notin Terminal
  BY DEF Terminal, Status
<1>2. Parks(s, r, T, status) /\ r.workspaces = s.workspaces
  BY <1>1, ParkedFields
<1> HIDE DEF r
<1>3. Sessions(r) /\ Disjoint(r) /\ Alone(r) /\ Slots(r)
  BY <1>1, <1>2, ParksGood
<1>4. r \in State /\ Ended(r)
  <2>1. \A t \in Tasks : t \in T \/ t \in Tasks \ T
    OBVIOUS
  <2> QED
    BY <1>1, <1>2, <2>1 DEF Good, Ended, Parks
<1> QED
  BY <1>3, <1>4 DEF Good, r

\* A task that is pending again holds one launch at most, or counts as doubled.
LEMMA AgainGood ==
    ASSUME NEW s \in State, Good(s), NEW t \in Tasks, NEW new \in Handle,
           new.status = "pending", new.session = "none"
    PROVE  /\ Good(Again(s, t, new))
           /\ Good(Again(Parked(s, {t}, "pending"), t, new))
<1>1. ASSUME NEW q \in State,
             /\ q.launching = s.launching /\ q.workspaces = s.workspaces
             /\ q.doubled = s.doubled /\ q.overtaken = s.overtaken
             /\ \A u \in Tasks : u # t => q.handle[u] = s.handle[u] /\ q.launch[u] = s.launch[u]
             /\ Launches(q, t) = Launches(s, t) /\ BeforeSession(q, t) = BeforeSession(s, t)
      PROVE  Good(Again(q, t, new))
  <2> DEFINE r == Again(q, t, new)
  <2>1. Waits(q, r, t, new)
    BY <1>1, AgainFields
  <2> HIDE DEF r
  <2>2. t \notin r.doubled => BeforeSession(q, t) + q.launch[t]["start"] = 0
                              /\ q.launch[t]["authority"] = 0
    <3> SUFFICES ASSUME t \notin r.doubled
                 PROVE  BeforeSession(q, t) + q.launch[t]["start"] = 0
                        /\ q.launch[t]["authority"] = 0
      OBVIOUS
    <3>1. ~Launching(q, t)
      BY <2>1 DEF Waits
    <3>2. ~(q.launch[t]["compile"] + q.launch[t]["authority"] + q.launch[t]["start"] > 0)
      BY <1>1, <3>1, LaunchingMeans
    <3>3. /\ q.launch[t]["compile"] \in Nat /\ q.launch[t]["authority"] \in Nat
          /\ q.launch[t]["start"] \in Nat
      BY <1>1, LaunchFields
    <3> QED
      BY <3>2, <3>3 DEF BeforeSession
  <2>3. \A u \in Tasks : u # t => /\ Launches(r, u) = Launches(s, u)
                                  /\ BeforeSession(r, u) = BeforeSession(s, u)
                                  /\ r.launch[u] = s.launch[u]
    BY <1>1, <2>1 DEF Launches, BeforeSession, Waits
  <2>4. Launches(r, t) = Launches(s, t) /\ BeforeSession(r, t) = BeforeSession(s, t)
    BY <1>1, <2>1 DEF Launches, BeforeSession, Waits
  <2>5. new.status \notin Terminal
    BY DEF Terminal
  <2>6. Ended(r) /\ Sessions(r)
    BY <1>1, <2>1, <2>5 DEF Good, Ended, Sessions, Waits
  <2>7. Disjoint(r)
    BY <1>1, <2>1 DEF Good, Disjoint, Waits
  <2>8. Alone(r)
    <3> SUFFICES ASSUME NEW u \in Tasks \ r.doubled
                 PROVE  /\ BeforeSession(r, u) + r.launch[u]["start"] <= 1
                        /\ r.handle[u].status = "running" =>
                              BeforeSession(r, u) = 0 /\ u \in r.workspaces
                        /\ r.handle[u].status = "pending" /\ r.launch[u]["authority"] > 0 =>
                              u \in r.workspaces
      BY DEF Alone
    <3>1. CASE u = t
      BY <2>1, <2>2, <3>1 DEF BeforeSession, Waits
    <3>2. CASE u # t
      BY <1>1, <2>1, <2>3, <3>2 DEF Good, Alone, Waits
    <3> QED
      BY <3>1, <3>2
  <2>9. Slots(r)
    BY <1>1, <2>1, <2>3, <2>4 DEF Good, Slots, Waits
  <2> QED
    BY <2>1, <2>6, <2>7, <2>8, <2>9 DEF Good, Waits, r
<1>2. Good(Again(s, t, new))
  BY <1>1
<1> DEFINE q == Parked(s, {t}, "pending")
<1>3. Parks(s, q, {t}, "pending") /\ q.workspaces = s.workspaces
  <2>1. "pending" \in Status /\ {t} \in SUBSET Tasks
    BY DEF Status
  <2> QED
    BY <2>1, ParkedFields
<1> HIDE DEF q
<1>4. Launches(q, t) = Launches(s, t) /\ BeforeSession(q, t) = BeforeSession(s, t)
  <2>1. {t} \in SUBSET Tasks
    OBVIOUS
  <2> QED
    BY <1>3, <2>1, LaunchesMoved
<1>6. \A u \in Tasks : u # t => q.handle[u] = s.handle[u] /\ q.launch[u] = s.launch[u]
  BY <1>3 DEF Parks
<1>7. Good(Again(q, t, new))
  BY <1>1, <1>3, <1>4, <1>6 DEF Parks
<1> QED
  BY <1>2, <1>7 DEF q

\* The cascade only disposes.
LEMMA FailedGood ==
    ASSUME NEW s \in State, Good(s), NEW t \in Tasks
    PROVE  Good(Failed(s, t)) /\ Failed(s, t) \in State
<1> DEFINE q == Disposed(s, {t}, "failed")
<1>1. {t} \in SUBSET Tasks /\ "failed" \in Terminal
  BY DEF Terminal
<1>2. Good(q)
  BY <1>1, DisposedGood
<1>3. q \in State
  BY <1>2 DEF Good
<1>4. Doomed(q) \in SUBSET Tasks
  BY DEF Doomed
<1> HIDE DEF q
<1>5. Good(Disposed(q, Doomed(q), "failed"))
  BY <1>1, <1>2, <1>3, <1>4, DisposedGood
<1> QED
  BY <1>5 DEF Failed, Cascaded, Good, q

LEMMA CaughtGood ==
    ASSUME NEW s \in State, Good(s), NEW t \in Tasks
    PROVE  Good(Caught(s, t))
<1>1. CASE s.handle[t].status = "absent"
  <2>1. Good(Released(s, {t}))
    BY <1>1, ReleasedGood
  <2> QED
    BY <1>1, <2>1 DEF Caught
<1>2. CASE s.handle[t].status \in Terminal /\ s.handle[t].session = "none"
  BY <1>2 DEF Caught, Terminal
<1>3. CASE s.handle[t].status # "absent"
           /\ ~(s.handle[t].status \in Terminal /\ s.handle[t].session = "none")
  BY <1>3, FailedGood DEF Caught
<1> QED
  BY <1>1, <1>2, <1>3

\* The order of the loop over the ready tasks is a strict total order.
LEMMA WeightIsInt ==
    ASSUME NEW s \in State, NEW t \in Tasks
    PROVE  Weight(s, t) \in Int
<1>1. IsFiniteSet(Tasks) /\ Priority[t] \in Int
  <2>1. \A n \in -10 .. 10 : n \in Int
    OBVIOUS
  <2> QED
    BY <2>1, PlanAssumption
<1>2. Behind(s, t) \in SUBSET Tasks
  BY DEF Behind
<1>3. Cardinality(Behind(s, t)) \in Nat
  BY <1>1, <1>2, FS_Subset, FS_CardinalityType
<1> QED
  BY <1>1, <1>3 DEF Weight

LEMMA BeforeTotal ==
    ASSUME NEW s \in State, NEW t \in Tasks, NEW u \in Tasks
    PROVE  /\ ~Before(s, t, t)
           /\ t # u => Before(s, t, u) \/ Before(s, u, t)
<1>1. Weight(s, t) \in Int /\ Weight(s, u) \in Int
  BY WeightIsInt
<1>2. Place[t] \in Nat /\ Place[u] \in Nat /\ (Place[t] = Place[u] => t = u)
  BY PlanAssumption
<1> QED
  BY <1>1, <1>2 DEF Before

LEMMA BeforeTransitive ==
    ASSUME NEW s \in State, NEW t \in Tasks, NEW u \in Tasks, NEW v \in Tasks,
           Before(s, t, u), Before(s, u, v)
    PROVE  Before(s, t, v)
<1>1. Weight(s, t) \in Int /\ Weight(s, u) \in Int /\ Weight(s, v) \in Int
  BY WeightIsInt
<1>2. Place[t] \in Nat /\ Place[u] \in Nat /\ Place[v] \in Nat
  BY PlanAssumption
<1> QED
  BY <1>1, <1>2 DEF Before

\* A launch takes no lock of a task that holds one, or takes one before it.
LEMMA PreparesApart ==
    ASSUME NEW s \in State, NEW S \in SUBSET Ready(s), Dispatches(s, S),
           NEW t \in S, t \notin s.workspaces, NEW u \in Tasks, u # t,
           u \in s.workspaces \/ (u \in S /\ s.handle[u].compiled /\ Before(s, u, t))
    PROVE  ~Overlap(t, u)
<1> DEFINE U == {v \in S : Before(s, v, t)}
           q == Launched(s, U)
<1>1. t \in Tasks /\ U \in SUBSET Tasks
  BY DEF Ready
<1>2. Starts(s, q, U)
  BY <1>1, LaunchedFields
<1>3. Launchable(q, t)
  BY DEF Dispatches
<1>4. t \notin U
  BY <1>1, BeforeTotal
<1>5. u \in q.workspaces /\ t \notin q.workspaces
  BY <1>1, <1>2, <1>4 DEF Starts
<1> HIDE DEF q
<1> QED
  BY <1>3, <1>5 DEF Launchable, CanPrepare, Locked, Overlap

LEMMA LaunchedGood ==
    ASSUME NEW s \in State, Good(s), NEW S \in SUBSET Ready(s), Dispatches(s, S)
    PROVE  Good(Launched(s, S))
<1> DEFINE r == Launched(s, S)
<1>1. S \in SUBSET Tasks /\ \A t \in S : s.handle[t].status = "pending"
  BY DEF Ready
<1>2. Starts(s, r, S)
  BY <1>1, LaunchedFields
<1> HIDE DEF r
<1>3. Ended(r) /\ Sessions(r)
  BY <1>1, <1>2 DEF Good, Ended, Sessions, Starts, Terminal
<1>4. Disjoint(r)
  <2> SUFFICES ASSUME NEW t \in r.workspaces, NEW u \in r.workspaces, t # u
               PROVE  ~Overlap(t, u)
    BY DEF Disjoint
  <2>1. t \in Tasks /\ u \in Tasks
    BY <1>1, <1>2, StateFields DEF Starts
  <2>2. /\ t \in s.workspaces \/ (t \in S /\ s.handle[t].compiled)
        /\ u \in s.workspaces \/ (u \in S /\ s.handle[u].compiled)
    BY <1>2 DEF Starts
  <2>3. CASE t \in s.workspaces /\ u \in s.workspaces
    BY <2>3 DEF Good, Disjoint
  <2>4. CASE t \notin s.workspaces /\ (u \in s.workspaces \/ Before(s, u, t))
    BY <2>1, <2>2, <2>4, PreparesApart
  <2>5. CASE u \notin s.workspaces /\ (t \in s.workspaces \/ Before(s, t, u))
    <3>1. ~Overlap(u, t)
      BY <2>1, <2>2, <2>5, PreparesApart
    <3> QED
      BY <3>1, OverlapSymmetric
  <2> QED
    BY <2>1, <2>3, <2>4, <2>5, BeforeTotal
<1>5. ASSUME NEW t \in S, t \notin r.doubled
      PROVE  /\ s.launch[t]["compile"] = 0 /\ s.launch[t]["authority"] = 0
             /\ s.launch[t]["start"] = 0
             /\ BeforeSession(r, t) = 1 /\ r.launch[t]["start"] = 0
             /\ r.launch[t]["authority"] > 0 => s.handle[t].compiled
             /\ t \notin r.overtaken => Launches(r, t) = 1
  <2>1. t \in Tasks /\ ~Launching(s, t)
    BY <1>1, <1>2, <1>5 DEF Starts
  <2>2. ~(s.launch[t]["compile"] + s.launch[t]["authority"] + s.launch[t]["start"] > 0)
    BY <2>1, LaunchingMeans
  <2>3. /\ s.launch[t]["compile"] \in Nat /\ s.launch[t]["authority"] \in Nat
        /\ s.launch[t]["start"] \in Nat /\ s.launch[t]["stale"] \in Nat
    BY <2>1, LaunchFields
  <2>4. /\ s.launch[t]["compile"] = 0 /\ s.launch[t]["authority"] = 0
        /\ s.launch[t]["start"] = 0
    BY <2>2, <2>3
  <2>5. BeforeSession(r, t) = 1 /\ r.launch[t]["start"] = 0
    BY <1>2, <2>4 DEF Starts, BeforeSession
  <2>6. r.launch[t]["authority"] > 0 => s.handle[t].compiled
    BY <1>2, <2>4 DEF Starts
  <2>7. t \notin r.overtaken => Launches(r, t) = 1
    <3>1. t \notin r.overtaken => r.launch[t]["stale"] = 0
      BY <1>2, <2>3 DEF Starts
    <3> QED
      BY <2>5, <3>1 DEF Launches, BeforeSession
  <2> QED
    BY <2>4, <2>5, <2>6, <2>7
<1>6. \A t \in Tasks \ S : /\ BeforeSession(r, t) = BeforeSession(s, t)
                           /\ Launches(r, t) = Launches(s, t) /\ r.launch[t] = s.launch[t]
  BY <1>2 DEF Starts, BeforeSession, Launches
<1>7. Alone(r)
  <2> SUFFICES ASSUME NEW u \in Tasks \ r.doubled
               PROVE  /\ BeforeSession(r, u) + r.launch[u]["start"] <= 1
                      /\ r.handle[u].status = "running" =>
                            BeforeSession(r, u) = 0 /\ u \in r.workspaces
                      /\ r.handle[u].status = "pending" /\ r.launch[u]["authority"] > 0 =>
                            u \in r.workspaces
    BY DEF Alone
  <2>1. CASE u \in S
    BY <1>1, <1>2, <1>5, <2>1 DEF Starts
  <2>2. CASE u \notin S
    BY <1>2, <1>6, <2>2 DEF Good, Alone, Starts
  <2> QED
    BY <2>1, <2>2
<1>8. Slots(r)
  <2> SUFFICES ASSUME NEW u \in Tasks \ (r.doubled \cup r.overtaken)
               PROVE  Launches(r, u) <= 1 /\ (BeforeSession(r, u) > 0 => u \in r.launching)
    BY DEF Slots
  <2>1. CASE u \in S
    BY <1>2, <1>5, <2>1 DEF Starts
  <2>2. CASE u \notin S
    BY <1>2, <1>6, <2>2 DEF Good, Slots, Starts
  <2> QED
    BY <2>1, <2>2
<1>9. r \in State
  BY <1>2 DEF Starts
<1> QED
  BY <1>3, <1>4, <1>7, <1>8, <1>9 DEF Good, r

\* What a stretch leaves is Now.
LEMMA BecomesKeeps ==
    ASSUME NEW s, Good(s), Becomes(s)
    PROVE  /\ Now' = s /\ Good(Now)'
           /\ \A t \in Tasks : Launches(Now, t)' <= MaxLaunches
<1>1. Now' = s
  BY StateFields DEF Now, Becomes, Good
<1> QED
  BY <1>1 DEF Becomes

\* The dispatch that ends a stretch changes no handle.
LEMMA StretchKeeps ==
    ASSUME NEW s, Good(s), Becomes(s) \/ ThenDispatch(s)
    PROVE  /\ Good(Now)' /\ handle' = s.handle
           /\ \A t \in Tasks : Launches(Now, t)' <= MaxLaunches
<1>1. CASE Becomes(s)
  BY <1>1, BecomesKeeps DEF Becomes
<1>2. CASE ThenDispatch(s)
  <2>1. PICK S \in SUBSET Ready(s) : Dispatches(s, S) /\ Becomes(Launched(s, S))
    BY <1>2 DEF ThenDispatch
  <2>2. Good(Launched(s, S))
    BY <2>1, LaunchedGood DEF Good
  <2>3. Launched(s, S).handle = s.handle
    BY DEF Launched
  <2> QED
    BY <2>1, <2>2, <2>3, BecomesKeeps DEF Becomes
<1> QED
  BY <1>1, <1>2

LEMMA NowFields ==
    ASSUME SchedulerInv
    PROVE  /\ Good(Now) /\ Now \in State
           /\ Now.handle = handle /\ Now.launching = launching /\ Now.launch = launch
           /\ Now.workspaces = workspaces
           /\ Now.doubled = doubled /\ Now.overtaken = overtaken
           /\ handle \in [Tasks -> Handle] /\ launch \in [Tasks -> [LaunchPc -> Nat]]
           /\ closed => \A t \in Tasks : handle[t].status = "absent"
<1>1. Now \in State /\ Now.handle = handle /\ Now.launch = launch
  BY DEF SchedulerInv, Good, Now
<1> QED
  BY <1>1, StateFields DEF SchedulerInv, Good, PlanOK, Now

\* A stretch that leaves the plan alone keeps the invariant.
LEMMA StepKeeps ==
    ASSUME SchedulerInv, NEW s, Good(s), Becomes(s) \/ ThenDispatch(s), UNCHANGED plan,
           closed => \A t \in Tasks : s.handle[t].status = "absent"
    PROVE  SchedulerInv'
<1>1. /\ Good(Now)' /\ handle' = s.handle
      /\ \A t \in Tasks : Launches(Now, t)' <= MaxLaunches
  BY StretchKeeps
<1> QED
  BY <1>1 DEF SchedulerInv, PlanOK, plan

\* A change to a handle that neither moves its status nor gives or takes a session.
Touched(s, t, new) == [s EXCEPT !.handle[t] = new]
Touches(s, r, t, new) ==
    /\ Good(r) /\ r \in State
    /\ r.handle = [s.handle EXCEPT ![t] = new]
    /\ r.launching = s.launching /\ r.launch = s.launch
    /\ r.workspaces = s.workspaces /\ r.doubled = s.doubled /\ r.overtaken = s.overtaken
    /\ \A u \in Tasks : r.handle[u].status = s.handle[u].status

LEMMA TouchedGood ==
    ASSUME NEW s, Good(s), NEW t \in Tasks, NEW new \in Handle,
           new.status = s.handle[t].status,
           new.session = "none" <=> s.handle[t].session = "none"
    PROVE  Touches(s, Touched(s, t, new), t, new)
<1> DEFINE h == [s.handle EXCEPT ![t] = new]
           r == Touched(s, t, new)
<1>1. s \in State
  BY DEF Good
<1>2. /\ h \in [Tasks -> Handle]
      /\ \A u \in Tasks : /\ h[u].status = s.handle[u].status
                          /\ h[u].session = "none" <=> s.handle[u].session = "none"
  BY <1>1, StateFields
<1>3. r = [s EXCEPT !.handle = h]
  BY DEF Touched
<1> HIDE DEF h, r
<1>4. r = [handle |-> h, launching |-> s.launching, launch |-> s.launch,
           workspaces |-> s.workspaces, doubled |-> s.doubled, overtaken |-> s.overtaken]
  BY <1>1, <1>3, StateFields
<1>5. /\ r \in State /\ r.handle = h /\ r.launching = s.launching /\ r.launch = s.launch
      /\ r.workspaces = s.workspaces
      /\ r.doubled = s.doubled /\ r.overtaken = s.overtaken
  BY <1>1, <1>2, <1>4, StateFields DEF State
<1>6. Ended(r) /\ Sessions(r)
  BY <1>2, <1>5 DEF Good, Ended, Sessions
<1>7. Disjoint(r) /\ Slots(r)
  BY <1>5 DEF Good, Disjoint, Slots, BeforeSession, Launches
<1>8. Alone(r)
  BY <1>2, <1>5 DEF Good, Alone, BeforeSession
<1> QED
  BY <1>2, <1>5, <1>6, <1>7, <1>8 DEF Good, Touches, h, r

-----------------------------------------------------------------------------
(* Each action keeps it: the launches.                                     *)

\* A launch that aborts found no task waiting, and if it found one working there
\* was another launch.
LEMMA AbortGood ==
    ASSUME SchedulerInv, NEW t \in Tasks, Aborted(t), NEW s, Good(s),
           s.handle[t].status = handle[t].status,
           NEW pc \in {"compile", "authority"}, s.launch[t][pc] > 0
    PROVE  LET r == Released(Finished(s, t, pc), {t}) IN Good(r) /\ r.handle = s.handle
<1> DEFINE q == Finished(s, t, pc)
<1>1. s \in State /\ pc \in LaunchPc
  BY DEF Good, LaunchPc
<1>2. q \in State /\ q.handle = s.handle /\ q.doubled = s.doubled
  BY <1>1, FinishedFields
<1>3. Good(q)
  BY <1>1, FinishedGood
<1>4. s.handle[t].status # "pending"
  BY NowFields DEF Aborted
<1>5. t \in s.doubled \/ s.handle[t].status # "running"
  <2> SUFFICES ASSUME t \notin s.doubled
               PROVE  s.handle[t].status # "running"
    OBVIOUS
  <2>1. BeforeSession(s, t) > 0
    BY <1>1, LaunchFields DEF BeforeSession
  <2> QED
    BY <2>1 DEF Good, Alone
<1> HIDE DEF q
<1>6. Good(Released(q, {t})) /\ Released(q, {t}).handle = q.handle
  BY <1>2, <1>3, <1>4, <1>5, ReleasedGood, ReleasedFields
<1> QED
  BY <1>2, <1>6 DEF q

\* The workspace of a task is taken when no lock is in its way.
LEMMA PreparedGood ==
    ASSUME NEW s, Good(s), NEW t \in Tasks, s.handle[t].status = "pending",
           CanPrepare(s, t), s.launch[t]["compile"] > 0
    PROVE  LET r == Passes(Prepared(s, t), t, "compile", "authority")
           IN  Good(r) /\ r.handle = s.handle
<1> DEFINE q == Prepared(s, t)
           w == s.workspaces \cup {t}
           r == Passes(q, t, "compile", "authority")
<1>1. s \in State
  BY DEF Good
<1>2. q = [s EXCEPT !.workspaces = w]
  BY DEF Prepared
<1> HIDE DEF q, w
<1>3. q = [handle |-> s.handle, launching |-> s.launching, launch |-> s.launch,
           workspaces |-> w, doubled |-> s.doubled, overtaken |-> s.overtaken]
  BY <1>1, <1>2, StateFields
<1>4. q \in State
  <2>1. w \in SUBSET Tasks
    BY <1>1, StateFields DEF w
  <2> QED
    BY <1>1, <1>3, <2>1, StateFields DEF State
<1>5. "compile" \in LaunchPc /\ "authority" \in LaunchPc /\ "start" \in LaunchPc \ {"compile", "authority"}
      /\ "stale" \in LaunchPc \ {"compile", "authority"}
  BY DEF LaunchPc
<1>6. /\ r \in State /\ r.handle = s.handle /\ r.launching = s.launching
      /\ r.workspaces = w /\ r.doubled = s.doubled /\ r.overtaken = s.overtaken
      /\ \A u \in Tasks : u # t => r.launch[u] = s.launch[u]
      /\ r.launch[t]["compile"] = s.launch[t]["compile"] - 1
      /\ r.launch[t]["authority"] = s.launch[t]["authority"] + 1
      /\ r.launch[t]["start"] = s.launch[t]["start"]
      /\ r.launch[t]["stale"] = s.launch[t]["stale"]
  <2>1. q.launch[t]["compile"] > 0
    BY <1>3
  <2> QED
    BY <1>3, <1>4, <1>5, <2>1, PassesFields
<1> HIDE DEF r
<1>7. \A u \in Tasks : /\ BeforeSession(r, u) = BeforeSession(s, u)
                       /\ Launches(r, u) = Launches(s, u)
                       /\ r.launch[u]["start"] = s.launch[u]["start"]
                       /\ u # t => r.launch[u] = s.launch[u]
  <2>1. BeforeSession(r, t) = BeforeSession(s, t) /\ Launches(r, t) = Launches(s, t)
    BY <1>1, <1>6, LaunchFields DEF BeforeSession, Launches
  <2> QED
    BY <1>6, <2>1 DEF BeforeSession, Launches
<1>8. Ended(r) /\ Sessions(r)
  BY <1>6 DEF Good, Ended, Sessions, Terminal, w
<1>9. Disjoint(r)
  BY <1>6, OverlapSymmetric DEF Good, Disjoint, CanPrepare, Locked, Overlap, w
<1>10. Alone(r)
  BY <1>6, <1>7 DEF Good, Alone, w
<1>11. Slots(r)
  BY <1>6, <1>7 DEF Good, Slots
<1> QED
  BY <1>6, <1>8, <1>9, <1>10, <1>11 DEF Good, r, q

LEMMA CompiledKeeps ==
    ASSUME SchedulerInv, NEW t \in Tasks, Compiled(t)
    PROVE  SchedulerInv'
<1> DEFINE new == [handle[t] EXCEPT !.compiled = handle[t].status # "absent"]
           s == Touched(Now, t, new)
<1>1. new \in Handle /\ new.status = handle[t].status /\ new.session = handle[t].session
  <2>1. handle[t] \in Handle
    BY NowFields
  <2>2. new \in Handle
    BY <2>1, Zenon DEF Handle
  <2> QED
    BY <2>1, <2>2 DEF Handle
<1>2. /\ Good(s) /\ s \in State /\ s.launch = launch
      /\ \A u \in Tasks : s.handle[u].status = handle[u].status
  <2>1. Touches(Now, s, t, new)
    BY <1>1, NowFields, TouchedGood
  <2> HIDE DEF new, s
  <2> QED
    BY <2>1, NowFields DEF Touches
<1>3. s = [Now EXCEPT !.handle[t].compiled = handle[t].status # "absent"]
  BY NowFields DEF Touched
<1> HIDE DEF s
<1>4. launch[t]["compile"] > 0 /\ UNCHANGED plan
  BY DEF Compiled, Quiet
<1>5. CASE Aborted(t) /\ Abort(s, t, "compile")
  <2> DEFINE r == Released(Finished(s, t, "compile"), {t})
  <2>1. Good(r) /\ r.handle = s.handle
    BY <1>2, <1>4, <1>5, AbortGood
  <2>2. Becomes(r)
    BY <1>5 DEF Abort
  <2> HIDE DEF r
  <2> QED
    BY <1>2, <1>4, <2>1, <2>2, NowFields, StepKeeps
<1>6. CASE /\ ~Aborted(t) /\ CanPrepare(s, t)
           /\ Becomes(Passes(Prepared(s, t), t, "compile", "authority"))
  <2> DEFINE r == Passes(Prepared(s, t), t, "compile", "authority")
  <2>1. Good(r) /\ r.handle = s.handle
    BY <1>2, <1>4, <1>6, PreparedGood DEF Aborted
  <2>2. Becomes(r)
    BY <1>6
  <2> HIDE DEF r
  <2> QED
    BY <1>2, <1>4, <2>1, <2>2, NowFields, StepKeeps
<1>7. CASE ~Aborted(t) /\ Becomes(Finished(s, t, "compile"))
  <2> DEFINE r == Finished(s, t, "compile")
  <2>1. Good(r)
    BY <1>2, <1>4, FinishedGood DEF LaunchPc
  <2>2. Becomes(r)
    BY <1>7
  <2> HIDE DEF r
  <2> QED
    BY <1>4, <1>7, <2>1, <2>2, StepKeeps DEF Aborted
<1>8. CASE ~Aborted(t) /\ Becomes(Failed(Finished(s, t, "compile"), t))
  <2> DEFINE q == Finished(s, t, "compile")
             r == Failed(q, t)
  <2>1. Good(q)
    BY <1>2, <1>4, FinishedGood DEF LaunchPc
  <2> HIDE DEF q
  <2>2. Good(r)
    BY <2>1, FailedGood DEF Good
  <2>3. Becomes(r)
    BY <1>8 DEF q
  <2> HIDE DEF r
  <2> QED
    BY <1>4, <1>8, <2>2, <2>3, StepKeeps DEF Aborted
<1> QED
  BY <1>3, <1>5, <1>6, <1>7, <1>8 DEF Compiled

LEMMA CompileFailsKeeps ==
    ASSUME SchedulerInv, NEW t \in Tasks, CompileFails(t)
    PROVE  SchedulerInv'
<1> DEFINE s == Finished(Now, t, "compile")
<1>1. launch[t]["compile"] > 0 /\ UNCHANGED plan
  BY DEF CompileFails, Quiet
<1>2. Good(s) /\ s \in State /\ s.handle = handle
  BY <1>1, NowFields, FinishedGood, FinishedFields DEF LaunchPc
<1>3. Becomes(IF handle[t].status = "absent" THEN Released(s, {t})
              ELSE Disposed(s, {t}, "interrupted"))
  BY DEF CompileFails
<1> HIDE DEF s
<1>4. CASE handle[t].status = "absent"
  <2>1. Good(Released(s, {t})) /\ Released(s, {t}).handle = handle
    BY <1>2, <1>4, ReleasedGood, ReleasedFields
  <2> QED
    BY <1>1, <1>3, <1>4, <2>1, NowFields, StepKeeps
<1>5. CASE handle[t].status # "absent"
  <2>1. Good(Disposed(s, {t}, "interrupted"))
    BY <1>2, DisposedGood DEF Terminal
  <2> QED
    BY <1>1, <1>3, <1>5, <2>1, NowFields, StepKeeps
<1> QED
  BY <1>4, <1>5

LEMMA LaunchFailsKeeps ==
    ASSUME SchedulerInv, NEW t \in Tasks, LaunchFails(t)
    PROVE  SchedulerInv'
<1>1. PICK pc \in Underway(Now, t) : Becomes(Caught(Finished(Now, t, pc), t))
  BY DEF LaunchFails
<1>2. pc \in LaunchPc /\ launch[t][pc] > 0 /\ UNCHANGED plan
  BY NowFields DEF Underway, LaunchFails, Quiet
<1> DEFINE s == Finished(Now, t, pc)
           r == Caught(s, t)
<1>3. Good(s) /\ s \in State /\ s.handle = handle
  BY <1>2, NowFields, FinishedGood, FinishedFields
<1> HIDE DEF s
<1>4. Good(r)
  BY <1>3, CaughtGood
<1>5. handle[t].status = "absent" => r.handle = handle
  BY <1>3, ReleasedFields DEF Caught
<1>6. Becomes(r)
  BY <1>1 DEF s
<1> HIDE DEF r
<1> QED
  BY <1>2, <1>4, <1>5, <1>6, NowFields, StepKeeps

\* The session that starts takes over the slot and the workspace of its launch.
Started(s, t) ==
    Passes([s EXCEPT
               !.handle[t] = [s.handle[t] EXCEPT !.session = "starting",
                                                 !.status = "running", !.stalled = FALSE,
                                                 !.retried = Numbered(@)],
               !.launching = @ \ {t}],
           t, "authority", "start")

LEMMA StartedGood ==
    ASSUME NEW s, Good(s), NEW t \in Tasks, s.handle[t].status = "pending",
           s.launch[t]["authority"] > 0
    PROVE  Good(Started(s, t))
<1> DEFINE a == [s.handle[t] EXCEPT !.session = "starting", !.status = "running",
                                    !.stalled = FALSE, !.retried = Numbered(@)]
           h == [s.handle EXCEPT ![t] = a]
           n == s.launching \ {t}
           q == [s EXCEPT !.handle = h, !.launching = n]
           r == Passes(q, t, "authority", "start")
<1>1. s \in State
  BY DEF Good
<1>2. a \in Handle /\ a.status = "running"
  <2>1. s.handle[t] \in Handle
    BY <1>1, StateFields
  <2> QED
    BY <2>1 DEF Handle, Status, Retries, Numbered
<1>3. Started(s, t) = r
  BY DEF Started
<1> HIDE DEF a
<1>4. h \in [Tasks -> Handle] /\ h[t] = a /\ \A u \in Tasks : u # t => h[u] = s.handle[u]
  BY <1>1, <1>2, StateFields
<1> HIDE DEF h, n, r
<1>5. q = [handle |-> h, launching |-> n, launch |-> s.launch,
           workspaces |-> s.workspaces, doubled |-> s.doubled, overtaken |-> s.overtaken]
  <2>1. q = [s EXCEPT !.handle = h, !.launching = n]
    OBVIOUS
  <2> HIDE DEF q
  <2>2. s = [handle |-> s.handle, launching |-> s.launching, launch |-> s.launch,
             workspaces |-> s.workspaces, doubled |-> s.doubled, overtaken |-> s.overtaken]
    BY <1>1, StateFields
  <2> QED
    BY <2>1, <2>2
<1> USE DEF r
<1> HIDE DEF q
<1>6. q \in State /\ q.launch[t]["authority"] > 0
  <2>1. n \in SUBSET Tasks
    BY <1>1, StateFields DEF n
  <2> QED
    BY <1>1, <1>4, <1>5, <2>1, StateFields DEF State
<1>7. "authority" \in LaunchPc /\ "start" \in LaunchPc /\ "compile" \in LaunchPc \ {"authority", "start"}
      /\ "stale" \in LaunchPc \ {"authority", "start"}
  BY DEF LaunchPc
<1>8. /\ r \in State /\ r.handle = h /\ r.launching = n
      /\ r.workspaces = s.workspaces /\ r.doubled = s.doubled /\ r.overtaken = s.overtaken
      /\ \A u \in Tasks : u # t => r.launch[u] = s.launch[u]
      /\ r.launch[t]["compile"] = s.launch[t]["compile"]
      /\ r.launch[t]["authority"] = s.launch[t]["authority"] - 1
      /\ r.launch[t]["start"] = s.launch[t]["start"] + 1
      /\ r.launch[t]["stale"] = s.launch[t]["stale"]
  BY <1>5, <1>6, <1>7, PassesFields
<1> HIDE DEF r
<1>9. Ended(r) /\ Sessions(r)
  BY <1>2, <1>4, <1>8 DEF Good, Ended, Sessions, Terminal
<1>10. /\ BeforeSession(r, t) = BeforeSession(s, t) - 1
       /\ r.launch[t]["start"] = s.launch[t]["start"] + 1
       /\ Launches(r, t) = Launches(s, t)
       /\ BeforeSession(s, t) \in Nat /\ s.launch[t]["start"] \in Nat
       /\ BeforeSession(s, t) > 0
  <2>1. /\ s.launch[t]["compile"] \in Nat /\ s.launch[t]["authority"] \in Nat
        /\ s.launch[t]["start"] \in Nat /\ s.launch[t]["stale"] \in Nat
    BY <1>1, LaunchFields
  <2> QED
    BY <1>8, <2>1 DEF BeforeSession, Launches
<1>11. \A u \in Tasks : u # t => /\ BeforeSession(r, u) = BeforeSession(s, u)
                                 /\ Launches(r, u) = Launches(s, u)
                                 /\ r.launch[u] = s.launch[u]
  BY <1>8 DEF BeforeSession, Launches
<1>12. Alone(r)
  <2> SUFFICES ASSUME NEW u \in Tasks \ r.doubled
               PROVE  /\ BeforeSession(r, u) + r.launch[u]["start"] <= 1
                      /\ r.handle[u].status = "running" =>
                            BeforeSession(r, u) = 0 /\ u \in r.workspaces
                      /\ r.handle[u].status = "pending" /\ r.launch[u]["authority"] > 0 =>
                            u \in r.workspaces
    BY DEF Alone
  <2>1. CASE u = t
    <3>1. BeforeSession(s, t) + s.launch[t]["start"] <= 1 /\ t \in s.workspaces
      BY <1>8, <2>1 DEF Good, Alone
    <3>2. BeforeSession(r, t) + r.launch[t]["start"] <= 1 /\ BeforeSession(r, t) = 0
      BY <1>10, <3>1
    <3> QED
      BY <1>2, <1>4, <1>8, <2>1, <3>1, <3>2
  <2>2. CASE u # t
    BY <1>4, <1>8, <1>11, <2>2 DEF Good, Alone
  <2> QED
    BY <2>1, <2>2
<1>13. Slots(r) /\ Disjoint(r)
  <2>1. ASSUME NEW u \in Tasks \ (r.doubled \cup r.overtaken)
        PROVE  Launches(r, u) <= 1 /\ (BeforeSession(r, u) > 0 => u \in r.launching)
    <3>1. CASE u = t
      <4>1. Launches(s, t) <= 1
        BY <1>8, <2>1, <3>1 DEF Good, Slots
      <4>2. BeforeSession(s, t) <= 1
        BY <1>1, <1>10, <4>1, FewLaunches, LaunchFields
      <4> QED
        BY <1>10, <3>1, <4>1, <4>2
    <3>2. CASE u # t
      BY <1>8, <1>11, <2>1, <3>2 DEF Good, Slots, n
    <3> QED
      BY <3>1, <3>2
  <2> QED
    BY <1>8, <2>1 DEF Good, Slots, Disjoint
<1> QED
  BY <1>3, <1>8, <1>9, <1>12, <1>13 DEF Good

LEMMA AuthorizedKeeps ==
    ASSUME SchedulerInv, NEW t \in Tasks, Authorized(t)
    PROVE  SchedulerInv'
<1>1. launch[t]["authority"] > 0 /\ UNCHANGED plan
  BY DEF Authorized, Quiet
<1>2. CASE Aborted(t)
  <2> DEFINE r == Released(Finished(Now, t, "authority"), {t})
  <2>1. Good(r) /\ r.handle = handle
    BY <1>1, <1>2, NowFields, AbortGood
  <2>2. Becomes(r)
    BY <1>2 DEF Authorized, Abort
  <2> HIDE DEF r
  <2> QED
    BY <1>1, <2>1, <2>2, NowFields, StepKeeps
<1>3. CASE ~Aborted(t)
  <2>1. Good(Started(Now, t))
    BY <1>1, <1>3, NowFields, StartedGood DEF Aborted
  <2>2. Becomes(Started(Now, t))
    BY <1>3, NowFields DEF Authorized, Started
  <2> QED
    BY <1>1, <1>3, <2>1, <2>2, StepKeeps DEF Aborted
<1> QED
  BY <1>2, <1>3

LEMMA StartReturnsKeeps ==
    ASSUME SchedulerInv, NEW t \in Tasks, StartReturns(t)
    PROVE  SchedulerInv'
<1>1. CASE launch[t]["stale"] > 0 /\ Becomes(Finished(Now, t, "stale")) /\ Quiet
  <2>1. Good(Finished(Now, t, "stale")) /\ Finished(Now, t, "stale").handle = handle
    BY <1>1, NowFields, FinishedGood, FinishedFields DEF LaunchPc
  <2> QED
    BY <1>1, <2>1, NowFields, StepKeeps DEF Quiet
<1> DEFINE new == [handle[t] EXCEPT !.session = IF @ = "starting" THEN "live" ELSE @]
           s == Touched(Now, t, new)
<1>2. /\ new \in Handle /\ new.status = handle[t].status
      /\ new.session = "none" <=> handle[t].session = "none"
  <2>1. handle[t] \in Handle
    BY NowFields
  <2> QED
    BY <2>1 DEF Handle
<1>3. /\ Good(s) /\ s \in State /\ s.launch = launch
      /\ \A u \in Tasks : s.handle[u].status = handle[u].status
  <2>1. Touches(Now, s, t, new)
    BY <1>2, NowFields, TouchedGood
  <2> HIDE DEF new, s
  <2> QED
    BY <2>1, NowFields DEF Touches
<1>4. s = [Now EXCEPT !.handle[t].session = IF @ = "starting" THEN "live" ELSE @]
  BY NowFields DEF Touched
<1> HIDE DEF s
<1>5. CASE launch[t]["start"] > 0 /\ Becomes(Finished(s, t, "start")) /\ Quiet
  <2> DEFINE r == Finished(s, t, "start")
  <2>1. Good(r) /\ r.handle = s.handle
    BY <1>3, <1>5, FinishedGood, FinishedFields DEF LaunchPc
  <2>2. Becomes(r) /\ UNCHANGED plan
    BY <1>5 DEF Quiet
  <2> HIDE DEF r
  <2> QED
    BY <1>3, <2>1, <2>2, NowFields, StepKeeps
<1> QED
  BY <1>1, <1>4, <1>5 DEF StartReturns

-----------------------------------------------------------------------------
(* The workers.                                                            *)

\* A stretch about a task that exists finds the Meeting open.
LEMMA OpenStepKeeps ==
    ASSUME SchedulerInv, NEW t \in Tasks, handle[t].status # "absent",
           NEW s, Good(s), Becomes(s) \/ ThenDispatch(s), UNCHANGED plan
    PROVE  SchedulerInv'
BY NowFields, StepKeeps

LEMMA ReportsKeeps ==
    ASSUME SchedulerInv, NEW t \in Tasks, Reports(t)
    PROVE  SchedulerInv'
<1>1. Good(Parked(Now, {t}, "verifying"))
  BY NowFields, ParkedGood
<1> QED
  BY <1>1, OpenStepKeeps DEF Reports, Running, Quiet

LEMMA WorkerFailsKeeps ==
    ASSUME SchedulerInv, NEW t \in Tasks, WorkerFails(t) \/ DeliveryFails(t)
    PROVE  SchedulerInv'
<1>1. Good(Failed(Now, t))
  BY NowFields, FailedGood
<1> QED
  BY <1>1, OpenStepKeeps DEF WorkerFails, DeliveryFails, Running, Quiet

LEMMA InterruptedKeeps ==
    ASSUME SchedulerInv, NEW t \in Tasks, Interrupted(t)
    PROVE  SchedulerInv'
<1>1. Good(Disposed(Now, {t}, "interrupted"))
  BY NowFields, DisposedGood DEF Terminal
<1> QED
  BY <1>1, OpenStepKeeps DEF Interrupted, Running, Quiet

LEMMA ReviewPassesKeeps ==
    ASSUME SchedulerInv, NEW t \in Tasks, ReviewPasses(t)
    PROVE  SchedulerInv'
<1>1. Good(Parked(Now, {t}, "reviewed"))
  BY NowFields, ParkedGood
<1> QED
  BY <1>1, OpenStepKeeps DEF ReviewPasses, Quiet

LEMMA AcceptedKeeps ==
    ASSUME SchedulerInv, NEW t \in Tasks, Accepted(t)
    PROVE  SchedulerInv'
<1>1. Good(Disposed(Now, {t}, "accepted"))
  BY NowFields, DisposedGood DEF Terminal
<1> QED
  BY <1>1, OpenStepKeeps DEF Accepted, Quiet

LEMMA FreshAttemptGood ==
    ASSUME SchedulerInv, NEW t \in Tasks, NEW why \in Retries
    PROVE  Good(FreshAttempt(Now, t, why))
<1> DEFINE new == [Registered EXCEPT !.retried = why]
<1>1. new \in Handle /\ new.status = "pending" /\ new.session = "none"
  BY DEF Handle, Registered, Absent, Status, Retries
<1> HIDE DEF new
<1>2. Good(Again(Parked(Now, {t}, "pending"), t, new))
  BY <1>1, NowFields, AgainGood
<1> QED
  BY <1>2 DEF FreshAttempt, new

LEMMA ReworkedKeeps ==
    ASSUME SchedulerInv, NEW t \in Tasks, Reworked(t)
    PROVE  SchedulerInv'
BY FreshAttemptGood, OpenStepKeeps DEF Reworked, Retries

LEMMA RetriedKeeps ==
    ASSUME SchedulerInv, NEW t \in Tasks, Retried(t)
    PROVE  SchedulerInv'
<1>1. CASE /\ handle[t].status \in {"failed", "interrupted"}
           /\ ThenDispatch(FreshAttempt(Now, t, "fresh")) /\ UNCHANGED plan
  BY <1>1, FreshAttemptGood, OpenStepKeeps DEF Retries
<1> DEFINE new == [handle[t] EXCEPT !.status = "pending", !.compiled = FALSE,
                                !.retried = Reproposed(@)]
<1>2. CASE /\ handle[t].status = "interrupted"
           /\ ThenDispatch(Again(Now, t, new)) /\ UNCHANGED plan
  <2>1. handle[t] \in Handle /\ handle[t].session = "none"
    BY <1>2, NowFields DEF Good, Ended, Terminal
  <2>2. new \in Handle /\ new.status = "pending" /\ new.session = "none"
    BY <2>1 DEF Handle, Status, Retries, Reproposed
  <2> HIDE DEF new
  <2>3. Good(Again(Now, t, new))
    BY <2>2, NowFields, AgainGood
  <2> QED
    BY <1>2, <2>3, OpenStepKeeps
<1> QED
  BY <1>1, <1>2 DEF Retried

LEMMA AsksKeeps ==
    ASSUME SchedulerInv, NEW t \in Tasks, Asks(t)
    PROVE  SchedulerInv'
<1> DEFINE new == [handle[t] EXCEPT !.asking = TRUE]
<1>1. new \in Handle /\ new.status = handle[t].status /\ new.session = handle[t].session
  BY NowFields DEF Handle
<1>2. Touched(Now, t, new) = [Now EXCEPT !.handle[t].asking = TRUE]
  BY NowFields DEF Touched
<1> HIDE DEF new
<1>3. Good(Touched(Now, t, new))
  BY <1>1, NowFields, TouchedGood DEF Touches
<1> QED
  BY <1>2, <1>3, OpenStepKeeps DEF Asks, Running

LEMMA AnsweredKeeps ==
    ASSUME SchedulerInv, NEW t \in Tasks, Answered(t)
    PROVE  SchedulerInv'
<1> DEFINE new == [handle[t] EXCEPT !.asking = FALSE]
           s == Touched(Now, t, new)
<1>1. new \in Handle /\ new.status = handle[t].status /\ new.session = handle[t].session
  BY NowFields DEF Handle
<1>2. s = [Now EXCEPT !.handle[t].asking = FALSE]
  BY NowFields DEF Touched
<1> HIDE DEF new
<1>3. Touches(Now, s, t, new)
  BY <1>1, NowFields, TouchedGood
<1> HIDE DEF s
<1>4. Good(s) /\ \A u \in Tasks : s.handle[u].status = handle[u].status
  BY <1>3, NowFields DEF Touches
<1>5. Becomes(s) /\ UNCHANGED plan
  BY <1>2 DEF Answered, Quiet
<1> QED
  BY <1>4, <1>5, NowFields, StepKeeps

\* A step that changes nothing but a flag of one handle.
LEMMA FlaggedKeeps ==
    ASSUME SchedulerInv, NEW t \in Tasks, NEW new \in Handle,
           new.status = handle[t].status, new.session = handle[t].session,
           handle' = [handle EXCEPT ![t] = new],
           UNCHANGED <<launching, launch, workspaces, revision, installed, dirty, closed,
                       history>>,
           restarting' \subseteq Tasks
    PROVE  SchedulerInv'
<1> DEFINE s == Touched(Now, t, new)
<1>1. Touches(Now, s, t, new)
  BY NowFields, TouchedGood
<1> HIDE DEF s
<1>2. Good(s) /\ \A u \in Tasks : s.handle[u].status = handle[u].status
  BY <1>1, NowFields DEF Touches
<1>3. \A u \in Tasks : Launches(s, u) <= MaxLaunches
  BY <1>1, NowFields DEF Touches, Launches, SchedulerInv, PlanOK
<1>4. Becomes(s)
  BY <1>1, <1>3, NowFields DEF Touches, Becomes, history
<1>5. Good(Now)' /\ handle' = s.handle /\ \A u \in Tasks : Launches(Now, u)' <= MaxLaunches
  BY <1>2, <1>4, StretchKeeps
<1> QED
  BY <1>2, <1>5, NowFields DEF SchedulerInv, PlanOK

LEMMA StallWatchKeeps ==
    ASSUME SchedulerInv, NEW t \in Tasks, Stalls(t) \/ Progress(t) \/ RestartStalled(t)
    PROVE  SchedulerInv'
<1>1. handle[t] \in Handle
  BY NowFields
<1>2. CASE Stalls(t)
  <2>1. /\ [handle[t] EXCEPT !.stalled = TRUE] \in Handle
        /\ [handle[t] EXCEPT !.stalled = TRUE].status = handle[t].status
        /\ [handle[t] EXCEPT !.stalled = TRUE].session = handle[t].session
    BY <1>1 DEF Handle
  <2>2. /\ handle' = [handle EXCEPT ![t] = [handle[t] EXCEPT !.stalled = TRUE]]
        /\ UNCHANGED <<launching, launch, workspaces, revision, installed, dirty, closed,
                       history>>
        /\ restarting' \subseteq Tasks
    BY <1>2 DEF Stalls, plan, SchedulerInv, PlanOK
  <2> QED
    BY <2>1, <2>2, FlaggedKeeps
<1>3. CASE Progress(t)
  <2>1. /\ [handle[t] EXCEPT !.stalled = FALSE] \in Handle
        /\ [handle[t] EXCEPT !.stalled = FALSE].status = handle[t].status
        /\ [handle[t] EXCEPT !.stalled = FALSE].session = handle[t].session
    BY <1>1 DEF Handle
  <2>2. /\ handle' = [handle EXCEPT ![t] = [handle[t] EXCEPT !.stalled = FALSE]]
        /\ UNCHANGED <<launching, launch, workspaces, revision, installed, dirty, closed,
                       history>>
        /\ restarting' \subseteq Tasks
    BY <1>3 DEF Progress, plan, SchedulerInv, PlanOK
  <2> QED
    BY <2>1, <2>2, FlaggedKeeps
<1>4. CASE RestartStalled(t)
  <2>1. /\ [handle[t] EXCEPT !.restarted = TRUE] \in Handle
        /\ [handle[t] EXCEPT !.restarted = TRUE].status = handle[t].status
        /\ [handle[t] EXCEPT !.restarted = TRUE].session = handle[t].session
    BY <1>1 DEF Handle
  <2>2. /\ handle' = [handle EXCEPT ![t] = [handle[t] EXCEPT !.restarted = TRUE]]
        /\ UNCHANGED <<launching, launch, workspaces, revision, installed, dirty, closed,
                       history>>
        /\ restarting' \subseteq Tasks
    BY <1>4 DEF RestartStalled, SchedulerInv, PlanOK
  <2> QED
    BY <2>1, <2>2, FlaggedKeeps
<1> QED
  BY <1>2, <1>3, <1>4

\* A stretch under which the plan may move too.
LEMMA PlanStepKeeps ==
    ASSUME SchedulerInv, NEW s, Good(s), Becomes(s) \/ ThenDispatch(s),
           UNCHANGED <<dirty, closed>>, installed' \in 0 .. Len(Batches),
           restarting' \subseteq Tasks, revision' \subseteq Tasks,
           closed => \A t \in Tasks : s.handle[t].status = "absent"
    PROVE  SchedulerInv'
<1>1. /\ Good(Now)' /\ handle' = s.handle
      /\ \A t \in Tasks : Launches(Now, t)' <= MaxLaunches
  BY StretchKeeps
<1> QED
  BY <1>1 DEF SchedulerInv, PlanOK

LEMMA RestartedKeeps ==
    ASSUME SchedulerInv, NEW t \in Tasks, Restarted(t)
    PROVE  SchedulerInv'
<1>1. /\ UNCHANGED <<dirty, closed>> /\ installed' \in 0 .. Len(Batches)
      /\ restarting' \subseteq Tasks /\ revision' \subseteq Tasks
  BY DEF Restarted, SchedulerInv, PlanOK
<1> DEFINE s == Parked(Now, {t}, "pending")
           new == [s.handle[t] EXCEPT !.stalled = FALSE]
<1>2. CASE ~closed /\ ThenDispatch(Again(s, t, new))
  <2>1. Parks(Now, s, {t}, "pending")
    BY NowFields, ParkedFields DEF Status
  <2>2. s.handle[t] \in Handle /\ s.handle[t].status = "pending" /\ s.handle[t].session = "none"
    <3> HIDE DEF s
    <3> QED
      BY <2>1, StateFields DEF Parks
  <2>3. new \in Handle /\ new.status = "pending" /\ new.session = "none"
    <3> HIDE DEF s
    <3> QED
      BY <2>2 DEF Handle
  <2> HIDE DEF new
  <2>4. Good(Again(s, t, new))
    BY <2>3, NowFields, AgainGood
  <2> QED
    BY <1>1, <1>2, <2>4, PlanStepKeeps
<1>3. CASE Becomes(Now)
  BY <1>1, <1>3, NowFields, PlanStepKeeps
<1> QED
  BY <1>2, <1>3 DEF Restarted

-----------------------------------------------------------------------------
(* The plan and the user.                                                  *)

\* Handles come and go while no launch of a new one is under way.
LEMMA HandlesGood ==
    ASSUME SchedulerInv, NEW T \in SUBSET Tasks, NEW new \in {Registered, Absent},
           new = Registered => \A t \in T : Underway(Now, t) = {}
    PROVE  LET r == [Now EXCEPT !.handle = [t \in Tasks |-> IF t \in T THEN new ELSE handle[t]]]
           IN  Good(r) /\ r.handle = [t \in Tasks |-> IF t \in T THEN new ELSE handle[t]]
<1> DEFINE h == [t \in Tasks |-> IF t \in T THEN new ELSE handle[t]]
           r == [Now EXCEPT !.handle = h]
<1>1. /\ new \in Handle /\ new.session = "none"
      /\ new.status = "pending" \/ new.status = "absent"
      /\ new.status = "pending" => new = Registered
  <2>1. Absent \in Handle /\ Absent.session = "none" /\ Absent.status = "absent"
    BY DEF Absent, Handle, Status, Retries
  <2>2. Registered \in Handle /\ Registered.session = "none" /\ Registered.status = "pending"
    BY <2>1 DEF Registered, Handle, Status, Retries
  <2> QED
    BY <2>1, <2>2
<1>2. /\ h \in [Tasks -> Handle] /\ \A t \in T : h[t] = new
      /\ \A t \in Tasks \ T : h[t] = handle[t]
  <2>1. \A t \in Tasks : h[t] \in Handle
    BY <1>1, NowFields
  <2> QED
    BY <2>1
<1> HIDE DEF h
<1>3. r = [handle |-> h, launching |-> launching, launch |-> launch,
           workspaces |-> workspaces, doubled |-> doubled, overtaken |-> overtaken]
  BY DEF Now
<1> HIDE DEF r
<1>4. r \in State
  BY <1>2, <1>3, NowFields, StateFields DEF State
<1>5. Ended(r) /\ Sessions(r)
  BY <1>1, <1>2, <1>3, NowFields DEF Good, Ended, Sessions, Terminal
<1>6. Disjoint(r) /\ Slots(r)
  BY <1>3, NowFields DEF Good, Disjoint, Slots, BeforeSession, Launches
<1>7. Alone(r)
  <2> SUFFICES ASSUME NEW u \in Tasks \ r.doubled
               PROVE  /\ BeforeSession(r, u) + r.launch[u]["start"] <= 1
                      /\ r.handle[u].status = "running" =>
                            BeforeSession(r, u) = 0 /\ u \in r.workspaces
                      /\ r.handle[u].status = "pending" /\ r.launch[u]["authority"] > 0 =>
                            u \in r.workspaces
    BY DEF Alone
  <2>1. CASE u \in T
    <3>1. BeforeSession(r, u) + r.launch[u]["start"] <= 1
      BY <1>3, NowFields DEF Good, Alone, BeforeSession
    <3>2. r.handle[u].status = "pending" => ~(r.launch[u]["authority"] > 0)
      BY <1>1, <1>2, <1>3, <2>1, NowFields DEF Underway, LaunchPc
    <3> QED
      BY <1>1, <1>2, <1>3, <2>1, <3>1, <3>2
  <2>2. CASE u \notin T
    BY <1>2, <1>3, <2>2, NowFields DEF Good, Alone, BeforeSession
  <2> QED
    BY <2>1, <2>2
<1> QED
  BY <1>3, <1>4, <1>5, <1>6, <1>7 DEF Good, r, h

LEMMA InstallKeeps ==
    ASSUME SchedulerInv, Install
    PROVE  SchedulerInv'
<1> DEFINE batch == Batches[installed + 1]
           s == [Now EXCEPT !.handle =
                    [t \in Tasks |-> IF t \in batch THEN Registered ELSE handle[t]]]
<1>1. /\ installed < Len(Batches) /\ ~closed /\ ThenDispatch(s)
      /\ \A t \in batch : Underway(Now, t) = {}
      /\ installed' = installed + 1 /\ UNCHANGED <<restarting, revision, dirty, closed>>
  BY DEF Install
<1>2. installed \in Nat /\ Len(Batches) \in Nat /\ installed + 1 \in 1 .. Len(Batches)
  BY <1>1, PlanAssumption DEF SchedulerInv, PlanOK
<1>3. batch \in SUBSET Tasks
  BY <1>2, PlanAssumption
<1> HIDE DEF batch
<1>4. Good(s)
  BY <1>1, <1>3, HandlesGood
<1>5. /\ installed' \in 0 .. Len(Batches)
      /\ restarting' \subseteq Tasks /\ revision' \subseteq Tasks
  BY <1>1, <1>2 DEF SchedulerInv, PlanOK
<1> HIDE DEF s
<1> QED
  BY <1>1, <1>4, <1>5, PlanStepKeeps

LEMMA ApplyRevisionKeeps ==
    ASSUME SchedulerInv, ApplyRevision
    PROVE  SchedulerInv'
<1> DEFINE s == [Now EXCEPT !.handle =
                    [t \in Tasks |-> IF t \in revision THEN Absent ELSE handle[t]]]
<1>1. /\ UNCHANGED <<dirty, closed>> /\ installed' \in 0 .. Len(Batches)
      /\ restarting' \subseteq Tasks /\ revision' \subseteq Tasks
      /\ revision \in SUBSET Tasks
  BY DEF ApplyRevision, SchedulerInv, PlanOK
<1>2. CASE ~closed /\ ThenDispatch(s)
  <2>1. Absent # Registered
    BY DEF Absent, Registered
  <2>2. Good(s)
    BY <1>1, <2>1, HandlesGood
  <2> HIDE DEF s
  <2> QED
    BY <1>1, <1>2, <2>2, PlanStepKeeps
<1>3. CASE Becomes(Now)
  BY <1>1, <1>3, NowFields, PlanStepKeeps
<1> QED
  BY <1>2, <1>3 DEF ApplyRevision

LEMMA ReviseOrEditsKeeps ==
    ASSUME SchedulerInv, Revise \/ Edits
    PROVE  SchedulerInv'
<1>1. /\ UNCHANGED <<handle, launching, launch, workspaces, doubled, overtaken>>
      /\ UNCHANGED <<closed, restarting, installed>>
      /\ revision' \subseteq Tasks /\ dirty' \in BOOLEAN
  BY DEF Revise, Edits, history, SchedulerInv, PlanOK
<1>2. Now' = Now /\ \A t \in Tasks : Launches(Now, t)' = Launches(Now, t)
  BY <1>1 DEF Now, Launches
<1>3. Good(Now)'
  BY <1>2 DEF SchedulerInv
<1>4. PlanOK'
  BY <1>1, <1>2 DEF SchedulerInv, PlanOK
<1> QED
  BY <1>3, <1>4 DEF SchedulerInv

\* After endAll() the launches under way go on without a task.
LEMMA EndAllKeeps ==
    ASSUME SchedulerInv, EndAll
    PROVE  SchedulerInv'
<1> DEFINE r == Now'
<1>1. /\ r.handle = [t \in Tasks |-> Absent] /\ r.launching = launching /\ r.launch = launch
      /\ r.workspaces \subseteq workspaces /\ r.doubled = doubled /\ r.overtaken = overtaken
      /\ r.workspaces = workspaces'
  BY DEF EndAll, Now, history
<1>2. /\ r = [handle |-> handle', launching |-> launching', launch |-> launch',
              workspaces |-> workspaces', doubled |-> doubled', overtaken |-> overtaken']
      /\ r.handle = handle'
  BY DEF Now
<1> HIDE DEF r
<1>3. Absent \in Handle /\ Absent.status = "absent" /\ Absent.session = "none"
  BY DEF Absent, Handle, Status, Retries
<1>4. r \in State
  BY <1>1, <1>2, <1>3, NowFields, StateFields DEF State
<1>5. Ended(r) /\ Sessions(r)
  BY <1>1, <1>3 DEF Ended, Sessions, Terminal
<1>6. Disjoint(r) /\ Slots(r)
  BY <1>1, NowFields DEF Good, Disjoint, Slots, BeforeSession, Launches
<1>7. Alone(r)
  BY <1>1, <1>3, NowFields DEF Good, Alone, BeforeSession
<1>8. Good(r)
  BY <1>4, <1>5, <1>6, <1>7 DEF Good
<1>9. \A t \in Tasks : Launches(r, t) = Launches(Now, t)
  BY <1>1, NowFields DEF Launches
<1>10. PlanOK'
  <2>1. \A t \in Tasks : Launches(Now, t)' <= MaxLaunches
    BY <1>9 DEF SchedulerInv, PlanOK, r, Launches
  <2>2. \A t \in Tasks : handle'[t].status = "absent"
    BY <1>1, <1>2, <1>3
  <2> QED
    BY <2>1, <2>2 DEF SchedulerInv, PlanOK, EndAll
<1> QED
  BY <1>8, <1>10 DEF SchedulerInv, r

-----------------------------------------------------------------------------
(* The theorems.                                                           *)

LEMMA InitInv ==
    ASSUME Init
    PROVE  SchedulerInv
<1>1. Absent \in Handle /\ Absent.status = "absent" /\ Absent.session = "none"
  BY DEF Absent, Handle, Status, Retries
<1>2. /\ Now.handle = [t \in Tasks |-> Absent] /\ Now.workspaces = {}
      /\ Now.launch = [t \in Tasks |-> [pc \in LaunchPc |-> 0]]
      /\ Now.launching = {} /\ Now.doubled = {} /\ Now.overtaken = {}
      /\ Now = [handle |-> handle, launching |-> launching, launch |-> launch,
                workspaces |-> workspaces, doubled |-> doubled, overtaken |-> overtaken]
  BY DEF Init, Now
<1>3. [t \in Tasks |-> Absent] \in [Tasks -> Handle]
      /\ [t \in Tasks |-> [pc \in LaunchPc |-> 0]] \in [Tasks -> [LaunchPc -> Nat]]
  BY <1>1
<1>4. Now \in State
  BY <1>2, <1>3 DEF State
<1>5. \A t \in Tasks : /\ BeforeSession(Now, t) = 0 /\ Launches(Now, t) = 0
                       /\ Now.launch[t]["start"] = 0
  BY <1>2 DEF BeforeSession, Launches, LaunchPc
<1>6. Ended(Now) /\ Sessions(Now) /\ Disjoint(Now)
  BY <1>1, <1>2 DEF Ended, Sessions, Disjoint, Terminal
<1>7. Alone(Now) /\ Slots(Now)
  BY <1>1, <1>2, <1>5 DEF Alone, Slots
<1>8. PlanOK
  <2>1. 0 <= MaxLaunches /\ Len(Batches) \in Nat
    BY PlanAssumption, BoundsAssumption
  <2>2. restarting = {} /\ revision = {} /\ installed = 0 /\ closed = FALSE /\ dirty = FALSE
    BY DEF Init
  <2>3. \A t \in Tasks : Launches(Now, t) <= MaxLaunches
    BY <1>5, <2>1
  <2>4. installed \in 0 .. Len(Batches)
    BY <2>1, <2>2
  <2> QED
    BY <2>2, <2>3, <2>4 DEF PlanOK
<1> QED
  BY <1>4, <1>6, <1>7, <1>8 DEF SchedulerInv, Good

LEMMA StepInv ==
    ASSUME SchedulerInv, [Next]_vars
    PROVE  SchedulerInv'
<1>1. CASE UNCHANGED vars
  <2>1. Now' = Now
    BY <1>1 DEF vars, history, Now
  <2>2. PlanOK'
    BY <1>1, <2>1 DEF vars, plan, SchedulerInv, PlanOK, Launches
  <2> QED
    BY <2>1, <2>2 DEF SchedulerInv
<1>2. ASSUME NEW t \in Tasks, Step(t)
      PROVE  SchedulerInv'
  BY <1>2, ReportsKeeps, WorkerFailsKeeps, InterruptedKeeps, ReviewPassesKeeps, AcceptedKeeps,
     ReworkedKeeps, RetriedKeeps, AsksKeeps, AnsweredKeeps, StallWatchKeeps, RestartedKeeps
     DEF Step
<1>3. ASSUME NEW t \in Tasks, LaunchStep(t)
      PROVE  SchedulerInv'
  BY <1>3, CompiledKeeps, CompileFailsKeeps, AuthorizedKeeps, LaunchFailsKeeps,
     StartReturnsKeeps DEF LaunchStep
<1> QED
  BY <1>1, <1>2, <1>3, InstallKeeps, ReviseOrEditsKeeps, ApplyRevisionKeeps, EndAllKeeps
     DEF Next

\* The inductive invariant: with one launch of a task at a time, the launch holds
\* the slot and then the workspace, until its session or its end takes them over.
THEOREM SchedulerInvariant == Spec => []SchedulerInv
<1>1. Init => SchedulerInv
  BY InitInv
<1>2. SchedulerInv /\ [Next]_vars => SchedulerInv'
  BY StepInv
<1> QED
  BY <1>1, <1>2, PTL DEF Spec

\* What TLC checks in the run: the types, that a task that ended has neither a
\* session nor a workspace or lock, and that nothing comes back after endAll().
THEOREM EndedHoldsNothing == Spec => []EndedOwnsNothing
<1>1. SchedulerInv => EndedOwnsNothing
  <2> SUFFICES ASSUME SchedulerInv
               PROVE  EndedOwnsNothing
    OBVIOUS
  <2>1. \A t \in Tasks : \A pc \in LaunchPc : launch[t][pc] \in 0 .. MaxLaunches
    <3> SUFFICES ASSUME NEW t \in Tasks
                 PROVE  \A pc \in LaunchPc : launch[t][pc] \in 0 .. MaxLaunches
      OBVIOUS
    <3>1. MaxLaunches \in Nat /\ Launches(Now, t) <= MaxLaunches
      BY BoundsAssumption DEF SchedulerInv, PlanOK
    <3>2. /\ launch[t]["compile"] \in Nat /\ launch[t]["authority"] \in Nat
          /\ launch[t]["start"] \in Nat /\ launch[t]["stale"] \in Nat
          /\ Launches(Now, t) = launch[t]["compile"] + launch[t]["authority"]
                                + launch[t]["start"] + launch[t]["stale"]
      BY NowFields, LaunchFields DEF Launches
    <3>3. /\ launch[t]["compile"] \in 0 .. MaxLaunches /\ launch[t]["authority"] \in 0 .. MaxLaunches
          /\ launch[t]["start"] \in 0 .. MaxLaunches /\ launch[t]["stale"] \in 0 .. MaxLaunches
      BY <3>1, <3>2
    <3> QED
      BY <3>3 DEF LaunchPc
  <2>2. launch \in [Tasks -> [LaunchPc -> 0 .. MaxLaunches]]
    <3>1. \A t \in Tasks : launch[t] \in [LaunchPc -> 0 .. MaxLaunches]
      BY <2>1, NowFields
    <3> QED
      BY <3>1, NowFields
  <2>3. TypeOK
    BY <2>2, NowFields, StateFields DEF TypeOK, SchedulerInv, PlanOK
  <2> QED
    BY <2>3, NowFields DEF EndedOwnsNothing, Good, Ended
<1> QED
  BY <1>1, SchedulerInvariant, PTL

\* With one launch of a task at a time no two tasks that may write one path work
\* at the same time, whatever fails, is retried, restarted or revised.
THEOREM LocksHold == Spec => []LocksExclude
<1>1. SchedulerInv => LocksExclude
  <2> SUFFICES ASSUME SchedulerInv, doubled = {}, NEW t \in Tasks, NEW u \in Tasks, t # u,
                      Running(t), Running(u)
               PROVE  ~Overlap(t, u)
    BY DEF LocksExclude, SharedPathsExclusive
  <2>1. t \in workspaces /\ u \in workspaces
    BY NowFields DEF Good, Alone, Running
  <2> QED
    BY <2>1, NowFields DEF Good, Disjoint
<1> QED
  BY <1>1, SchedulerInvariant, PTL

-----------------------------------------------------------------------------
(* How many work: what the loop over the ready tasks launches.             *)

LEMMA ActiveFinite ==
    ASSUME NEW s \in State
    PROVE  /\ Active(s) \in SUBSET Tasks /\ IsFiniteSet(Active(s))
           /\ Cardinality(Active(s)) \in Nat
<1>1. Active(s) \in SUBSET Tasks
  BY StateFields DEF Active
<1> QED
  BY <1>1, PlanAssumption, FS_Subset, FS_CardinalityType

\* r is a state no busier than s.
Calmer(r, s) == r \in State /\ Active(r) \subseteq Active(s)

LEMMA CalmerCounts ==
    ASSUME NEW s \in State, NEW r, Calmer(r, s)
    PROVE  Cardinality(Active(r)) <= Cardinality(Active(s))
BY ActiveFinite, FS_Subset DEF Calmer

LEMMA LaunchedActive ==
    ASSUME NEW s \in State, NEW S \in SUBSET Tasks
    PROVE  Active(Launched(s, S)) = Active(s) \cup S
<1> DEFINE r == Launched(s, S)
<1>1. r.handle = s.handle /\ r.launching = s.launching \cup S
  BY LaunchedFields DEF Starts
<1> HIDE DEF r
<1>2. Active(r) = Active(s) \cup S
  BY <1>1 DEF Active
<1> QED
  BY <1>2 DEF r

\* The loop ends with one of the launched tasks.
LEMMA LastLaunched ==
    ASSUME NEW s \in State, NEW S \in SUBSET Tasks, S # {}
    PROVE  \E t \in S : {u \in S : Before(s, u, t)} = S \ {t}
<1> DEFINE After(t) == {u \in S : Before(s, t, u)}
           counts == {Cardinality(After(t)) : t \in S}
<1>1. IsFiniteSet(S)
  BY PlanAssumption, FS_Subset
<1>2. \A t \in S : IsFiniteSet(After(t)) /\ Cardinality(After(t)) \in Nat
  BY <1>1, FS_Subset, FS_CardinalityType
<1>3. counts \subseteq Nat /\ counts # {}
  BY <1>2
<1>4. PICK n \in counts : \A m \in counts : ~(<<m, n>> \in OpToRel(<, Nat))
  <2> HIDE DEF counts
  <2> QED
    BY <1>3, NatLessThanWellFounded, WFMin
<1>5. \A m \in counts : ~(m < n)
  <2>1. \A m \in counts : m \in Nat /\ n \in Nat
    BY <1>3
  <2> HIDE DEF counts
  <2> QED
    BY <1>4, <2>1 DEF OpToRel
<1>6. PICK t \in S : Cardinality(After(t)) = n
  OBVIOUS
<1>7. After(t) = {}
  <2> SUFFICES ASSUME NEW u \in After(t)
               PROVE  FALSE
    OBVIOUS
  <2>1. After(u) \in SUBSET After(t)
    BY BeforeTransitive
  <2>2. u \notin After(u)
    BY BeforeTotal
  <2>3. After(u) # After(t)
    BY <2>2
  <2>4. Cardinality(After(u)) \in counts
    OBVIOUS
  <2>5. Cardinality(After(u)) <= Cardinality(After(t))
        /\ Cardinality(After(u)) # Cardinality(After(t))
    <3> HIDE DEF After
    <3> QED
      BY <1>2, <2>1, <2>3, FS_Subset
  <2>6. ~(Cardinality(After(u)) < Cardinality(After(t)))
    BY <1>5, <1>6, <2>4
  <2>7. Cardinality(After(u)) \in Nat /\ Cardinality(After(t)) \in Nat
    BY <1>2
  <2> HIDE DEF After
  <2> QED
    BY <2>5, <2>6, <2>7
<1> QED
  BY <1>7, BeforeTotal

\* A dispatch fills the slots and no more.
LEMMA LaunchedWithin ==
    ASSUME NEW s \in State, NEW S \in SUBSET Ready(s), Dispatches(s, S),
           Cardinality(Active(s)) <= Limit
    PROVE  Cardinality(Active(Launched(s, S))) <= Limit
<1>1. S \in SUBSET Tasks
  BY DEF Ready
<1>2. CASE S = {}
  <2>1. Active(Launched(s, S)) = Active(s)
    BY <1>1, <1>2, LaunchedActive
  <2> QED
    BY <2>1
<1>3. CASE S # {}
  <2>1. PICK t \in S : {u \in S : Before(s, u, t)} = S \ {t}
    BY <1>1, <1>3, LastLaunched
  <2>2. Launchable(Launched(s, S \ {t}), t)
    BY <2>1 DEF Dispatches
  <2>3. Cardinality(Active(s) \cup (S \ {t})) < Limit
    BY <1>1, <2>2, LaunchedActive DEF Launchable
  <2>4. IsFiniteSet(Active(s) \cup (S \ {t}))
        /\ Cardinality(Active(s) \cup (S \ {t})) \in Nat
    BY <1>1, ActiveFinite, PlanAssumption, FS_Subset, FS_CardinalityType
  <2>5. Active(Launched(s, S)) = (Active(s) \cup (S \ {t})) \cup {t}
    BY <1>1, LaunchedActive
  <2>6. Cardinality(Active(Launched(s, S))) <= Cardinality(Active(s) \cup (S \ {t})) + 1
    <3> DEFINE A == Active(s) \cup (S \ {t})
    <3>1. IsFiniteSet(A) /\ Cardinality(A) \in Nat /\ Active(Launched(s, S)) = A \cup {t}
      BY <2>4, <2>5
    <3> HIDE DEF A
    <3>2. Cardinality(A \cup {t}) <= Cardinality(A) + 1
      BY <3>1, FS_AddElement
    <3> QED
      BY <3>1, <3>2 DEF A
  <2>7. Cardinality(Active(Launched(s, S))) \in Nat /\ Limit \in Nat
    <3>1. Launched(s, S) \in State
      BY <1>1, LaunchedFields DEF Starts
    <3> QED
      BY <3>1, ActiveFinite, BoundsAssumption
  <2> QED
    BY <2>3, <2>4, <2>6, <2>7
<1> QED
  BY <1>2, <1>3

\* What a stretch leaves is a state, or a state and the tasks dispatched from it.
LEMMA StretchLeaves ==
    ASSUME NEW s \in State, Becomes(s) \/ ThenDispatch(s)
    PROVE  \/ Now' = s
           \/ \E S \in SUBSET Ready(s) : Dispatches(s, S) /\ Now' = Launched(s, S)
<1>1. ASSUME NEW r \in State, Becomes(r)
      PROVE  Now' = r
  BY <1>1, StateFields DEF Now, Becomes
<1>2. CASE Becomes(s)
  BY <1>1, <1>2
<1>3. CASE ThenDispatch(s)
  <2>1. PICK S \in SUBSET Ready(s) : Dispatches(s, S) /\ Becomes(Launched(s, S))
    BY <1>3 DEF ThenDispatch
  <2>2. Launched(s, S) \in State
    BY LaunchedFields DEF Ready, Starts
  <2> QED
    BY <1>1, <2>1, <2>2
<1> QED
  BY <1>2, <1>3

Busy(s) == Cardinality(Active(s)) > Limit

LEMMA StretchWithin ==
    ASSUME SchedulerInv, NEW s, Calmer(s, Now), Becomes(s) \/ ThenDispatch(s), ~Busy(Now)
    PROVE  ~Busy(Now')
<1>1. s \in State /\ Now \in State /\ Limit \in Nat
  BY NowFields, BoundsAssumption DEF Calmer
<1>2. Cardinality(Active(s)) \in Nat /\ Cardinality(Active(Now)) \in Nat
  BY <1>1, ActiveFinite
<1>3. Cardinality(Active(s)) <= Limit
  BY <1>1, <1>2, CalmerCounts DEF Busy
<1>4. CASE Now' = s
  BY <1>1, <1>2, <1>3, <1>4 DEF Busy
<1>5. ASSUME NEW S \in SUBSET Ready(s), Dispatches(s, S), Now' = Launched(s, S)
      PROVE  ~Busy(Now')
  <2>1. Cardinality(Active(Launched(s, S))) <= Limit
    BY <1>1, <1>3, <1>5, LaunchedWithin
  <2>2. Launched(s, S) \in State
    BY <1>1, LaunchedFields DEF Ready, Starts
  <2>3. Cardinality(Active(Launched(s, S))) \in Nat
    BY <2>2, ActiveFinite
  <2> QED
    BY <1>1, <1>5, <2>1, <2>3 DEF Busy
<1> QED
  BY <1>1, <1>4, <1>5, StretchLeaves

\* Ending sessions, and being pending again, takes no slot.
LEMMA ParksCalmer ==
    ASSUME NEW s \in State, NEW r, NEW T \in SUBSET Tasks, NEW status, Parks(s, r, T, status)
    PROVE  Calmer(r, s)
BY DEF Parks, Calmer, Active

LEMMA DisposedCalmer ==
    ASSUME NEW s \in State, NEW T \in SUBSET Tasks, NEW status \in Status
    PROVE  Calmer(Disposed(s, T, status), s) /\ Calmer(Parked(s, T, status), s)
BY DisposedFields, ParkedFields, ParksCalmer

LEMMA ReleasedCalmer ==
    ASSUME NEW s \in State, NEW T
    PROVE  Calmer(Released(s, T), s)
<1> DEFINE r == Released(s, T)
<1>1. r \in State /\ r.handle = s.handle /\ r.launching = s.launching
  BY ReleasedFields
<1> HIDE DEF r
<1>2. Calmer(r, s)
  BY <1>1 DEF Calmer, Active
<1> QED
  BY <1>2 DEF r

LEMMA FinishedCalmer ==
    ASSUME NEW s \in State, NEW t \in Tasks, NEW pc \in LaunchPc, s.launch[t][pc] > 0
    PROVE  Calmer(Finished(s, t, pc), s)
<1> DEFINE r == Finished(s, t, pc)
<1>1. r \in State /\ r.handle = s.handle /\ r.launching = s.launching \ {t}
  BY FinishedFields
<1> HIDE DEF r
<1>2. Calmer(r, s)
  BY <1>1 DEF Calmer, Active
<1> QED
  BY <1>2 DEF r

LEMMA FailedCalmer ==
    ASSUME NEW s \in State, NEW t \in Tasks
    PROVE  Calmer(Failed(s, t), s)
<1> DEFINE q == Disposed(s, {t}, "failed")
<1>1. "failed" \in Status /\ {t} \in SUBSET Tasks
  BY DEF Status
<1>2. Calmer(q, s)
  BY <1>1, DisposedCalmer
<1> HIDE DEF q
<1>3. Calmer(Disposed(q, Doomed(q), "failed"), q)
  BY <1>1, <1>2, DisposedCalmer DEF Doomed, Calmer
<1> QED
  BY <1>2, <1>3 DEF Failed, Cascaded, Calmer, q

LEMMA CaughtCalmer ==
    ASSUME NEW s \in State, NEW t \in Tasks
    PROVE  Calmer(Caught(s, t), s)
<1>1. Calmer(s, s)
  BY DEF Calmer
<1> QED
  BY <1>1, ReleasedCalmer, FailedCalmer DEF Caught

LEMMA AgainCalmer ==
    ASSUME NEW s \in State, NEW t \in Tasks, NEW new \in Handle, new.session = "none"
    PROVE  Calmer(Again(s, t, new), s)
<1> DEFINE r == Again(s, t, new)
<1>1. Waits(s, r, t, new)
  BY AgainFields
<1> HIDE DEF r
<1>2. Calmer(r, s)
  BY <1>1 DEF Waits, Calmer, Active
<1> QED
  BY <1>2 DEF r

LEMMA TouchedCalmer ==
    ASSUME NEW s \in State, NEW r, NEW t \in Tasks, NEW new \in Handle, Touches(s, r, t, new),
           new.session = "none" <=> s.handle[t].session = "none",
           ~new.asking => ~s.handle[t].asking
    PROVE  Calmer(r, s)
<1>1. /\ r.handle \in [Tasks -> Handle] /\ s.handle \in [Tasks -> Handle]
      /\ r.handle[t] = new /\ \A u \in Tasks : u # t => r.handle[u] = s.handle[u]
  BY StateFields DEF Touches
<1>2. \A u \in Active(r) : u \in Active(s)
  BY <1>1 DEF Touches, Active
<1> QED
  BY <1>2 DEF Calmer, Touches

\* The launch of a task without another one holds the slot its session takes.
LEMMA StartedCalmer ==
    ASSUME NEW s, Good(s), NEW t \in Tasks \ (s.doubled \cup s.overtaken),
           s.launch[t]["authority"] > 0
    PROVE  Calmer(Started(s, t), s)
<1> DEFINE a == [s.handle[t] EXCEPT !.session = "starting", !.status = "running",
                                    !.stalled = FALSE, !.retried = Numbered(@)]
           q == [s EXCEPT !.handle[t] = a, !.launching = @ \ {t}]
<1>1. s \in State
  BY DEF Good
<1>2. a \in Handle
  <2>1. s.handle[t] \in Handle
    BY <1>1, StateFields
  <2> QED
    BY <2>1 DEF Handle, Status, Retries, Numbered
<1>3. Started(s, t) = Passes(q, t, "authority", "start")
  BY DEF Started
<1> HIDE DEF a
<1>4. /\ q \in State /\ q.launch = s.launch /\ q.launching = s.launching \ {t}
      /\ \A u \in Tasks : u # t => q.handle[u] = s.handle[u]
  BY <1>1, <1>2 DEF State
<1> HIDE DEF q
<1>5. /\ "authority" \in LaunchPc /\ "start" \in LaunchPc
  BY DEF LaunchPc
<1> DEFINE r == Passes(q, t, "authority", "start")
<1>6. r \in State /\ r.handle = q.handle /\ r.launching = q.launching
  BY <1>4, <1>5, PassesFields
<1> HIDE DEF r
<1>7. t \in s.launching
  <2>1. BeforeSession(s, t) > 0
    BY <1>1, LaunchFields DEF BeforeSession
  <2> QED
    BY <2>1 DEF Good, Slots
<1>8. Calmer(r, s)
  BY <1>4, <1>6, <1>7 DEF Calmer, Active
<1> QED
  BY <1>3, <1>8 DEF r

LEMMA CalmerTransitive ==
    ASSUME NEW s, NEW q, NEW r, Calmer(q, s), Calmer(r, q)
    PROVE  Calmer(r, s)
BY DEF Calmer

LEMMA CompiledWithin ==
    ASSUME SchedulerInv, NEW t \in Tasks, Compiled(t), ~Busy(Now)
    PROVE  ~Busy(Now')
<1> DEFINE new == [handle[t] EXCEPT !.compiled = handle[t].status # "absent"]
           s == Touched(Now, t, new)
<1>1. /\ new \in Handle /\ new.status = handle[t].status /\ new.session = handle[t].session
      /\ new.asking = handle[t].asking
  <2>1. handle[t] \in Handle
    BY NowFields
  <2>2. new \in Handle
    BY <2>1, Zenon DEF Handle
  <2> QED
    BY <2>1, <2>2 DEF Handle
<1>2. s = [Now EXCEPT !.handle[t].compiled = handle[t].status # "absent"]
  BY NowFields DEF Touched
<1> HIDE DEF new
<1>3. Touches(Now, s, t, new)
  BY <1>1, NowFields, TouchedGood
<1> HIDE DEF s
<1>4. Calmer(s, Now) /\ s \in State /\ s.launch = launch
  <2>1. Calmer(s, Now)
    BY <1>1, <1>3, NowFields, TouchedCalmer
  <2> QED
    BY <1>3, <2>1, NowFields DEF Touches
<1> DEFINE q == Finished(s, t, "compile")
           p == Prepared(s, t)
<1>5. launch[t]["compile"] > 0 /\ "compile" \in LaunchPc /\ "authority" \in LaunchPc
  BY DEF Compiled, LaunchPc
<1>6. Calmer(q, s) /\ q \in State
  BY <1>4, <1>5, FinishedCalmer DEF Calmer
<1>7. Calmer(Passes(p, t, "compile", "authority"), s)
  <2>1. p \in State /\ p.handle = s.handle /\ p.launching = s.launching /\ p.launch = s.launch
    BY <1>4, StateFields DEF Prepared, State
  <2> HIDE DEF p
  <2> DEFINE r == Passes(p, t, "compile", "authority")
  <2>2. r \in State /\ r.handle = s.handle /\ r.launching = s.launching
    BY <1>4, <1>5, <2>1, PassesFields
  <2> HIDE DEF r
  <2>3. Calmer(r, s)
    BY <2>2 DEF Calmer, Active
  <2> QED
    BY <2>3 DEF r
<1> HIDE DEF q, p
<1>8. Calmer(Released(q, {t}), q) /\ Calmer(Failed(q, t), q)
  BY <1>6, ReleasedCalmer, FailedCalmer
<1>9. \/ Becomes(Released(q, {t})) \/ Becomes(Passes(p, t, "compile", "authority"))
      \/ Becomes(q) \/ Becomes(Failed(q, t))
  BY <1>2 DEF Compiled, Abort, q, p
<1> QED
  BY <1>4, <1>6, <1>7, <1>8, <1>9, CalmerTransitive, StretchWithin

LEMMA CompileFailsWithin ==
    ASSUME SchedulerInv, NEW t \in Tasks, CompileFails(t), ~Busy(Now)
    PROVE  ~Busy(Now')
<1> DEFINE q == Finished(Now, t, "compile")
<1>1. launch[t]["compile"] > 0
      /\ (Becomes(Released(q, {t})) \/ Becomes(Disposed(q, {t}, "interrupted")))
  BY DEF CompileFails
<1>2. Calmer(q, Now) /\ q \in State
  BY <1>1, NowFields, FinishedCalmer DEF LaunchPc, Calmer
<1> HIDE DEF q
<1>3. Calmer(Released(q, {t}), q) /\ Calmer(Disposed(q, {t}, "interrupted"), q)
  BY <1>2, ReleasedCalmer, DisposedCalmer DEF Status
<1> QED
  BY <1>1, <1>2, <1>3, CalmerTransitive, StretchWithin

LEMMA LaunchFailsWithin ==
    ASSUME SchedulerInv, NEW t \in Tasks, LaunchFails(t), ~Busy(Now)
    PROVE  ~Busy(Now')
<1>1. PICK pc \in Underway(Now, t) : Becomes(Caught(Finished(Now, t, pc), t))
  BY DEF LaunchFails
<1>2. pc \in LaunchPc /\ Now.launch[t][pc] > 0
  BY DEF Underway
<1> DEFINE q == Finished(Now, t, pc)
<1>3. Calmer(q, Now) /\ q \in State
  BY <1>2, NowFields, FinishedCalmer DEF Calmer
<1>4. Becomes(Caught(q, t))
  BY <1>1
<1> HIDE DEF q
<1>5. Calmer(Caught(q, t), q)
  BY <1>3, CaughtCalmer
<1> QED
  BY <1>3, <1>4, <1>5, CalmerTransitive, StretchWithin

LEMMA AuthorizedWithin ==
    ASSUME SchedulerInv, NEW t \in Tasks, Authorized(t), ~Busy(Now),
           doubled \cup overtaken = {}
    PROVE  ~Busy(Now')
<1>1. launch[t]["authority"] > 0 /\ "authority" \in LaunchPc
  BY DEF Authorized, LaunchPc
<1>2. CASE Aborted(t)
  <2> DEFINE q == Finished(Now, t, "authority")
  <2>1. Calmer(q, Now) /\ q \in State
    BY <1>1, NowFields, FinishedCalmer DEF Calmer
  <2>2. Becomes(Released(q, {t}))
    BY <1>2 DEF Authorized, Abort
  <2> HIDE DEF q
  <2>3. Calmer(Released(q, {t}), q)
    BY <2>1, ReleasedCalmer
  <2> QED
    BY <2>1, <2>2, <2>3, CalmerTransitive, StretchWithin
<1>3. CASE ~Aborted(t)
  <2>1. Calmer(Started(Now, t), Now)
    BY <1>1, NowFields, StartedCalmer
  <2>2. Becomes(Started(Now, t))
    BY <1>3, NowFields DEF Authorized, Started
  <2> QED
    BY <2>1, <2>2, StretchWithin
<1> QED
  BY <1>2, <1>3

LEMMA StartReturnsWithin ==
    ASSUME SchedulerInv, NEW t \in Tasks, StartReturns(t), ~Busy(Now)
    PROVE  ~Busy(Now')
<1> DEFINE new == [handle[t] EXCEPT !.session = IF @ = "starting" THEN "live" ELSE @]
           s == Touched(Now, t, new)
<1>1. /\ new \in Handle /\ new.status = handle[t].status /\ new.asking = handle[t].asking
      /\ new.session = "none" <=> handle[t].session = "none"
  <2>1. handle[t] \in Handle
    BY NowFields
  <2> QED
    BY <2>1 DEF Handle
<1>2. s = [Now EXCEPT !.handle[t].session = IF @ = "starting" THEN "live" ELSE @]
  BY NowFields DEF Touched
<1> HIDE DEF new
<1>3. Touches(Now, s, t, new)
  BY <1>1, NowFields, TouchedGood
<1> HIDE DEF s
<1>4. Calmer(s, Now) /\ s \in State /\ s.launch = launch
  <2>1. Calmer(s, Now)
    BY <1>1, <1>3, NowFields, TouchedCalmer
  <2> QED
    BY <1>3, <2>1, NowFields DEF Touches
<1>5. CASE launch[t]["start"] > 0 /\ Becomes(Finished(s, t, "start"))
  <2>1. Calmer(Finished(s, t, "start"), s)
    BY <1>4, <1>5, FinishedCalmer DEF LaunchPc
  <2> QED
    BY <1>4, <1>5, <2>1, CalmerTransitive, StretchWithin
<1>6. CASE launch[t]["stale"] > 0 /\ Becomes(Finished(Now, t, "stale"))
  <2>1. Calmer(Finished(Now, t, "stale"), Now)
    BY <1>6, NowFields, FinishedCalmer DEF LaunchPc
  <2> QED
    BY <1>6, <2>1, StretchWithin
<1> QED
  BY <1>2, <1>5, <1>6 DEF StartReturns

LEMMA EndsWithin ==
    ASSUME SchedulerInv, NEW t \in Tasks, ~Busy(Now),
           \/ Reports(t) \/ WorkerFails(t) \/ Interrupted(t) \/ ReviewPasses(t)
           \/ Accepted(t) \/ DeliveryFails(t)
    PROVE  ~Busy(Now')
<1>1. {t} \in SUBSET Tasks /\ {"verifying", "reviewed", "interrupted", "accepted"} \subseteq Status
  BY DEF Status
<1>2. /\ Calmer(Parked(Now, {t}, "verifying"), Now) /\ Calmer(Failed(Now, t), Now)
      /\ Calmer(Disposed(Now, {t}, "interrupted"), Now)
      /\ Calmer(Parked(Now, {t}, "reviewed"), Now)
      /\ Calmer(Disposed(Now, {t}, "accepted"), Now)
  BY <1>1, NowFields, DisposedCalmer, FailedCalmer
<1>3. \E s \in {Parked(Now, {t}, "verifying"), Failed(Now, t),
                Disposed(Now, {t}, "interrupted"), Parked(Now, {t}, "reviewed"),
                Disposed(Now, {t}, "accepted")} : Becomes(s) \/ ThenDispatch(s)
  BY DEF Reports, WorkerFails, Interrupted, ReviewPasses, Accepted, DeliveryFails
<1> QED
  BY <1>2, <1>3, StretchWithin

LEMMA AgainWithin ==
    ASSUME SchedulerInv, NEW t \in Tasks, ~Busy(Now),
           Reworked(t) \/ Retried(t) \/ Restarted(t)
    PROVE  ~Busy(Now')
<1>1. ASSUME NEW new \in Handle, new.session = "none"
      PROVE  Calmer(Again(Parked(Now, {t}, "pending"), t, new), Now)
  <2> DEFINE q == Parked(Now, {t}, "pending")
  <2>1. Calmer(q, Now) /\ q \in State
    BY NowFields, DisposedCalmer DEF Status, Calmer
  <2> HIDE DEF q
  <2>2. Calmer(Again(q, t, new), q)
    BY <1>1, <2>1, AgainCalmer
  <2>3. Calmer(Again(q, t, new), Now)
    BY <2>1, <2>2, CalmerTransitive
  <2> QED
    BY <2>3 DEF q
<1>2. ASSUME NEW why \in Retries  PROVE Calmer(FreshAttempt(Now, t, why), Now)
  <2> DEFINE new == [Registered EXCEPT !.retried = why]
  <2>1. new \in Handle /\ new.session = "none"
    BY DEF Handle, Registered, Absent, Status, Retries
  <2> HIDE DEF new
  <2>2. Calmer(Again(Parked(Now, {t}, "pending"), t, new), Now)
    BY <1>1, <2>1
  <2> QED
    BY <2>2 DEF FreshAttempt, new
<1>3. CASE Reworked(t)
  BY <1>2, <1>3, StretchWithin DEF Reworked, Retries
<1>4. CASE Retried(t)
  <2> DEFINE new == [handle[t] EXCEPT !.status = "pending", !.compiled = FALSE,
                                !.retried = Reproposed(@)]
  <2>1. CASE handle[t].status = "interrupted" /\ ThenDispatch(Again(Now, t, new))
    <3>1. handle[t] \in Handle /\ handle[t].session = "none"
      BY <2>1, NowFields DEF Good, Ended, Terminal
    <3>2. new \in Handle /\ new.session = "none"
      BY <3>1 DEF Handle, Status, Retries, Reproposed
    <3> HIDE DEF new
    <3>3. Calmer(Again(Now, t, new), Now)
      BY <3>2, NowFields, AgainCalmer
    <3> QED
      BY <2>1, <3>3, StretchWithin
  <2> QED
    BY <1>2, <1>4, <2>1, StretchWithin DEF Retried, Retries
<1>5. CASE Restarted(t)
  <2> DEFINE s == Parked(Now, {t}, "pending")
             new == [s.handle[t] EXCEPT !.stalled = FALSE]
  <2>1. Parks(Now, s, {t}, "pending")
    BY NowFields, ParkedFields DEF Status
  <2>2. new \in Handle /\ new.session = "none"
    <3> HIDE DEF s
    <3>1. s.handle[t] \in Handle /\ s.handle[t].session = "none"
      BY <2>1, StateFields DEF Parks
    <3> QED
      BY <3>1 DEF Handle
  <2> HIDE DEF new
  <2>3. Calmer(Again(s, t, new), Now)
    BY <1>1, <2>2
  <2>4. Calmer(Now, Now)
    BY NowFields DEF Calmer
  <2>5. Becomes(Now) \/ ThenDispatch(Again(s, t, new))
    BY <1>5 DEF Restarted, new
  <2> HIDE DEF s
  <2> QED
    BY <2>3, <2>4, <2>5, StretchWithin
<1> QED
  BY <1>3, <1>4, <1>5

LEMMA AsksWithin ==
    ASSUME SchedulerInv, NEW t \in Tasks, ~Busy(Now), Asks(t)
    PROVE  ~Busy(Now')
<1> DEFINE new == [handle[t] EXCEPT !.asking = TRUE]
           s == Touched(Now, t, new)
<1>1. /\ new \in Handle /\ new.status = handle[t].status /\ new.session = handle[t].session
      /\ new.asking
  BY NowFields DEF Handle
<1>2. s = [Now EXCEPT !.handle[t].asking = TRUE]
  BY NowFields DEF Touched
<1> HIDE DEF new
<1>3. Touches(Now, s, t, new)
  BY <1>1, NowFields, TouchedGood
<1> HIDE DEF s
<1>4. Calmer(s, Now)
  BY <1>1, <1>3, NowFields, TouchedCalmer
<1>5. ThenDispatch(s)
  BY <1>2 DEF Asks
<1> QED
  BY <1>4, <1>5, StretchWithin

\* The steps of the stall watch change no slot.
LEMMA StallWatchSame ==
    ASSUME SchedulerInv, NEW t \in Tasks, Stalls(t) \/ Progress(t) \/ RestartStalled(t)
    PROVE  /\ Active(Now') = Active(Now) /\ Now' \in State
           /\ \A u \in Tasks : handle'[u].status = handle[u].status
           /\ UNCHANGED <<launching, workspaces, dirty>>
<1>1. handle[t] \in Handle /\ handle \in [Tasks -> Handle]
  BY NowFields
<1>2. /\ \A u \in Tasks : /\ handle'[u].status = handle[u].status
                          /\ handle'[u].session = handle[u].session
                          /\ handle'[u].asking = handle[u].asking
      /\ UNCHANGED <<launching, workspaces, dirty>>
  <2>1. CASE Stalls(t)
    BY <1>1, <2>1 DEF Handle, Stalls, plan
  <2>2. CASE Progress(t)
    BY <1>1, <2>2 DEF Handle, Progress, plan
  <2>3. CASE RestartStalled(t)
    BY <1>1, <2>3 DEF Handle, RestartStalled
  <2> QED
    BY <2>1, <2>2, <2>3
<1>3. Now'.handle = handle' /\ Now'.launching = launching
  BY <1>2 DEF Now
<1>4. Now.handle = handle /\ Now.launching = launching
  BY DEF Now
<1>5. Active(Now') = Active(Now)
  BY <1>2, <1>3, <1>4 DEF Active
<1>6. Now' \in State
  BY StallWatchKeeps DEF SchedulerInv, Good
<1> QED
  BY <1>2, <1>5, <1>6

LEMMA PlanWithin ==
    ASSUME SchedulerInv, ~Busy(Now), Install \/ ApplyRevision
    PROVE  ~Busy(Now')
<1>1. ASSUME NEW T \in SUBSET Tasks, NEW new \in {Registered, Absent}
      PROVE  LET r == [Now EXCEPT !.handle =
                           [t \in Tasks |-> IF t \in T THEN new ELSE handle[t]]]
             IN  Calmer(r, Now)
  <2> DEFINE h == [t \in Tasks |-> IF t \in T THEN new ELSE handle[t]]
             r == [Now EXCEPT !.handle = h]
  <2>1. new \in Handle /\ new.session = "none"
    <3>1. Absent \in Handle /\ Absent.session = "none"
      BY DEF Absent, Handle, Status, Retries
    <3>2. Registered \in Handle /\ Registered.session = "none"
      BY <3>1 DEF Registered, Handle, Status, Retries
    <3> QED
      BY <1>1, <3>1, <3>2
  <2>2. /\ h \in [Tasks -> Handle] /\ \A t \in T : h[t] = new
        /\ \A t \in Tasks \ T : h[t] = handle[t]
    <3>1. \A t \in Tasks : h[t] \in Handle
      BY <2>1, NowFields
    <3> QED
      BY <3>1
  <2> HIDE DEF h
  <2>3. r = [handle |-> h, launching |-> launching, launch |-> launch,
             workspaces |-> workspaces, doubled |-> doubled, overtaken |-> overtaken]
    BY DEF Now
  <2> HIDE DEF r
  <2>4. r \in State
    BY <2>2, <2>3, NowFields, StateFields DEF State
  <2>5. Calmer(r, Now)
    BY <2>1, <2>2, <2>3, <2>4, NowFields DEF Calmer, Active
  <2> QED
    BY <2>5 DEF r, h
<1>2. CASE Install
  <2> DEFINE batch == Batches[installed + 1]
             s == [Now EXCEPT !.handle =
                    [t \in Tasks |-> IF t \in batch THEN Registered ELSE handle[t]]]
  <2>1. installed < Len(Batches) /\ ThenDispatch(s)
    BY <1>2 DEF Install
  <2>2. batch \in SUBSET Tasks
    <3>1. installed \in Nat /\ installed + 1 \in 1 .. Len(Batches)
      BY <2>1, PlanAssumption DEF SchedulerInv, PlanOK
    <3> QED
      BY <3>1, PlanAssumption
  <2> HIDE DEF batch
  <2>3. Calmer(s, Now)
    BY <1>1, <2>2
  <2> HIDE DEF s
  <2> QED
    BY <2>1, <2>3, StretchWithin
<1>3. CASE ApplyRevision
  <2> DEFINE s == [Now EXCEPT !.handle =
                    [t \in Tasks |-> IF t \in revision THEN Absent ELSE handle[t]]]
  <2>1. revision \in SUBSET Tasks
    BY DEF SchedulerInv, PlanOK
  <2>2. Calmer(s, Now) /\ Calmer(Now, Now)
    BY <1>1, <2>1, NowFields DEF Calmer
  <2>3. ThenDispatch(s) \/ Becomes(Now)
    BY <1>3 DEF ApplyRevision
  <2> HIDE DEF s
  <2> QED
    BY <2>2, <2>3, StretchWithin
<1> QED
  BY <1>2, <1>3

LEMMA EndAllActive ==
    ASSUME SchedulerInv, EndAll
    PROVE  Calmer(Now', Now)
<1>1. Now' \in State
  BY EndAllKeeps DEF SchedulerInv, Good
<1>2. Now'.handle = [t \in Tasks |-> Absent] /\ Now'.launching = launching
  BY DEF EndAll, Now
<1>3. Absent.session = "none"
  BY DEF Absent
<1>4. Active(Now') \subseteq launching
  BY <1>2, <1>3 DEF Active
<1> QED
  BY <1>1, <1>4, NowFields DEF Calmer, Active

\* At most Limit workers work: a step that exceeds it answers a card, or a task
\* has had two launches at once.
THEOREM WorkersWithinLimit == Spec => WithinLimit
<1>1. ASSUME SchedulerInv, [Next]_vars
      PROVE  [(Cardinality(Active(Now)) <= Limit /\ Cardinality(Active(Now)') > Limit)
                 => doubled \cup overtaken # {} \/ \E t \in Tasks : Answered(t)]_vars
  <2> SUFFICES ASSUME Next, ~Busy(Now), doubled \cup overtaken = {},
                      ~\E t \in Tasks : Answered(t)
               PROVE  ~Busy(Now')
    <3>1. Now \in State /\ Now' \in State /\ Limit \in Nat
      BY <1>1, StepInv, BoundsAssumption DEF SchedulerInv, Good
    <3>2. Cardinality(Active(Now)) \in Nat /\ Cardinality(Active(Now')) \in Nat
      BY <3>1, ActiveFinite
    <3> QED
      BY <1>1, <3>1, <3>2 DEF Busy
  <2>1. ASSUME NEW t \in Tasks, Step(t)
        PROVE  ~Busy(Now')
    BY <1>1, <2>1, EndsWithin, AgainWithin, AsksWithin, StallWatchSame DEF Step, Busy
  <2>2. ASSUME NEW t \in Tasks, LaunchStep(t)
        PROVE  ~Busy(Now')
    BY <1>1, <2>2, CompiledWithin, CompileFailsWithin, AuthorizedWithin, LaunchFailsWithin,
       StartReturnsWithin DEF LaunchStep
  <2>3. CASE Revise \/ Edits
    <3>1. Now' = Now
      BY <2>3 DEF Revise, Edits, Now, history
    <3> QED
      BY <3>1
  <2>4. CASE EndAll
    <3>1. Cardinality(Active(Now')) <= Cardinality(Active(Now))
      BY <1>1, <2>4, NowFields, EndAllActive, CalmerCounts
    <3>2. Now \in State /\ Now' \in State /\ Limit \in Nat
      BY <1>1, <2>4, NowFields, EndAllActive, BoundsAssumption DEF Calmer
    <3>3. Cardinality(Active(Now)) \in Nat /\ Cardinality(Active(Now')) \in Nat
      BY <3>2, ActiveFinite
    <3> QED
      BY <3>1, <3>2, <3>3 DEF Busy
  <2> QED
    BY <1>1, <2>1, <2>2, <2>3, <2>4, PlanWithin DEF Next
<1> QED
  BY <1>1, SchedulerInvariant, PTL DEF Spec, WithinLimit

-----------------------------------------------------------------------------
(* When a free slot is used.                                               *)

IdleIn(s) == \E t \in Ready(s) \ s.launching : Launchable(s, t)

LEMMA IdleNext ==
    ASSUME NEW r, Now' = r, dirty' = dirty, Idle'
    PROVE  IdleIn(r)
<1>1. PICK t \in (Ready(Now) \ launching)' : Launchable(Now, t)'
  BY DEF Idle
<1>2. launching' = r.launching
  BY DEF Now
<1>3. t \in Ready(r) \ r.launching
  BY <1>1, <1>2
<1>4. Launchable(r, t)
  BY <1>1 DEF Launchable, Blocked, CanPrepare, Locked
<1> QED
  BY <1>3, <1>4 DEF IdleIn

\* The loop stops at a task only for a slot or a lock that is still taken.
LEMMA DispatchFills ==
    ASSUME NEW s \in State, NEW S \in SUBSET Ready(s), Dispatches(s, S)
    PROVE  ~IdleIn(Launched(s, S))
<1> DEFINE r == Launched(s, S)
<1>1. S \in SUBSET Tasks
  BY DEF Ready
<1> SUFFICES ASSUME NEW t \in Ready(r) \ r.launching, Launchable(r, t)
             PROVE  FALSE
  BY DEF IdleIn
<1> DEFINE U == {u \in S : Before(s, u, t)}
           q == Launched(s, U)
<1>2. U \in SUBSET Tasks
  BY <1>1
<1>3. Starts(s, r, S) /\ Starts(s, q, U)
  BY <1>1, <1>2, LaunchedFields
<1>4. Active(r) = Active(s) \cup S /\ Active(q) = Active(s) \cup U
  BY <1>1, <1>2, LaunchedActive
<1>5. Launchable(q, t) => t \in S
  <2>1. Ready(r) = Ready(s)
    BY <1>3 DEF Starts, Ready, GateOpen
  <2> QED
    BY <2>1 DEF Dispatches
<1> HIDE DEF r, q
<1>6. t \in Tasks /\ t \notin S
  BY <1>3 DEF Starts, Ready
<1>7. Cardinality(Active(q)) < Limit
  <2>1. Cardinality(Active(q)) <= Cardinality(Active(r))
    BY <1>3, <1>4, CalmerCounts DEF Calmer, Starts
  <2>2. Cardinality(Active(q)) \in Nat /\ Cardinality(Active(r)) \in Nat /\ Limit \in Nat
    BY <1>3, ActiveFinite, BoundsAssumption DEF Starts
  <2>3. Cardinality(Active(r)) < Limit
    BY DEF Launchable
  <2> QED
    BY <2>1, <2>2, <2>3
<1>8. CanPrepare(q, t)
  <2>1. q.workspaces \subseteq r.workspaces /\ (t \in r.workspaces => t \in q.workspaces)
    BY <1>3, <1>6 DEF Starts
  <2> QED
    BY <2>1 DEF Launchable, CanPrepare, Locked
<1>9. Launchable(q, t)
  BY <1>7, <1>8 DEF Launchable
<1> QED
  BY <1>5, <1>6, <1>9

LEMMA NothingIdle ==
    ASSUME NEW s \in State, ThenDispatch(s), dirty' = dirty
    PROVE  ~Idle'
<1>1. PICK S \in SUBSET Ready(s) : Dispatches(s, S) /\ Becomes(Launched(s, S))
  BY DEF ThenDispatch
<1>2. Launched(s, S) \in State
  BY LaunchedFields DEF Ready, Starts
<1>3. Now' = Launched(s, S)
  BY <1>1, <1>2, StateFields DEF Now, Becomes
<1> QED
  BY <1>1, <1>3, DispatchFills, IdleNext

\* The stretches that end in the loop.
LEMMA StepDispatches ==
    ASSUME SchedulerInv, NEW t \in Tasks,
           \/ Reports(t) \/ WorkerFails(t) \/ Accepted(t) \/ DeliveryFails(t)
           \/ Reworked(t) \/ Retried(t) \/ Asks(t)
    PROVE  ~Idle'
<1>1. dirty' = dirty
  BY DEF Reports, WorkerFails, Accepted, DeliveryFails, Reworked, Retried, Asks, Quiet, plan
<1>2. CASE Reports(t) \/ WorkerFails(t) \/ Accepted(t) \/ DeliveryFails(t)
  <2>1. {t} \in SUBSET Tasks /\ {"verifying", "accepted"} \subseteq Status
    BY DEF Status
  <2>2. /\ Parked(Now, {t}, "verifying") \in State /\ Failed(Now, t) \in State
        /\ Disposed(Now, {t}, "accepted") \in State
    BY <2>1, NowFields, DisposedCalmer, FailedCalmer DEF Calmer
  <2>3. \/ ThenDispatch(Parked(Now, {t}, "verifying")) \/ ThenDispatch(Failed(Now, t))
        \/ ThenDispatch(Disposed(Now, {t}, "accepted"))
    BY <1>2 DEF Reports, WorkerFails, Accepted, DeliveryFails
  <2> QED
    BY <1>1, <2>2, <2>3, NothingIdle
<1>3. CASE Reworked(t) \/ Retried(t)
  <2>1. \A why \in Retries : FreshAttempt(Now, t, why) \in State
    BY FreshAttemptGood DEF Good
  <2> DEFINE new == [handle[t] EXCEPT !.status = "pending", !.compiled = FALSE,
                                !.retried = Reproposed(@)]
  <2>2. Again(Now, t, new) \in State
    <3>1. new \in Handle
      BY NowFields DEF Handle, Status, Retries, Reproposed
    <3> HIDE DEF new
    <3> QED
      BY <3>1, NowFields, AgainFields DEF Waits
  <2>3. \/ \E why \in Retries : ThenDispatch(FreshAttempt(Now, t, why))
        \/ ThenDispatch(Again(Now, t, new))
    BY <1>3 DEF Reworked, Retried, Retries
  <2> QED
    BY <1>1, <2>1, <2>2, <2>3, NothingIdle
<1>4. CASE Asks(t)
  <2> DEFINE new == [handle[t] EXCEPT !.asking = TRUE]
  <2>1. new \in Handle /\ new.status = handle[t].status /\ new.session = handle[t].session
    BY NowFields DEF Handle
  <2>2. Touched(Now, t, new) = [Now EXCEPT !.handle[t].asking = TRUE]
    BY NowFields DEF Touched
  <2> HIDE DEF new
  <2>3. Touched(Now, t, new) \in State
    BY <2>1, NowFields, TouchedGood DEF Touches
  <2> QED
    BY <1>1, <1>4, <2>2, <2>3, NothingIdle DEF Asks
<1> QED
  BY <1>2, <1>3, <1>4

LEMMA PlanDispatches ==
    ASSUME SchedulerInv, Install \/ ApplyRevision
    PROVE  ~Idle' \/ (Now' = Now /\ dirty' = dirty)
<1>1. dirty' = dirty
  BY DEF Install, ApplyRevision
<1>2. CASE Install
  <2> DEFINE batch == Batches[installed + 1]
             s == [Now EXCEPT !.handle =
                    [t \in Tasks |-> IF t \in batch THEN Registered ELSE handle[t]]]
  <2>1. /\ installed < Len(Batches) /\ ThenDispatch(s)
        /\ \A t \in batch : Underway(Now, t) = {}
    BY <1>2 DEF Install
  <2>2. batch \in SUBSET Tasks
    <3>1. installed \in Nat /\ installed + 1 \in 1 .. Len(Batches)
      BY <2>1, PlanAssumption DEF SchedulerInv, PlanOK
    <3> QED
      BY <3>1, PlanAssumption
  <2> HIDE DEF batch
  <2>3. Good(s)
    BY <2>1, <2>2, HandlesGood
  <2> HIDE DEF s
  <2> QED
    BY <1>1, <2>1, <2>3, NothingIdle DEF Good
<1>3. CASE ApplyRevision
  <2> DEFINE s == [Now EXCEPT !.handle =
                    [t \in Tasks |-> IF t \in revision THEN Absent ELSE handle[t]]]
  <2>1. revision \in SUBSET Tasks /\ Absent # Registered
    BY DEF SchedulerInv, PlanOK, Absent, Registered
  <2>2. Good(s)
    BY <2>1, HandlesGood
  <2>3. ThenDispatch(s) \/ Becomes(Now)
    BY <1>3 DEF ApplyRevision
  <2> HIDE DEF s
  <2> QED
    BY <1>1, <2>2, <2>3, NowFields, NothingIdle, BecomesKeeps DEF Good
<1> QED
  BY <1>2, <1>3

\* A state with no more tasks to launch, no more slots and no more locks than s.
LEMMA IdleBefore ==
    ASSUME NEW s \in State, NEW r \in State, IdleIn(r), Ready(r) \subseteq Ready(s),
           s.launching = r.launching, s.workspaces = r.workspaces,
           Active(s) \subseteq Active(r)
    PROVE  IdleIn(s)
<1>1. PICK t \in Ready(r) \ r.launching : Launchable(r, t)
  BY DEF IdleIn
<1>2. Cardinality(Active(s)) <= Cardinality(Active(r))
  BY CalmerCounts DEF Calmer
<1>3. /\ Cardinality(Active(s)) \in Nat /\ Cardinality(Active(r)) \in Nat /\ Limit \in Nat
  BY ActiveFinite, BoundsAssumption
<1>4. Launchable(s, t)
  BY <1>1, <1>2, <1>3 DEF Launchable, CanPrepare, Locked
<1> QED
  BY <1>1, <1>4 DEF IdleIn

LEMMA IdleNow ==
    ASSUME SchedulerInv, IdleIn(Now)
    PROVE  Idle
BY NowFields DEF Idle, IdleIn

LEMMA ReviewPassesIdle ==
    ASSUME SchedulerInv, NEW t \in Tasks, ReviewPasses(t), Idle'
    PROVE  Idle
<1> DEFINE s == Parked(Now, {t}, "reviewed")
<1>1. /\ dirty' = dirty /\ handle[t].status = "verifying"
      /\ IF GateOpen(s, t) THEN ThenDispatch(s) ELSE Becomes(s)
  BY DEF ReviewPasses, Quiet, plan
<1>2. Parks(Now, s, {t}, "reviewed") /\ s.workspaces = workspaces
  BY NowFields, ParkedFields DEF Status
<1> HIDE DEF s
<1>3. s \in State /\ s.launching = launching /\ handle[t].session = "none"
  BY <1>1, <1>2, NowFields DEF Parks, Good, Sessions
<1>4. ~GateOpen(s, t) /\ Becomes(s)
  BY <1>1, <1>3, NothingIdle
<1>5. IdleIn(s)
  <2>1. Now' = s
    BY <1>3, <1>4, StateFields DEF Now, Becomes
  <2> QED
    BY <1>1, <2>1, IdleNext
<1>6. /\ s.handle[t].status = "reviewed" /\ s.handle[t].session = "none"
      /\ \A u \in Tasks : u # t => s.handle[u] = handle[u]
  BY <1>2, NowFields DEF Parks
<1>7. Ready(s) \subseteq Ready(Now)
  <2>1. \A d \in Tasks : GateOpen(s, d) => GateOpen(Now, d)
    BY <1>4, <1>6, NowFields DEF GateOpen
  <2>2. \A u \in Tasks : Deps[u] \subseteq Tasks
    BY PlanAssumption
  <2> QED
    BY <1>6, <2>1, <2>2, NowFields DEF Ready
<1>8. Active(Now) \subseteq Active(s)
  BY <1>1, <1>3, <1>6, NowFields DEF Active
<1> QED
  BY <1>2, <1>3, <1>5, <1>7, <1>8, NowFields, IdleBefore, IdleNow

LEMMA AnsweredIdle ==
    ASSUME SchedulerInv, NEW t \in Tasks, Answered(t), Idle'
    PROVE  Idle
<1> DEFINE new == [handle[t] EXCEPT !.asking = FALSE]
           s == Touched(Now, t, new)
<1>1. /\ new \in Handle /\ new.status = handle[t].status /\ new.session = handle[t].session
  BY NowFields DEF Handle
<1>2. s = [Now EXCEPT !.handle[t].asking = FALSE]
  BY NowFields DEF Touched
<1>3. new.asking = FALSE
  BY NowFields DEF Handle
<1> HIDE DEF new
<1>4. Touches(Now, s, t, new)
  BY <1>1, NowFields, TouchedGood
<1> HIDE DEF s
<1>5. /\ s \in State /\ s.launching = launching /\ s.workspaces = workspaces
      /\ s.handle[t] = new /\ \A u \in Tasks : u # t => s.handle[u] = handle[u]
  BY <1>4, NowFields DEF Touches
<1>6. Becomes(s) /\ dirty' = dirty
  BY <1>2 DEF Answered, Quiet, plan
<1>7. IdleIn(s)
  <2>1. Now' = s
    BY <1>5, <1>6, StateFields DEF Now, Becomes
  <2> QED
    BY <1>6, <2>1, IdleNext
<1>8. \A u \in Tasks : s.handle[u].status = handle[u].status
  BY <1>1, <1>5
<1>9. Ready(s) \subseteq Ready(Now)
  <2>1. \A u \in Tasks : Deps[u] \subseteq Tasks
    BY PlanAssumption
  <2> QED
    BY <1>8, <2>1, NowFields DEF Ready, GateOpen
<1>10. Active(Now) \subseteq Active(s)
  <2>1. ASSUME NEW u \in Active(Now)
        PROVE  u \in Active(s)
    <3>1. CASE u \in launching
      BY <1>5, <3>1 DEF Active
    <3>2. CASE /\ u \in Tasks /\ handle[u].session # "none" /\ handle[u].status = "running"
               /\ ~handle[u].asking
      <4>1. s.handle[u].session # "none" /\ s.handle[u].status = "running"
        BY <1>1, <1>5, <3>2
      <4>2. ~s.handle[u].asking
        BY <1>3, <1>5, <3>2
      <4> QED
        BY <3>2, <4>1, <4>2 DEF Active
    <3> QED
      BY <2>1, <3>1, <3>2, NowFields DEF Active
  <2> QED
    BY <2>1
<1> QED
  BY <1>5, <1>7, <1>9, <1>10, NowFields, IdleBefore, IdleNow

LEMMA StallWatchIdle ==
    ASSUME SchedulerInv, NEW t \in Tasks, Stalls(t) \/ Progress(t) \/ RestartStalled(t), Idle'
    PROVE  Idle
<1> DEFINE s == Now'
<1>1. /\ Active(s) = Active(Now) /\ s \in State
      /\ \A u \in Tasks : handle'[u].status = handle[u].status
      /\ UNCHANGED <<launching, workspaces, dirty>>
  BY StallWatchSame
<1>2. IdleIn(s)
  BY <1>1, IdleNext
<1>3. s.handle = handle' /\ s.launching = launching' /\ s.workspaces = workspaces'
  BY DEF Now
<1> HIDE DEF s
<1>4. Ready(s) \subseteq Ready(Now)
  <2>1. \A u \in Tasks : Deps[u] \subseteq Tasks
    BY PlanAssumption
  <2> QED
    BY <1>1, <1>3, <2>1, NowFields DEF Ready, GateOpen
<1> QED
  BY <1>1, <1>2, <1>3, <1>4, NowFields, IdleBefore, IdleNow

LEMMA RestartedIdle ==
    ASSUME SchedulerInv, NEW t \in Tasks, Restarted(t)
    PROVE  ~Idle' \/ (Now' = Now /\ dirty' = dirty)
<1> DEFINE s == Parked(Now, {t}, "pending")
           new == [s.handle[t] EXCEPT !.stalled = FALSE]
           r == Again(s, t, new)
<1>1. Parks(Now, s, {t}, "pending")
  BY NowFields, ParkedFields DEF Status
<1>2. dirty' = dirty /\ (Becomes(Now) \/ ThenDispatch(r))
  BY DEF Restarted
<1> HIDE DEF s
<1>3. s.handle[t] \in Handle /\ s \in State
  BY <1>1, StateFields DEF Parks
<1>4. new \in Handle
  BY <1>3 DEF Handle
<1> HIDE DEF new
<1>5. r \in State
  BY <1>3, <1>4, AgainFields DEF Waits
<1> HIDE DEF r
<1> QED
  BY <1>2, <1>5, NowFields, NothingIdle, BecomesKeeps

LEMMA EndAllIdle ==
    ASSUME SchedulerInv, EndAll
    PROVE  ~Idle'
<1>1. Now'.handle = [t \in Tasks |-> Absent] /\ dirty' = dirty
  BY DEF EndAll, Now
<1>2. Absent.status = "absent"
  BY DEF Absent
<1>3. Ready(Now') = {}
  BY <1>1, <1>2 DEF Ready
<1>4. ~IdleIn(Now')
  BY <1>3 DEF IdleIn
<1> QED
  BY <1>1, <1>4, IdleNext

\* A slot, a gate or a lock that comes free is used in the same stretch, but for
\* the end of a launch, an interruption and the user's edits.
THEOREM FreedSlotsUsed == Spec => FreedSlotsDispatched
<1>1. ASSUME SchedulerInv, [Next]_vars
      PROVE  [Idle' /\ ~Idle => \/ Edits
                                \/ \E t \in Tasks : Interrupted(t) \/ LaunchStep(t)]_vars
  <2> SUFFICES ASSUME Next, Idle', ~Idle, ~Edits,
                      ~\E t \in Tasks : Interrupted(t) \/ LaunchStep(t)
               PROVE  FALSE
    BY <1>1
  <2>1. ~(Now' = Now /\ dirty' = dirty)
    BY <1>1, IdleNext, IdleNow
  <2>2. ASSUME NEW t \in Tasks, Step(t)
        PROVE  FALSE
    BY <1>1, <2>1, <2>2, StepDispatches, ReviewPassesIdle, AnsweredIdle, StallWatchIdle,
       RestartedIdle DEF Step
  <2>3. CASE Revise
    BY <2>1, <2>3 DEF Revise, Now, history
  <2> QED
    BY <1>1, <2>1, <2>2, <2>3, PlanDispatches, EndAllIdle DEF Next
<1> QED
  BY <1>1, SchedulerInvariant, PTL DEF Spec, FreedSlotsDispatched
=============================================================================
