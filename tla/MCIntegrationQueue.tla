------------------------ MODULE MCIntegrationQueue ------------------------
(***************************************************************************)
(* Instances of IntegrationQueue for TLC: two candidates of two tasks.     *)
(***************************************************************************)
EXTENDS IntegrationQueueLedger, TLC

CONSTANTS c1, c2, t1, t2

MCCandidates == {c1, c2}
MCTasks == {t1, t2}
MCTaskOf == (c1 :> t1) @@ (c2 :> t2)

\* A candidate and its task may change places with the other candidate and its.
MCSymmetry == {p \in Permutations({c1, c2, t1, t2}) :
                 /\ p[c1] \in MCCandidates /\ p[c2] \in MCCandidates
                 /\ \A c \in MCCandidates : p[MCTaskOf[c]] = MCTaskOf[p[c]]}

=============================================================================
