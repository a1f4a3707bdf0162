------------------------- MODULE MCFinalDelivery -------------------------
(***************************************************************************)
(* Instances of FinalDelivery for TLC: two task identities; a run may let  *)
(* them report without changing a file.                                    *)
(***************************************************************************)
EXTENDS FinalDelivery, TLC

CONSTANTS t1, t2, u1

OneReport == {t1}
TwoTasks == {t1, t2}
OneCaller == {u1}

=============================================================================
