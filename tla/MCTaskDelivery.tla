--------------------------- MODULE MCTaskDelivery ---------------------------
(***************************************************************************)
(* Instances of TaskDelivery for TLC: a diff of one chunk the Coordinator  *)
(* reviews, with or without another one that is withheld from it.          *)
(***************************************************************************)
EXTENDS TaskDelivery, TLC

CONSTANTS c1, w1

OneChunk == {c1}
TwoChunks == {c1, w1}
Nothing == {}
OneWithheld == {w1}

=============================================================================
