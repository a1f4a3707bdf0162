------------------------- MODULE MCTaskPermissions -------------------------
(* Instances of TaskPermissions for TLC: worker 1 asks the scheduler,      *)
(* worker 2 through a broker.                                              *)
EXTENDS TaskPermissions

CONSTANTS secret, host, wipe

MCTargets == {secret, host, wipe}
MCNoReject == {<<1, secret>>}
=============================================================================
