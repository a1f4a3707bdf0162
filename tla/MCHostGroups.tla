--------------------------- MODULE MCHostGroups ---------------------------
(***************************************************************************)
(* An instance of HostGroups for TLC: the default host on Claude and an    *)
(* expert on Codex, each able to coordinate.                               *)
(***************************************************************************)
EXTENDS HostGroups, TLC

CONSTANTS claude, codex

MCHosts == {claude, codex}
MCCodex == {codex}

=============================================================================
