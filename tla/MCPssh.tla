-------------------------------- MODULE MCPssh --------------------------------
(***************************************************************************)
(* Instances of Pssh for TLC.                                              *)
(***************************************************************************)
EXTENDS Pssh

MCTotals == {0, 3}
MCLimits == {0, 1, 3}
=============================================================================
