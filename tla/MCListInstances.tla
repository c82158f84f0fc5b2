--------------------------- MODULE MCListInstances ---------------------------
(***************************************************************************)
(* Instances of ListInstances for TLC.  With pages of three and offsets    *)
(* that wrap at five, a fleet of six is the smallest whose listing wraps,  *)
(* and the only one that does and still ends: it plays the part of the     *)
(* fleets of 66000 to some 66500 instances.                                *)
(***************************************************************************)
EXTENDS ListInstances

MCTotals == {0, 1, 3, 6}
=============================================================================
