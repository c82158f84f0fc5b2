--------------------------- MODULE MCCacheSession ---------------------------
(***************************************************************************)
(* Instances of CacheSession for TLC.  The configurations choose the       *)
(* callers among g1, g2, g3, p1, p2 and q1; this module says which key     *)
(* each of them asks for.                                                  *)
(***************************************************************************)
EXTENDS CacheSession

CONSTANTS k1, k2, g3, p2

MCKeys == {k1, k2, EmptyKey}

\* g1, g2, p1 and q1 meet on k1, g3 uses k2 and p2 prepares the empty key.
MCKeyOf ==
  [c \in Calls |-> CASE c = g3 -> k2 [] c = p2 -> EmptyKey [] OTHER -> k1]
=============================================================================
