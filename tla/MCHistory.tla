------------------------------ MODULE MCHistory ------------------------------
(***************************************************************************)
(* Instance of UpdateHistory for TLC: two clients that publish and read    *)
(* each other.  A reader of a may lag so much that the key it has is       *)
(* given again (and one update more in MCAliasLag); b publishes enough to  *)
(* be read, and to leave something unread.                                 *)
(***************************************************************************)
EXTENDS UpdateHistory, TLC

CONSTANTS a, b, v1, v2

MCClient == {a, b}
MCVar == {v1, v2}
MCMaxLag == a :> 3 @@ b :> 1
MCAliasLag == a :> 4 @@ b :> 1

MCSymmetry == Permutations(MCVar)
=============================================================================
