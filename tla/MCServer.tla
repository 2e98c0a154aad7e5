------------------------------ MODULE MCServer ------------------------------
(***************************************************************************)
(* Instance of Server for TLC: one level that is on the map list, and one  *)
(* that is not; a configuration picks how many of connections, names and   *)
(* levels there are.                                                       *)
(***************************************************************************)
EXTENDS Server, TLC

CONSTANTS c1, c2, c3, n1, n2, l1, l2

MCConn == {c1, c2}
MCConns == {c1, c2, c3}
MCNames == {n1, n2}
MCName == {n1}
MCLevel == {l1}
MCLevels == {l1, l2}

MCSymmetry == Permutations(MCConn) \cup Permutations(MCNames)
=============================================================================
