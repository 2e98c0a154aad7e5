------------------------------- MODULE MCRoom -------------------------------
(***************************************************************************)
(* Instance of Room and Listing for TLC: three connections, two names, and *)
(* three levels of which one is on the map list, under two names.          *)
(***************************************************************************)
EXTENDS Listing, TLC

CONSTANTS c1, c2, c3, n1, n2, l1, l2, l3

MCConn == {c1, c2, c3}
MCName == {n1, n2}
MCLevel == {l1, l2, l3}
MCMapList == <<l1, l1>>
MCMaps == {l1}

\* Connections, names and the levels off the map list are interchangeable.
MCSymmetry == Permutations(MCConn) \cup Permutations(MCName)
                \cup Permutations(MCLevel \ MCMaps)
=============================================================================
