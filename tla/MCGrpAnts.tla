------------------------------- MODULE MCGrpAnts -------------------------------
(***************************************************************************)
(* Three vehicles, of which one launches an ant: a forwarder, and one that    *)
(* overhears and may become forwarder later.                                 *)
(***************************************************************************)
EXTENDS GrpAnts, TLC

CONSTANTS v1, v2, v3, j1, j2, j3

MCVehicles  == {v1, v2, v3}
MCLaunchers == {v1}
MCJunctions == {j1, j2, j3}

\* v2 and v3 play the same role, and so do the junctions.
MCSymmetry == Permutations({v2, v3}) \cup Permutations(MCJunctions)
==============================================================================
