------------------------------- MODULE MCGrpPath -------------------------------
(***************************************************************************)
(* Four junctions: a square with a diagonal road, so that routes of one to   *)
(* four junctions exist and a vehicle can be off the route of its packet.    *)
(***************************************************************************)
EXTENDS GrpPath

MCJunctions == 1 .. 4
MCRoads == LET half == {<<1, 2>>, <<2, 3>>, <<3, 4>>, <<4, 1>>, <<2, 4>>}
           IN  half \cup {<<r[2], r[1]>> : r \in half}
==============================================================================
