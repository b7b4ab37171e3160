------------------------------ MODULE MCGrpCarry ------------------------------
(***************************************************************************)
(* Two vehicles and two packets of the same source, so that they share a    *)
(* carry time; the TTL allows a packet to be stored and sent again.         *)
(***************************************************************************)
EXTENDS GrpCarryLife

CONSTANTS v1, v2, p1, p2

MCVehicles == {v1, v2}
MCPackets  == {p1, p2}
MCSourceOf == [id \in MCPackets |-> v1]
==============================================================================
