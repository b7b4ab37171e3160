------------------------------ MODULE MCGrpNode ------------------------------
(***************************************************************************)
(* Small instance of GrpNode: two segments, a junction area that two checks *)
(* can fall into, and Hello start times up to the first check.              *)
(***************************************************************************)
EXTENDS GrpNode

MCHelloStarts == {1, 2}
==============================================================================
