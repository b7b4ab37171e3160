------------------------------ MODULE MCGrpGreedy ------------------------------
(***************************************************************************)
(* Three vehicles around a junction, in the proportions of the code: the       *)
(* junction area is smaller than the radio range, a road longer.               *)
(***************************************************************************)
EXTENDS GrpGreedy
==============================================================================
