---------------------------- MODULE MCGrpNeighbors ----------------------------
(***************************************************************************)
(* Two vehicles whose first Hellos are one tick apart or together; one of   *)
(* them also sends ants.                                                    *)
(***************************************************************************)
EXTENDS GrpNeighbors

CONSTANTS n1, n2

MCNodes == {n1, n2}
MCAntNodes == {n1}
MCHelloStarts == {1, 2}
==============================================================================
