------------------------------ MODULE MCGrpHeader ------------------------------
(***************************************************************************)
(* Five neighbours make the Hello body longer than the smallest Ant body, so   *)
(* both ends of the overlap occur.  The validities are around the steps of     *)
(* the mantissa and of the exponent.  Two long ants do not fit MaxDatagram.    *)
(***************************************************************************)
EXTENDS GrpHeader

MCValidities == {32, 33, 62, 63, 64, 65, 67, 126, 127, 128}
==============================================================================
