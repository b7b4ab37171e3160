----------------------------- MODULE MCBatchDriver -----------------------------
(***************************************************************************)
(* Three distances of two runs each, so that a restart crosses a change of    *)
(* the distance; two crashes, so that a restart is itself interrupted.        *)
(***************************************************************************)
EXTENDS BatchDriver
==============================================================================
