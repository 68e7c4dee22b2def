------------------------------- MODULE MCOom -------------------------------
(***************************************************************************)
(* DawgOom with the constants of MCDawg.                                   *)
(***************************************************************************)
EXTENDS MCDawg, DawgOom
=============================================================================
