----------------------------- MODULE MCClosing -----------------------------
(***************************************************************************)
(* DawgClosing with the constants of MCDawg.                               *)
(***************************************************************************)
EXTENDS MCDawg, DawgClosing
=============================================================================
