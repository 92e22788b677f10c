----------------------------- MODULE MCRecovery -----------------------------
(***************************************************************************)
(* TLC instance of Recovery.                                               *)
(***************************************************************************)
EXTENDS Recovery
=============================================================================
