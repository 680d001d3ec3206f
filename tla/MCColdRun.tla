----------------------------- MODULE MCColdRun -----------------------------
(***************************************************************************)
(* A small instance of ColdRun.                                            *)
(***************************************************************************)
EXTENDS ColdRun
=============================================================================
