---------------------------- MODULE MCFaultLease ----------------------------
(***************************************************************************)
(* Small instances of FaultLease.                                          *)
(***************************************************************************)
EXTENDS FaultLease
=============================================================================
