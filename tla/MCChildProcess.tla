-------------------------- MODULE MCChildProcess --------------------------
(***************************************************************************)
(* Small instances of ChildProcess.                                        *)
(***************************************************************************)
EXTENDS ChildProcess
=============================================================================
