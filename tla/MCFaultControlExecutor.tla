---------------------- MODULE MCFaultControlExecutor ----------------------
(***************************************************************************)
(* A small instance of FaultControlExecutor.                               *)
(***************************************************************************)
EXTENDS FaultControlExecutor
=============================================================================
