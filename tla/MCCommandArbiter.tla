-------------------------- MODULE MCCommandArbiter --------------------------
(***************************************************************************)
(* A small instance of CommandArbiter; its liveness rules symmetry out.    *)
(***************************************************************************)
EXTENDS CommandArbiter
=============================================================================
