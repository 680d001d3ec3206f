---------------------------- MODULE MCEventStream ----------------------------
(***************************************************************************)
(* Small instances of EventStream: the tick loop and a stop's dispatch     *)
(* flush the buffered events.                                              *)
(***************************************************************************)
EXTENDS EventStream

MCFlushers == {"tick", "stop"}
=============================================================================
