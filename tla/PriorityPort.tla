--------------------------- MODULE PriorityPort ---------------------------
(***************************************************************************)
(* What the command gate promises, without generations, epochs or waits:   *)
(* one call owns the actuator port at a time; an admitted emergency stop   *)
(* is the next to own it; a closer's reservation keeps every routine call  *)
(* but a holder's out until it is released, aborted or revoked by a stop.  *)
(*                                                                         *)
(* A reservation does not name its owner: it is any closer's that reserved *)
(* since the last admitted stop and has not finished.  A live runner that  *)
(* aborts clears the reservation whoever made it.                          *)
(***************************************************************************)
CONSTANTS Routines, Stops

VARIABLES
    onWire,     \* the call that owns the port, as a set of at most one
    admitted,   \* emergency stops admitted and not yet started or withdrawn
    holders,    \* closers that reserved since the last stop, not yet finished
    reserved    \* a holder's safe-zero proof owns the port

port == <<onWire, admitted, holders, reserved>>

Init == onWire = {} /\ admitted = {} /\ holders = {} /\ reserved = FALSE

Owns(r) == reserved /\ r \in holders

\* An emergency stop revokes the reservation the moment it is admitted.
Admit(s) ==
    /\ s \notin admitted
    /\ admitted' = admitted \cup {s}
    /\ holders' = {} /\ reserved' = FALSE
    /\ UNCHANGED onWire

Withdraw(s) ==
    /\ s \in admitted
    /\ admitted' = admitted \ {s}
    /\ UNCHANGED <<onWire, holders, reserved>>

StartStop(s) ==
    /\ onWire = {}
    /\ s \in admitted
    /\ onWire' = {s}
    /\ admitted' = admitted \ {s}
    /\ UNCHANGED <<holders, reserved>>

StartRoutine(r) ==
    /\ onWire = {}
    /\ admitted = {}
    /\ reserved => r \in holders
    /\ onWire' = {r}
    /\ UNCHANGED <<admitted, holders, reserved>>

Finish ==
    /\ onWire # {}
    /\ onWire' = {}
    /\ UNCHANGED <<admitted, holders, reserved>>

Claim(r) ==
    /\ admitted = {}
    /\ ~reserved
    /\ reserved' = TRUE
    /\ holders' = holders \cup {r}
    /\ UNCHANGED <<onWire, admitted>>

\* A holder releases the reservation made under its own generation.
Release(r) ==
    /\ reserved' = (reserved /\ r \notin holders)
    /\ holders' = holders \ {r}
    /\ UNCHANGED <<onWire, admitted>>

\* An aborting runner releases the one of the generation that is current.
Abort(r) ==
    /\ reserved' = FALSE
    /\ holders' = holders \ {r}
    /\ UNCHANGED <<onWire, admitted>>

Next ==
    \/ \E s \in Stops : Admit(s) \/ Withdraw(s) \/ StartStop(s)
    \/ \E r \in Routines : StartRoutine(r) \/ Claim(r) \/ Release(r) \/ Abort(r)
    \/ Finish

Spec == Init /\ [][Next]_port
=============================================================================
