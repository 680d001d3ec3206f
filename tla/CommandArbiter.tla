-------------------------- MODULE CommandArbiter --------------------------
(***************************************************************************)
(* The single gate between the agent and the roaster: every MCP actuator   *)
(* call passes through one CommandArbiter (controller.py).  Routine calls  *)
(* are serialised and discarded once an emergency stop has superseded      *)
(* them; an admitted emergency stop waits for at most the call already on  *)
(* the wire; the D212 closer reserves the gate while it assembles the      *)
(* safe-zero proof that ends a fault.                                      *)
(*                                                                         *)
(* asyncio runs one task at a time and the condition's lock is never held  *)
(* across an await other than Condition.wait(), so each critical section   *)
(* is one atomic step.  What interleaves is what a coroutine does between  *)
(* two awaits: a caller keeps the generation it captured while others run. *)
(***************************************************************************)
EXTENDS Integers, FiniteSets

CONSTANTS
    Writers,        \* concurrent routine calls (tick writes, operator controls)
    Closers,        \* concurrent D212 safe-zero closers
    Runners,        \* those of them that are the live runner's
    Stops,          \* concurrent emergency-stop requests
    NoReservation,  \* Python's None for _close_reservation_generation
    MaxGeneration   \* bound: emergency stops admitted in one behaviour

ASSUME BoundAssumption == MaxGeneration \in Nat
ASSUME ReservationAssumption == NoReservation \notin Nat
ASSUME CallersAssumption ==
    /\ Runners \subseteq Closers
    /\ Writers \cap Closers = {}
    /\ (Writers \cup Closers) \cap Stops = {}
    /\ IsFiniteSet(Stops)

Callers == Writers \cup Closers

VARIABLES
    generation,               \* _generation
    inFlight,                 \* _in_flight
    pendingEmergencyStops,    \* _pending_emergency_stops
    emergencyStopInFlight,    \* _emergency_stop_in_flight
    releaseEpoch,             \* _emergency_stop_release_epoch
    closeReservation,         \* _close_reservation_generation
    call,                     \* routine callers' local state
    stop                      \* emergency-stop callers' control point

gate == <<generation, inFlight, pendingEmergencyStops, emergencyStopInFlight,
          releaseEpoch, closeReservation>>
vars == <<gate, call, stop>>

(***************************************************************************)
(* A routine caller captures the generation and only later enters          *)
(* run_routine, where the release epoch is captured.  "waiting" sleeps in  *)
(* Condition.wait(); "woken" has been notified and has not run yet.  A     *)
(* closer also passes through the wait for its proof.                      *)
(***************************************************************************)
WriterPcs == {"idle", "captured", "waiting", "woken", "calling"}
CloserPcs == {"idle", "reserved", "proofWaiting", "proofWoken", "proving",
              "waiting", "woken", "calling", "failed"}
StopPcs   == {"idle", "admitted", "waiting", "woken", "calling"}

\* A finished caller's local variables are gone.
Idle == [pc |-> "idle", gen |-> 0, epoch |-> 0]

TypeOK ==
    /\ generation \in Nat
    /\ inFlight \in BOOLEAN
    /\ pendingEmergencyStops \in Nat
    /\ emergencyStopInFlight \in BOOLEAN
    /\ releaseEpoch \in Nat
    /\ closeReservation \in Nat \cup {NoReservation}
    /\ call \in [Callers -> [pc : WriterPcs \cup CloserPcs, gen : Nat,
                             epoch : Nat]]
    /\ \A w \in Writers : call[w].pc \in WriterPcs
    /\ \A c \in Closers : call[c].pc \in CloserPcs
    /\ \A p \in Callers : call[p].gen <= generation
    /\ stop \in [Stops -> StopPcs]

Init ==
    /\ generation = 0
    /\ inFlight = FALSE
    /\ pendingEmergencyStops = 0
    /\ emergencyStopInFlight = FALSE
    /\ releaseEpoch = 0
    /\ closeReservation = NoReservation
    /\ call = [p \in Callers |-> Idle]
    /\ stop = [s \in Stops |-> "idle"]

-----------------------------------------------------------------------------
(* Predicates of the gate.                                                 *)

CloseReservationIsCurrent(g) == g = generation /\ closeReservation = g

\* The reservation a caller presents: a closer presents its own.
Presented(p) == IF p \in Closers THEN call[p].gen ELSE NoReservation

\* Mutants of Superseded: the epoch, then the pending stops, are forgotten.
SupersededIgnoringEpoch(p, epoch) ==
    \/ call[p].gen # generation
    \/ pendingEmergencyStops > 0
    \/ closeReservation # NoReservation /\ Presented(p) # closeReservation
    \/ p \in Closers /\ ~CloseReservationIsCurrent(call[p].gen)
SupersededIgnoringPending(p, epoch) ==
    \/ call[p].gen # generation
    \/ epoch # releaseEpoch
    \/ closeReservation # NoReservation /\ Presented(p) # closeReservation
    \/ p \in Closers /\ ~CloseReservationIsCurrent(call[p].gen)

\* run_routine's discard condition, apart from the caller's own admitted().
Superseded(p, epoch) ==
    \/ call[p].gen # generation
    \/ epoch # releaseEpoch
    \/ pendingEmergencyStops > 0
    \/ closeReservation # NoReservation /\ Presented(p) # closeReservation
    \/ p \in Closers /\ ~CloseReservationIsCurrent(call[p].gen)

\* notify_all: every sleeping waiter becomes runnable.
Woken(pc) == IF pc = "waiting" THEN "woken"
             ELSE IF pc = "proofWaiting" THEN "proofWoken" ELSE pc
WokenCalls(c) == [p \in Callers |-> [c[p] EXCEPT !.pc = Woken(@)]]
WokenStopsNone(st) == st   \* mutant: only routine waiters are notified
WokenStops(st) == [s \in Stops |-> IF st[s] = "waiting" THEN "woken" ELSE st[s]]

Goto(p, pc) == [call EXCEPT ![p] = IF pc = "idle" THEN Idle ELSE [@ EXCEPT !.pc = pc]]

-----------------------------------------------------------------------------
(* Routine calls.                                                          *)

\* A caller reads the generation; it may await other things before it enters.
CaptureGeneration(w) ==
    /\ call[w].pc = "idle"
    /\ call' = [call EXCEPT ![w] = [pc |-> "captured", gen |-> generation,
                                    epoch |-> 0]]
    /\ UNCHANGED <<gate, stop>>

\* One pass of run_routine's loop with the epoch captured on entry.  The
\* caller's admitted() may refuse at any pass, so Discard is always possible.
\* A writer may go on under the generation it captured.
Discard(p) ==
    /\ \E pc \in IF p \in Closers THEN {"failed"} ELSE {"idle", "captured"} :
          call' = Goto(p, pc)
    /\ UNCHANGED <<gate, stop>>

WaitForCall(p, epoch) ==
    /\ inFlight
    /\ ~Superseded(p, epoch)
    /\ call' = [call EXCEPT ![p].pc = "waiting", ![p].epoch = epoch]
    /\ UNCHANGED <<gate, stop>>

Dispatch(p, epoch) ==
    /\ ~inFlight
    /\ ~Superseded(p, epoch)
    /\ inFlight' = TRUE
    /\ call' = [call EXCEPT ![p].pc = "calling", ![p].epoch = epoch]
    /\ UNCHANGED <<generation, pendingEmergencyStops, emergencyStopInFlight,
                   releaseEpoch, closeReservation, stop>>

RunRoutine(p, epoch) ==
    Discard(p) \/ WaitForCall(p, epoch) \/ Dispatch(p, epoch)

EnterRoutine(p) ==
    /\ call[p].pc = IF p \in Closers THEN "proving" ELSE "captured"
    /\ RunRoutine(p, releaseEpoch)

\* A notified waiter takes another pass.  A cancelled task leaves the wait
\* like a discarded one.
RecheckRoutine(p) ==
    /\ call[p].pc = "woken"
    /\ RunRoutine(p, call[p].epoch)

CancelRoutineWait(p) ==
    /\ call[p].pc = "waiting"
    /\ Discard(p)

\* The MCP call returns, raises or is cancelled: the finally clause frees the
\* gate and wakes every waiter.  A writer may have more calls to make under
\* the same generation (heat, then fan), a closer its second state read.
FinishRoutine(p) ==
    /\ call[p].pc = "calling"
    /\ inFlight' = FALSE
    /\ \E pc \in IF p \in Closers THEN {"proving"} ELSE {"idle", "captured"} :
          call' = WokenCalls(Goto(p, pc))
    /\ stop' = WokenStops(stop)
    /\ UNCHANGED <<generation, pendingEmergencyStops, emergencyStopInFlight,
                   releaseEpoch, closeReservation>>

-----------------------------------------------------------------------------
(* The D212 closer.  It captures the generation and reserves in one step.  *)

ReserveClose(c) ==
    /\ call[c].pc = "idle"
    /\ pendingEmergencyStops = 0
    /\ closeReservation = NoReservation
    /\ closeReservation' = generation
    /\ call' = [call EXCEPT ![c] = [pc |-> "reserved", gen |-> generation,
                                    epoch |-> 0]]
    /\ UNCHANGED <<generation, inFlight, pendingEmergencyStops,
                   emergencyStopInFlight, releaseEpoch, stop>>

\* Mutant: the proof starts while a routine call is still on the wire.
WaitForCloseProofNoWait(c) ==
    /\ call[c].pc \in {"reserved", "proofWoken"}
    /\ call' = Goto(c, IF CloseReservationIsCurrent(call[c].gen)
                       THEN "proving" ELSE "failed")
    /\ UNCHANGED <<gate, stop>>

WaitForCloseProof(c) ==
    /\ call[c].pc \in {"reserved", "proofWoken"}
    /\ call' = Goto(c, IF ~CloseReservationIsCurrent(call[c].gen) THEN "failed"
                       ELSE IF inFlight THEN "proofWaiting" ELSE "proving")
    /\ UNCHANGED <<gate, stop>>

\* The finally clause of the closer, after the close or on any failure: it
\* releases the generation it captured.
ReleaseClose(c) ==
    /\ call[c].pc \in {"reserved", "proofWoken", "proofWaiting", "proving", "failed"}
    /\ closeReservation' = IF closeReservation = call[c].gen
                           THEN NoReservation ELSE closeReservation
    /\ call' = Goto(c, "idle")
    /\ UNCHANGED <<generation, inFlight, pendingEmergencyStops,
                   emergencyStopInFlight, releaseEpoch, stop>>

\* A live runner that gives up after its proof releases the generation that
\* is current by then, which another closer may have reserved.
AbortClose(c) ==
    /\ c \in Runners
    /\ call[c].pc = "proving"
    /\ closeReservation' = IF closeReservation = generation
                           THEN NoReservation ELSE closeReservation
    /\ call' = Goto(c, "idle")
    /\ UNCHANGED <<generation, inFlight, pendingEmergencyStops,
                   emergencyStopInFlight, releaseEpoch, stop>>

-----------------------------------------------------------------------------
(* Emergency stops.                                                        *)

AdmitEmergencyStop(s) ==
    /\ stop[s] = "idle"
    /\ generation < MaxGeneration
    /\ generation' = generation + 1
    /\ closeReservation' = NoReservation
    /\ pendingEmergencyStops' = pendingEmergencyStops + 1
    /\ stop' = [stop EXCEPT ![s] = "admitted"]
    /\ UNCHANGED <<inFlight, emergencyStopInFlight, releaseEpoch, call>>

\* The reservation is returned without a write: the stop cannot be delivered,
\* its admitted() is stale, or its task is cancelled while it waits.
WithdrawReservation(s) ==
    /\ pendingEmergencyStops' = IF pendingEmergencyStops > 0
                                THEN pendingEmergencyStops - 1 ELSE 0
    /\ releaseEpoch' = releaseEpoch + 1
    /\ call' = WokenCalls(call)
    /\ stop' = WokenStops([stop EXCEPT ![s] = "idle"])
    /\ UNCHANGED <<generation, inFlight, emergencyStopInFlight, closeReservation>>

CancelEmergencyStopAdmission(s) ==
    /\ stop[s] \in {"admitted", "waiting", "woken"}
    /\ WithdrawReservation(s)

StopWaits(s) ==
    /\ inFlight
    /\ stop' = [stop EXCEPT ![s] = "waiting"]
    /\ UNCHANGED <<gate, call>>

StopDispatches(s) ==
    /\ ~inFlight
    /\ pendingEmergencyStops' = IF pendingEmergencyStops > 0
                                THEN pendingEmergencyStops - 1 ELSE 0
    /\ inFlight' = TRUE
    /\ emergencyStopInFlight' = TRUE
    /\ stop' = [stop EXCEPT ![s] = "calling"]
    /\ UNCHANGED <<generation, releaseEpoch, closeReservation, call>>

\* A refusal by admitted() happens only once the gate is free; it is the
\* CancelEmergencyStopAdmission of a woken or admitted stop.
RunEmergencyStop(s) ==
    /\ stop[s] \in {"admitted", "woken"}
    /\ StopWaits(s) \/ StopDispatches(s)

\* Mutant: the finished stop returns its reservation a second time.
FinishEmergencyStopTwice(s) ==
    /\ stop[s] = "calling"
    /\ inFlight' = FALSE
    /\ emergencyStopInFlight' = FALSE
    /\ pendingEmergencyStops' = pendingEmergencyStops - 1
    /\ releaseEpoch' = releaseEpoch + 1
    /\ call' = WokenCalls(call)
    /\ stop' = WokenStops([stop EXCEPT ![s] = "idle"])
    /\ UNCHANGED <<generation, closeReservation>>

FinishEmergencyStop(s) ==
    /\ stop[s] = "calling"
    /\ inFlight' = FALSE
    /\ emergencyStopInFlight' = FALSE
    /\ releaseEpoch' = releaseEpoch + 1
    /\ call' = WokenCalls(call)
    /\ stop' = WokenStops([stop EXCEPT ![s] = "idle"])
    /\ UNCHANGED <<generation, pendingEmergencyStops, closeReservation>>

-----------------------------------------------------------------------------
RoutineStep(p) ==
    EnterRoutine(p) \/ RecheckRoutine(p) \/ CancelRoutineWait(p) \/ FinishRoutine(p)
CloserStep(c) ==
    ReserveClose(c) \/ WaitForCloseProof(c) \/ ReleaseClose(c) \/ AbortClose(c)
StopStep(s) ==
    \/ AdmitEmergencyStop(s) \/ CancelEmergencyStopAdmission(s)
    \/ RunEmergencyStop(s) \/ FinishEmergencyStop(s)

Next ==
    \/ \E w \in Writers : CaptureGeneration(w)
    \/ \E p \in Callers : RoutineStep(p)
    \/ \E c \in Closers : CloserStep(c)
    \/ \E s \in Stops : StopStep(s)

Spec == Init /\ [][Next]_vars

\* Every MCP call has a timeout, so a call on the wire ends; the event loop
\* runs every runnable task.  Nothing forces a new request to be made.
Fairness ==
    /\ \A p \in Callers : WF_vars(FinishRoutine(p)) /\ WF_vars(RecheckRoutine(p))
    /\ \A s \in Stops : WF_vars(FinishEmergencyStop(s)) /\ WF_vars(RunEmergencyStop(s))

FairSpec == Spec /\ Fairness

-----------------------------------------------------------------------------
(* Properties.                                                             *)

CallsOnWire == {p \in Callers : call[p].pc = "calling"}
StopsOnWire == {s \in Stops : stop[s] = "calling"}
Admitted == {s \in Stops : stop[s] \in {"admitted", "waiting", "woken"}}
Holding == {c \in Closers : call[c].pc # "idle"}

\* At most one actuator call is on the wire, and the two in-flight flags say
\* exactly whether one is and whether it is an emergency stop.
SingleCall ==
    /\ \A x, y \in CallsOnWire \cup StopsOnWire : x = y
    /\ inFlight <=> CallsOnWire \cup StopsOnWire # {}
    /\ emergencyStopInFlight <=> StopsOnWire # {}

\* Every admitted stop is accounted for exactly once: it is still pending, on
\* the wire, or has been released (and moved the release epoch).  A release
\* forgotten or made twice on any dispatch, refusal or cancellation path would
\* block routine control for ever or let it run ahead of a stop.
AdmissionsConserved ==
    /\ pendingEmergencyStops = Cardinality(Admitted)
    /\ generation = releaseEpoch + pendingEmergencyStops
                    + (IF emergencyStopInFlight THEN 1 ELSE 0)

\* A routine call that reached the wire entered the gate while no stop was
\* admitted or running, and no stop has run since: generation and release
\* epoch agree exactly when no stop is outstanding.
WriteEnteredOutsideStop ==
    \A p \in CallsOnWire : call[p].gen = call[p].epoch

\* No other closer holds the generation c reserved: only a runner's abort can
\* have let one reserve it a second time while c is still at work.
HoldsAlone(c) == \A d \in Holding \ {c} : call[d].gen # call[c].gen

\* While a closer is entitled to its safe-zero proof, nobody else's call is on
\* the wire: neither a write dispatched before the reservation nor one after,
\* whatever was stopped, reserved, released or aborted in between.  The one
\* exception is the code's own: an aborting runner can clear a reservation
\* that is not its own, and a closer that then reserves the same generation
\* gives the first one back an entitlement that has lapsed.
CloseProofExclusive ==
    \A c \in Closers :
        /\ call[c].pc \in {"proving", "waiting", "woken", "calling"}
        /\ CloseReservationIsCurrent(call[c].gen)
        /\ HoldsAlone(c)
        => CallsOnWire \cup StopsOnWire \subseteq {c}

\* A reservation never outlives an emergency stop or coexists with a pending
\* one, and there is always a closer left that will release it.
ReservationOwned ==
    closeReservation # NoReservation =>
        /\ closeReservation = generation
        /\ pendingEmergencyStops = 0
        /\ \E c \in Holding : call[c].gen = closeReservation

\* No lost wakeup: a task sleeps in Condition.wait() only while a call is on
\* the wire whose end will wake it.
NoLostWakeup ==
    ~inFlight =>
        /\ \A p \in Callers : call[p].pc \notin {"waiting", "proofWaiting"}
        /\ \A s \in Stops : stop[s] # "waiting"

\* An admitted emergency stop is dispatched or withdrawn, whatever routine
\* callers do meanwhile.
StopResolved ==
    \A s \in Stops : stop[s] = "admitted" ~> stop[s] \in {"calling", "idle"}

\* The gate implements the abstract priority port.
Port == INSTANCE PriorityPort WITH
            Routines <- Callers,
            Stops <- Stops,
            onWire <- CallsOnWire \cup StopsOnWire,
            admitted <- Admitted,
            holders <- {c \in Holding : call[c].gen = generation},
            reserved <- closeReservation # NoReservation
ImplementsPort == Port!Spec

=============================================================================
