-------------------------- MODULE RoastController --------------------------
(***************************************************************************)
(* RoastController (controller.py) while it serves one run: the phase      *)
(* machine, the tick, the operator commands drained between ticks, the     *)
(* fail-safe latch and the emergency stops, every actuator call going      *)
(* through the CommandArbiter.                                             *)
(*                                                                         *)
(* One task, the run loop, drains queued operator commands and ticks, one  *)
(* at a time.  An operator's emergency stop runs in a task of its own, so  *)
(* it interleaves with the loop at every await.  Awaits with nothing but a *)
(* generation check between them are one await here.  Telemetry, the       *)
(* safety rules, the lever policies and the advisor are abstracted to      *)
(* their verdicts: every verdict the phase admits is possible.             *)
(***************************************************************************)
EXTENDS Integers, FiniteSets

CONSTANTS
    Loop,           \* the run loop, as the arbiter's only routine caller
    LoopStop,       \* the emergency stop the loop itself raises
    OperatorStops,  \* emergency stops dispatched by the service
    Heats,          \* heat levels, 0 among them
    NoReservation,
    MaxGeneration

Stops == OperatorStops \cup {LoopStop}

ASSUME HeatsAssumption == 0 \in Heats /\ Heats \subseteq Nat
ASSUME StopsAssumption ==
    /\ IsFiniteSet(OperatorStops)
    /\ Loop \notin Stops /\ LoopStop \notin OperatorStops
ASSUME GateAssumption == MaxGeneration \in Nat /\ NoReservation \notin Nat

VARIABLES
    generation, inFlight, pendingEmergencyStops, emergencyStopInFlight,
    releaseEpoch, closeReservation, call, stop,
    phase,              \* _phase
    transitionPending,  \* _emergency_stop_transition_pending
    pendingFailSafe,    \* _pending_fail_safe and its e-stop-retry flag
    latchedVerdict,     \* _latched_verdict
    currentHeat,        \* _current_heat: what the controller believes
    heat,               \* the roaster's heat level
    routineOpen,        \* no fault lease or restart bars the operator's commands
    loop                \* where the run loop is

Arbiter == INSTANCE CommandArbiter WITH Writers <- {Loop}, Closers <- {}, Runners <- {}

gate == <<generation, inFlight, pendingEmergencyStops, emergencyStopInFlight,
          releaseEpoch, closeReservation>>
arbiter == <<gate, call, stop>>
control == <<phase, transitionPending, pendingFailSafe, latchedVerdict,
             currentHeat, heat, routineOpen>>
vars == <<arbiter, control, loop>>

TerminalLatchPhases == {"faulted", "recovery"}
HeatPhases == {"preheating", "preFirstCrack", "development"}
Phases == HeatPhases \cup TerminalLatchPhases
            \cup {"idle", "starting", "cooling", "complete"}

TransitionTable == [
    idle          |-> {"starting"},
    starting      |-> {"preheating"},
    preheating    |-> {"preFirstCrack"},
    preFirstCrack |-> {"development", "cooling"},
    development   |-> {"cooling"},
    cooling       |-> {"complete"},
    complete      |-> {"idle"},
    faulted       |-> {"idle"},
    recovery      |-> HeatPhases \cup {"cooling", "complete", "idle"}]

CanTransition(target) ==
    /\ target # phase
    /\ target \in TerminalLatchPhases \cup TransitionTable[phase]

\* COMMAND_PHASE_MATRIX, for the commands an operator can queue.
CommandPhases == [
    markBeansAdded |-> {"preheating"},
    markFirstCrack |-> {"preFirstCrack"},
    dropBeans      |-> {"preFirstCrack", "development", "faulted"},
    startCooling   |-> {"cooling", "recovery", "faulted"},
    stopCooling    |-> {"cooling", "faulted"}]
OperatorCommands == DOMAIN CommandPhases

(***************************************************************************)
(* loop.pc.  A tick awaits its telemetry and traces at "evaluating", then  *)
(* its stages in order; "persisting" is the await of an operator command's *)
(* evaluation, "writing" a routine call through the arbiter, "stopping"    *)
(* the loop's own emergency stop.  loop.doing names the operation whose    *)
(* write or stop it is; lever the half of a heat/fan pair; after, what     *)
(* completing it means: the stage a tick resumes behind, the verdict that  *)
(* caused a fail-safe, or whether a command moves the phase.               *)
(***************************************************************************)
TickStages == <<"ruling", "levering", "guardDropping", "dropping", "advising">>
StageSet == {TickStages[i] : i \in DOMAIN TickStages}
LoopPcs == StageSet \cup {"new", "idle", "evaluating", "escalating",
    "advisorDropping", "persisting", "clamping", "writing", "stopping",
    "returning", "dead"}

TargetWrites == {"levers", "clamp", "initialTargets"}   \* by _execute_targets
FailSafes == {"failSafe", "retryFailSafe", "retryStop"}
Drops == {"dropBeans", "policyDrop", "advisorDrop"}
Doings == TargetWrites \cup FailSafes \cup Drops \cup OperatorCommands
    \cup {"none", "advisorLevers", "startSession", "stop", "escalate"}
Afters == StageSet \cup {"end", "fault", "recovery", "transition", "stay"}

At(pc) == [pc |-> pc, doing |-> "none", lever |-> "heat", heat |-> 0,
           after |-> "end"]
Ready == At("idle")
Dead(doing) == [At("dead") EXCEPT !.doing = doing]
Writing(doing, after) == [At("writing") EXCEPT !.doing = doing, !.after = after]
Targeting(doing, level, after) ==
    [Writing(doing, after) EXCEPT !.heat = level]

TypeOK ==
    /\ Arbiter!TypeOK
    /\ phase \in Phases
    /\ transitionPending \in BOOLEAN
    /\ pendingFailSafe \in {"none", "failSafe", "stopRetry"}
    /\ latchedVerdict \in {"none", "recovery", "fault", "stop"}
    /\ currentHeat \in Heats
    /\ heat \in Heats
    /\ routineOpen \in BOOLEAN
    /\ loop \in [pc : LoopPcs, doing : Doings, lever : {"heat", "fan"},
                 heat : Heats, after : Afters]

Init ==
    /\ Arbiter!Init
    /\ phase = "idle"
    /\ transitionPending = FALSE
    /\ pendingFailSafe = "none"
    /\ latchedVerdict = "none"
    /\ currentHeat = 0
    /\ heat \in Heats   \* as it was left
    /\ routineOpen = TRUE
    /\ loop = At("new")

-----------------------------------------------------------------------------
(* Helpers.                                                                *)

IsCurrent == call[Loop].gen = generation
StopOutstanding == pendingEmergencyStops > 0 \/ emergencyStopInFlight

\* transition_to: leaving a terminal phase drops the fail-safe retry and the
\* latched verdict; entering faulted may release the emergency-stop gate.
TransitionTo(target) ==
    /\ CanTransition(target)
    /\ phase' = target
    /\ IF phase \in TerminalLatchPhases /\ target \notin TerminalLatchPhases
       THEN pendingFailSafe' = "none" /\ latchedVerdict' = "none"
       ELSE UNCHANGED <<pendingFailSafe, latchedVerdict>>
    /\ transitionPending' = (transitionPending /\ (target = "faulted" => StopOutstanding))
SamePhase == UNCHANGED <<phase, pendingFailSafe, latchedVerdict, transitionPending>>

\* A step of the loop between calls: its generation is forgotten when the
\* operation ends.
LoopMoves ==
    IF loop'.pc \in {"idle", "dead"}
    THEN call' = Arbiter!Goto(Loop, "idle") /\ UNCHANGED <<gate, stop>>
    ELSE UNCHANGED arbiter

StageOpen(stage, ph) ==
    CASE stage = "ruling"   -> ph \in {"preheating", "preFirstCrack"}
      [] stage = "levering" -> ph \in HeatPhases
      [] OTHER              -> ph = "development"
StagesAfter(stage) ==
    {TickStages[i] : i \in {i \in DOMAIN TickStages :
                              \A j \in DOMAIN TickStages : TickStages[j] = stage => j < i}}

\* tick() checks the generation after every stage and goes on to a later
\* one, or has nothing more to do.
TickGoesOnAfter(stage) ==
    loop' \in {Ready} \cup
        {At(next) : next \in {st \in StagesAfter(stage) : IsCurrent /\ StageOpen(st, phase')}}

-----------------------------------------------------------------------------
(* start_run and recover_from_restart.                                     *)

StartRun ==
    /\ loop.pc = "new"
    /\ TransitionTo("starting")
    /\ currentHeat' = 0
    /\ Arbiter!CaptureGeneration(Loop)
    /\ loop' = Writing("startSession", "transition")
    /\ UNCHANGED <<heat, routineOpen>>

\* A fence of the service refuses the first write.
StartNotPermitted ==
    /\ loop.pc = "new"
    /\ phase' = "faulted"
    /\ loop' = Ready
    /\ UNCHANGED <<arbiter, transitionPending, pendingFailSafe, latchedVerdict,
                   currentHeat, heat, routineOpen>>

\* A restart re-attaches to a persisted run without touching the roaster.  The
\* restart clearance that would admit commands is refused while a run is active.
RecoverFromRestart ==
    /\ loop.pc = "new"
    /\ TransitionTo("recovery")
    /\ routineOpen' = FALSE
    /\ loop' = Ready
    /\ UNCHANGED <<arbiter, currentHeat, heat>>

InitialTargets ==
    /\ loop.pc = "persisting" /\ loop.doing = "initialTargets"
    /\ IF IsCurrent THEN \E level \in Heats : loop' = Targeting("initialTargets", level, "end")
                    ELSE loop' = Ready
    /\ LoopMoves /\ UNCHANGED control

-----------------------------------------------------------------------------
(* The tick.                                                               *)

LatchedTickBegins ==
    /\ phase \in TerminalLatchPhases
    /\ \/ pendingFailSafe = "failSafe" /\ loop' = Targeting("retryFailSafe", 0, "stay")
       \/ pendingFailSafe = "stopRetry" /\ loop' = Targeting("retryStop", 0, "stay")
       \/ /\ pendingFailSafe = "none" /\ latchedVerdict \in {"fault", "recovery"}
          /\ loop' = At("escalating")

TickBegins ==
    /\ loop.pc = "idle"
    /\ ~transitionPending
    /\ Arbiter!CaptureGeneration(Loop)
    /\ \/ phase \notin TerminalLatchPhases /\ loop' = At("evaluating")
       \/ LatchedTickBegins
    /\ UNCHANGED control

TickIsClear ==
    /\ loop.pc = "evaluating"
    /\ UNCHANGED control
    /\ TickGoesOnAfter("evaluating")
    /\ LoopMoves

\* Only the pre-T0 overrun of preheating asks for operator recovery.
TickFails(verdict) ==
    /\ loop.pc = "evaluating"
    /\ IsCurrent
    /\ verdict = "recovery" => phase = "preheating"
    /\ loop' = Targeting("failSafe", 0, verdict)
    /\ LoopMoves /\ UNCHANGED control

\* admit_emergency_stop and the loop's own call of run_emergency_stop.
AdmitStop(s) ==
    /\ Arbiter!AdmitEmergencyStop(s)
    /\ pendingFailSafe' = "none"
    /\ transitionPending' = TRUE
    /\ UNCHANGED <<phase, latchedVerdict, currentHeat, heat>>

LoopStops(doing) ==
    /\ AdmitStop(LoopStop)
    /\ loop' = [At("stopping") EXCEPT !.doing = doing]
    /\ UNCHANGED routineOpen

TickStops == loop.pc = "evaluating" /\ IsCurrent /\ LoopStops("stop")

\* The escalation read and its trace are awaited; the generation is not
\* checked again before the stop is admitted.
TickEscalates == loop.pc = "escalating" /\ LoopStops("escalate")
TickDoesNotEscalate ==
    /\ loop.pc = "escalating"
    /\ loop' = Ready
    /\ LoopMoves /\ UNCHANGED control

\* The debounced T0, or first crack.
RuleTarget == [preheating |-> "preFirstCrack", preFirstCrack |-> "development"]
\* Mutant: the generation is not checked after the awaits before the rules.
TickRulesUnchecked ==
    /\ loop.pc = "ruling"
    /\ IF phase \in DOMAIN RuleTarget
       THEN TransitionTo(RuleTarget[phase]) ELSE SamePhase
    /\ UNCHANGED <<currentHeat, heat, routineOpen>>
    /\ TickGoesOnAfter("ruling")
    /\ LoopMoves

TickRules ==
    /\ loop.pc = "ruling"
    /\ IF IsCurrent /\ phase \in DOMAIN RuleTarget
       THEN TransitionTo(RuleTarget[phase]) ELSE SamePhase
    /\ UNCHANGED <<currentHeat, heat, routineOpen>>
    /\ TickGoesOnAfter("ruling")
    /\ LoopMoves

TickLevers ==
    /\ loop.pc = "levering"
    /\ IF IsCurrent THEN \E level \in Heats : loop' = Targeting("levers", level, "levering")
                    ELSE loop' = Ready
    /\ LoopMoves /\ UNCHANGED control

\* The ceiling guard's drop, then the development target's.
TickDrops ==
    /\ loop.pc \in {"guardDropping", "dropping"}
    /\ loop' = Writing("policyDrop", loop.pc)
    /\ LoopMoves /\ UNCHANGED control

TickAdvises ==
    /\ loop.pc = "advising"
    /\ loop' \in {Ready} \cup (IF ~IsCurrent THEN {} ELSE
                    {Targeting("advisorLevers", level, "end") : level \in Heats}
                    \cup {At("advisorDropping"), Targeting("failSafe", 0, "recovery")})
    /\ LoopMoves /\ UNCHANGED control

AdvisorDrops ==
    /\ loop.pc = "advisorDropping"
    /\ loop' = IF IsCurrent THEN Writing("advisorDrop", "transition") ELSE Ready
    /\ LoopMoves /\ UNCHANGED control

\* _clamp_heat_after_failed_drop lowers recovery-raised heat.
ClampsAfterDrop ==
    /\ loop.pc = "clamping"
    /\ loop' = IF IsCurrent THEN Targeting("clamp", loop.heat, loop.after) ELSE Ready
    /\ LoopMoves /\ UNCHANGED control

LoopReturns ==
    /\ loop.pc = "returning"
    /\ loop' = Ready
    /\ LoopMoves /\ UNCHANGED control

-----------------------------------------------------------------------------
(* Operator commands, drained by the loop before its tick.                 *)

CommandTarget == [markFirstCrack |-> "development", dropBeans |-> "cooling",
                  startCooling |-> "cooling", stopCooling |-> "complete",
                  policyDrop |-> "cooling", advisorDrop |-> "cooling",
                  startSession |-> "preheating"]

BeginCommand(c) ==
    /\ loop.pc = "idle"
    /\ routineOpen
    /\ phase \in CommandPhases[c]
    /\ Arbiter!CaptureGeneration(Loop)
    /\ loop' = [At("persisting") EXCEPT !.doing = c]
    /\ UNCHANGED control

\* Which commands move the phase is decided on the phase after the await.
MovesPhase(c) ==
    CASE c = "markFirstCrack" -> TRUE
      [] c = "dropBeans"      -> phase # "faulted"
      [] c = "startCooling"   -> phase = "recovery"
      [] c = "stopCooling"    -> phase = "cooling"
      [] OTHER                -> FALSE

\* An illegal move raises InvalidTransitionError, which nobody handles.
CommandPersisted(c) ==
    /\ loop.pc = "persisting" /\ loop.doing = c
    /\ loop' = IF ~MovesPhase(c) THEN Writing(c, "stay")
               ELSE IF CanTransition(CommandTarget[c]) THEN Writing(c, "transition")
               ELSE Dead(c)
    /\ LoopMoves /\ UNCHANGED control

OperatorResume(target) ==
    /\ loop.pc = "idle"
    /\ routineOpen
    /\ phase = "recovery"
    /\ target \in TransitionTable[phase]
    /\ TransitionTo(target)
    /\ UNCHANGED <<arbiter, currentHeat, heat, routineOpen, loop>>

-----------------------------------------------------------------------------
(* Routine calls.  The operation's outcome and the arbiter's step are one. *)

\* The gate between a stop's admission and its landing, which only the retry
\* of an unconfirmed stop may pass.
Writes(doings) == loop.pc = "writing" /\ loop.doing \in doings
RoutineAdmitted == loop.doing = "retryStop" \/ ~transitionPending

LoopEpoch == IF call[Loop].pc = "captured" THEN releaseEpoch ELSE call[Loop].epoch
Tries == Arbiter!EnterRoutine(Loop) \/ Arbiter!RecheckRoutine(Loop)

WriteEnters ==
    /\ loop.pc = "writing"
    /\ RoutineAdmitted
    /\ Tries
    /\ call'[Loop].pc \in {"waiting", "calling"}
    /\ UNCHANGED <<control, loop>>

\* The caller goes on with its generation, or forgets it.
CallFollows ==
    call'[Loop].pc = IF loop'.pc \in {"idle", "dead"} THEN "idle" ELSE "captured"

Refused ==
    /\ Arbiter!Superseded(Loop, LoopEpoch) \/ ~RoutineAdmitted
    /\ Tries
    /\ CallFollows
    /\ UNCHANGED heat
CallReturns ==
    /\ Arbiter!FinishRoutine(Loop)
    /\ CallFollows

\* _set_targets: the heat call, then the fan call, each admitted on its own.
Paired == Writes(TargetWrites \cup FailSafes \cup {"advisorLevers"})

HeatWritten ==
    /\ Paired /\ loop.lever = "heat"
    /\ heat' = loop.heat
    /\ loop' = [loop EXCEPT !.lever = "fan"]
    /\ CallReturns
    /\ SamePhase /\ UNCHANGED <<currentHeat, routineOpen>>

\* A call that raises may or may not have reached the roaster.
TargetsEnd(outcome) ==
    /\ \/ outcome = "refused" /\ Refused
       \/ outcome = "raised" /\ CallReturns
          /\ heat' \in {heat} \cup (IF loop.lever = "heat" THEN {loop.heat} ELSE {})
       \/ outcome = "applied" /\ loop.lever = "fan" /\ CallReturns /\ UNCHANGED heat
    /\ UNCHANGED routineOpen

Adopts(outcome) == currentHeat' = IF outcome = "applied" /\ IsCurrent
                                  THEN loop.heat ELSE currentHeat

ExecuteTargets(outcome) ==
    /\ Writes(TargetWrites)
    /\ SamePhase
    /\ IF loop.after = "end" THEN loop' = Ready ELSE TickGoesOnAfter(loop.after)
    /\ Adopts(outcome)
    /\ TargetsEnd(outcome)

\* Nothing catches what the advisor's lever write raises.
ExecuteAdvisorLevers(outcome) ==
    /\ Writes({"advisorLevers"})
    /\ SamePhase
    /\ IF outcome = "raised" THEN loop' = Dead("advisorLevers")
                             ELSE loop' \in {Ready, At("advisorDropping")}
    /\ Adopts(outcome)
    /\ TargetsEnd(outcome)

\* Mutant: the latch names the operation.
FailSafeKindUnmapped == loop.doing
FailSafeKind == IF loop.doing = "retryStop" THEN "stopRetry" ELSE "failSafe"

\* Mutant: a write that raised clears the latch like one that landed.
LatchesNothingRaised(outcome) ==
    pendingFailSafe' =
        IF ~IsCurrent \/ (outcome = "refused" /\ ~RoutineAdmitted) THEN pendingFailSafe
        ELSE IF outcome \in {"applied", "raised"} THEN "none" ELSE FailSafeKind

\* _apply_fail_safe's effect on the retry latch.
Latches(outcome) ==
    pendingFailSafe' =
        IF ~IsCurrent \/ (outcome = "refused" /\ ~RoutineAdmitted) THEN pendingFailSafe
        ELSE IF outcome = "applied" THEN "none" ELSE FailSafeKind

\* _act_on_safety goes on from _apply_fail_safe to the terminal phase.
ApplyFailSafe(outcome) ==
    /\ Writes({"failSafe"})
    /\ IF IsCurrent
       THEN /\ phase' = IF loop.after = "fault" THEN "faulted" ELSE "recovery"
            /\ latchedVerdict' = loop.after
            /\ transitionPending' = (transitionPending /\ (phase' = "faulted" => StopOutstanding))
       ELSE UNCHANGED <<phase, latchedVerdict, transitionPending>>
    /\ loop' = Ready
    /\ Latches(outcome)
    /\ Adopts(outcome)
    /\ TargetsEnd(outcome)

RetryFailSafe(outcome) ==
    /\ Writes({"retryFailSafe", "retryStop"})
    /\ loop' = IF IsCurrent /\ latchedVerdict \in {"fault", "recovery"}
               THEN At("escalating") ELSE Ready
    /\ Latches(outcome)
    /\ Adopts(outcome)
    /\ TargetsEnd(outcome)
    /\ UNCHANGED <<phase, latchedVerdict, transitionPending>>

-----------------------------------------------------------------------------
(* Single commands.                                                        *)

Single == Writes(Drops \cup OperatorCommands \cup {"startSession"})

CommandRefused ==
    /\ Single
    /\ loop' = Ready
    /\ Refused
    /\ SamePhase /\ UNCHANGED <<currentHeat, routineOpen>>

\* A drop turns the heat off; its payload may be unreadable.  The roaster may
\* turn it off when cooling starts.
HeatAfterCommand ==
    CASE loop.doing \in Drops         -> {0}
      [] loop.doing = "startCooling"  -> {heat, 0}
      [] OTHER                        -> {heat}

CommandSucceeds ==
    /\ Single
    /\ heat' \in HeatAfterCommand
    /\ IF IsCurrent /\ loop.after # "stay"
       THEN TransitionTo(CommandTarget[loop.doing]) ELSE SamePhase
    /\ currentHeat' \in {currentHeat} \cup
            (IF IsCurrent /\ loop.doing \in Drops THEN {0} ELSE {})
    /\ loop' = IF IsCurrent /\ loop.doing = "startSession"
               THEN [At("persisting") EXCEPT !.doing = "initialTargets"] ELSE Ready
    /\ CallReturns
    /\ UNCHANGED routineOpen

Clamping(after) ==
    {[At("clamping") EXCEPT !.heat = level, !.after = after] :
        level \in {l \in Heats : l < currentHeat}}

CommandRaises ==
    /\ Single
    /\ heat' \in {heat} \cup HeatAfterCommand
    /\ IF loop.doing = "startSession" THEN TransitionTo("faulted") ELSE SamePhase
    /\ \/ /\ loop.doing \in Drops /\ loop.after # "stay" /\ phase = "development"
          /\ loop' \in Clamping(IF loop.doing = "policyDrop" THEN loop.after ELSE "end")
       \/ loop.doing # "policyDrop" /\ loop' = Ready
       \/ loop.doing = "policyDrop" /\ TickGoesOnAfter(loop.after)
    /\ CallReturns
    /\ UNCHANGED <<currentHeat, routineOpen>>

-----------------------------------------------------------------------------
(* Emergency stops.                                                        *)

AdmitOperatorStop(s) ==
    /\ loop.pc # "new"
    /\ AdmitStop(s)
    /\ routineOpen' = FALSE
    /\ UNCHANGED loop

\* Mutant: the stop is written without the arbiter.
StopProceedsAlone(s) ==
    /\ stop[s] \in {"admitted", "woken"}
    /\ stop' = [stop EXCEPT ![s] = "calling"]
    /\ UNCHANGED <<gate, call, control, loop>>

StopProceeds(s) == Arbiter!RunEmergencyStop(s) /\ UNCHANGED <<control, loop>>

\* Mutant of StopLands: the gate never reopens.
StopLandsShut(s) ==
    /\ phase' = "faulted"
    /\ latchedVerdict' = "stop"
    /\ loop' = IF s = LoopStop THEN At("returning") ELSE loop
    /\ UNCHANGED <<routineOpen, transitionPending>>
\* Confirmed or not, a stop faults the run and reopens the gate behind the
\* last outstanding stop.
StopLands(s) ==
    /\ phase' = "faulted"
    /\ latchedVerdict' = "stop"
    /\ transitionPending' = (transitionPending /\ StopOutstanding')
    /\ loop' = IF s = LoopStop THEN At("returning") ELSE loop
    /\ UNCHANGED routineOpen

StopConfirmed(s) ==
    /\ Arbiter!FinishEmergencyStop(s)
    /\ heat' = 0
    /\ currentHeat' \in {currentHeat, 0}
    /\ pendingFailSafe' = IF s = LoopStop /\ loop.doing = "escalate"
                          THEN pendingFailSafe ELSE "none"
    /\ StopLands(s)

StopRaises(s) ==
    /\ Arbiter!FinishEmergencyStop(s)
    /\ heat' \in {heat, 0}
    /\ pendingFailSafe' = "stopRetry"
    /\ UNCHANGED currentHeat
    /\ StopLands(s)

\* Mutant: the cancelled stop arms no retry.
StopCancelledUnarmed(s) ==
    /\ stop[s] \in {"waiting", "woken"} /\ phase # "starting"
    /\ Arbiter!CancelEmergencyStopAdmission(s)
    /\ UNCHANGED <<currentHeat, heat, pendingFailSafe>>
    /\ StopLands(s)

\* Shutdown's stop times out while it waits for the call on the wire.  It is
\* admitted in an active phase only, so never against a start.
StopCancelled(s) ==
    /\ stop[s] \in {"waiting", "woken"} /\ phase # "starting"
    /\ Arbiter!CancelEmergencyStopAdmission(s)
    /\ pendingFailSafe' = "stopRetry"
    /\ UNCHANGED <<currentHeat, heat>>
    /\ StopLands(s)

-----------------------------------------------------------------------------
Outcomes == {"refused", "raised", "applied"}

RoutineCall ==
    \/ WriteEnters \/ HeatWritten
    \/ \E o \in Outcomes : \/ ExecuteTargets(o) \/ ExecuteAdvisorLevers(o)
                           \/ ApplyFailSafe(o) \/ RetryFailSafe(o)
    \/ CommandRefused \/ CommandSucceeds \/ CommandRaises

TickStep ==
    \/ TickBegins \/ TickIsClear \/ TickFails("fault") \/ TickFails("recovery")
    \/ TickStops \/ TickEscalates \/ TickDoesNotEscalate \/ TickRules \/ TickLevers
    \/ TickDrops \/ TickAdvises \/ AdvisorDrops \/ ClampsAfterDrop \/ LoopReturns

CommandStep ==
    \/ StartRun \/ StartNotPermitted \/ RecoverFromRestart \/ InitialTargets
    \/ \E c \in OperatorCommands : BeginCommand(c) \/ CommandPersisted(c)
    \/ \E target \in Phases : OperatorResume(target)

StopStep(s) == StopProceeds(s) \/ StopConfirmed(s) \/ StopRaises(s)

Next ==
    \/ CommandStep \/ TickStep \/ RoutineCall
    \/ \E s \in OperatorStops : AdmitOperatorStop(s) \/ StopCancelled(s)
    \/ \E s \in Stops : StopStep(s)

Spec == Init /\ [][Next]_vars

\* Every call times out and the event loop runs every runnable task, so a step
\* of the loop that can be taken is; each pass drains a bounded queue and then
\* ticks, so commands cannot keep the loop from its tick for ever.
Fairness ==
    /\ WF_vars(TickStep \/ CommandStep \/ RoutineCall)
    /\ SF_vars(TickBegins)
    /\ \A s \in Stops : WF_vars(StopProceeds(s)) /\ WF_vars(StopConfirmed(s) \/ StopRaises(s))

FairSpec == Spec /\ Fairness

-----------------------------------------------------------------------------
(* Properties.                                                             *)

\* A verdict the controller has latched is enforced: with no stop left to
\* answer, the heat is off or its retry is armed.
LatchedVerdictEnforced ==
    latchedVerdict # "none" /\ ~StopOutstanding =>
        heat = 0 \/ pendingFailSafe # "none"

\* Heat rises only in a phase in which the agent may heat, or by the call a
\* cancelled stop left on the wire, with a heat-off still to come.
HeatRisesUnderControl ==
    [][heat' > heat =>
        phase \in HeatPhases \/ StopOutstanding \/ pendingFailSafe # "none"]_vars

\* From a stop's admission on, only the stop moves the phase: no rule, drop,
\* start or command in progress carries the roast on.
StopOwnsPhase ==
    [][transitionPending /\ phase' # phase => phase' = "faulted"]_vars

\* An unconfirmed heat-off is written again, for as long as the loop lives.
FailSafeRetried ==
    pendingFailSafe # "none" ~>
        \/ pendingFailSafe = "none" \/ loop.pc = "dead"
        \/ loop.pc = "writing" /\ loop.doing \in {"retryFailSafe", "retryStop"}

\* The arbiter's guarantees hold of the controller's calls.
UsesArbiter == Arbiter!Spec

(* What documents of the repository say and the code does not do.           *)

\* operator_resume's docstring (controller.py:5528-5530): "Heat stays at 0
\* after a resume until separately commanded".
ResumeLeavesHeatOff ==
    [][phase = "recovery" /\ phase' \in HeatPhases => heat' = 0]_vars

\* _apply_fail_safe's docstring (controller.py:4437-4440): after a failed write
\* "the terminal-phase tick re-attempts the heat-off write until it confirms".
RetryOutlivesMarkFirstCrack ==
    pendingFailSafe # "none" => loop # Dead("markFirstCrack")
=============================================================================
