------------------------ MODULE RoastControllerProofs ------------------------
(***************************************************************************)
(* What RoastController keeps true for any finite set of operator stops,   *)
(* any heat levels and any bound on generations: its types, that a latched *)
(* verdict is enforced, when heat may rise, that an admitted stop owns the *)
(* phase, and that its calls are calls of the command arbiter, so that the *)
(* theorems of CommandArbiterProofs hold of them.                          *)
(*                                                                         *)
(* The argument has two layers. The gate's own invariant, Gate!IInv, is    *)
(* CommandArbiterProofs' and is preserved because every step is a step of  *)
(* the arbiter (StepsArbiter). Above it, Control ties the run loop's       *)
(* program counter to its arbiter call, its captured generation to the     *)
(* phases in which it may heat, and a call whose generation is outdated to *)
(* the stop or the retry that will turn the heat off behind it.            *)
(***************************************************************************)
EXTENDS RoastController, FiniteSetTheorems, TLAPS

Gate == INSTANCE CommandArbiterProofs WITH Writers <- {Loop}, Closers <- {}, Runners <- {}

Quiet == \A s \in Stops : stop[s] = "idle"

\* Where the loop stands tells where its arbiter call stands; the loop waits
\* for the stop it raised.
CallMatchesLoop ==
    /\ call[Loop].pc = "idle" <=> loop.pc \in {"new", "idle", "dead"}
    /\ call[Loop].pc \notin {"idle", "captured"} => loop.pc = "writing"
    /\ stop[LoopStop] # "idle" => loop.pc = "stopping"

\* What an operation may be about to write, and how it goes on.
ShapeFits(l, h) ==
    l.pc = "writing" =>
        /\ l.doing \in FailSafes => l.heat = 0 /\ (l.lever = "fan" => h = 0)
        /\ l.doing = "failSafe" => l.after \in {"fault", "recovery"}
        /\ l.doing = "startSession" => l.after = "transition"
LoopShape == ShapeFits(loop, heat)

\* The gate of transitions is shut for as long as a stop is outstanding, an
\* operator's stop bars the commands, and nothing stops a run before its start.
GateTracksStops ==
    /\ transitionPending <=> ~Quiet
    /\ routineOpen => \A s \in OperatorStops : stop[s] = "idle"
    /\ loop.pc = "new" => Quiet

\* Whatever the loop began before an outstanding stop has an older generation.
StopsSupersede == Quiet \/ call[Loop].pc = "idle" \/ ~IsCurrent

\* Unless a stop superseded it, the loop writes heat only in a phase that heats.
StageFits(l, ph) ==
    /\ l.pc \in StageSet => StageOpen(l.pc, ph)
    /\ l.pc \in {"advisorDropping", "clamping"} => ph = "development"
    /\ l.pc = "persisting" /\ l.doing = "initialTargets" => ph = "preheating"
    /\ l.pc = "writing" =>
         /\ l.doing \in {"clamp", "advisorLevers", "policyDrop"} => ph = "development"
         /\ l.doing = "levers" => ph \in HeatPhases
         /\ l.doing = "initialTargets" => ph = "preheating"
StagePhase == IsCurrent => StageFits(loop, phase)

\* A verdict is latched in the phases that enforce it.
VerdictPhase == latchedVerdict # "none" => phase \in TerminalLatchPhases

\* A superseded call on the wire has its stop, or the retry of a cancelled one,
\* behind it.
StaleCallAnswered ==
    call[Loop].pc = "calling" /\ ~IsCurrent => ~Quiet \/ pendingFailSafe # "none"

LoopRecord == [pc : LoopPcs, doing : Doings, lever : {"heat", "fan"},
               heat : Heats, after : Afters]

\* The controller's variables and the loop have their types.
ControlTypes ==
    /\ phase \in Phases
    /\ transitionPending \in BOOLEAN
    /\ pendingFailSafe \in {"none", "failSafe", "stopRetry"}
    /\ latchedVerdict \in {"none", "recovery", "fault", "stop"}
    /\ currentHeat \in Heats
    /\ heat \in Heats
    /\ routineOpen \in BOOLEAN
    /\ loop \in LoopRecord

Enforced == latchedVerdict # "none" /\ Quiet => heat = 0 \/ pendingFailSafe # "none"

Control ==
    /\ ControlTypes
    /\ CallMatchesLoop
    /\ LoopShape
    /\ GateTracksStops
    /\ StopsSupersede
    /\ StagePhase
    /\ VerdictPhase
    /\ StaleCallAnswered
    /\ Enforced

IInv == Gate!IInv /\ Control

-----------------------------------------------------------------------------
(* The gate: the arbiter of the controller is CommandArbiterProofs' one.   *)

LEMMA SameFinite == ASSUME NEW S PROVE Gate!IsFiniteSet(S) <=> IsFiniteSet(S)
BY DEF Gate!IsFiniteSet, IsFiniteSet

LEMMA FiniteStops == IsFiniteSet(Stops) /\ Gate!IsFiniteSet(Stops)
<1>1. IsFiniteSet(Stops)
    BY StopsAssumption, FS_AddElement DEF Stops
<1> QED BY <1>1, SameFinite

LEMMA SameInit == Arbiter!Init <=> Gate!Init
BY DEF Arbiter!Init, Arbiter!Callers, Arbiter!Idle, Gate!Init, Gate!Callers, Gate!Idle

LEMMA SameTypes == Arbiter!TypeOK <=> Gate!TypeOK
BY DEF Arbiter!TypeOK, Arbiter!Callers, Arbiter!WriterPcs, Arbiter!CloserPcs, Arbiter!StopPcs,
       Gate!TypeOK, Gate!Callers, Gate!WriterPcs, Gate!CloserPcs, Gate!StopPcs

LEMMA SameNext == Arbiter!Next <=> Gate!Next
BY DEF Arbiter!Next, Arbiter!Callers, Arbiter!CaptureGeneration, Arbiter!RoutineStep,
       Arbiter!EnterRoutine, Arbiter!RecheckRoutine, Arbiter!CancelRoutineWait,
       Arbiter!FinishRoutine, Arbiter!RunRoutine, Arbiter!Discard, Arbiter!WaitForCall,
       Arbiter!Dispatch, Arbiter!Superseded, Arbiter!Presented,
       Arbiter!CloseReservationIsCurrent, Arbiter!WokenCalls, Arbiter!WokenStops,
       Arbiter!Woken, Arbiter!Goto, Arbiter!Idle, Arbiter!gate, Arbiter!CloserStep,
       Arbiter!ReserveClose, Arbiter!WaitForCloseProof, Arbiter!ReleaseClose,
       Arbiter!StopStep, Arbiter!AdmitEmergencyStop, Arbiter!CancelEmergencyStopAdmission,
       Arbiter!WithdrawReservation, Arbiter!RunEmergencyStop, Arbiter!StopWaits,
       Arbiter!StopDispatches, Arbiter!FinishEmergencyStop,
       Gate!Next, Gate!Callers, Gate!CaptureGeneration, Gate!RoutineStep,
       Gate!EnterRoutine, Gate!RecheckRoutine, Gate!CancelRoutineWait,
       Gate!FinishRoutine, Gate!RunRoutine, Gate!Discard, Gate!WaitForCall,
       Gate!Dispatch, Gate!Superseded, Gate!Presented,
       Gate!CloseReservationIsCurrent, Gate!WokenCalls, Gate!WokenStops,
       Gate!Woken, Gate!Goto, Gate!Idle, Gate!gate, Gate!CloserStep,
       Gate!ReserveClose, Gate!WaitForCloseProof, Gate!ReleaseClose,
       Gate!StopStep, Gate!AdmitEmergencyStop, Gate!CancelEmergencyStopAdmission,
       Gate!WithdrawReservation, Gate!RunEmergencyStop, Gate!StopWaits,
       Gate!StopDispatches, Gate!FinishEmergencyStop

LEMMA GateInit == Arbiter!Init => Gate!IInv
BY SameInit, Gate!InitInv, FiniteStops, StopsAssumption, GateAssumption

LEMMA GateStep == Gate!IInv /\ [Arbiter!Next]_Arbiter!vars => Gate!IInv'
<1>1. [Arbiter!Next]_Arbiter!vars => [Gate!Next]_Gate!vars
    BY SameNext DEF Arbiter!vars, Arbiter!gate, Gate!vars, Gate!gate
<1> QED BY <1>1, Gate!NextInv, FiniteStops, StopsAssumption, GateAssumption

\* The two flags of the gate say exactly whether a stop is admitted or running.
LEMMA OutstandingIsUnquiet ==
    ASSUME Gate!IInv
    PROVE  StopOutstanding <=> ~Quiet
<1> DEFINE A == {s \in Stops : stop[s] \in {"admitted", "waiting", "woken"}}
<1>1. IsFiniteSet(A)
    BY FiniteStops, FS_Subset
<1>2. pendingEmergencyStops = Cardinality(A)
    BY DEF Gate!IInv, Gate!AdmissionsConserved, Gate!Admitted, Gate!Cardinality, Cardinality,
           Gate!IsFiniteSet, IsFiniteSet
<1>3. pendingEmergencyStops > 0 <=> A # {}
    BY <1>1, <1>2, FS_EmptySet, FS_CardinalityType
<1>4. emergencyStopInFlight <=> \E s \in Stops : stop[s] = "calling"
    BY DEF Gate!IInv, Gate!SingleCall, Gate!StopsOnWire
<1>5. stop \in [Stops -> {"idle", "admitted", "waiting", "woken", "calling"}]
    BY DEF Gate!IInv, Gate!TypeOK, Gate!StopPcs
<1> QED
    BY <1>3, <1>4, <1>5 DEF StopOutstanding, Quiet

-----------------------------------------------------------------------------
(* What a step of the loop or of a stop does at the gate.                  *)

CallRecord == [pc : Arbiter!WriterPcs \cup Arbiter!CloserPcs, gen : Nat, epoch : Nat]

\* The loop's call goes on with its generation or is forgotten; no stop begins
\* or ends.
LoopKeeps ==
    /\ generation' = generation
    /\ \A s \in Stops : stop'[s] = "idle" <=> stop[s] = "idle"
    /\ call'[Loop].pc = IF loop'.pc \in {"idle", "dead"} THEN "idle" ELSE "captured"
    /\ loop'.pc \notin {"idle", "dead"} => call'[Loop].gen = call[Loop].gen

LEMMA LoopCallType ==
    ASSUME Arbiter!TypeOK
    PROVE  /\ call \in [Arbiter!Callers -> CallRecord] /\ call[Loop] \in CallRecord
           /\ call[Loop].pc \in {"idle", "captured", "waiting", "woken", "calling"}
           /\ call[Loop].gen \in Nat /\ generation \in Nat /\ releaseEpoch \in Nat
           /\ call[Loop].epoch \in Nat
           /\ Loop \in Arbiter!Callers
           /\ stop \in [Stops -> {"idle", "admitted", "waiting", "woken", "calling"}]
BY DEF Arbiter!TypeOK, Arbiter!Callers, Arbiter!WriterPcs, Arbiter!StopPcs, CallRecord

LEMMA GotoLoop ==
    ASSUME Arbiter!TypeOK, NEW pc \in {"idle", "captured"}
    PROVE  /\ Arbiter!Goto(Loop, pc)[Loop].pc = pc
           /\ pc = "captured" => Arbiter!Goto(Loop, pc)[Loop].gen = call[Loop].gen
BY DEF Arbiter!TypeOK, Arbiter!Goto, Arbiter!Idle, Arbiter!Callers

LEMMA WokenLoop ==
    ASSUME NEW c, NEW p \in Arbiter!Callers,
           c \in [Arbiter!Callers -> CallRecord]
    PROVE  /\ Arbiter!WokenCalls(c)[p].pc = Arbiter!Woken(c[p].pc)
           /\ Arbiter!WokenCalls(c)[p].gen = c[p].gen
BY DEF Arbiter!WokenCalls, Arbiter!Woken, CallRecord

LEMMA WokenStopsIdle ==
    ASSUME NEW st, NEW s \in Stops
    PROVE  Arbiter!WokenStops(st)[s] = "idle" <=> st[s] = "idle"
BY DEF Arbiter!WokenStops

LEMMA LoopMovesAtGate ==
    ASSUME Arbiter!TypeOK, call[Loop].pc = "captured", LoopMoves
    PROVE  [Arbiter!Next]_Arbiter!vars /\ LoopKeeps
<1>1. CASE loop'.pc \in {"idle", "dead"}
    <2>1. call' = Arbiter!Goto(Loop, "idle") /\ UNCHANGED <<gate, stop>>
        BY <1>1 DEF LoopMoves
    <2>2. Arbiter!Discard(Loop)
        BY <2>1 DEF Arbiter!Discard, gate, Arbiter!gate
    <2>3. Arbiter!RoutineStep(Loop)
        BY <2>2 DEF Arbiter!RoutineStep, Arbiter!EnterRoutine, Arbiter!RunRoutine
    <2>4. Arbiter!Next
        BY <2>3, LoopCallType DEF Arbiter!Next
    <2> QED BY <1>1, <2>1, <2>4, GotoLoop DEF LoopKeeps, gate
<1>2. CASE loop'.pc \notin {"idle", "dead"}
    BY <1>2 DEF LoopMoves, LoopKeeps, arbiter, gate, Arbiter!vars, Arbiter!gate
<1> QED BY <1>1, <1>2

LEMMA CaptureAtGate ==
    ASSUME Arbiter!TypeOK, Arbiter!CaptureGeneration(Loop)
    PROVE  /\ [Arbiter!Next]_Arbiter!vars
           /\ generation' = generation /\ stop' = stop
           /\ call[Loop].pc = "idle" /\ call'[Loop].pc = "captured" /\ IsCurrent'
<1>1. Arbiter!Next
    BY DEF Arbiter!Next
<1> QED BY <1>1, LoopCallType DEF Arbiter!CaptureGeneration, Arbiter!gate, IsCurrent

LEMMA WaitsOrDispatches ==
    ASSUME Arbiter!TypeOK, NEW epoch
    PROVE  /\ Arbiter!WaitForCall(Loop, epoch) =>
                 call'[Loop].pc = "waiting" /\ call'[Loop].gen = call[Loop].gen
           /\ Arbiter!Dispatch(Loop, epoch) =>
                 /\ call'[Loop].pc = "calling" /\ call'[Loop].gen = call[Loop].gen
                 /\ IsCurrent
<1>1. Arbiter!WaitForCall(Loop, epoch) =>
          call'[Loop].pc = "waiting" /\ call'[Loop].gen = call[Loop].gen
    BY LoopCallType DEF Arbiter!WaitForCall, CallRecord
<1>2. Arbiter!Dispatch(Loop, epoch) =>
          call'[Loop].pc = "calling" /\ call'[Loop].gen = call[Loop].gen
    BY LoopCallType DEF Arbiter!Dispatch, CallRecord
<1>3. Arbiter!Dispatch(Loop, epoch) => IsCurrent
    BY DEF Arbiter!Dispatch, Arbiter!Superseded, IsCurrent
<1> QED BY <1>1, <1>2, <1>3

LEMMA TriesAtGate ==
    ASSUME Arbiter!TypeOK, Tries
    PROVE  /\ Arbiter!Next
           /\ generation' = generation /\ stop' = stop
           /\ call[Loop].pc \in {"captured", "woken"}
           /\ \/ Arbiter!Discard(Loop)
              \/ Arbiter!WaitForCall(Loop, LoopEpoch)
              \/ Arbiter!Dispatch(Loop, LoopEpoch)
<1>1. call[Loop].pc \in {"captured", "woken"} /\ Arbiter!RunRoutine(Loop, LoopEpoch)
    BY DEF Tries, Arbiter!EnterRoutine, Arbiter!RecheckRoutine, LoopEpoch
<1>2. Arbiter!RoutineStep(Loop)
    BY DEF Tries, Arbiter!RoutineStep
<1>3. Arbiter!Next
    BY <1>2, LoopCallType DEF Arbiter!Next
<1> QED
    BY <1>1, <1>3 DEF Arbiter!RunRoutine, Arbiter!Discard, Arbiter!WaitForCall, Arbiter!Dispatch,
        Arbiter!gate

LEMMA RefusedAtGate ==
    ASSUME Arbiter!TypeOK, Refused
    PROVE  /\ [Arbiter!Next]_Arbiter!vars /\ LoopKeeps
           /\ call[Loop].pc # "calling" /\ heat' = heat
<1>1. Tries /\ CallFollows /\ heat' = heat
    BY DEF Refused
<1>2. Arbiter!Discard(Loop)
    BY <1>1, TriesAtGate, WaitsOrDispatches DEF CallFollows
<1>3. PICK pc \in {"idle", "captured"} : call' = Arbiter!Goto(Loop, pc)
    BY <1>2 DEF Arbiter!Discard
<1> QED
    BY <1>1, <1>3, TriesAtGate, GotoLoop DEF LoopKeeps, CallFollows

LEMMA ReturnsAtGate ==
    ASSUME Arbiter!TypeOK, CallReturns
    PROVE  [Arbiter!Next]_Arbiter!vars /\ LoopKeeps /\ call[Loop].pc = "calling"
<1>1. PICK pc \in {"idle", "captured"} : call' = Arbiter!WokenCalls(Arbiter!Goto(Loop, pc))
    BY DEF CallReturns, Arbiter!FinishRoutine
<1>2. Arbiter!Goto(Loop, pc) \in [Arbiter!Callers -> CallRecord]
    BY LoopCallType DEF Arbiter!Goto, Arbiter!Idle, Arbiter!WriterPcs, CallRecord
<1>3. /\ call'[Loop].pc = pc
      /\ pc = "captured" => call'[Loop].gen = call[Loop].gen
    BY <1>1, <1>2, WokenLoop, GotoLoop, LoopCallType DEF Arbiter!Woken
<1>4. /\ generation' = generation
      /\ \A s \in Stops : stop'[s] = "idle" <=> stop[s] = "idle"
      /\ call[Loop].pc = "calling"
    BY WokenStopsIdle DEF CallReturns, Arbiter!FinishRoutine
<1>5. Arbiter!RoutineStep(Loop)
    BY DEF CallReturns, Arbiter!RoutineStep
<1>6. Arbiter!Next
    BY <1>5, LoopCallType DEF Arbiter!Next
<1> QED BY <1>3, <1>4, <1>6 DEF LoopKeeps, CallReturns, CallFollows

LEMMA EntersAtGate ==
    ASSUME Gate!IInv, Arbiter!TypeOK, Tries, call'[Loop].pc \in {"waiting", "calling"}
    PROVE  /\ [Arbiter!Next]_Arbiter!vars
           /\ generation' = generation /\ stop' = stop
           /\ call[Loop].pc \in {"captured", "woken"} /\ call'[Loop].gen = call[Loop].gen
           /\ call'[Loop].pc = "calling" => IsCurrent
<1>1. ~Arbiter!Discard(Loop)
    BY GotoLoop DEF Arbiter!Discard
<1>2. /\ call'[Loop].gen = call[Loop].gen
      /\ call'[Loop].pc = "calling" => IsCurrent
    BY <1>1, TriesAtGate, WaitsOrDispatches
<1> QED BY <1>2, TriesAtGate

LEMMA AdmitAtGate ==
    ASSUME Arbiter!TypeOK, NEW s \in Stops, Arbiter!AdmitEmergencyStop(s)
    PROVE  /\ [Arbiter!Next]_Arbiter!vars
           /\ generation' = generation + 1 /\ call' = call
           /\ stop[s] = "idle" /\ stop'[s] # "idle"
           /\ \A t \in Stops \ {s} : stop'[t] = stop[t]
           /\ ~IsCurrent'
<1>1. Arbiter!StopStep(s)
    BY DEF Arbiter!StopStep
<1>2. Arbiter!Next
    BY <1>1 DEF Arbiter!Next
<1>3. call[Loop].gen <= generation
    BY LoopCallType DEF Arbiter!TypeOK
<1> QED BY <1>2, <1>3, LoopCallType DEF Arbiter!AdmitEmergencyStop, IsCurrent

LEMMA ProceedsAtGate ==
    ASSUME Arbiter!TypeOK, NEW s \in Stops, Arbiter!RunEmergencyStop(s)
    PROVE  /\ [Arbiter!Next]_Arbiter!vars
           /\ generation' = generation /\ call' = call
           /\ \A t \in Stops : stop'[t] = "idle" <=> stop[t] = "idle"
<1>1. Arbiter!StopStep(s)
    BY DEF Arbiter!StopStep
<1>2. Arbiter!Next
    BY <1>1 DEF Arbiter!Next
<1> QED
    BY <1>2, LoopCallType
        DEF Arbiter!RunEmergencyStop, Arbiter!StopWaits, Arbiter!StopDispatches, Arbiter!gate

\* A stop that ends, behind its call or out of its wait, wakes the loop's call.
LEMMA StopEndsAtGate ==
    ASSUME Arbiter!TypeOK, NEW s \in Stops,
           Arbiter!FinishEmergencyStop(s) \/ Arbiter!CancelEmergencyStopAdmission(s)
    PROVE  /\ [Arbiter!Next]_Arbiter!vars
           /\ generation' = generation
           /\ call'[Loop].gen = call[Loop].gen
           /\ call'[Loop].pc = Arbiter!Woken(call[Loop].pc)
           /\ stop[s] # "idle" /\ stop'[s] = "idle"
           /\ \A t \in Stops \ {s} : stop'[t] = "idle" <=> stop[t] = "idle"
<1>1. Arbiter!StopStep(s)
    BY DEF Arbiter!StopStep
<1>2. Arbiter!Next
    BY <1>1 DEF Arbiter!Next
<1>3. /\ generation' = generation /\ call' = Arbiter!WokenCalls(call)
      /\ stop' = Arbiter!WokenStops([stop EXCEPT ![s] = "idle"])
      /\ stop[s] # "idle"
    BY DEF Arbiter!FinishEmergencyStop, Arbiter!CancelEmergencyStopAdmission,
        Arbiter!WithdrawReservation
<1>4. /\ call'[Loop].gen = call[Loop].gen
      /\ call'[Loop].pc = Arbiter!Woken(call[Loop].pc)
    BY <1>3, WokenLoop, LoopCallType
<1>5. \A t \in Stops : stop'[t] = "idle" <=> [stop EXCEPT ![s] = "idle"][t] = "idle"
    BY <1>3, WokenStopsIdle
<1> QED BY <1>2, <1>3, <1>4, <1>5, LoopCallType

-----------------------------------------------------------------------------
(* What the helpers of the loop return.                                    *)

LEMMA StageSetIs == StageSet = {"ruling", "levering", "guardDropping", "dropping", "advising"}
<1>1. DOMAIN TickStages = 1 .. 5
    BY DEF TickStages
<1> QED BY <1>1 DEF StageSet, TickStages

LEMMA AtFacts ==
    ASSUME NEW pc \in LoopPcs
    PROVE  At(pc) \in LoopRecord /\ At(pc).pc = pc /\ At(pc).doing = "none"
BY HeatsAssumption DEF At, LoopRecord, Doings, Afters

LEMMA WritingFacts ==
    ASSUME NEW d \in Doings, NEW a \in Afters
    PROVE  /\ Writing(d, a) \in LoopRecord
           /\ Writing(d, a).pc = "writing" /\ Writing(d, a).doing = d /\ Writing(d, a).after = a
BY HeatsAssumption DEF Writing, At, LoopRecord, LoopPcs

LEMMA TargetingFacts ==
    ASSUME NEW d \in Doings, NEW level \in Heats, NEW a \in Afters
    PROVE  LET t == Targeting(d, level, a)
           IN  /\ t \in LoopRecord /\ t.pc = "writing" /\ t.doing = d /\ t.after = a
               /\ t.heat = level /\ t.lever = "heat"
BY DEF Targeting, Writing, At, LoopRecord, LoopPcs

\* A tick goes on only under its own generation, to a stage its phase opens.
LEMMA GoesOnFacts ==
    ASSUME NEW stage, TickGoesOnAfter(stage)
    PROVE  /\ loop' \in LoopRecord /\ loop'.pc \in StageSet \cup {"idle"}
           /\ loop'.pc \in StageSet => IsCurrent /\ StageOpen(loop'.pc, phase')
<1>1. CASE loop' = Ready
    <2>1. "idle" \in LoopPcs /\ "idle" \notin StageSet
        BY StageSetIs DEF LoopPcs
    <2> QED BY <1>1, <2>1, AtFacts DEF Ready
<1>2. ASSUME NEW next \in StagesAfter(stage), IsCurrent, StageOpen(next, phase'), loop' = At(next)
      PROVE  loop' \in LoopRecord /\ loop'.pc = next /\ next \in StageSet
    <2>1. next \in StageSet
        BY DEF StagesAfter, StageSet
    <2>2. next \in LoopPcs
        BY <2>1 DEF LoopPcs
    <2> QED BY <1>2, <2>1, <2>2, AtFacts
<1> QED BY <1>1, <1>2 DEF TickGoesOnAfter

LEMMA TransitionFacts ==
    ASSUME IInv, NEW target, TransitionTo(target)
    PROVE  /\ phase' = target /\ target \in Phases
           /\ transitionPending' = transitionPending
           /\ pendingFailSafe' \in {"none", pendingFailSafe}
           /\ latchedVerdict' \in {"none", latchedVerdict}
           /\ latchedVerdict' # "none" => pendingFailSafe' = pendingFailSafe
           /\ VerdictPhase'
<1>1. phase' = target /\ target \in TerminalLatchPhases \cup TransitionTable[phase]
    BY DEF TransitionTo, CanTransition
<1>2. TransitionTable[phase] \subseteq Phases
    BY DEF IInv, Control, ControlTypes, Phases, TerminalLatchPhases, HeatPhases, TransitionTable
<1>3. transitionPending' = transitionPending
    BY OutstandingIsUnquiet
        DEF IInv, Control, ControlTypes, GateTracksStops, TransitionTo
<1>4. /\ pendingFailSafe' \in {"none", pendingFailSafe}
      /\ latchedVerdict' \in {"none", latchedVerdict}
      /\ latchedVerdict' # "none" => /\ pendingFailSafe' = pendingFailSafe
                                     /\ latchedVerdict' = latchedVerdict
                                     /\ phase \in TerminalLatchPhases => target \in TerminalLatchPhases
    BY DEF TransitionTo
<1>5. VerdictPhase'
    BY <1>1, <1>4 DEF VerdictPhase, IInv, Control
<1> QED BY <1>1, <1>2, <1>3, <1>4, <1>5 DEF Phases

-----------------------------------------------------------------------------
(* Three shapes of a step of the loop, and what is left to show of each.   *)

LEMMA GateTypes == IInv => Arbiter!TypeOK
BY SameTypes DEF IInv, Gate!IInv

LEMMA LoopStopIsStop == LoopStop \in Stops
BY DEF Stops

\* A step inside an operation, which forgets its generation when it ends.
LEMMA LoopStepInv ==
    ASSUME IInv, [Arbiter!Next]_Arbiter!vars, LoopKeeps, ControlTypes',
           call[Loop].pc # "idle", loop.pc # "stopping", loop'.pc \notin {"new", "stopping"},
           transitionPending' = transitionPending, routineOpen' = routineOpen,
           LoopShape', IsCurrent => StageFits(loop', phase'), VerdictPhase', Enforced'
    PROVE  IInv'
<1>1. Quiet' <=> Quiet
    BY DEF LoopKeeps, Quiet
<1>2. CallMatchesLoop'
    BY LoopStopIsStop DEF LoopKeeps, CallMatchesLoop, IInv, Control
<1>3. GateTracksStops'
    BY <1>1 DEF LoopKeeps, GateTracksStops, IInv, Control, Stops
<1>4. StopsSupersede'
    BY <1>1 DEF LoopKeeps, StopsSupersede, IsCurrent, IInv, Control
<1>5. StagePhase'
    <2>1. CASE loop'.pc \in {"idle", "dead"}
        BY <2>1, StageSetIs DEF StagePhase, StageFits
    <2>2. CASE loop'.pc \notin {"idle", "dead"}
        BY <2>2 DEF LoopKeeps, StagePhase, IsCurrent
    <2> QED BY <2>1, <2>2
<1>6. StaleCallAnswered'
    BY DEF LoopKeeps, StaleCallAnswered
<1> QED BY <1>2, <1>3, <1>4, <1>5, <1>6, GateStep DEF IInv, Control

\* An operation begins: nothing was stopped, and its generation is current.
LEMMA BeginInv ==
    ASSUME IInv, Arbiter!CaptureGeneration(Loop), ControlTypes', Quiet,
           loop'.pc \notin {"new", "idle", "dead", "stopping"},
           transitionPending' = transitionPending, routineOpen' = routineOpen,
           LoopShape', StageFits(loop', phase'), VerdictPhase', Enforced'
    PROVE  IInv'
<1>1. /\ [Arbiter!Next]_Arbiter!vars /\ generation' = generation /\ stop' = stop
      /\ call'[Loop].pc = "captured" /\ IsCurrent'
    BY CaptureAtGate, GateTypes
<1>2. Quiet'
    BY <1>1 DEF Quiet
<1>3. CallMatchesLoop'
    BY <1>1, <1>2, LoopStopIsStop DEF CallMatchesLoop, Quiet
<1>4. GateTracksStops' /\ StopsSupersede'
    BY <1>1, <1>2 DEF GateTracksStops, StopsSupersede, IInv, Control, Quiet, Stops
<1>5. StagePhase' /\ StaleCallAnswered'
    BY <1>1 DEF StagePhase, StaleCallAnswered
<1> QED BY <1>1, <1>3, <1>4, <1>5, GateStep DEF IInv, Control

\* The loop stays between its operations and the gate is not touched.
LEMMA IdleInv ==
    ASSUME IInv, UNCHANGED arbiter, ControlTypes', loop.pc \in {"new", "idle"}, loop'.pc = "idle",
           transitionPending' = transitionPending, routineOpen' => routineOpen,
           VerdictPhase', Enforced'
    PROVE  IInv'
<1>1. /\ Arbiter!vars' = Arbiter!vars /\ generation' = generation
      /\ call' = call /\ stop' = stop
    BY DEF arbiter, gate, Arbiter!vars, Arbiter!gate
<1>2. Quiet' <=> Quiet
    BY <1>1 DEF Quiet
<1>3. call[Loop].pc = "idle"
    BY DEF IInv, Control, CallMatchesLoop
<1>4. CallMatchesLoop'
    BY <1>1, <1>3 DEF CallMatchesLoop, IInv, Control
<1>5. GateTracksStops' /\ StopsSupersede' /\ StaleCallAnswered'
    BY <1>1, <1>2, <1>3 DEF GateTracksStops, StopsSupersede, StaleCallAnswered, IInv, Control
<1>6. LoopShape' /\ StagePhase'
    BY StageSetIs DEF LoopShape, ShapeFits, StagePhase, StageFits
<1> QED BY <1>1, <1>4, <1>5, <1>6, GateStep DEF IInv, Control

\* A step between calls that changes nothing but where the loop is.
LEMMA LoopMovesInv ==
    ASSUME IInv, LoopMoves, UNCHANGED control,
           loop.pc \notin {"new", "idle", "dead", "writing", "stopping"},
           loop' \in LoopRecord, loop'.pc \notin {"new", "stopping"},
           ShapeFits(loop', heat), IsCurrent => StageFits(loop', phase)
    PROVE  IInv'
<1>1. call[Loop].pc = "captured"
    BY DEF IInv, Control, CallMatchesLoop
<1>2. [Arbiter!Next]_Arbiter!vars /\ LoopKeeps
    BY <1>1, GateTypes, LoopMovesAtGate
<1>3. ControlTypes' /\ VerdictPhase'
    BY DEF control, IInv, Control, ControlTypes, VerdictPhase
<1>4. Enforced'
    BY <1>2 DEF control, IInv, Control, Enforced, LoopKeeps, Quiet
<1>5. LoopShape'
    BY DEF control, LoopShape
<1> QED BY <1>1, <1>2, <1>3, <1>4, <1>5, LoopStepInv DEF control

LEMMA ReadyFacts == Ready \in LoopRecord /\ Ready.pc = "idle"
BY AtFacts DEF Ready, LoopPcs

LEMMA ReadyInv ==
    ASSUME IInv, LoopMoves, UNCHANGED control, loop' = Ready,
           loop.pc \notin {"new", "idle", "dead", "writing", "stopping"}
    PROVE  IInv'
<1>1. loop' \in LoopRecord /\ loop'.pc = "idle"
    BY ReadyFacts
<1>2. ShapeFits(loop', heat) /\ StageFits(loop', phase)
    BY <1>1, StageSetIs DEF ShapeFits, StageFits
<1> QED BY <1>1, <1>2, LoopMovesInv

LEMMA DeadFacts ==
    ASSUME NEW d \in Doings
    PROVE  Dead(d) \in LoopRecord /\ Dead(d).pc = "dead" /\ Dead(d).doing = d
BY HeatsAssumption DEF Dead, At, LoopRecord, LoopPcs, Afters

LEMMA PersistingFacts ==
    ASSUME NEW d \in Doings
    PROVE  LET l == [At("persisting") EXCEPT !.doing = d]
           IN  l \in LoopRecord /\ l.pc = "persisting" /\ l.doing = d
BY HeatsAssumption DEF At, LoopRecord, LoopPcs, Afters

LEMMA StagesAreAfters == StageSet \subseteq Afters /\ StageSet \subseteq LoopPcs
BY DEF Afters, LoopPcs

LEMMA GoesOnInv ==
    ASSUME IInv, NEW stage, TickGoesOnAfter(stage), LoopMoves, UNCHANGED control,
           loop.pc \notin {"new", "idle", "dead", "writing", "stopping"}
    PROVE  IInv'
<1>1. /\ loop' \in LoopRecord /\ loop'.pc \in StageSet \cup {"idle"}
      /\ loop'.pc \in StageSet => StageOpen(loop'.pc, phase)
    BY GoesOnFacts DEF control
<1>2. ShapeFits(loop', heat) /\ StageFits(loop', phase) /\ loop'.pc \notin {"new", "stopping"}
    BY <1>1, StageSetIs DEF ShapeFits, StageFits
<1> QED BY <1>1, <1>2, LoopMovesInv

-----------------------------------------------------------------------------
(* The steps of a tick between its calls.                                  *)

LEMMA TickIsClearInv == ASSUME IInv, TickIsClear PROVE IInv'
BY GoesOnInv DEF TickIsClear

LEMMA TickBeginsInv == ASSUME IInv, TickBegins PROVE IInv'
<1>1. Quiet /\ UNCHANGED control /\ Arbiter!CaptureGeneration(Loop) /\ loop.pc = "idle"
    BY DEF TickBegins, IInv, Control, GateTracksStops
<1>2. /\ loop' \in LoopRecord /\ loop'.pc \in {"evaluating", "escalating", "writing"}
      /\ ShapeFits(loop', heat) /\ StageFits(loop', phase)
    <2>1. CASE loop' = At("evaluating")
        BY <2>1, AtFacts, StageSetIs DEF LoopPcs, ShapeFits, StageFits
    <2>2. CASE loop' = At("escalating")
        BY <2>2, AtFacts, StageSetIs DEF LoopPcs, ShapeFits, StageFits
    <2>3. ASSUME NEW d \in {"retryFailSafe", "retryStop"}, loop' = Targeting(d, 0, "stay")
          PROVE  /\ loop' \in LoopRecord /\ loop'.pc = "writing"
                 /\ ShapeFits(loop', heat) /\ StageFits(loop', phase)
        <3>1. d \in Doings /\ "stay" \in Afters /\ 0 \in Heats
            BY HeatsAssumption DEF Doings, FailSafes, Afters
        <3>2. /\ loop' \in LoopRecord /\ loop'.pc = "writing" /\ loop'.doing = d
              /\ loop'.heat = 0 /\ loop'.lever = "heat"
            BY <2>3, <3>1, TargetingFacts
        <3> QED BY <3>2, StageSetIs DEF ShapeFits, StageFits
    <2> QED BY <2>1, <2>2, <2>3 DEF TickBegins, LatchedTickBegins
<1>3. ControlTypes' /\ VerdictPhase' /\ LoopShape' /\ StageFits(loop', phase')
    BY <1>1, <1>2 DEF control, IInv, Control, ControlTypes, VerdictPhase, LoopShape
<1>4. stop' = stop
    BY <1>1, GateTypes, CaptureAtGate
<1>5. Enforced'
    BY <1>1, <1>4 DEF control, IInv, Control, Enforced, Quiet
<1> QED BY <1>1, <1>2, <1>3, <1>5, BeginInv DEF control

LEMMA TickFailsInv == ASSUME IInv, NEW v \in {"fault", "recovery"}, TickFails(v) PROVE IInv'
<1>1. "failSafe" \in Doings /\ 0 \in Heats /\ v \in Afters
    BY HeatsAssumption DEF Doings, FailSafes, Afters
<1>2. /\ loop' \in LoopRecord /\ loop'.pc = "writing" /\ loop'.doing = "failSafe"
      /\ loop'.heat = 0 /\ loop'.lever = "heat" /\ loop'.after = v
    BY <1>1, TargetingFacts DEF TickFails
<1>3. ShapeFits(loop', heat) /\ StageFits(loop', phase)
    BY <1>2, StageSetIs DEF ShapeFits, StageFits
<1> QED BY <1>2, <1>3, LoopMovesInv DEF TickFails

LEMMA TickReturnsInv ==
    ASSUME IInv, TickDoesNotEscalate \/ LoopReturns PROVE IInv'
<1>1. /\ LoopMoves /\ UNCHANGED control /\ loop' = Ready
      /\ loop.pc \in {"escalating", "returning"}
    BY DEF TickDoesNotEscalate, LoopReturns
<1> QED BY <1>1, ReadyInv

LEMMA TickRulesInv == ASSUME IInv, TickRules PROVE IInv'
<1>1. call[Loop].pc = "captured"
    BY DEF TickRules, IInv, Control, CallMatchesLoop
<1>2. [Arbiter!Next]_Arbiter!vars /\ LoopKeeps
    BY <1>1, GateTypes, LoopMovesAtGate DEF TickRules
<1>3. /\ loop' \in LoopRecord /\ loop'.pc \in StageSet \cup {"idle"}
      /\ loop'.pc \in StageSet => StageOpen(loop'.pc, phase')
    BY GoesOnFacts DEF TickRules
<1>4. LoopShape' /\ StageFits(loop', phase') /\ loop'.pc \notin {"new", "stopping"}
    BY <1>3, StageSetIs DEF LoopShape, ShapeFits, StageFits
<1>5. /\ transitionPending' = transitionPending /\ VerdictPhase'
      /\ phase' \in Phases
      /\ pendingFailSafe' \in {"none", pendingFailSafe}
      /\ latchedVerdict' \in {"none", latchedVerdict}
      /\ latchedVerdict' # "none" => pendingFailSafe' = pendingFailSafe
    BY TransitionFacts DEF TickRules, SamePhase, IInv, Control, VerdictPhase, ControlTypes
<1>6. UNCHANGED <<currentHeat, heat, routineOpen>>
    BY DEF TickRules
<1>7. ControlTypes'
    BY <1>3, <1>5, <1>6 DEF IInv, Control, ControlTypes
<1>8. Enforced'
    BY <1>2, <1>5, <1>6 DEF IInv, Control, Enforced, LoopKeeps, Quiet
<1> QED
    BY <1>1, <1>2, <1>4, <1>5, <1>6, <1>7, <1>8, LoopStepInv DEF TickRules

LEMMA TickLeversInv == ASSUME IInv, TickLevers PROVE IInv'
<1>1. LoopMoves /\ UNCHANGED control /\ loop.pc = "levering"
    BY DEF TickLevers
<1>2. CASE ~IsCurrent
    BY <1>1, <1>2, ReadyInv DEF TickLevers
<1>3. CASE IsCurrent
    <2>1. PICK level \in Heats : loop' = Targeting("levers", level, "levering")
        BY <1>3 DEF TickLevers
    <2>2. "levers" \in Doings /\ "levering" \in Afters
        BY StageSetIs DEF Doings, TargetWrites, Afters
    <2>3. /\ loop' \in LoopRecord /\ loop'.pc = "writing" /\ loop'.doing = "levers"
        BY <2>1, <2>2, TargetingFacts
    <2>4. phase \in HeatPhases
        BY <1>1, <1>3, StageSetIs DEF IInv, Control, StagePhase, StageFits, StageOpen
    <2>5. ShapeFits(loop', heat) /\ StageFits(loop', phase)
        BY <2>3, <2>4, StageSetIs DEF ShapeFits, StageFits, FailSafes
    <2> QED BY <1>1, <2>3, <2>5, LoopMovesInv
<1> QED BY <1>2, <1>3

LEMMA TickDropsInv == ASSUME IInv, TickDrops PROVE IInv'
<1>1. LoopMoves /\ UNCHANGED control /\ loop.pc \in {"guardDropping", "dropping"}
    BY DEF TickDrops
<1>2. "policyDrop" \in Doings /\ loop.pc \in Afters
    BY <1>1, StageSetIs DEF Doings, Drops, Afters
<1>3. loop' \in LoopRecord /\ loop'.pc = "writing" /\ loop'.doing = "policyDrop"
    BY <1>2, WritingFacts DEF TickDrops
<1>4. IsCurrent => phase = "development"
    BY <1>1, StageSetIs DEF IInv, Control, StagePhase, StageFits, StageOpen
<1>5. ShapeFits(loop', heat) /\ (IsCurrent => StageFits(loop', phase))
    BY <1>3, <1>4, StageSetIs DEF ShapeFits, StageFits, FailSafes
<1> QED BY <1>1, <1>3, <1>5, LoopMovesInv

LEMMA TickAdvisesInv == ASSUME IInv, TickAdvises PROVE IInv'
<1>1. LoopMoves /\ UNCHANGED control /\ loop.pc = "advising"
    BY DEF TickAdvises
<1>2. CASE loop' = Ready
    BY <1>1, <1>2, ReadyInv
<1>3. CASE loop' # Ready
    <2>1. IsCurrent /\ phase = "development"
        BY <1>1, <1>3, StageSetIs
            DEF TickAdvises, IInv, Control, StagePhase, StageFits, StageOpen
    <2>2. CASE loop' = At("advisorDropping")
        <3>1. loop' \in LoopRecord /\ loop'.pc = "advisorDropping"
            BY <2>2, AtFacts DEF LoopPcs
        <3>2. ShapeFits(loop', heat) /\ StageFits(loop', phase)
            BY <2>1, <3>1, StageSetIs DEF ShapeFits, StageFits
        <3> QED BY <1>1, <3>1, <3>2, LoopMovesInv
    <2>3. CASE loop' = Targeting("failSafe", 0, "recovery")
        <3>1. "failSafe" \in Doings /\ "recovery" \in Afters /\ 0 \in Heats
            BY HeatsAssumption DEF Doings, FailSafes, Afters
        <3>2. /\ loop' \in LoopRecord /\ loop'.pc = "writing" /\ loop'.doing = "failSafe"
              /\ loop'.heat = 0 /\ loop'.lever = "heat" /\ loop'.after = "recovery"
            BY <2>3, <3>1, TargetingFacts
        <3>3. ShapeFits(loop', heat) /\ StageFits(loop', phase)
            BY <3>2, StageSetIs DEF ShapeFits, StageFits
        <3> QED BY <1>1, <3>2, <3>3, LoopMovesInv
    <2>4. ASSUME NEW level \in Heats, loop' = Targeting("advisorLevers", level, "end")
          PROVE  IInv'
        <3>1. "advisorLevers" \in Doings /\ "end" \in Afters
            BY DEF Doings, Afters
        <3>2. /\ loop' \in LoopRecord /\ loop'.pc = "writing" /\ loop'.doing = "advisorLevers"
            BY <2>4, <3>1, TargetingFacts
        <3>3. ShapeFits(loop', heat) /\ StageFits(loop', phase)
            BY <2>1, <3>2, StageSetIs DEF ShapeFits, StageFits, FailSafes
        <3> QED BY <1>1, <3>2, <3>3, LoopMovesInv
    <2> QED BY <1>3, <2>1, <2>2, <2>3, <2>4 DEF TickAdvises
<1> QED BY <1>2, <1>3

LEMMA AdvisorDropsInv == ASSUME IInv, AdvisorDrops PROVE IInv'
<1>1. LoopMoves /\ UNCHANGED control /\ loop.pc = "advisorDropping"
    BY DEF AdvisorDrops
<1>2. CASE loop' = Ready
    BY <1>1, <1>2, ReadyInv
<1>3. CASE loop' = Writing("advisorDrop", "transition")
    <2>1. "advisorDrop" \in Doings /\ "transition" \in Afters
        BY DEF Doings, Drops, Afters
    <2>2. loop' \in LoopRecord /\ loop'.pc = "writing" /\ loop'.doing = "advisorDrop"
        BY <1>3, <2>1, WritingFacts
    <2>3. ShapeFits(loop', heat) /\ StageFits(loop', phase)
        BY <2>2, StageSetIs DEF ShapeFits, StageFits, FailSafes
    <2> QED BY <1>1, <2>2, <2>3, LoopMovesInv
<1> QED BY <1>2, <1>3 DEF AdvisorDrops

LEMMA ClampsInv == ASSUME IInv, ClampsAfterDrop PROVE IInv'
<1>1. LoopMoves /\ UNCHANGED control /\ loop.pc = "clamping"
    BY DEF ClampsAfterDrop
<1>2. CASE loop' = Ready
    BY <1>1, <1>2, ReadyInv
<1>3. CASE IsCurrent /\ loop' = Targeting("clamp", loop.heat, loop.after)
    <2>1. "clamp" \in Doings /\ loop.after \in Afters /\ loop.heat \in Heats
        BY DEF Doings, TargetWrites, IInv, Control, ControlTypes, LoopRecord
    <2>2. loop' \in LoopRecord /\ loop'.pc = "writing" /\ loop'.doing = "clamp"
        BY <1>3, <2>1, TargetingFacts
    <2>3. phase = "development"
        BY <1>1, <1>3 DEF IInv, Control, StagePhase, StageFits
    <2>4. ShapeFits(loop', heat) /\ StageFits(loop', phase)
        BY <2>2, <2>3, StageSetIs DEF ShapeFits, StageFits, FailSafes
    <2> QED BY <1>1, <2>2, <2>4, LoopMovesInv
<1> QED BY <1>2, <1>3 DEF ClampsAfterDrop

-----------------------------------------------------------------------------
(* The start of a run and the operator's commands.                         *)

LEMMA StartRunInv == ASSUME IInv, StartRun PROVE IInv'
<1>1. /\ TransitionTo("starting") /\ currentHeat' = 0 /\ Arbiter!CaptureGeneration(Loop)
      /\ UNCHANGED <<heat, routineOpen>> /\ Quiet
    BY DEF StartRun, IInv, Control, GateTracksStops
<1>2. /\ loop' \in LoopRecord /\ loop'.pc = "writing" /\ loop'.doing = "startSession"
      /\ loop'.after = "transition"
    <2>1. "startSession" \in Doings /\ "transition" \in Afters
        BY DEF Doings, Afters
    <2> QED BY <2>1, WritingFacts DEF StartRun
<1>3. LoopShape' /\ StageFits(loop', phase')
    BY <1>2, StageSetIs DEF LoopShape, ShapeFits, StageFits, FailSafes
<1>4. ControlTypes' /\ VerdictPhase' /\ transitionPending' = transitionPending
    BY <1>1, <1>2, TransitionFacts, HeatsAssumption DEF IInv, Control, ControlTypes
<1>5. Enforced'
    BY <1>1, TransitionFacts DEF IInv, Control, Enforced
<1> QED BY <1>1, <1>2, <1>3, <1>4, <1>5, BeginInv

LEMMA StartNotPermittedInv == ASSUME IInv, StartNotPermitted PROVE IInv'
<1>1. /\ UNCHANGED arbiter /\ loop.pc = "new" /\ loop' = Ready /\ phase' = "faulted"
      /\ UNCHANGED <<transitionPending, pendingFailSafe, latchedVerdict, currentHeat, heat, routineOpen>>
    BY DEF StartNotPermitted
<1>2. ControlTypes' /\ VerdictPhase' /\ Enforced'
    BY <1>1, ReadyFacts
        DEF IInv, Control, ControlTypes, VerdictPhase, Enforced, TerminalLatchPhases, Phases,
            Quiet, arbiter
<1> QED BY <1>1, <1>2, ReadyFacts, IdleInv

LEMMA RecoverInv == ASSUME IInv, RecoverFromRestart PROVE IInv'
<1>1. /\ UNCHANGED arbiter /\ loop.pc = "new" /\ loop' = Ready /\ TransitionTo("recovery")
      /\ UNCHANGED <<currentHeat, heat>> /\ routineOpen' = FALSE
    BY DEF RecoverFromRestart
<1>2. ControlTypes' /\ VerdictPhase' /\ transitionPending' = transitionPending
    BY <1>1, ReadyFacts, TransitionFacts DEF IInv, Control, ControlTypes
<1>3. Enforced'
    BY <1>1, TransitionFacts DEF IInv, Control, Enforced, Quiet, arbiter
<1> QED BY <1>1, <1>2, <1>3, ReadyFacts, IdleInv

LEMMA ResumeInv == ASSUME IInv, NEW target, OperatorResume(target) PROVE IInv'
<1>1. /\ UNCHANGED arbiter /\ loop.pc = "idle" /\ loop' = loop /\ TransitionTo(target)
      /\ UNCHANGED <<currentHeat, heat, routineOpen>>
    BY DEF OperatorResume
<1>2. ControlTypes' /\ VerdictPhase' /\ transitionPending' = transitionPending
    BY <1>1, TransitionFacts DEF IInv, Control, ControlTypes
<1>3. Enforced'
    BY <1>1, TransitionFacts DEF IInv, Control, Enforced, Quiet, arbiter
<1> QED BY <1>1, <1>2, <1>3, IdleInv

LEMMA InitialTargetsInv == ASSUME IInv, InitialTargets PROVE IInv'
<1>1. LoopMoves /\ UNCHANGED control /\ loop.pc = "persisting" /\ loop.doing = "initialTargets"
    BY DEF InitialTargets
<1>2. CASE loop' = Ready
    BY <1>1, <1>2, ReadyInv
<1>3. ASSUME IsCurrent, NEW level \in Heats, loop' = Targeting("initialTargets", level, "end")
      PROVE  IInv'
    <2>1. "initialTargets" \in Doings /\ "end" \in Afters
        BY DEF Doings, TargetWrites, Afters
    <2>2. loop' \in LoopRecord /\ loop'.pc = "writing" /\ loop'.doing = "initialTargets"
        BY <1>3, <2>1, TargetingFacts
    <2>3. phase = "preheating"
        BY <1>1, <1>3 DEF IInv, Control, StagePhase, StageFits
    <2>4. ShapeFits(loop', heat) /\ StageFits(loop', phase)
        BY <2>2, <2>3, StageSetIs DEF ShapeFits, StageFits, FailSafes
    <2> QED BY <1>1, <2>2, <2>4, LoopMovesInv
<1> QED BY <1>2, <1>3 DEF InitialTargets

LEMMA CommandNames ==
    OperatorCommands = {"markBeansAdded", "markFirstCrack", "dropBeans", "startCooling", "stopCooling"}
BY DEF OperatorCommands, CommandPhases

LEMMA BeginCommandInv == ASSUME IInv, NEW c \in OperatorCommands, BeginCommand(c) PROVE IInv'
<1>1. /\ loop.pc = "idle" /\ routineOpen /\ Arbiter!CaptureGeneration(Loop) /\ UNCHANGED control
    BY DEF BeginCommand
<1>2. Quiet
    BY <1>1 DEF IInv, Control, GateTracksStops, CallMatchesLoop, Quiet, Stops
<1>3. loop' \in LoopRecord /\ loop'.pc = "persisting" /\ loop'.doing = c
    <2>1. c \in Doings
        BY DEF Doings
    <2> QED BY <2>1, PersistingFacts DEF BeginCommand
<1>4. LoopShape' /\ StageFits(loop', phase')
    BY <1>3, StageSetIs, CommandNames DEF LoopShape, ShapeFits, StageFits
<1>5. ControlTypes' /\ VerdictPhase'
    BY <1>1, <1>3 DEF control, IInv, Control, ControlTypes, VerdictPhase
<1>6. Enforced'
    BY <1>1, <1>2 DEF control, IInv, Control, Enforced
<1> QED BY <1>1, <1>2, <1>3, <1>4, <1>5, <1>6, BeginInv DEF control

LEMMA CommandPersistedInv == ASSUME IInv, NEW c \in OperatorCommands, CommandPersisted(c) PROVE IInv'
<1>1. LoopMoves /\ UNCHANGED control /\ loop.pc = "persisting" /\ c \in Doings
    BY DEF CommandPersisted, Doings
<1>2. CASE loop' = Dead(c)
    <2>1. loop' \in LoopRecord /\ loop'.pc = "dead"
        BY <1>1, <1>2, DeadFacts
    <2>2. ShapeFits(loop', heat) /\ StageFits(loop', phase)
        BY <2>1, StageSetIs DEF ShapeFits, StageFits
    <2> QED BY <1>1, <2>1, <2>2, LoopMovesInv
<1>3. ASSUME NEW a \in {"stay", "transition"}, loop' = Writing(c, a)
      PROVE  IInv'
    <2>1. a \in Afters
        BY DEF Afters
    <2>2. loop' \in LoopRecord /\ loop'.pc = "writing" /\ loop'.doing = c
        BY <1>1, <1>3, <2>1, WritingFacts
    <2>3. ShapeFits(loop', heat) /\ StageFits(loop', phase)
        BY <2>2, StageSetIs, CommandNames DEF ShapeFits, StageFits, FailSafes
    <2> QED BY <1>1, <2>2, <2>3, LoopMovesInv
<1> QED BY <1>2, <1>3 DEF CommandPersisted

-----------------------------------------------------------------------------
(* The loop's calls and their outcomes.                                    *)

LEMMA WriteEntersInv == ASSUME IInv, WriteEnters PROVE IInv'
<1>1. /\ loop.pc = "writing" /\ UNCHANGED <<control, loop>>
      /\ Tries /\ call'[Loop].pc \in {"waiting", "calling"}
    BY DEF WriteEnters
<1>2. /\ [Arbiter!Next]_Arbiter!vars
      /\ generation' = generation /\ stop' = stop
      /\ call[Loop].pc \in {"captured", "woken"} /\ call'[Loop].gen = call[Loop].gen
      /\ call'[Loop].pc = "calling" => IsCurrent
    BY <1>1, GateTypes, EntersAtGate DEF IInv
<1>3. (Quiet' <=> Quiet) /\ (IsCurrent' <=> IsCurrent)
    BY <1>2 DEF Quiet, IsCurrent
<1>4. ControlTypes' /\ LoopShape' /\ VerdictPhase' /\ Enforced' /\ StagePhase'
    BY <1>1, <1>3
        DEF control, IInv, Control, ControlTypes, LoopShape, VerdictPhase, Enforced, StagePhase
<1>5. CallMatchesLoop'
    BY <1>1, <1>2 DEF IInv, Control, CallMatchesLoop
<1>6. GateTracksStops'
    BY <1>1, <1>2, <1>3 DEF control, IInv, Control, GateTracksStops
<1>7. StopsSupersede' /\ StaleCallAnswered'
    BY <1>2, <1>3 DEF IInv, Control, StopsSupersede, StaleCallAnswered
<1> QED BY <1>2, <1>4, <1>5, <1>6, <1>7, GateStep DEF IInv, Control

\* A lever write reaches the roaster only behind its call, and then in full.
LEMMA TargetsEndFacts ==
    ASSUME IInv, NEW o \in Outcomes, TargetsEnd(o)
    PROVE  /\ [Arbiter!Next]_Arbiter!vars /\ LoopKeeps /\ routineOpen' = routineOpen
           /\ heat' \in {heat, loop.heat} /\ (heat' # heat => call[Loop].pc = "calling")
           /\ o = "applied" => heat' = heat /\ loop.lever = "fan"
<1>1. CASE o = "refused"
    BY <1>1, GateTypes, RefusedAtGate DEF TargetsEnd
<1>2. CASE o # "refused"
    <2>1. CallReturns
        BY <1>2 DEF TargetsEnd
    <2> QED BY <1>2, <2>1, GateTypes, ReturnsAtGate DEF TargetsEnd
<1> QED BY <1>1, <1>2

\* No heat write undoes a latched verdict: it is a heat-off, or its generation
\* is outdated and the retry of the stop that outdated it is armed.
LEMMA HeatStaysEnforced ==
    ASSUME IInv, Paired, latchedVerdict # "none", Quiet,
           heat' \in {heat, loop.heat}, heat' # heat => call[Loop].pc = "calling"
    PROVE  heat' = 0 \/ pendingFailSafe # "none"
<1>1. CASE heat' = heat
    BY <1>1 DEF IInv, Control, Enforced
<1>2. CASE loop.doing \in FailSafes /\ heat' = loop.heat
    BY <1>2 DEF IInv, Control, LoopShape, ShapeFits, Paired, Writes
<1>3. CASE loop.doing \notin FailSafes /\ heat' # heat
    <2>1. loop.pc = "writing" /\ loop.doing \in TargetWrites \cup {"advisorLevers"}
        BY <1>3 DEF Paired, Writes
    <2>2. phase \in TerminalLatchPhases
        BY DEF IInv, Control, VerdictPhase
    <2>3. ~IsCurrent
        BY <2>1, <2>2
            DEF IInv, Control, StagePhase, StageFits, TargetWrites, TerminalLatchPhases, HeatPhases
    <2> QED BY <1>3, <2>3 DEF IInv, Control, StaleCallAnswered
<1> QED BY <1>1, <1>2, <1>3

\* What remains of an outcome when the step at the gate is known.
LEMMA OutcomeInv ==
    ASSUME IInv, loop.pc = "writing", [Arbiter!Next]_Arbiter!vars, LoopKeeps,
           loop' \in LoopRecord, loop'.pc \notin {"new", "stopping", "writing"},
           IsCurrent => StageFits(loop', phase'),
           phase' \in Phases, pendingFailSafe' \in {"none", "failSafe", "stopRetry"},
           latchedVerdict' \in {"none", "recovery", "fault", "stop"},
           currentHeat' \in Heats, heat' \in Heats,
           transitionPending' = transitionPending, routineOpen' = routineOpen,
           VerdictPhase',
           latchedVerdict' # "none" /\ Quiet => heat' = 0 \/ pendingFailSafe' # "none"
    PROVE  IInv'
<1>1. call[Loop].pc # "idle"
    BY DEF IInv, Control, CallMatchesLoop
<1>2. ControlTypes'
    BY DEF IInv, Control, ControlTypes
<1>3. Enforced'
    BY DEF Enforced, LoopKeeps, Quiet
<1>4. LoopShape'
    BY DEF LoopShape, ShapeFits
<1> QED BY <1>1, <1>2, <1>3, <1>4, LoopStepInv

LEMMA HeatWrittenInv == ASSUME IInv, HeatWritten PROVE IInv'
<1>1. /\ Paired /\ loop.pc = "writing" /\ loop.lever = "heat" /\ heat' = loop.heat
      /\ loop' = [loop EXCEPT !.lever = "fan"]
      /\ CallReturns /\ SamePhase /\ UNCHANGED <<currentHeat, routineOpen>>
    BY DEF HeatWritten, Paired, Writes
<1>2. [Arbiter!Next]_Arbiter!vars /\ LoopKeeps /\ call[Loop].pc = "calling"
    BY <1>1, GateTypes, ReturnsAtGate
<1>3. /\ loop' \in LoopRecord /\ loop'.pc = "writing" /\ loop'.doing = loop.doing
      /\ loop'.heat = loop.heat /\ loop'.after = loop.after /\ loop.heat \in Heats
    BY <1>1 DEF IInv, Control, ControlTypes, LoopRecord
<1>4. ControlTypes' /\ VerdictPhase' /\ transitionPending' = transitionPending
    BY <1>1, <1>3 DEF SamePhase, IInv, Control, ControlTypes, VerdictPhase
<1>5. LoopShape'
    BY <1>1, <1>3 DEF IInv, Control, LoopShape, ShapeFits
<1>6. IsCurrent => StageFits(loop', phase')
    BY <1>1, <1>3, StageSetIs DEF IInv, Control, StagePhase, StageFits, SamePhase
<1>7. Enforced'
    BY <1>1, <1>2, HeatStaysEnforced DEF SamePhase, Enforced, LoopKeeps, Quiet
<1> QED BY <1>1, <1>2, <1>3, <1>4, <1>5, <1>6, <1>7, LoopStepInv

LEMMA AdoptsFacts ==
    ASSUME IInv, NEW o, Adopts(o) PROVE currentHeat' \in Heats
BY DEF Adopts, IInv, Control, ControlTypes, LoopRecord

LEMMA ExecuteTargetsInv == ASSUME IInv, NEW o \in Outcomes, ExecuteTargets(o) PROVE IInv'
<1>1. /\ loop.pc = "writing" /\ Paired /\ SamePhase /\ Adopts(o) /\ TargetsEnd(o)
    BY DEF ExecuteTargets, Paired, Writes
<1>2. /\ [Arbiter!Next]_Arbiter!vars /\ LoopKeeps /\ routineOpen' = routineOpen
      /\ heat' \in {heat, loop.heat} /\ (heat' # heat => call[Loop].pc = "calling")
    BY <1>1, TargetsEndFacts
<1>3. /\ loop' \in LoopRecord /\ loop'.pc \in StageSet \cup {"idle"}
      /\ IsCurrent => StageFits(loop', phase')
    BY GoesOnFacts, ReadyFacts, StageSetIs DEF ExecuteTargets, StageFits
<1>4. /\ phase' \in Phases /\ pendingFailSafe' \in {"none", "failSafe", "stopRetry"}
      /\ latchedVerdict' \in {"none", "recovery", "fault", "stop"}
      /\ transitionPending' = transitionPending /\ VerdictPhase' /\ heat' \in Heats
    BY <1>1, <1>2 DEF SamePhase, IInv, Control, ControlTypes, LoopRecord, VerdictPhase
<1>5. latchedVerdict' # "none" /\ Quiet => heat' = 0 \/ pendingFailSafe' # "none"
    BY <1>1, <1>2, HeatStaysEnforced DEF SamePhase
<1> QED BY <1>1, <1>2, <1>3, <1>4, <1>5, AdoptsFacts, StageSetIs, OutcomeInv

LEMMA AdvisorLeversInv == ASSUME IInv, NEW o \in Outcomes, ExecuteAdvisorLevers(o) PROVE IInv'
<1>1. /\ loop.pc = "writing" /\ loop.doing = "advisorLevers"
      /\ Paired /\ SamePhase /\ Adopts(o) /\ TargetsEnd(o)
    BY DEF ExecuteAdvisorLevers, Paired, Writes
<1>2. /\ [Arbiter!Next]_Arbiter!vars /\ LoopKeeps /\ routineOpen' = routineOpen
      /\ heat' \in {heat, loop.heat} /\ (heat' # heat => call[Loop].pc = "calling")
    BY <1>1, TargetsEndFacts
<1>3. loop' \in LoopRecord /\ loop'.pc \in {"idle", "dead", "advisorDropping"}
    <2>1. "advisorLevers" \in Doings /\ "advisorDropping" \in LoopPcs
        BY DEF Doings, LoopPcs
    <2> QED BY <2>1, ReadyFacts, DeadFacts, AtFacts DEF ExecuteAdvisorLevers
<1>4. IsCurrent => StageFits(loop', phase')
    <2>1. IsCurrent => phase' = "development"
        BY <1>1 DEF IInv, Control, StagePhase, StageFits, SamePhase
    <2> QED BY <1>3, <2>1, StageSetIs DEF StageFits
<1>5. /\ phase' \in Phases /\ pendingFailSafe' \in {"none", "failSafe", "stopRetry"}
      /\ latchedVerdict' \in {"none", "recovery", "fault", "stop"}
      /\ transitionPending' = transitionPending /\ VerdictPhase' /\ heat' \in Heats
    BY <1>1, <1>2 DEF SamePhase, IInv, Control, ControlTypes, LoopRecord, VerdictPhase
<1>6. latchedVerdict' # "none" /\ Quiet => heat' = 0 \/ pendingFailSafe' # "none"
    BY <1>1, <1>2, HeatStaysEnforced DEF SamePhase
<1> QED BY <1>1, <1>2, <1>3, <1>4, <1>5, <1>6, AdoptsFacts, OutcomeInv

\* A heat-off that has reached the fan has put the heat at zero; one that has
\* not is armed again, unless a stop in front of it answers.
LEMMA LatchesFacts ==
    ASSUME IInv, NEW o \in Outcomes, Latches(o), TargetsEnd(o), Writes(FailSafes)
    PROVE  /\ pendingFailSafe' \in {"none", "failSafe", "stopRetry"}
           /\ IsCurrent /\ Quiet => heat' = 0 \/ pendingFailSafe' # "none"
           /\ ~IsCurrent => pendingFailSafe' = pendingFailSafe
<1>1. o = "applied" => heat' = 0
    BY TargetsEndFacts DEF Writes, IInv, Control, LoopShape, ShapeFits
<1>2. Quiet => RoutineAdmitted
    BY DEF RoutineAdmitted, IInv, Control, GateTracksStops
<1> QED BY <1>1, <1>2 DEF Latches, FailSafeKind, IInv, Control, ControlTypes

LEMMA ApplyFailSafeInv == ASSUME IInv, NEW o \in Outcomes, ApplyFailSafe(o) PROVE IInv'
<1>1. /\ loop.pc = "writing" /\ loop.doing = "failSafe" /\ Writes(FailSafes) /\ Paired
      /\ loop' = Ready /\ Latches(o) /\ Adopts(o) /\ TargetsEnd(o)
    BY DEF ApplyFailSafe, Paired, Writes, FailSafes
<1>2. /\ [Arbiter!Next]_Arbiter!vars /\ LoopKeeps /\ routineOpen' = routineOpen
      /\ heat' \in {heat, loop.heat} /\ (heat' # heat => call[Loop].pc = "calling")
    BY <1>1, TargetsEndFacts
<1>3. loop' \in LoopRecord /\ loop'.pc = "idle" /\ StageFits(loop', phase')
    BY <1>1, ReadyFacts, StageSetIs DEF StageFits
<1>4. pendingFailSafe' \in {"none", "failSafe", "stopRetry"} /\ heat' \in Heats
    BY <1>1, <1>2, LatchesFacts DEF IInv, Control, ControlTypes, LoopRecord
<1>5. loop.after \in {"fault", "recovery"}
    BY <1>1 DEF IInv, Control, LoopShape, ShapeFits
<1>6. /\ phase' \in Phases /\ latchedVerdict' \in {"none", "recovery", "fault", "stop"}
      /\ transitionPending' = transitionPending /\ VerdictPhase'
    BY <1>5, OutstandingIsUnquiet
        DEF ApplyFailSafe, IInv, Control, ControlTypes, GateTracksStops, VerdictPhase,
            TerminalLatchPhases, Phases
<1>7. latchedVerdict' # "none" /\ Quiet => heat' = 0 \/ pendingFailSafe' # "none"
    BY <1>1, <1>2, LatchesFacts, HeatStaysEnforced DEF ApplyFailSafe
<1> QED BY <1>1, <1>2, <1>3, <1>4, <1>6, <1>7, AdoptsFacts, OutcomeInv

LEMMA RetryFailSafeInv == ASSUME IInv, NEW o \in Outcomes, RetryFailSafe(o) PROVE IInv'
<1>1. /\ loop.pc = "writing" /\ Writes(FailSafes) /\ Paired
      /\ Latches(o) /\ Adopts(o) /\ TargetsEnd(o)
      /\ UNCHANGED <<phase, latchedVerdict, transitionPending>>
    BY DEF RetryFailSafe, Paired, Writes, FailSafes
<1>2. /\ [Arbiter!Next]_Arbiter!vars /\ LoopKeeps /\ routineOpen' = routineOpen
      /\ heat' \in {heat, loop.heat} /\ (heat' # heat => call[Loop].pc = "calling")
    BY <1>1, TargetsEndFacts
<1>3. loop' \in LoopRecord /\ loop'.pc \in {"idle", "escalating"}
    <2>1. "escalating" \in LoopPcs
        BY DEF LoopPcs
    <2> QED BY <2>1, ReadyFacts, AtFacts DEF RetryFailSafe
<1>4. StageFits(loop', phase')
    BY <1>3, StageSetIs DEF StageFits
<1>5. /\ pendingFailSafe' \in {"none", "failSafe", "stopRetry"} /\ heat' \in Heats
      /\ phase' \in Phases /\ latchedVerdict' \in {"none", "recovery", "fault", "stop"}
      /\ transitionPending' = transitionPending /\ VerdictPhase'
    BY <1>1, <1>2, LatchesFacts
        DEF IInv, Control, ControlTypes, LoopRecord, VerdictPhase
<1>6. latchedVerdict' # "none" /\ Quiet => heat' = 0 \/ pendingFailSafe' # "none"
    BY <1>1, <1>2, LatchesFacts, HeatStaysEnforced
<1> QED BY <1>1, <1>2, <1>3, <1>4, <1>5, <1>6, AdoptsFacts, OutcomeInv

\* A single command leaves the heat or turns it off, and moves the phase by a
\* transition or not at all.
LEMMA PhaseMoves ==
    ASSUME IInv, NEW target, TransitionTo(target) \/ SamePhase, heat' \in {heat, 0}
    PROVE  /\ phase' \in Phases /\ pendingFailSafe' \in {"none", "failSafe", "stopRetry"}
           /\ latchedVerdict' \in {"none", "recovery", "fault", "stop"} /\ heat' \in Heats
           /\ transitionPending' = transitionPending /\ VerdictPhase'
           /\ latchedVerdict' # "none" /\ Quiet => heat' = 0 \/ pendingFailSafe' # "none"
<1>1. CASE SamePhase
    BY <1>1, HeatsAssumption DEF SamePhase, IInv, Control, ControlTypes, VerdictPhase, Enforced
<1>2. CASE TransitionTo(target)
    BY <1>2, TransitionFacts, HeatsAssumption DEF IInv, Control, ControlTypes, Enforced
<1> QED BY <1>1, <1>2

LEMMA CommandRefusedInv == ASSUME IInv, CommandRefused PROVE IInv'
<1>1. /\ loop.pc = "writing" /\ loop' = Ready /\ Refused /\ SamePhase
      /\ UNCHANGED <<currentHeat, routineOpen>>
    BY DEF CommandRefused, Single, Writes
<1>2. [Arbiter!Next]_Arbiter!vars /\ LoopKeeps /\ heat' = heat
    BY <1>1, GateTypes, RefusedAtGate
<1>3. loop' \in LoopRecord /\ loop'.pc = "idle" /\ StageFits(loop', phase')
    BY <1>1, ReadyFacts, StageSetIs DEF StageFits
<1>4. currentHeat' \in Heats
    BY <1>1 DEF IInv, Control, ControlTypes
<1> QED BY <1>1, <1>2, <1>3, <1>4, PhaseMoves, OutcomeInv

LEMMA CommandSucceedsInv == ASSUME IInv, CommandSucceeds PROVE IInv'
<1>1. /\ loop.pc = "writing" /\ CallReturns /\ UNCHANGED routineOpen
      /\ SamePhase \/ TransitionTo(CommandTarget[loop.doing])
    BY DEF CommandSucceeds, Single, Writes
<1>2. [Arbiter!Next]_Arbiter!vars /\ LoopKeeps
    BY <1>1, GateTypes, ReturnsAtGate
<1>3. heat' \in {heat, 0}
    BY DEF CommandSucceeds, HeatAfterCommand
<1>4. currentHeat' \in Heats
    BY HeatsAssumption DEF CommandSucceeds, IInv, Control, ControlTypes
<1>5. /\ loop' \in LoopRecord /\ loop'.pc \in {"idle", "persisting"}
      /\ IsCurrent => StageFits(loop', phase')
    <2>1. CASE IsCurrent /\ loop.doing = "startSession"
        <3>1. loop' = [At("persisting") EXCEPT !.doing = "initialTargets"]
              /\ "initialTargets" \in Doings
            BY <2>1 DEF CommandSucceeds, Doings, TargetWrites
        <3>2. loop' \in LoopRecord /\ loop'.pc = "persisting"
            BY <3>1, PersistingFacts
        <3>3. TransitionTo("preheating")
            BY <1>1, <2>1 DEF CommandSucceeds, CommandTarget, IInv, Control, LoopShape, ShapeFits
        <3> QED BY <3>2, <3>3, StageSetIs DEF StageFits, TransitionTo
    <2>2. CASE ~(IsCurrent /\ loop.doing = "startSession")
        <3>1. loop' = Ready
            BY <2>2 DEF CommandSucceeds
        <3> QED BY <3>1, ReadyFacts, StageSetIs DEF StageFits
    <2> QED BY <2>1, <2>2
<1> QED BY <1>1, <1>2, <1>3, <1>4, <1>5, PhaseMoves, OutcomeInv

LEMMA CommandRaisesInv == ASSUME IInv, CommandRaises PROVE IInv'
<1>1. /\ loop.pc = "writing" /\ CallReturns /\ UNCHANGED <<currentHeat, routineOpen>>
      /\ SamePhase \/ TransitionTo("faulted")
    BY DEF CommandRaises, Single, Writes
<1>2. [Arbiter!Next]_Arbiter!vars /\ LoopKeeps
    BY <1>1, GateTypes, ReturnsAtGate
<1>3. heat' \in {heat, 0} /\ currentHeat' \in Heats
    BY <1>1 DEF CommandRaises, HeatAfterCommand, IInv, Control, ControlTypes
<1>4. /\ loop' \in LoopRecord /\ loop'.pc \in StageSet \cup {"idle", "clamping"}
      /\ StageFits(loop', phase')
    <2>1. CASE loop' = Ready
        BY <2>1, ReadyFacts, StageSetIs DEF StageFits
    <2>2. CASE TickGoesOnAfter(loop.after)
        BY <2>2, GoesOnFacts, StageSetIs DEF StageFits
    <2>3. ASSUME NEW a \in {loop.after, "end"}, loop' \in Clamping(a),
                 loop.doing \in Drops, phase = "development"
          PROVE  /\ loop' \in LoopRecord /\ loop'.pc = "clamping"
                 /\ StageFits(loop', phase')
        <3>1. phase' = "development"
            BY <2>3 DEF CommandRaises, SamePhase, Drops
        <3>2. a \in Afters /\ "clamping" \in LoopPcs
            BY DEF Afters, LoopPcs, IInv, Control, ControlTypes, LoopRecord
        <3>3. PICK level \in Heats : loop' = [At("clamping") EXCEPT !.heat = level, !.after = a]
            BY <2>3 DEF Clamping
        <3>4. loop' \in LoopRecord /\ loop'.pc = "clamping"
            BY <3>2, <3>3 DEF At, LoopRecord, Doings
        <3> QED BY <3>1, <3>4, StageSetIs DEF StageFits
    <2> QED BY <2>1, <2>2, <2>3 DEF CommandRaises
<1> QED BY <1>1, <1>2, <1>3, <1>4, StageSetIs, PhaseMoves, OutcomeInv

-----------------------------------------------------------------------------
(* Emergency stops.                                                        *)

LEMMA UnquietPrime == Gate!IInv' => (StopOutstanding' <=> ~Quiet')
<1>1. Gate!IInv => (StopOutstanding <=> ~Quiet)
    BY OutstandingIsUnquiet
<1> QED BY <1>1, PTL

\* Admission outdates what the loop has captured.
LEMMA AdmitInv ==
    ASSUME IInv, NEW s \in Stops, AdmitStop(s), ControlTypes',
           routineOpen' => routineOpen /\ s \notin OperatorStops,
           loop.pc # "new",
           \/ loop' = loop /\ s # LoopStop
           \/ loop'.pc = "stopping" /\ call[Loop].pc = "captured"
    PROVE  IInv'
<1>1. /\ [Arbiter!Next]_Arbiter!vars /\ call' = call
      /\ stop'[s] # "idle" /\ \A t \in Stops \ {s} : stop'[t] = stop[t]
      /\ ~IsCurrent'
    BY GateTypes, AdmitAtGate DEF AdmitStop
<1>2. ~Quiet'
    BY <1>1 DEF Quiet
<1>3. CallMatchesLoop'
    BY <1>1, LoopStopIsStop DEF IInv, Control, CallMatchesLoop
<1>4. GateTracksStops'
    BY <1>1, <1>2 DEF IInv, Control, GateTracksStops, AdmitStop, Stops
<1>5. StopsSupersede' /\ StagePhase' /\ StaleCallAnswered' /\ Enforced'
    BY <1>1, <1>2 DEF StopsSupersede, StagePhase, StaleCallAnswered, Enforced
<1>6. LoopShape' /\ VerdictPhase'
    BY DEF AdmitStop, IInv, Control, LoopShape, ShapeFits, VerdictPhase
<1> QED BY <1>1, <1>3, <1>4, <1>5, <1>6, GateStep DEF IInv, Control

LEMMA AdmitOperatorStopInv ==
    ASSUME IInv, NEW s \in OperatorStops, AdmitOperatorStop(s) PROVE IInv'
<1>1. AdmitStop(s) /\ loop.pc # "new" /\ routineOpen' = FALSE /\ loop' = loop
    BY DEF AdmitOperatorStop
<1>2. s \in Stops /\ s # LoopStop
    BY StopsAssumption DEF Stops
<1>3. ControlTypes'
    BY <1>1 DEF AdmitStop, IInv, Control, ControlTypes
<1>4. routineOpen' => routineOpen /\ s \notin OperatorStops
    BY <1>1
<1>5. \/ loop' = loop /\ s # LoopStop
      \/ loop'.pc = "stopping" /\ call[Loop].pc = "captured"
    BY <1>1, <1>2
<1> QED BY <1>1, <1>2, <1>3, <1>4, <1>5, AdmitInv

LEMMA LoopStopsInv ==
    ASSUME IInv, NEW d \in {"stop", "escalate"}, LoopStops(d),
           loop.pc \in {"evaluating", "escalating"}
    PROVE  IInv'
<1>1. AdmitStop(LoopStop) /\ routineOpen' = routineOpen
      /\ loop' = [At("stopping") EXCEPT !.doing = d]
    BY DEF LoopStops
<1>2. loop' \in LoopRecord /\ loop'.pc = "stopping"
    BY <1>1, HeatsAssumption DEF At, LoopRecord, LoopPcs, Doings, Afters
<1>3. ControlTypes'
    BY <1>1, <1>2 DEF AdmitStop, IInv, Control, ControlTypes
<1>4. call[Loop].pc = "captured"
    BY DEF IInv, Control, CallMatchesLoop
<1> QED BY <1>1, <1>2, <1>3, <1>4, LoopStopIsStop, StopsAssumption, AdmitInv

LEMMA StopProceedsInv == ASSUME IInv, NEW s \in Stops, StopProceeds(s) PROVE IInv'
<1>1. UNCHANGED <<control, loop>> /\ Arbiter!RunEmergencyStop(s)
    BY DEF StopProceeds
<1>2. /\ [Arbiter!Next]_Arbiter!vars /\ generation' = generation /\ call' = call
      /\ \A t \in Stops : stop'[t] = "idle" <=> stop[t] = "idle"
    BY <1>1, GateTypes, ProceedsAtGate
<1>3. (Quiet' <=> Quiet) /\ (IsCurrent' <=> IsCurrent)
    BY <1>2 DEF Quiet, IsCurrent
<1>4. /\ ControlTypes' /\ LoopShape' /\ VerdictPhase' /\ Enforced' /\ StagePhase'
      /\ StopsSupersede' /\ StaleCallAnswered'
    BY <1>1, <1>2, <1>3
        DEF control, IInv, Control, ControlTypes, LoopShape, VerdictPhase, Enforced, StagePhase,
            StopsSupersede, StaleCallAnswered
<1>5. CallMatchesLoop' /\ GateTracksStops'
    BY <1>1, <1>2, <1>3, LoopStopIsStop
        DEF control, IInv, Control, CallMatchesLoop, GateTracksStops, Stops
<1> QED BY <1>2, <1>4, <1>5, GateStep DEF IInv, Control

\* A stop that ends faults the run. The loop's own call is not on the wire
\* behind a stop that was; a stop that was cancelled has armed the retry.
LEMMA StopLandsInv ==
    ASSUME IInv, NEW s \in Stops, StopLands(s),
           Arbiter!FinishEmergencyStop(s) \/ Arbiter!CancelEmergencyStopAdmission(s),
           heat' \in {heat, 0}, currentHeat' \in Heats,
           pendingFailSafe' \in {"none", "failSafe", "stopRetry"},
           heat' = 0 \/ pendingFailSafe' # "none",
           Arbiter!CancelEmergencyStopAdmission(s) => pendingFailSafe' # "none"
    PROVE  IInv'
<1>1. /\ [Arbiter!Next]_Arbiter!vars /\ generation' = generation
      /\ call'[Loop].gen = call[Loop].gen
      /\ call'[Loop].pc = Arbiter!Woken(call[Loop].pc)
      /\ stop[s] # "idle" /\ stop'[s] = "idle"
      /\ \A t \in Stops \ {s} : stop'[t] = "idle" <=> stop[t] = "idle"
    BY GateTypes, StopEndsAtGate
<1>2. Gate!IInv'
    BY <1>1, GateStep DEF IInv
<1>3. /\ phase' = "faulted" /\ latchedVerdict' = "stop" /\ routineOpen' = routineOpen
      /\ loop' = IF s = LoopStop THEN At("returning") ELSE loop
    BY DEF StopLands
<1>4. ~Quiet /\ (transitionPending' <=> ~Quiet') /\ transitionPending' \in BOOLEAN
    BY <1>1, <1>2, UnquietPrime DEF StopLands, IInv, Control, GateTracksStops, Quiet
<1>5. At("returning") \in LoopRecord /\ At("returning").pc = "returning"
    BY AtFacts DEF LoopPcs
<1>6. ControlTypes'
    BY <1>3, <1>4, <1>5, HeatsAssumption DEF IInv, Control, ControlTypes, Phases, TerminalLatchPhases
<1>7. /\ call'[Loop].pc = "idle" <=> call[Loop].pc = "idle"
      /\ call'[Loop].pc = "captured" <=> call[Loop].pc = "captured"
      /\ call'[Loop].pc = "calling" <=> call[Loop].pc = "calling"
    BY <1>1 DEF Arbiter!Woken
<1>8. CallMatchesLoop'
    <2>1. CASE s = LoopStop
        <3>1. loop.pc = "stopping"
            BY <1>1, <2>1 DEF IInv, Control, CallMatchesLoop
        <3>2. call[Loop].pc = "captured"
            BY <3>1 DEF IInv, Control, CallMatchesLoop
        <3> QED BY <1>1, <1>3, <1>5, <1>7, <2>1, <3>2 DEF CallMatchesLoop
    <2>2. CASE s # LoopStop
        BY <1>1, <1>3, <1>7, <2>2, LoopStopIsStop DEF IInv, Control, CallMatchesLoop
    <2> QED BY <2>1, <2>2
<1>9. GateTracksStops'
    <2>1. routineOpen' => \A t \in OperatorStops : stop'[t] = "idle"
        BY <1>1, <1>3 DEF IInv, Control, GateTracksStops, Stops
    <2>2. loop'.pc # "new"
        BY <1>3, <1>4, <1>5 DEF IInv, Control, GateTracksStops
    <2> QED BY <1>4, <2>1, <2>2 DEF GateTracksStops
<1>10. call[Loop].pc = "idle" \/ (~IsCurrent /\ ~IsCurrent')
    BY <1>1, <1>4 DEF IInv, Control, StopsSupersede, IsCurrent
<1>11. StopsSupersede'
    BY <1>7, <1>10 DEF StopsSupersede
<1>12. StagePhase'
    <2>1. CASE loop'.pc \in {"new", "idle", "dead", "returning"}
        BY <2>1, StageSetIs DEF StagePhase, StageFits
    <2>2. CASE loop'.pc \notin {"new", "idle", "dead", "returning"}
        BY <1>3, <1>5, <1>10, <2>2 DEF StagePhase, IInv, Control, CallMatchesLoop
    <2> QED BY <2>1, <2>2
<1>13. StaleCallAnswered'
    <2>1. CASE Arbiter!FinishEmergencyStop(s)
        <3>1. stop[s] = "calling"
            BY <2>1 DEF Arbiter!FinishEmergencyStop
        <3>2. s # Loop
            BY StopsAssumption
        <3>3. call[Loop].pc # "calling"
            BY <3>1, <3>2
                DEF IInv, Gate!IInv, Gate!SingleCall, Gate!CallsOnWire, Gate!StopsOnWire, Gate!Callers
        <3> QED BY <1>7, <3>3 DEF StaleCallAnswered
    <2>2. CASE Arbiter!CancelEmergencyStopAdmission(s)
        BY <2>2 DEF StaleCallAnswered
    <2> QED BY <2>1, <2>2
<1>14. LoopShape' /\ VerdictPhase' /\ Enforced'
    BY <1>3, <1>5
        DEF IInv, Control, LoopShape, ShapeFits, VerdictPhase, TerminalLatchPhases, Enforced
<1> QED
    BY <1>2, <1>6, <1>8, <1>9, <1>11, <1>12, <1>13, <1>14 DEF IInv, Control

LEMMA StopEndsInv ==
    ASSUME IInv, NEW s \in Stops, StopConfirmed(s) \/ StopRaises(s) \/ StopCancelled(s)
    PROVE  IInv'
<1>1. currentHeat' \in Heats
    BY HeatsAssumption
        DEF StopConfirmed, StopRaises, StopCancelled, IInv, Control, ControlTypes
<1>2. CASE StopConfirmed(s)
    <2>1. ~Arbiter!CancelEmergencyStopAdmission(s)
        BY <1>2 DEF StopConfirmed, Arbiter!FinishEmergencyStop, Arbiter!CancelEmergencyStopAdmission
    <2> QED BY <1>1, <1>2, <2>1, StopLandsInv DEF StopConfirmed, IInv, Control, ControlTypes
<1>3. CASE StopRaises(s)
    BY <1>1, <1>3, StopLandsInv DEF StopRaises
<1>4. CASE StopCancelled(s)
    BY <1>1, <1>4, StopLandsInv DEF StopCancelled
<1> QED BY <1>2, <1>3, <1>4

-----------------------------------------------------------------------------
(* The invariant.                                                          *)

LEMMA InitInv == Init => IInv
<1> SUFFICES ASSUME Init PROVE IInv
    OBVIOUS
<1>1. Gate!IInv /\ Arbiter!TypeOK
    BY GateInit, SameTypes DEF Init, Gate!IInv
<1>2. /\ call[Loop].pc = "idle" /\ Quiet
    BY DEF Init, Arbiter!Init, Arbiter!Idle, Arbiter!Callers, Quiet, Stops
<1>3. loop \in LoopRecord /\ loop.pc = "new"
    BY AtFacts DEF Init, LoopPcs
<1>4. ControlTypes
    BY <1>3, HeatsAssumption DEF Init, ControlTypes, Phases
<1>5. CallMatchesLoop /\ LoopShape /\ StagePhase
    BY <1>2, <1>3, LoopStopIsStop, StageSetIs
        DEF CallMatchesLoop, LoopShape, ShapeFits, StagePhase, StageFits, Quiet
<1>6. GateTracksStops /\ StopsSupersede /\ StaleCallAnswered
    BY <1>2 DEF Init, GateTracksStops, StopsSupersede, StaleCallAnswered, Quiet, Stops
<1>7. VerdictPhase /\ Enforced
    BY DEF Init, VerdictPhase, Enforced
<1> QED BY <1>1, <1>4, <1>5, <1>6, <1>7 DEF IInv, Control

LEMMA StutterInv == ASSUME IInv, UNCHANGED vars PROVE IInv'
<1>1. UNCHANGED <<control, loop>> /\ call' = call /\ stop' = stop /\ generation' = generation
      /\ Arbiter!vars' = Arbiter!vars
    BY DEF vars, arbiter, gate, Arbiter!vars, Arbiter!gate
<1>2. ControlTypes' /\ CallMatchesLoop' /\ LoopShape' /\ VerdictPhase'
    BY <1>1
        DEF control, IInv, Control, ControlTypes, CallMatchesLoop, LoopShape, VerdictPhase
<1>3. (Quiet' <=> Quiet) /\ (IsCurrent' <=> IsCurrent)
    BY <1>1 DEF Quiet, IsCurrent
<1>4. GateTracksStops' /\ StopsSupersede' /\ StagePhase' /\ StaleCallAnswered' /\ Enforced'
    BY <1>1, <1>3
        DEF control, IInv, Control, GateTracksStops, StopsSupersede, StagePhase,
            StaleCallAnswered, Enforced
<1> QED BY <1>1, <1>2, <1>4, GateStep DEF IInv, Control

LEMMA NextInv == IInv /\ [Next]_vars => IInv'
<1> SUFFICES ASSUME IInv, [Next]_vars PROVE IInv'
    OBVIOUS
<1>1. CASE CommandStep
    BY <1>1, StartRunInv, StartNotPermittedInv, RecoverInv, InitialTargetsInv, BeginCommandInv,
       CommandPersistedInv, ResumeInv DEF CommandStep
<1>2. CASE TickStep
    <2>1. CASE TickStops
        BY <2>1, LoopStopsInv DEF TickStops
    <2>2. CASE TickEscalates
        BY <2>2, LoopStopsInv DEF TickEscalates
    <2>3. CASE \/ TickBegins \/ TickIsClear \/ TickFails("fault") \/ TickFails("recovery")
               \/ TickDoesNotEscalate \/ TickRules \/ TickLevers \/ TickDrops \/ TickAdvises
               \/ AdvisorDrops \/ ClampsAfterDrop \/ LoopReturns
        BY <2>3, TickBeginsInv, TickIsClearInv, TickFailsInv, TickReturnsInv, TickRulesInv,
           TickLeversInv, TickDropsInv, TickAdvisesInv, AdvisorDropsInv, ClampsInv
    <2> QED BY <1>2, <2>1, <2>2, <2>3 DEF TickStep
<1>3. CASE RoutineCall
    BY <1>3, WriteEntersInv, HeatWrittenInv, ExecuteTargetsInv, AdvisorLeversInv, ApplyFailSafeInv,
       RetryFailSafeInv, CommandRefusedInv, CommandSucceedsInv, CommandRaisesInv DEF RoutineCall
<1>4. ASSUME NEW s \in OperatorStops, AdmitOperatorStop(s) \/ StopCancelled(s)
      PROVE  IInv'
    BY <1>4, AdmitOperatorStopInv, StopEndsInv DEF Stops
<1>5. ASSUME NEW s \in Stops, StopStep(s)
      PROVE  IInv'
    BY <1>5, StopProceedsInv, StopEndsInv DEF StopStep
<1>6. CASE UNCHANGED vars
    BY <1>6, StutterInv
<1> QED BY <1>1, <1>2, <1>3, <1>4, <1>5, <1>6 DEF Next

THEOREM Invariant == Spec => []IInv
BY InitInv, NextInv, PTL DEF Spec

\* The gate, the calls, the phase, the latches and the loop keep their types.
THEOREM TypeCorrect == Spec => []TypeOK
<1>1. IInv => TypeOK
    BY GateTypes DEF IInv, Control, ControlTypes, LoopRecord, TypeOK
<1> QED BY <1>1, Invariant, PTL

\* A verdict that _act_on_safety or a stop has latched is enforced: with no stop
\* left to answer, the heat is off or the retry of the heat-off is armed, however
\* stops, refused and failed calls interleave with the loop.
THEOREM VerdictEnforced == Spec => []LatchedVerdictEnforced
<1>1. IInv => LatchedVerdictEnforced
    BY OutstandingIsUnquiet DEF IInv, Control, Enforced, LatchedVerdictEnforced
<1> QED BY <1>1, Invariant, PTL

-----------------------------------------------------------------------------
(* The controller's calls are calls of the arbiter.                        *)

LEMMA BetweenCallsSteps ==
    ASSUME IInv, LoopMoves, loop.pc \notin {"new", "idle", "dead", "writing", "stopping"}
    PROVE  [Arbiter!Next]_Arbiter!vars
<1>1. call[Loop].pc = "captured"
    BY DEF IInv, Control, CallMatchesLoop
<1> QED BY <1>1, GateTypes, LoopMovesAtGate

LEMMA StepsArbiter == ASSUME IInv, [Next]_vars PROVE [Arbiter!Next]_Arbiter!vars
<1>1. CASE CommandStep
    <2>1. CASE StartRun
        BY <2>1, GateTypes, CaptureAtGate DEF StartRun
    <2>2. CASE \/ StartNotPermitted \/ RecoverFromRestart
               \/ \E target \in Phases : OperatorResume(target)
        BY <2>2 DEF StartNotPermitted, RecoverFromRestart, OperatorResume, arbiter, gate,
            Arbiter!vars, Arbiter!gate
    <2>3. CASE InitialTargets \/ \E c \in OperatorCommands : CommandPersisted(c)
        BY <2>3, BetweenCallsSteps DEF InitialTargets, CommandPersisted
    <2>4. CASE \E c \in OperatorCommands : BeginCommand(c)
        BY <2>4, GateTypes, CaptureAtGate DEF BeginCommand
    <2> QED BY <1>1, <2>1, <2>2, <2>3, <2>4 DEF CommandStep
<1>2. CASE TickStep
    <2>1. CASE TickBegins
        BY <2>1, GateTypes, CaptureAtGate DEF TickBegins
    <2>2. CASE TickStops \/ TickEscalates
        BY <2>2, GateTypes, LoopStopIsStop, AdmitAtGate
            DEF TickStops, TickEscalates, LoopStops, AdmitStop
    <2>3. CASE \/ TickIsClear \/ TickFails("fault") \/ TickFails("recovery")
               \/ TickDoesNotEscalate \/ TickRules \/ TickLevers \/ TickDrops \/ TickAdvises
               \/ AdvisorDrops \/ ClampsAfterDrop \/ LoopReturns
        <3>1. LoopMoves /\ loop.pc \notin {"new", "idle", "dead", "writing", "stopping"}
            BY <2>3 DEF TickIsClear, TickFails, TickDoesNotEscalate, TickRules, TickLevers,
                TickDrops, TickAdvises, AdvisorDrops, ClampsAfterDrop, LoopReturns
        <3> QED BY <3>1, BetweenCallsSteps
    <2> QED BY <1>2, <2>1, <2>2, <2>3 DEF TickStep
<1>3. CASE RoutineCall
    <2>1. CASE WriteEnters
        BY <2>1, GateTypes, EntersAtGate DEF WriteEnters, IInv
    <2>2. CASE HeatWritten \/ CommandSucceeds \/ CommandRaises
        BY <2>2, GateTypes, ReturnsAtGate DEF HeatWritten, CommandSucceeds, CommandRaises
    <2>3. CASE CommandRefused
        BY <2>3, GateTypes, RefusedAtGate DEF CommandRefused
    <2>4. ASSUME NEW o \in Outcomes,
                 \/ ExecuteTargets(o) \/ ExecuteAdvisorLevers(o)
                 \/ ApplyFailSafe(o) \/ RetryFailSafe(o)
          PROVE  [Arbiter!Next]_Arbiter!vars
        BY <2>4, TargetsEndFacts
            DEF ExecuteTargets, ExecuteAdvisorLevers, ApplyFailSafe, RetryFailSafe
    <2> QED BY <1>3, <2>1, <2>2, <2>3, <2>4 DEF RoutineCall
<1>4. ASSUME NEW s \in OperatorStops, AdmitOperatorStop(s) \/ StopCancelled(s)
      PROVE  [Arbiter!Next]_Arbiter!vars
    BY <1>4, GateTypes, AdmitAtGate, StopEndsAtGate
        DEF AdmitOperatorStop, AdmitStop, StopCancelled, Stops
<1>5. ASSUME NEW s \in Stops, StopStep(s)
      PROVE  [Arbiter!Next]_Arbiter!vars
    BY <1>5, GateTypes, ProceedsAtGate, StopEndsAtGate
        DEF StopStep, StopProceeds, StopConfirmed, StopRaises
<1>6. CASE UNCHANGED vars
    BY <1>6 DEF vars, arbiter, gate, Arbiter!vars, Arbiter!gate
<1> QED BY <1>1, <1>2, <1>3, <1>4, <1>5, <1>6 DEF Next

\* Whatever the loop and the stops do, they call the roaster as callers of the
\* arbiter do: the controller implements the arbiter's specification.
THEOREM ControllerUsesArbiter == Spec => UsesArbiter
<1>1. Init => Arbiter!Init
    BY DEF Init
<1>2. IInv /\ [Next]_vars => [Arbiter!Next]_Arbiter!vars
    BY StepsArbiter
<1>3. Spec => Arbiter!Init /\ [][Arbiter!Next]_Arbiter!vars
    BY <1>1, <1>2, Invariant, PTL DEF Spec
<1> QED BY <1>3 DEF UsesArbiter, Arbiter!Spec

-----------------------------------------------------------------------------
(* When heat rises, and who moves the phase.                               *)

\* A write on the wire raises heat in a phase that heats; an outdated one has
\* its stop or its retry behind it.
LEMMA WriteUnderControl ==
    ASSUME IInv, Paired, call[Loop].pc = "calling", heat' = loop.heat, heat' > heat
    PROVE  phase \in HeatPhases \/ StopOutstanding \/ pendingFailSafe # "none"
<1>1. loop.pc = "writing" /\ loop.doing \in TargetWrites \cup {"advisorLevers"}
    <2>1. heat \in Nat /\ loop.heat \in Nat
        BY HeatsAssumption DEF IInv, Control, ControlTypes, LoopRecord
    <2>2. loop.heat # 0
        BY <2>1
    <2>3. loop.doing \notin FailSafes
        BY <2>2 DEF IInv, Control, LoopShape, ShapeFits, Paired, Writes
    <2> QED BY <2>3 DEF Paired, Writes
<1>2. CASE IsCurrent
    BY <1>1, <1>2 DEF IInv, Control, StagePhase, StageFits, TargetWrites, HeatPhases
<1>3. CASE ~IsCurrent
    BY <1>3, OutstandingIsUnquiet DEF IInv, Control, StaleCallAnswered
<1> QED BY <1>2, <1>3

\* Only a lever write raises heat; every other step leaves it or turns it off.
LEMMA OtherStepsKeepHeat ==
    ASSUME IInv, [Next]_vars
    PROVE  \/ heat' \in {heat, 0}
           \/ Paired /\ call[Loop].pc = "calling" /\ heat' = loop.heat
<1>1. CASE CommandStep
    BY <1>1 DEF CommandStep, StartRun, StartNotPermitted, RecoverFromRestart, InitialTargets,
        BeginCommand, CommandPersisted, OperatorResume, control
<1>2. CASE TickStep
    BY <1>2 DEF TickStep, TickBegins, TickIsClear, TickFails, TickStops, TickEscalates, LoopStops,
        AdmitStop, TickDoesNotEscalate, TickRules, TickLevers, TickDrops, TickAdvises,
        AdvisorDrops, ClampsAfterDrop, LoopReturns, control
<1>3. CASE RoutineCall
    <2>1. CASE HeatWritten
        BY <2>1, GateTypes, ReturnsAtGate DEF HeatWritten
    <2>2. CASE WriteEnters \/ CommandRefused \/ CommandSucceeds \/ CommandRaises
        BY <2>2 DEF WriteEnters, CommandRefused, Refused, CommandSucceeds, CommandRaises,
            HeatAfterCommand, control
    <2>3. ASSUME NEW o \in Outcomes,
                 \/ ExecuteTargets(o) \/ ExecuteAdvisorLevers(o)
                 \/ ApplyFailSafe(o) \/ RetryFailSafe(o)
          PROVE  \/ heat' = heat
                 \/ Paired /\ call[Loop].pc = "calling" /\ heat' = loop.heat
        <3>1. TargetsEnd(o) /\ Paired
            BY <2>3 DEF ExecuteTargets, ExecuteAdvisorLevers, ApplyFailSafe, RetryFailSafe,
                Paired, Writes, FailSafes
        <3> QED BY <3>1, TargetsEndFacts
    <2> QED BY <1>3, <2>1, <2>2, <2>3 DEF RoutineCall
<1>4. CASE \E s \in OperatorStops : AdmitOperatorStop(s) \/ StopCancelled(s)
    BY <1>4 DEF AdmitOperatorStop, AdmitStop, StopCancelled
<1>5. CASE \E s \in Stops : StopStep(s)
    BY <1>5 DEF StopStep, StopProceeds, StopConfirmed, StopRaises, control
<1>6. CASE UNCHANGED vars
    BY <1>6 DEF vars, control
<1> QED BY <1>1, <1>2, <1>3, <1>4, <1>5, <1>6 DEF Next

\* Heat never rises out of control: no lever, clamp, retry or stop raises it
\* outside a heating phase unless a heat-off is still to come.
THEOREM HeatUnderControl == Spec => HeatRisesUnderControl
<1> DEFINE Rises == heat' > heat =>
        phase \in HeatPhases \/ StopOutstanding \/ pendingFailSafe # "none"
<1>1. IInv /\ [Next]_vars => Rises
    <2> SUFFICES ASSUME IInv, [Next]_vars, heat' > heat
                 PROVE  phase \in HeatPhases \/ StopOutstanding \/ pendingFailSafe # "none"
        OBVIOUS
    <2>1. heat \in Nat
        BY HeatsAssumption DEF IInv, Control, ControlTypes
    <2>2. Paired /\ call[Loop].pc = "calling" /\ heat' = loop.heat
        BY <2>1, OtherStepsKeepHeat
    <2> QED BY <2>2, WriteUnderControl
<1>2. IInv /\ [Next]_vars => [Rises]_vars
    BY <1>1
<1> QED BY <1>2, Invariant, PTL DEF Spec, HeatRisesUnderControl

\* An operation that moves the phase under its own generation has no stop
\* against it.
LEMMA CurrentIsQuiet ==
    ASSUME IInv, IsCurrent, loop.pc \notin {"new", "idle", "dead"}
    PROVE  ~transitionPending
BY DEF IInv, Control, StopsSupersede, CallMatchesLoop, GateTracksStops

\* From the admission of a stop until it lands, no rule, drop, start, fail-safe
\* or command that was in progress moves the phase anywhere but to faulted.
THEOREM StopOwnsThePhase == Spec => StopOwnsPhase
<1> DEFINE Owned == transitionPending /\ phase' # phase => phase' = "faulted"
<1>1. IInv /\ [Next]_vars => Owned
    <2> SUFFICES ASSUME IInv, [Next]_vars, transitionPending, phase' # phase
                 PROVE  phase' = "faulted"
        OBVIOUS
    <2>1. loop.pc # "new"
        BY DEF IInv, Control, GateTracksStops
    <2>2. ~(loop.pc = "idle" /\ routineOpen)
        BY LoopStopIsStop DEF IInv, Control, GateTracksStops, CallMatchesLoop, Quiet, Stops
    <2>3. CASE CommandStep
        BY <2>1, <2>2, <2>3 DEF CommandStep, StartRun, StartNotPermitted, RecoverFromRestart,
            InitialTargets, BeginCommand, CommandPersisted, OperatorResume, control
    <2>4. CASE TickStep
        <3>1. ~TickRules
            BY CurrentIsQuiet DEF TickRules, SamePhase
        <3> QED BY <2>4, <3>1 DEF TickStep, TickBegins, TickIsClear, TickFails, TickStops,
                TickEscalates, LoopStops, AdmitStop, TickDoesNotEscalate, TickLevers, TickDrops,
                TickAdvises, AdvisorDrops, ClampsAfterDrop, LoopReturns, control
    <2>5. CASE RoutineCall
        <3>1. ~CommandSucceeds /\ \A o \in Outcomes : ~ApplyFailSafe(o)
            BY CurrentIsQuiet DEF CommandSucceeds, ApplyFailSafe, Single, Writes, SamePhase
        <3>2. CASE CommandRaises
            BY <3>2 DEF CommandRaises, TransitionTo, SamePhase
        <3> QED BY <2>5, <3>1, <3>2 DEF RoutineCall, WriteEnters, HeatWritten, ExecuteTargets,
                ExecuteAdvisorLevers, RetryFailSafe, CommandRefused, SamePhase, control
    <2>6. CASE \E s \in OperatorStops : AdmitOperatorStop(s) \/ StopCancelled(s)
        BY <2>6 DEF AdmitOperatorStop, AdmitStop, StopCancelled, StopLands
    <2>7. CASE \E s \in Stops : StopStep(s)
        BY <2>7 DEF StopStep, StopProceeds, StopConfirmed, StopRaises, StopLands, control
    <2>8. CASE UNCHANGED vars
        BY <2>8 DEF vars, control
    <2> QED BY <2>3, <2>4, <2>5, <2>6, <2>7, <2>8 DEF Next
<1>2. IInv /\ [Next]_vars => [Owned]_vars
    BY <1>1
<1> QED BY <1>2, Invariant, PTL DEF Spec, StopOwnsPhase

=============================================================================
