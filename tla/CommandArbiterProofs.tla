------------------------ MODULE CommandArbiterProofs ------------------------
(***************************************************************************)
(* The safety invariants of CommandArbiter, and that it implements         *)
(* PriorityPort, for any number of callers and any bound on generations.   *)
(***************************************************************************)
EXTENDS CommandArbiter, FiniteSetTheorems, TLAPS

IInv ==
    /\ TypeOK
    /\ SingleCall
    /\ AdmissionsConserved
    /\ WriteEnteredOutsideStop
    /\ CloseProofExclusive
    /\ ReservationOwned
    /\ NoLostWakeup

CallRecord == [pc : WriterPcs \cup CloserPcs, gen : Nat, epoch : Nat]

-----------------------------------------------------------------------------
(* What the helpers of the model return.                                   *)

LEMMA WokenCallsFacts ==
    ASSUME NEW c \in [Callers -> CallRecord]
    PROVE  /\ WokenCalls(c) \in [Callers -> CallRecord]
           /\ \A p \in Callers :
                /\ WokenCalls(c)[p].pc = Woken(c[p].pc)
                /\ WokenCalls(c)[p].gen = c[p].gen
                /\ WokenCalls(c)[p].epoch = c[p].epoch
BY DEF WokenCalls, Woken, CallRecord, WriterPcs, CloserPcs

LEMMA GotoFacts ==
    ASSUME TypeOK, NEW p \in Callers, NEW pc \in WriterPcs \cup CloserPcs
    PROVE  /\ Goto(p, pc) \in [Callers -> CallRecord]
           /\ \A q \in Callers \ {p} : Goto(p, pc)[q] = call[q]
           /\ Goto(p, pc)[p].pc = pc
           /\ pc # "idle" => /\ Goto(p, pc)[p].gen = call[p].gen
                             /\ Goto(p, pc)[p].epoch = call[p].epoch
           /\ pc = "idle" => Goto(p, pc)[p].gen = 0
BY DEF Goto, Idle, CallRecord, TypeOK, WriterPcs, CloserPcs

LEMMA WokenStopsFacts ==
    ASSUME NEW st \in [Stops -> StopPcs]
    PROVE  /\ WokenStops(st) \in [Stops -> StopPcs]
           /\ \A s \in Stops : /\ WokenStops(st)[s] # "waiting"
                               /\ st[s] # "waiting" => WokenStops(st)[s] = st[s]
                               /\ st[s] = "waiting" => WokenStops(st)[s] = "woken"
BY DEF WokenStops, StopPcs

LEMMA InitInv == Init => IInv
<1> SUFFICES ASSUME Init PROVE IInv
    OBVIOUS
<1>1. \A p \in Callers : call[p] = Idle
    BY DEF Init
<1>2. TypeOK
    <2>1. call \in [Callers -> CallRecord]
        BY DEF Init, Idle, CallRecord, WriterPcs, CloserPcs
    <2>2. \A p \in Callers : call[p].pc = "idle" /\ call[p].gen = 0
        BY <1>1 DEF Idle
    <2>3. stop \in [Stops -> StopPcs]
        BY DEF Init, StopPcs
    <2>4. \A p \in Callers : call[p].pc \in WriterPcs \cap CloserPcs /\ call[p].gen <= generation
        BY <2>2 DEF Init, WriterPcs, CloserPcs
    <2> QED BY <2>1, <2>3, <2>4 DEF Init, TypeOK, CallRecord, Callers
<1>3. CallsOnWire = {} /\ StopsOnWire = {} /\ Admitted = {} /\ Holding = {}
    BY <1>1 DEF Init, CallsOnWire, StopsOnWire, Admitted, Holding, Idle, Callers
<1>4. SingleCall /\ WriteEnteredOutsideStop /\ ReservationOwned /\ NoLostWakeup
    BY <1>1, <1>3 DEF Init, SingleCall, WriteEnteredOutsideStop,
        ReservationOwned, NoLostWakeup, Idle
<1>5. AdmissionsConserved
    BY <1>3, FS_EmptySet DEF Init, AdmissionsConserved
<1>6. CloseProofExclusive
    BY <1>1 DEF CloseProofExclusive, Idle, Callers
<1> QED
    BY <1>2, <1>4, <1>5, <1>6 DEF IInv

LEMMA DispatchInv ==
    ASSUME IInv, NEW p \in Callers, NEW epoch \in Nat, Dispatch(p, epoch),
           call[p].pc \in {"captured", "proving", "woken"}
    PROVE  IInv'
<1> USE DEF IInv
<1>1. /\ \A q \in Callers \ {p} : call'[q] = call[q]
      /\ call'[p].pc = "calling" /\ call'[p].gen = call[p].gen
      /\ call'[p].epoch = epoch
      /\ call' \in [Callers -> CallRecord]
    BY ZenonT(60) DEF Dispatch, TypeOK, CallRecord, WriterPcs, CloserPcs
<1>2. TypeOK'
    BY <1>1 DEF Dispatch, TypeOK, CallRecord, WriterPcs, CloserPcs, Callers
<1>3. CallsOnWire = {} /\ StopsOnWire = {} /\ CallsOnWire' = {p} /\ StopsOnWire' = {}
    BY <1>1 DEF Dispatch, SingleCall, CallsOnWire, StopsOnWire
<1>4. SingleCall'
    BY <1>3 DEF Dispatch, SingleCall
<1>5. AdmissionsConserved'
    BY DEF Dispatch, AdmissionsConserved, Admitted
<1>6. WriteEnteredOutsideStop'
    <2>1. call[p].gen = epoch
        BY <1>3 DEF Dispatch, Superseded, AdmissionsConserved, SingleCall, TypeOK
    <2> QED BY <2>1, <1>1, <1>3 DEF WriteEnteredOutsideStop
<1>7. CloseProofExclusive'
    <2> SUFFICES ASSUME NEW c \in Closers, closeReservation = call'[c].gen,
                        closeReservation = generation, call'[c].pc # "idle",
                        HoldsAlone(c)'
                 PROVE  c = p
        BY <1>3 DEF CloseProofExclusive, CloseReservationIsCurrent, Dispatch
    <2>1. CASE c # p
        <3>1. call[c].gen = closeReservation /\ closeReservation # NoReservation
            BY <2>1, <1>1, ReservationAssumption DEF TypeOK, Callers
        <3>2. Presented(p) = closeReservation
            BY <3>1 DEF Dispatch, Superseded
        <3>3. p \in Closers /\ call[p].gen = closeReservation
            BY <3>1, <3>2 DEF Presented
        <3>4. p \in Holding' \ {c} /\ call'[p].gen = call'[c].gen
            BY <2>1, <3>1, <3>3, <1>1 DEF Holding, Callers
        <3> QED BY <3>4 DEF HoldsAlone
    <2> QED BY <2>1
<1>8. ReservationOwned'
    <2>1. Holding' = Holding
        BY <1>1 DEF Holding, Callers
    <2> QED BY <2>1, <1>1 DEF ReservationOwned, Dispatch, Holding, Callers
<1>9. NoLostWakeup'
    BY DEF Dispatch, NoLostWakeup
<1> QED BY <1>2, <1>4, <1>5, <1>6, <1>7, <1>8, <1>9

\* A step that only moves one routine caller between points off the wire.
LEMMA LocalStepInv ==
    ASSUME IInv, NEW p \in Callers, UNCHANGED <<gate, stop>>,
           call' \in [Callers -> CallRecord],
           \A q \in Callers \ {p} : call'[q] = call[q],
           call[p].pc # "calling", call'[p].pc # "calling",
           call'[p].gen <= generation,
           p \in Writers => call'[p].pc \in WriterPcs,
           p \in Closers => /\ call'[p].pc \in CloserPcs \ {"idle"}
                            /\ call[p].pc # "idle"
                            /\ call'[p].gen = call[p].gen,
           p \in Closers /\ call'[p].pc \in {"proving", "waiting", "woken"} =>
                call[p].pc \in {"proving", "waiting", "woken"} \/ ~inFlight,
           call'[p].pc \in {"waiting", "proofWaiting"} => inFlight
    PROVE  IInv'
<1> USE DEF IInv, gate
<1>1. TypeOK'
    BY DEF TypeOK, CallRecord, Callers
<1>2. CallsOnWire' = CallsOnWire /\ StopsOnWire' = StopsOnWire /\ Admitted' = Admitted
      /\ Holding' = Holding
    BY DEF CallsOnWire, StopsOnWire, Admitted, Holding, Callers
<1>3. SingleCall' /\ AdmissionsConserved'
    BY <1>2 DEF SingleCall, AdmissionsConserved
<1>4. WriteEnteredOutsideStop' /\ ReservationOwned'
    BY <1>2 DEF WriteEnteredOutsideStop, ReservationOwned, CallsOnWire, Holding, Callers
<1>5. CloseProofExclusive'
    <2>1. ASSUME NEW c \in Closers, HoldsAlone(c)' PROVE HoldsAlone(c)
        BY <2>1, <1>2 DEF HoldsAlone, Holding, Callers
    <2> QED BY <2>1, <1>2 DEF CloseProofExclusive, CloseReservationIsCurrent, SingleCall,
        Callers
<1>6. NoLostWakeup'
    BY DEF NoLostWakeup
<1> QED BY <1>1, <1>3, <1>4, <1>5, <1>6

LEMMA CaptureInv ==
    ASSUME IInv, NEW w \in Writers, CaptureGeneration(w)
    PROVE  IInv'
<1>1. /\ \A q \in Callers \ {w} : call'[q] = call[q]
      /\ call'[w].pc = "captured" /\ call'[w].gen = generation
      /\ call' \in [Callers -> CallRecord]
    BY DEF IInv, CaptureGeneration, TypeOK, CallRecord, WriterPcs, CloserPcs, Callers
<1>2. w \in Callers /\ w \notin Closers /\ call[w].pc = "idle" /\ UNCHANGED <<gate, stop>>
    BY CallersAssumption DEF CaptureGeneration, Callers
<1>3. generation <= generation
    BY DEF IInv, TypeOK
<1> QED BY <1>1, <1>2, <1>3, LocalStepInv DEF WriterPcs

LEMMA DiscardInv ==
    ASSUME IInv, NEW p \in Callers, Discard(p),
           call[p].pc \in {"captured", "proving", "waiting", "woken"}
    PROVE  IInv'
<1>1. CASE p \in Closers
    <2>1. call' = Goto(p, "failed") /\ UNCHANGED <<gate, stop>> /\ p \notin Writers
        BY <1>1, CallersAssumption DEF Discard
    <2>2. /\ call' \in [Callers -> CallRecord]
          /\ \A q \in Callers \ {p} : call'[q] = call[q]
          /\ call'[p].pc = "failed" /\ call'[p].gen = call[p].gen
        BY <2>1, GotoFacts DEF IInv, CloserPcs
    <2>3. call[p].gen <= generation
        BY DEF IInv, TypeOK
    <2>4. call'[p].pc \in CloserPcs \ {"idle"}
        BY <2>2 DEF CloserPcs
    <2> QED BY <1>1, <2>1, <2>2, <2>3, <2>4, LocalStepInv
<1>2. CASE p \notin Closers
    <2>1. UNCHANGED <<gate, stop>>
        BY DEF Discard
    <2>2. PICK pc \in {"idle", "captured"} : call' = Goto(p, pc)
        BY <1>2 DEF Discard
    <2>3. pc \in WriterPcs \cup CloserPcs /\ pc \in WriterPcs \ {"calling", "waiting"}
        BY <2>2 DEF WriterPcs
    <2>4. /\ call' \in [Callers -> CallRecord]
          /\ \A q \in Callers \ {p} : call'[q] = call[q]
          /\ call'[p].pc = pc /\ call'[p].gen <= generation
        BY <2>2, <2>3, GotoFacts DEF IInv, TypeOK
    <2> QED BY <1>2, <2>1, <2>3, <2>4, LocalStepInv
<1> QED BY <1>1, <1>2

LEMMA WaitForCallInv ==
    ASSUME IInv, NEW p \in Callers, NEW epoch \in Nat, WaitForCall(p, epoch),
           call[p].pc \in {"woken", IF p \in Closers THEN "proving" ELSE "captured"}
    PROVE  IInv'
<1>1. /\ \A q \in Callers \ {p} : call'[q] = call[q]
      /\ call'[p].pc = "waiting" /\ call'[p].gen = call[p].gen
      /\ call' \in [Callers -> CallRecord]
    BY DEF IInv, WaitForCall, TypeOK, CallRecord, WriterPcs, CloserPcs
<1>2. inFlight /\ UNCHANGED <<gate, stop>>
    BY DEF WaitForCall
<1>3. call[p].gen <= generation
    BY DEF IInv, TypeOK
<1> QED BY <1>1, <1>2, <1>3, LocalStepInv DEF WriterPcs, CloserPcs

LEMMA WaitForCloseProofInv ==
    ASSUME IInv, NEW c \in Closers, WaitForCloseProof(c)
    PROVE  IInv'
<1>1. PICK pc \in {"failed", "proofWaiting", "proving"} :
        /\ call' = Goto(c, pc)
        /\ pc = "proofWaiting" => inFlight
        /\ pc = "proving" => ~inFlight
    BY DEF WaitForCloseProof
<1>2. /\ c \in Callers /\ c \notin Writers /\ UNCHANGED <<gate, stop>>
      /\ call[c].pc \in {"reserved", "proofWoken"}
    BY CallersAssumption DEF WaitForCloseProof, Callers
<1>3. TypeOK /\ call[c].gen <= generation
    BY <1>2 DEF IInv, TypeOK
<1>4. pc \in CloserPcs \ {"idle"} /\ pc # "calling"
    BY <1>1 DEF CloserPcs
<1>5. /\ call' \in [Callers -> CallRecord]
      /\ \A q \in Callers \ {c} : call'[q] = call[q]
      /\ call'[c].pc = pc /\ call'[c].gen = call[c].gen
    BY <1>1, <1>2, <1>3, <1>4, GotoFacts
<1> QED BY <1>1, <1>2, <1>3, <1>4, <1>5, LocalStepInv

LEMMA ReserveCloseInv ==
    ASSUME IInv, NEW c \in Closers, ReserveClose(c)
    PROVE  IInv'
<1> USE DEF IInv
<1>1. /\ \A q \in Callers \ {c} : call'[q] = call[q]
      /\ call'[c].pc = "reserved" /\ call'[c].gen = generation
      /\ call' \in [Callers -> CallRecord]
      /\ c \in Callers /\ c \notin Writers
    BY CallersAssumption DEF ReserveClose, TypeOK, CallRecord, WriterPcs, CloserPcs, Callers
<1>2. TypeOK'
    BY <1>1 DEF ReserveClose, TypeOK, CallRecord, CloserPcs, Callers
<1>3. CallsOnWire' = CallsOnWire /\ StopsOnWire' = StopsOnWire /\ Admitted' = Admitted
      /\ Holding' = Holding \cup {c}
    BY <1>1 DEF ReserveClose, CallsOnWire, StopsOnWire, Admitted, Holding, Callers
<1>4. SingleCall' /\ AdmissionsConserved'
    BY <1>3 DEF ReserveClose, SingleCall, AdmissionsConserved
<1>5. WriteEnteredOutsideStop' /\ NoLostWakeup'
    BY <1>1, <1>3 DEF ReserveClose, WriteEnteredOutsideStop, NoLostWakeup, CallsOnWire
<1>7. ReservationOwned'
    BY <1>1, <1>3 DEF ReserveClose, ReservationOwned, Holding, Callers
<1>8. CloseProofExclusive'
    <2> SUFFICES ASSUME NEW d \in Closers, call'[d].gen = generation, HoldsAlone(d)'
                 PROVE  d = c
        BY <1>1 DEF ReserveClose, CloseProofExclusive, CloseReservationIsCurrent
    <2> QED BY <1>1, <1>3 DEF HoldsAlone
<1> QED BY <1>2, <1>4, <1>5, <1>7, <1>8

LEMMA ReleaseCloseInv ==
    ASSUME IInv, NEW c \in Closers, ReleaseClose(c)
    PROVE  IInv'
<1> USE DEF IInv
<1>1. /\ \A q \in Callers \ {c} : call'[q] = call[q]
      /\ call'[c].pc = "idle" /\ call'[c].gen = 0
      /\ call' \in [Callers -> CallRecord]
      /\ c \in Callers /\ c \notin Writers
    <2>1. c \in Callers /\ c \notin Writers
        BY CallersAssumption DEF Callers
    <2>2. call' = Goto(c, "idle") /\ "idle" \in WriterPcs \cup CloserPcs
        BY DEF ReleaseClose, WriterPcs
    <2> QED BY <2>1, <2>2, GotoFacts
<1>2. TypeOK'
    <2>1. generation' \in Nat /\ closeReservation' \in Nat \cup {NoReservation}
        BY DEF ReleaseClose, TypeOK
    <2>2. \A q \in Callers : call'[q].gen <= generation'
        BY <1>1 DEF ReleaseClose, TypeOK
    <2>3. \A d \in Closers : call'[d].pc \in CloserPcs
        BY <1>1 DEF TypeOK, CloserPcs, Callers
    <2> QED BY <1>1, <2>1, <2>2, <2>3 DEF ReleaseClose, TypeOK, CallRecord, Callers
<1>3. CallsOnWire' = CallsOnWire /\ StopsOnWire' = StopsOnWire /\ Admitted' = Admitted
      /\ Holding' = Holding \ {c} /\ c \in Holding
    BY <1>1 DEF ReleaseClose, CallsOnWire, StopsOnWire, Admitted, Holding, Callers
<1>4. SingleCall' /\ AdmissionsConserved'
    BY <1>3 DEF ReleaseClose, SingleCall, AdmissionsConserved
<1>5. WriteEnteredOutsideStop' /\ NoLostWakeup'
    BY <1>1, <1>3 DEF ReleaseClose, WriteEnteredOutsideStop, NoLostWakeup, CallsOnWire
<1>6. ReservationOwned'
    BY <1>1, <1>3 DEF ReleaseClose, ReservationOwned, Holding, Callers
<1>7. CloseProofExclusive'
    <2> SUFFICES ASSUME NEW d \in Closers \ {c}, closeReservation' = call[d].gen,
                        HoldsAlone(d)'
                 PROVE  HoldsAlone(d) /\ closeReservation = call[d].gen
        BY <1>1, <1>3 DEF ReleaseClose, CloseProofExclusive, CloseReservationIsCurrent,
            Callers
    <2>1. closeReservation = call[d].gen /\ closeReservation # call[c].gen
        BY ReservationAssumption DEF ReleaseClose, TypeOK, Callers
    <2> QED BY <2>1, <1>1, <1>3 DEF HoldsAlone, Holding, Callers
<1> QED BY <1>2, <1>4, <1>5, <1>6, <1>7

LEMMA AbortCloseInv ==
    ASSUME IInv, NEW c \in Closers, AbortClose(c)
    PROVE  IInv'
<1> USE DEF IInv
<1>1. /\ \A q \in Callers \ {c} : call'[q] = call[q]
      /\ call'[c].pc = "idle" /\ call'[c].gen = 0
      /\ call' \in [Callers -> CallRecord]
      /\ c \in Callers /\ c \notin Writers
    <2>1. c \in Callers /\ c \notin Writers
        BY CallersAssumption DEF Callers
    <2>2. call' = Goto(c, "idle") /\ "idle" \in WriterPcs \cup CloserPcs
        BY DEF AbortClose, WriterPcs
    <2> QED BY <2>1, <2>2, GotoFacts
<1>2. closeReservation' = NoReservation
    BY DEF AbortClose, ReservationOwned
<1>3. TypeOK'
    <2>1. \A q \in Callers : call'[q].gen <= generation'
        BY <1>1 DEF AbortClose, TypeOK
    <2>2. \A d \in Closers : call'[d].pc \in CloserPcs
        BY <1>1 DEF TypeOK, CloserPcs, Callers
    <2> QED BY <1>1, <1>2, <2>1, <2>2 DEF AbortClose, TypeOK, CallRecord, Callers
<1>4. CallsOnWire' = CallsOnWire /\ StopsOnWire' = StopsOnWire /\ Admitted' = Admitted
    BY <1>1 DEF AbortClose, CallsOnWire, StopsOnWire, Admitted
<1>5. SingleCall' /\ AdmissionsConserved'
    BY <1>4 DEF AbortClose, SingleCall, AdmissionsConserved
<1>6. WriteEnteredOutsideStop' /\ NoLostWakeup'
    BY <1>1, <1>4 DEF AbortClose, WriteEnteredOutsideStop, NoLostWakeup, CallsOnWire
<1>7. ReservationOwned' /\ CloseProofExclusive'
    BY <1>2, <1>3, ReservationAssumption DEF ReservationOwned, CloseProofExclusive,
        CloseReservationIsCurrent, TypeOK
<1> QED BY <1>3, <1>5, <1>6, <1>7

LEMMA FinishRoutineInv ==
    ASSUME IInv, NEW p \in Callers, FinishRoutine(p)
    PROVE  IInv'
<1> USE DEF IInv
<1>0. PICK pc \in IF p \in Closers THEN {"proving"} ELSE {"idle", "captured"} :
         call' = WokenCalls(Goto(p, pc))
    BY DEF FinishRoutine
<1> DEFINE moved == Goto(p, pc)
<1>1. /\ moved \in [Callers -> CallRecord]
      /\ \A q \in Callers \ {p} : moved[q] = call[q]
      /\ moved[p].pc = pc
      /\ p \in Closers => moved[p].gen = call[p].gen
      /\ moved[p].gen <= generation
    <2>1. pc \in WriterPcs \cup CloserPcs
        BY DEF WriterPcs, CloserPcs
    <2>2. moved[p].gen = 0 \/ moved[p].gen = call[p].gen
        BY <2>1, GotoFacts
    <2> QED BY <2>1, <2>2, GotoFacts DEF TypeOK
<1>2. /\ call' \in [Callers -> CallRecord]
      /\ \A q \in Callers \ {p} : call'[q].pc = Woken(call[q].pc)
                                  /\ call'[q].gen = call[q].gen
      /\ call'[p].pc = pc
      /\ p \in Closers => call'[p].gen = call[p].gen
      /\ call'[p].gen <= generation
    BY <1>0, <1>1, WokenCallsFacts DEF Woken
<1>3. stop' \in [Stops -> StopPcs] /\ stop' = WokenStops(stop)
    BY WokenStopsFacts DEF FinishRoutine, TypeOK
<1>4. CallsOnWire = {p} /\ StopsOnWire = {}
    <2>1. p \in CallsOnWire
        BY DEF FinishRoutine, CallsOnWire
    <2>2. \A s \in Stops : s # p
        BY CallersAssumption DEF Callers
    <2> QED BY <2>1, <2>2 DEF SingleCall, CallsOnWire, StopsOnWire
<1>5. CallsOnWire' = {} /\ StopsOnWire' = {}
    <2>1. \A s \in Stops : stop'[s] # "calling"
        BY <1>3, <1>4, WokenStopsFacts DEF StopsOnWire, TypeOK
    <2> QED BY <1>2, <1>4, <2>1 DEF CallsOnWire, StopsOnWire, Woken
<1>6. Admitted' = Admitted /\ Holding' = Holding
    <2>1. Admitted' = Admitted
        BY <1>3, WokenStopsFacts DEF Admitted, TypeOK
    <2>2. \A q \in Closers : call'[q].pc = "idle" <=> call[q].pc = "idle"
        BY <1>2 DEF FinishRoutine, Woken, Callers
    <2> QED BY <2>1, <2>2 DEF Holding
<1>7. TypeOK'
    <2>1. \A q \in Callers : call'[q].gen <= generation'
        BY <1>2 DEF FinishRoutine, TypeOK
    <2>2. \A w \in Writers : call'[w].pc \in WriterPcs
        BY <1>2, CallersAssumption DEF TypeOK, WriterPcs, Woken, Callers
    <2>3. \A d \in Closers : call'[d].pc \in CloserPcs
        BY <1>2 DEF TypeOK, CloserPcs, Woken, Callers
    <2> QED BY <1>2, <1>3, <2>1, <2>2, <2>3 DEF FinishRoutine, TypeOK, CallRecord
<1>8. SingleCall'
    BY <1>4, <1>5 DEF FinishRoutine, SingleCall
<1>9. AdmissionsConserved' /\ WriteEnteredOutsideStop'
    BY <1>5, <1>6 DEF FinishRoutine, AdmissionsConserved, WriteEnteredOutsideStop
<1>10. CloseProofExclusive'
    BY <1>5 DEF CloseProofExclusive
<1>11. ReservationOwned'
    BY <1>2, <1>6 DEF FinishRoutine, ReservationOwned, Holding, Callers
<1>12. NoLostWakeup'
    <2>1. \A s \in Stops : stop'[s] # "waiting"
        BY <1>3, WokenStopsFacts DEF TypeOK
    <2> QED BY <1>2, <2>1 DEF NoLostWakeup, Woken
<1> QED BY <1>7, <1>8, <1>9, <1>10, <1>11, <1>12

\* The pending count bounds the admitted stops from both sides.
LEMMA AdmittedCount ==
    ASSUME IInv
    PROVE  /\ IsFiniteSet(Admitted)
           /\ \A s \in Admitted : pendingEmergencyStops > 0
           /\ \A s \in Admitted : Cardinality(Admitted \ {s}) = pendingEmergencyStops - 1
           /\ \A s \in Stops \ Admitted :
                Cardinality(Admitted \cup {s}) = pendingEmergencyStops + 1
<1>1. IsFiniteSet(Admitted)
    BY CallersAssumption, FS_Subset DEF Admitted
<1>2. pendingEmergencyStops = Cardinality(Admitted)
    BY DEF IInv, AdmissionsConserved
<1>3. \A s \in Admitted : Cardinality(Admitted \ {s}) = pendingEmergencyStops - 1
    BY <1>1, <1>2, FS_RemoveElement
<1>4. \A s \in Stops \ Admitted : Cardinality(Admitted \cup {s}) = pendingEmergencyStops + 1
    BY <1>1, <1>2, FS_AddElement
<1>5. Cardinality(Admitted) \in Nat
    BY <1>1, FS_CardinalityType
<1>6. \A s \in Admitted : pendingEmergencyStops > 0
    <2>1. Cardinality(Admitted) = 0 => Admitted = {}
        BY <1>1, FS_EmptySet
    <2> QED BY <2>1, <1>2, <1>5
<1> QED BY <1>1, <1>3, <1>4, <1>6

LEMMA AdmitInv ==
    ASSUME IInv, NEW s \in Stops, AdmitEmergencyStop(s)
    PROVE  IInv'
<1> USE DEF IInv
<1>1. /\ stop' \in [Stops -> StopPcs] /\ stop'[s] = "admitted"
      /\ \A t \in Stops \ {s} : stop'[t] = stop[t]
    BY DEF AdmitEmergencyStop, TypeOK, StopPcs
<1>2. TypeOK'
    BY <1>1 DEF AdmitEmergencyStop, TypeOK, CallRecord
<1>3. /\ CallsOnWire' = CallsOnWire /\ StopsOnWire' = StopsOnWire
      /\ Admitted' = Admitted \cup {s} /\ s \notin Admitted /\ Holding' = Holding
    BY <1>1 DEF AdmitEmergencyStop, CallsOnWire, StopsOnWire, Admitted, Holding
<1>4. SingleCall'
    BY <1>3 DEF AdmitEmergencyStop, SingleCall
<1>5. AdmissionsConserved'
    BY <1>3, AdmittedCount DEF AdmitEmergencyStop, AdmissionsConserved, TypeOK
<1>6. WriteEnteredOutsideStop' /\ NoLostWakeup'
    BY <1>1, <1>3 DEF AdmitEmergencyStop, WriteEnteredOutsideStop, NoLostWakeup
<1>7. CloseProofExclusive'
    BY ReservationAssumption DEF AdmitEmergencyStop, CloseProofExclusive,
        CloseReservationIsCurrent, TypeOK
<1>8. ReservationOwned'
    <2>1. \A c \in Holding : call[c].gen # generation + 1
        BY DEF TypeOK, Holding, Callers
    <2> QED BY <1>3, <2>1 DEF AdmitEmergencyStop, ReservationOwned
<1> QED BY <1>2, <1>4, <1>5, <1>6, <1>7, <1>8

LEMMA StopWaitsInv ==
    ASSUME IInv, NEW s \in Stops, StopWaits(s), stop[s] \in {"admitted", "woken"}
    PROVE  IInv'
<1> USE DEF IInv, gate
<1>1. /\ stop' \in [Stops -> StopPcs] /\ stop'[s] = "waiting"
      /\ \A t \in Stops \ {s} : stop'[t] = stop[t]
    BY DEF StopWaits, TypeOK, StopPcs
<1>2. TypeOK'
    BY <1>1 DEF StopWaits, TypeOK, CallRecord
<1>3. /\ CallsOnWire' = CallsOnWire /\ StopsOnWire' = StopsOnWire
      /\ Admitted' = Admitted /\ Holding' = Holding
    BY <1>1 DEF StopWaits, CallsOnWire, StopsOnWire, Admitted, Holding
<1>4. SingleCall' /\ AdmissionsConserved' /\ WriteEnteredOutsideStop' /\ ReservationOwned'
    BY <1>3 DEF StopWaits, SingleCall, AdmissionsConserved, WriteEnteredOutsideStop,
        ReservationOwned
<1>5. CloseProofExclusive' /\ NoLostWakeup'
    BY <1>3 DEF StopWaits, CloseProofExclusive, CloseReservationIsCurrent, HoldsAlone,
        NoLostWakeup
<1> QED BY <1>2, <1>4, <1>5

LEMMA StopDispatchesInv ==
    ASSUME IInv, NEW s \in Stops, StopDispatches(s), stop[s] \in {"admitted", "woken"}
    PROVE  IInv'
<1> USE DEF IInv
<1>1. /\ stop' \in [Stops -> StopPcs] /\ stop'[s] = "calling"
      /\ \A t \in Stops \ {s} : stop'[t] = stop[t]
    BY DEF StopDispatches, TypeOK, StopPcs
<1>2. s \in Admitted /\ pendingEmergencyStops > 0
      /\ pendingEmergencyStops' = pendingEmergencyStops - 1
    BY AdmittedCount DEF StopDispatches, Admitted
<1>3. TypeOK'
    BY <1>1, <1>2 DEF StopDispatches, TypeOK, CallRecord
<1>4. CallsOnWire = {} /\ StopsOnWire = {} /\ ~emergencyStopInFlight
    BY DEF StopDispatches, SingleCall
<1>5. /\ CallsOnWire' = {} /\ StopsOnWire' = {s}
      /\ Admitted' = Admitted \ {s} /\ Holding' = Holding
    BY <1>1, <1>4 DEF StopDispatches, CallsOnWire, StopsOnWire, Admitted, Holding
<1>6. SingleCall' /\ WriteEnteredOutsideStop' /\ NoLostWakeup'
    BY <1>5 DEF StopDispatches, SingleCall, WriteEnteredOutsideStop, NoLostWakeup
<1>7. AdmissionsConserved'
    BY <1>2, <1>4, <1>5, AdmittedCount DEF StopDispatches, AdmissionsConserved, TypeOK
<1>8. closeReservation = NoReservation
    BY <1>2 DEF ReservationOwned, TypeOK
<1>9. CloseProofExclusive' /\ ReservationOwned'
    BY <1>2, <1>5, <1>8, ReservationAssumption DEF StopDispatches, CloseProofExclusive,
        CloseReservationIsCurrent, ReservationOwned, TypeOK
<1> QED BY <1>3, <1>6, <1>7, <1>9

\* A step that ends one stop and wakes every waiter: a withdrawal or the end
\* of the stop's call.
LEMMA WakeAllInv ==
    ASSUME IInv, NEW s \in Stops,
           call' = WokenCalls(call),
           stop' = WokenStops([stop EXCEPT ![s] = "idle"]),
           UNCHANGED <<generation, closeReservation>>,
           releaseEpoch' = releaseEpoch + 1,
           \/ /\ s \in Admitted
              /\ pendingEmergencyStops' = pendingEmergencyStops - 1
              /\ UNCHANGED <<inFlight, emergencyStopInFlight>>
           \/ /\ s \in StopsOnWire
              /\ inFlight' = FALSE /\ emergencyStopInFlight' = FALSE
              /\ UNCHANGED pendingEmergencyStops
    PROVE  IInv'
<1> USE DEF IInv
<1>1. /\ call' \in [Callers -> CallRecord]
      /\ \A p \in Callers : /\ call'[p].pc = Woken(call[p].pc)
                            /\ call'[p].gen = call[p].gen
                            /\ call'[p].epoch = call[p].epoch
    BY WokenCallsFacts DEF TypeOK, CallRecord
<1>2. [stop EXCEPT ![s] = "idle"] \in [Stops -> StopPcs]
    BY DEF TypeOK, StopPcs
<1>3. /\ stop' \in [Stops -> StopPcs]
      /\ stop'[s] = "idle"
      /\ \A t \in Stops \ {s} : stop'[t] = IF stop[t] = "waiting" THEN "woken" ELSE stop[t]
    BY <1>2, WokenStopsFacts DEF TypeOK
<1>4. /\ CallsOnWire' = CallsOnWire /\ StopsOnWire' = StopsOnWire \ {s}
      /\ Admitted' = Admitted \ {s} /\ Holding' = Holding
    BY <1>1, <1>3 DEF CallsOnWire, StopsOnWire, Admitted, Holding, Woken, Callers
<1>5. pendingEmergencyStops' \in Nat
    BY AdmittedCount DEF TypeOK
<1>6. TypeOK'
    <2>1. \A w \in Writers : call'[w].pc \in WriterPcs
        BY <1>1, CallersAssumption DEF TypeOK, WriterPcs, Woken, Callers
    <2>2. \A d \in Closers : call'[d].pc \in CloserPcs
        BY <1>1 DEF TypeOK, CloserPcs, Woken, Callers
    <2>3. inFlight' \in BOOLEAN /\ emergencyStopInFlight' \in BOOLEAN
        BY DEF TypeOK
    <2>4. \A p \in Callers : call'[p].gen <= generation'
        BY <1>1 DEF TypeOK
    <2>5. /\ generation' \in Nat /\ releaseEpoch' \in Nat
          /\ closeReservation' \in Nat \cup {NoReservation}
        BY DEF TypeOK
    <2>6. call' \in [Callers -> CallRecord]
        BY <1>1
    <2> QED BY <1>3, <1>5, <2>1, <2>2, <2>3, <2>4, <2>5, <2>6, Zenon DEF TypeOK, CallRecord
<1>7. s \in Admitted => s \notin StopsOnWire
    BY DEF Admitted, StopsOnWire
<1>8. SingleCall'
    <2>1. CASE s \in Admitted
        <3>1. StopsOnWire' = StopsOnWire
            BY <2>1, <1>4, <1>7
        <3> QED BY <2>1, <1>4, <1>7, <3>1 DEF SingleCall
    <2>2. CASE s \in StopsOnWire
        <3>1. CallsOnWire \cup StopsOnWire = {s}
            BY <2>2 DEF SingleCall
        <3>2. s \notin CallsOnWire
            BY CallersAssumption DEF CallsOnWire, Callers
        <3> QED BY <2>2, <1>4, <1>7, <3>1, <3>2 DEF SingleCall
    <2> QED BY <2>1, <2>2
<1>9. AdmissionsConserved'
    <2>1. CASE s \in Admitted
        BY <2>1, <1>4, <1>7, AdmittedCount, SMTT(30) DEF AdmissionsConserved, TypeOK
    <2>2. CASE s \in StopsOnWire
        <3>1. Admitted' = Admitted
            BY <2>2, <1>4 DEF Admitted, StopsOnWire
        <3> QED BY <2>2, <1>7, <3>1 DEF AdmissionsConserved, SingleCall, TypeOK
    <2> QED BY <2>1, <2>2
<1>10. WriteEnteredOutsideStop'
    BY <1>1, <1>4 DEF WriteEnteredOutsideStop, CallsOnWire
<1>11. CloseProofExclusive'
    <2>1. ASSUME NEW c \in Closers, HoldsAlone(c)' PROVE HoldsAlone(c)
        BY <2>1, <1>1, <1>4 DEF HoldsAlone, Holding, Callers
    <2> QED BY <2>1, <1>1, <1>4 DEF CloseProofExclusive, CloseReservationIsCurrent, Woken,
        Callers
<1>12. ReservationOwned'
    <2>1. closeReservation # NoReservation => pendingEmergencyStops' = 0
        BY AdmittedCount DEF ReservationOwned, TypeOK
    <2> QED BY <2>1, <1>1, <1>4 DEF ReservationOwned, Holding, Callers
<1>13. NoLostWakeup'
    BY <1>1, <1>3 DEF NoLostWakeup, Woken
<1> QED BY <1>6, <1>8, <1>9, <1>10, <1>11, <1>12, <1>13

LEMMA WithdrawInv ==
    ASSUME IInv, NEW s \in Stops, CancelEmergencyStopAdmission(s)
    PROVE  IInv'
<1>1. s \in Admitted /\ pendingEmergencyStops > 0
    BY AdmittedCount DEF CancelEmergencyStopAdmission, Admitted
<1> QED BY <1>1, WakeAllInv DEF CancelEmergencyStopAdmission, WithdrawReservation

LEMMA FinishEmergencyStopInv ==
    ASSUME IInv, NEW s \in Stops, FinishEmergencyStop(s)
    PROVE  IInv'
BY WakeAllInv DEF FinishEmergencyStop, StopsOnWire

-----------------------------------------------------------------------------
LEMMA NextInv == IInv /\ [Next]_vars => IInv'
<1> SUFFICES ASSUME IInv, [Next]_vars PROVE IInv'
    OBVIOUS
<1>1. ASSUME NEW p \in Callers, NEW epoch \in Nat, RunRoutine(p, epoch),
             call[p].pc \in {"woken", IF p \in Closers THEN "proving" ELSE "captured"}
      PROVE  IInv'
    BY <1>1, DiscardInv, WaitForCallInv, DispatchInv DEF RunRoutine
<1>2. \A p \in Callers : releaseEpoch \in Nat /\ call[p].epoch \in Nat
    BY DEF IInv, TypeOK
<1>3. CASE \E w \in Writers : CaptureGeneration(w)
    BY <1>3, CaptureInv
<1>4. ASSUME NEW p \in Callers, RoutineStep(p) PROVE IInv'
    <2>1. CASE EnterRoutine(p)
        BY <2>1, <1>1, <1>2 DEF EnterRoutine
    <2>2. CASE RecheckRoutine(p)
        BY <2>2, <1>1, <1>2 DEF RecheckRoutine
    <2>3. CASE CancelRoutineWait(p)
        BY <2>3, DiscardInv DEF CancelRoutineWait
    <2>4. CASE FinishRoutine(p)
        BY <2>4, FinishRoutineInv
    <2> QED BY <1>4, <2>1, <2>2, <2>3, <2>4 DEF RoutineStep
<1>5. ASSUME NEW c \in Closers, CloserStep(c) PROVE IInv'
    BY <1>5, ReserveCloseInv, WaitForCloseProofInv, ReleaseCloseInv, AbortCloseInv
        DEF CloserStep
<1>6. ASSUME NEW s \in Stops, StopStep(s) PROVE IInv'
    BY <1>6, AdmitInv, WithdrawInv, StopWaitsInv, StopDispatchesInv,
        FinishEmergencyStopInv DEF StopStep, RunEmergencyStop
<1>7. CASE UNCHANGED vars
    BY <1>7 DEF vars, gate, IInv, TypeOK, SingleCall, AdmissionsConserved,
        WriteEnteredOutsideStop, CloseProofExclusive, CloseReservationIsCurrent,
        HoldsAlone, ReservationOwned, NoLostWakeup, CallsOnWire, StopsOnWire, Admitted, Holding
<1> QED BY <1>3, <1>4, <1>5, <1>6, <1>7 DEF Next

LEMMA Invariant == Spec => []IInv
BY InitInv, NextInv, PTL DEF Spec

\* Every variable of the gate and every caller's state keeps its type.
THEOREM TypeCorrect == Spec => []TypeOK
BY Invariant, PTL DEF IInv

\* At most one actuator call is on the wire, whatever the callers do.
THEOREM OneCallOnTheWire == Spec => []SingleCall
BY Invariant, PTL DEF IInv

\* Every admitted stop is pending, on the wire or released, exactly once.
THEOREM StopsAccountedFor == Spec => []AdmissionsConserved
BY Invariant, PTL DEF IInv

\* No routine call that entered the gate under an outstanding stop, or was
\* overtaken by one, ever reaches the wire.
THEOREM StopsFenceWrites == Spec => []WriteEnteredOutsideStop
BY Invariant, PTL DEF IInv

\* A closer with a current reservation that it alone holds observes the roaster
\* alone, also when runners abort the reservations of others.
THEOREM CloserAlone == Spec => [](CloseProofExclusive /\ ReservationOwned)
BY Invariant, PTL DEF IInv

\* No waiter sleeps without a call on the wire that will wake it.
THEOREM NoWakeupLost == Spec => []NoLostWakeup
BY Invariant, PTL DEF IInv

-----------------------------------------------------------------------------
(* Refinement.                                                             *)

onWireBar == CallsOnWire \cup StopsOnWire
heldBar == {c \in Holding : call[c].gen = generation}

LEMMA NoStopsAdmitted ==
    ASSUME IInv, pendingEmergencyStops = 0
    PROVE  Admitted = {}
BY AdmittedCount DEF IInv, TypeOK

LEMMA InitPort ==
    Init => /\ CallsOnWire = {} /\ StopsOnWire = {} /\ Admitted = {} /\ Holding = {}
            /\ closeReservation = NoReservation
BY DEF Init, CallsOnWire, StopsOnWire, Admitted, Holding, Idle, Callers

LEMMA StepSimulation ==
    ASSUME IInv, [Next]_vars
    PROVE  [Port!Next]_(Port!port)
<1> USE DEF IInv
<1> DEFINE SameClaim == heldBar' = heldBar /\ closeReservation' = closeReservation
<1> DEFINE Stutter == UNCHANGED <<onWireBar, Admitted>> /\ SameClaim
<1>0. Stutter => [Port!Next]_(Port!port)
    BY DEF Port!port, onWireBar, heldBar
<1>1. CASE UNCHANGED vars
    BY <1>0, <1>1 DEF vars, gate, onWireBar, heldBar, CallsOnWire, StopsOnWire,
        Admitted, Holding
<1>2. ASSUME NEW w \in Writers, CaptureGeneration(w) PROVE Stutter
    <2>1. /\ \A q \in Callers \ {w} : call'[q] = call[q]
          /\ call'[w].pc = "captured" /\ call[w].pc = "idle"
          /\ w \in Callers /\ w \notin Closers /\ UNCHANGED <<gate, stop>>
        BY <1>2, CallersAssumption DEF CaptureGeneration, TypeOK, Callers
    <2> QED BY <2>1 DEF onWireBar, heldBar, CallsOnWire, StopsOnWire, Admitted,
        Holding, Callers, gate
<1>3. ASSUME NEW p \in Callers, Discard(p),
             call[p].pc \in {"captured", "proving", "waiting", "woken"}
      PROVE  Stutter
    <2>0. PICK pc \in IF p \in Closers THEN {"failed"} ELSE {"idle", "captured"} :
             call' = Goto(p, pc)
        BY <1>3 DEF Discard
    <2>1. call' = Goto(p, pc) /\ UNCHANGED <<gate, stop>>
          /\ pc \in WriterPcs \cup CloserPcs
        BY <1>3, <2>0 DEF Discard, WriterPcs, CloserPcs
    <2>2. /\ \A q \in Callers \ {p} : call'[q] = call[q]
          /\ call'[p].pc = pc
          /\ p \in Closers => call'[p].gen = call[p].gen
        BY <2>1, GotoFacts
    <2> QED BY <1>3, <2>1, <2>2 DEF onWireBar, heldBar, CallsOnWire, StopsOnWire,
        Admitted, Holding, Callers, gate
<1>4. ASSUME NEW p \in Callers, NEW epoch \in Nat, WaitForCall(p, epoch),
             call[p].pc \in {"woken", IF p \in Closers THEN "proving" ELSE "captured"}
      PROVE  Stutter
    <2>1. /\ \A q \in Callers \ {p} : call'[q] = call[q]
          /\ call'[p].pc = "waiting" /\ call'[p].gen = call[p].gen
          /\ UNCHANGED <<gate, stop>>
        BY <1>4 DEF WaitForCall, TypeOK
    <2>2. call[p].pc # "calling" /\ call[p].pc # "idle"
        BY <1>4
    <2> QED BY <2>1, <2>2 DEF onWireBar, heldBar, CallsOnWire, StopsOnWire,
        Admitted, Holding, Callers, gate
<1>5. ASSUME NEW p \in Callers, NEW epoch \in Nat, Dispatch(p, epoch),
             call[p].pc \in {"woken", IF p \in Closers THEN "proving" ELSE "captured"}
      PROVE  Port!StartRoutine(p)
    <2>1. /\ \A q \in Callers \ {p} : call'[q] = call[q]
          /\ call'[p].pc = "calling" /\ call'[p].gen = call[p].gen
          /\ call[p].pc # "calling" /\ call[p].pc # "idle"
        BY <1>5 DEF Dispatch, TypeOK
    <2>2. onWireBar = {} /\ onWireBar' = {p}
        <3>1. CallsOnWire = {} /\ StopsOnWire = {}
            BY <1>5 DEF Dispatch, SingleCall
        <3>2. CallsOnWire' = {p} /\ StopsOnWire' = {}
            BY <1>5, <2>1, <3>1, ZenonT(60) DEF Dispatch, CallsOnWire, StopsOnWire
        <3> QED BY <3>1, <3>2 DEF onWireBar
    <2>3. Admitted = {} /\ Admitted' = Admitted
        BY <1>5, NoStopsAdmitted DEF Dispatch, Superseded, TypeOK, Admitted
    <2>4. SameClaim
        BY <1>5, <2>1 DEF Dispatch, heldBar, Holding, Callers
    <2>5. ASSUME closeReservation # NoReservation PROVE p \in heldBar
        <3>1. Presented(p) = closeReservation /\ closeReservation = generation
            BY <1>5, <2>5 DEF Dispatch, Superseded, ReservationOwned
        <3> QED BY <2>1, <2>5, <3>1 DEF Presented, Holding, heldBar
    <2> QED BY <2>2, <2>3, <2>4, <2>5 DEF Port!StartRoutine, onWireBar, heldBar
<1>6. ASSUME NEW p \in Callers, FinishRoutine(p) PROVE Port!Finish
    <2>0. PICK pc \in IF p \in Closers THEN {"proving"} ELSE {"idle", "captured"} :
             call' = WokenCalls(Goto(p, pc))
        BY <1>6 DEF FinishRoutine
    <2> DEFINE moved == Goto(p, pc)
    <2>1. /\ moved \in [Callers -> CallRecord]
          /\ \A q \in Callers \ {p} : moved[q] = call[q]
          /\ moved[p].pc = pc
          /\ p \in Closers => moved[p].gen = call[p].gen
        BY GotoFacts DEF WriterPcs, CloserPcs
    <2>2. /\ \A q \in Callers \ {p} : call'[q].pc = Woken(call[q].pc)
                                      /\ call'[q].gen = call[q].gen
          /\ call'[p].pc = pc
          /\ p \in Closers => call'[p].gen = call[p].gen
        BY <2>0, <2>1, WokenCallsFacts DEF Woken
    <2>3. Admitted' = Admitted /\ \A s \in Stops : stop'[s] = "calling" <=> stop[s] = "calling"
        BY <1>6, WokenStopsFacts DEF FinishRoutine, Admitted, TypeOK
    <2>4. onWireBar # {} /\ \A x, y \in onWireBar : x = y
        BY <1>6 DEF FinishRoutine, SingleCall, onWireBar, CallsOnWire
    <2>5. p \in onWireBar /\ p \notin Stops
        BY <1>6, CallersAssumption DEF FinishRoutine, onWireBar, CallsOnWire, Callers
    <2>6. onWireBar' = {}
        BY <2>2, <2>3, <2>4, <2>5 DEF onWireBar, CallsOnWire, StopsOnWire, Woken
    <2>7. SameClaim
        BY <1>6, <2>2 DEF FinishRoutine, heldBar, Holding, Woken, Callers
    <2> QED BY <2>3, <2>4, <2>6, <2>7 DEF Port!Finish, onWireBar, heldBar
<1>7. ASSUME NEW c \in Closers, ReserveClose(c) PROVE Port!Claim(c)
    <2>1. /\ \A q \in Callers \ {c} : call'[q] = call[q]
          /\ call'[c].pc = "reserved" /\ call'[c].gen = generation
          /\ call[c].pc = "idle" /\ c \in Callers
        BY <1>7 DEF ReserveClose, TypeOK, Callers
    <2>2. Admitted = {}
        BY <1>7, NoStopsAdmitted DEF ReserveClose
    <2>5. heldBar' = heldBar \cup {c}
        BY <1>7, <2>1 DEF ReserveClose, heldBar, Holding, Callers
    <2>4. closeReservation = NoReservation /\ closeReservation' # NoReservation
        BY <1>7, ReservationAssumption DEF ReserveClose, TypeOK
    <2>6. onWireBar' = onWireBar /\ Admitted' = Admitted
        BY <1>7, <2>1 DEF ReserveClose, onWireBar, CallsOnWire, StopsOnWire, Admitted
    <2> QED BY <2>2, <2>4, <2>5, <2>6 DEF Port!Claim, onWireBar, heldBar
<1>8. ASSUME NEW c \in Closers, WaitForCloseProof(c) PROVE Stutter
    <2>1. PICK pc \in {"failed", "proofWaiting", "proving"} : call' = Goto(c, pc)
        BY <1>8 DEF WaitForCloseProof
    <2>2. pc \in WriterPcs \cup CloserPcs /\ pc # "idle" /\ pc # "calling" /\ c \in Callers
        BY <2>1 DEF CloserPcs, Callers
    <2>3. /\ \A q \in Callers \ {c} : call'[q] = call[q]
          /\ call'[c].pc = pc /\ call'[c].gen = call[c].gen
        BY <2>1, <2>2, GotoFacts
    <2>4. call[c].pc # "idle" /\ call[c].pc # "calling" /\ UNCHANGED <<gate, stop>>
        BY <1>8 DEF WaitForCloseProof
    <2> QED BY <2>2, <2>3, <2>4 DEF onWireBar, heldBar, CallsOnWire, StopsOnWire,
        Admitted, Holding, Callers, gate
<1>9. ASSUME NEW c \in Closers, ReleaseClose(c) PROVE Port!Release(c)
    <2>1. "idle" \in WriterPcs \cup CloserPcs /\ c \in Callers
        BY DEF WriterPcs, Callers
    <2>2. /\ \A q \in Callers \ {c} : call'[q] = call[q]
          /\ call'[c].pc = "idle"
          /\ call[c].pc # "calling" /\ c \in Holding
        BY <1>9, <2>1, GotoFacts DEF ReleaseClose, Holding
    <2>3. onWireBar' = onWireBar /\ Admitted' = Admitted
        BY <1>9, <2>1, <2>2 DEF ReleaseClose, onWireBar, CallsOnWire, StopsOnWire, Admitted
    <2>4. heldBar' = heldBar \ {c}
        BY <1>9, <2>1, <2>2 DEF ReleaseClose, heldBar, Holding, Callers
    <2>5. c \in heldBar <=> call[c].gen = generation
        BY <2>2 DEF heldBar
    <2>6. closeReservation' # NoReservation
          <=> closeReservation # NoReservation /\ c \notin heldBar
        BY <1>9, <2>1, <2>5, ReservationAssumption DEF ReleaseClose, ReservationOwned, TypeOK
    <2> QED BY <2>3, <2>4, <2>6 DEF Port!Release, onWireBar, heldBar
<1>9a. ASSUME NEW c \in Closers, AbortClose(c) PROVE Port!Abort(c)
    <2>1. "idle" \in WriterPcs \cup CloserPcs /\ c \in Callers
        BY DEF WriterPcs, Callers
    <2>2. /\ \A q \in Callers \ {c} : call'[q] = call[q]
          /\ call'[c].pc = "idle"
          /\ call[c].pc # "calling" /\ c \in Holding
        BY <1>9a, <2>1, GotoFacts DEF AbortClose, Holding
    <2>3. onWireBar' = onWireBar /\ Admitted' = Admitted
        BY <1>9a, <2>1, <2>2 DEF AbortClose, onWireBar, CallsOnWire, StopsOnWire, Admitted
    <2>4. heldBar' = heldBar \ {c}
        BY <1>9a, <2>1, <2>2 DEF AbortClose, heldBar, Holding, Callers
    <2>5. closeReservation' = NoReservation
        BY <1>9a DEF AbortClose, ReservationOwned
    <2> QED BY <2>3, <2>4, <2>5 DEF Port!Abort, onWireBar, heldBar
<1>10. ASSUME NEW s \in Stops, AdmitEmergencyStop(s) PROVE Port!Admit(s)
    <2>1. stop'[s] = "admitted" /\ \A t \in Stops \ {s} : stop'[t] = stop[t]
        BY <1>10 DEF AdmitEmergencyStop, TypeOK
    <2>2. s \notin Admitted /\ Admitted' = Admitted \cup {s} /\ onWireBar' = onWireBar
        BY <1>10, <2>1 DEF AdmitEmergencyStop, Admitted, onWireBar, CallsOnWire, StopsOnWire
    <2>3. heldBar' = {} /\ closeReservation' = NoReservation
        BY <1>10 DEF AdmitEmergencyStop, heldBar, Holding, TypeOK, Callers
    <2> QED BY <2>2, <2>3 DEF Port!Admit, onWireBar, heldBar
<1>11. ASSUME NEW s \in Stops, StopWaits(s), stop[s] \in {"admitted", "woken"} PROVE Stutter
    <2>1. stop'[s] = "waiting" /\ \A t \in Stops \ {s} : stop'[t] = stop[t]
        BY <1>11 DEF StopWaits, TypeOK
    <2> QED BY <1>11, <2>1 DEF StopWaits, gate, onWireBar, heldBar, CallsOnWire,
        StopsOnWire, Admitted, Holding
<1>12. ASSUME NEW s \in Stops, StopDispatches(s), stop[s] \in {"admitted", "woken"}
       PROVE  Port!StartStop(s)
    <2>1. stop'[s] = "calling" /\ \A t \in Stops \ {s} : stop'[t] = stop[t]
        BY <1>12 DEF StopDispatches, TypeOK
    <2>2. onWireBar = {} /\ onWireBar' = {s}
        BY <1>12, <2>1 DEF StopDispatches, SingleCall, onWireBar, CallsOnWire, StopsOnWire
    <2>3. s \in Admitted /\ Admitted' = Admitted \ {s} /\ SameClaim
        BY <1>12, <2>1 DEF StopDispatches, Admitted, heldBar, Holding
    <2> QED BY <2>2, <2>3 DEF Port!StartStop, onWireBar, heldBar
<1>13. ASSUME NEW s \in Stops, call' = WokenCalls(call),
              stop' = WokenStops([stop EXCEPT ![s] = "idle"]),
              UNCHANGED <<generation, closeReservation>>
       PROVE  /\ SameClaim /\ Admitted' = Admitted \ {s}
              /\ CallsOnWire' = CallsOnWire /\ StopsOnWire' = StopsOnWire \ {s}
    <2>1. \A p \in Callers : /\ call'[p].pc = Woken(call[p].pc)
                             /\ call'[p].gen = call[p].gen
        BY <1>13, WokenCallsFacts DEF TypeOK, CallRecord
    <2>2. [stop EXCEPT ![s] = "idle"] \in [Stops -> StopPcs]
        BY DEF TypeOK, StopPcs
    <2>3. /\ stop'[s] = "idle"
          /\ \A t \in Stops \ {s} : stop'[t] = IF stop[t] = "waiting" THEN "woken" ELSE stop[t]
        BY <1>13, <2>2, WokenStopsFacts DEF TypeOK
    <2> QED BY <1>13, <2>1, <2>3 DEF heldBar, Holding, Admitted, CallsOnWire,
        StopsOnWire, Woken, Callers
<1>14. ASSUME NEW s \in Stops, CancelEmergencyStopAdmission(s) PROVE Port!Withdraw(s)
    <2>1. s \in Admitted /\ s \notin StopsOnWire
        BY <1>14 DEF CancelEmergencyStopAdmission, Admitted, StopsOnWire
    <2>2. /\ SameClaim /\ Admitted' = Admitted \ {s}
          /\ CallsOnWire' = CallsOnWire /\ StopsOnWire' = StopsOnWire \ {s}
        BY <1>13, <1>14 DEF CancelEmergencyStopAdmission, WithdrawReservation
    <2> QED BY <2>1, <2>2 DEF Port!Withdraw, onWireBar, heldBar
<1>15. ASSUME NEW s \in Stops, FinishEmergencyStop(s) PROVE Port!Finish
    <2>1. s \in StopsOnWire /\ s \notin Admitted /\ s \notin Callers
        BY <1>15, CallersAssumption DEF FinishEmergencyStop, StopsOnWire, Admitted, Callers
    <2>2. CallsOnWire \cup StopsOnWire = {s}
        BY <2>1 DEF SingleCall
    <2>3. /\ SameClaim /\ Admitted' = Admitted \ {s}
          /\ CallsOnWire' = CallsOnWire /\ StopsOnWire' = StopsOnWire \ {s}
        BY <1>13, <1>15 DEF FinishEmergencyStop
    <2>4. onWireBar' = {} /\ onWireBar # {}
        BY <2>1, <2>2, <2>3 DEF onWireBar, CallsOnWire
    <2> QED BY <2>1, <2>3, <2>4 DEF Port!Finish, onWireBar, heldBar
<1>16. ASSUME NEW p \in Callers, RoutineStep(p) PROVE Stutter \/ Port!StartRoutine(p) \/ Port!Finish
    <2>1. releaseEpoch \in Nat /\ call[p].epoch \in Nat
        BY DEF TypeOK
    <2>2. CASE EnterRoutine(p)
        BY <2>1, <2>2, <1>3, <1>4, <1>5 DEF EnterRoutine, RunRoutine
    <2>3. CASE RecheckRoutine(p)
        BY <2>1, <2>3, <1>3, <1>4, <1>5 DEF RecheckRoutine, RunRoutine
    <2>4. CASE CancelRoutineWait(p)
        BY <2>4, <1>3 DEF CancelRoutineWait
    <2> QED BY <1>16, <2>2, <2>3, <2>4, <1>6 DEF RoutineStep
<1>17. ASSUME NEW c \in Closers, CloserStep(c)
       PROVE  Stutter \/ Port!Claim(c) \/ Port!Release(c) \/ Port!Abort(c)
    BY <1>17, <1>7, <1>8, <1>9, <1>9a DEF CloserStep
<1>18. ASSUME NEW s \in Stops, StopStep(s)
       PROVE  \/ Stutter
              \/ Port!Admit(s) \/ Port!Withdraw(s) \/ Port!StartStop(s)
              \/ Port!Finish
    BY <1>18, <1>10, <1>11, <1>12, <1>14, <1>15 DEF StopStep, RunEmergencyStop
<1>19. CASE Next
    BY <1>19, <1>0, <1>2, <1>16, <1>17, <1>18 DEF Next, Port!Next, Callers
<1> QED BY <1>1, <1>19

\* The gate, with its generations, epochs and waits, is a priority port.
THEOREM GateImplementsPort == Spec => ImplementsPort
<1>1. Init => Port!Init
    BY InitPort DEF Port!Init
<1>2. IInv /\ [Next]_vars => [Port!Next]_(Port!port)
    BY StepSimulation
<1> QED BY <1>1, <1>2, Invariant, PTL DEF Spec, ImplementsPort, Port!Spec
=============================================================================
