-------------------------- MODULE FaultLeaseProofs --------------------------
(***************************************************************************)
(* What FaultLease keeps true for any number of emergency stops, any bound *)
(* and any number of restarts: its types, that neither the row nor a lease *)
(* that names its run goes back (both for any number of terminal closers), *)
(* and, with one terminal closer, that a lease which memory holds closed   *)
(* is closed in SQLite.                                                    *)
(*                                                                         *)
(* The last is the hard one, for the row is read early and compared late,  *)
(* and a close that could not be verified is marked unknown after it was   *)
(* committed. It needs that nobody else closes the same generation         *)
(* (Claims): the runner begins while nothing is reserved, and a terminal   *)
(* closer of the current generation that lost its reservation lost it to   *)
(* an aborting runner, which leaves no acknowledgement of that generation  *)
(* to begin again with (RunnerSide). It also needs that a closer frees no  *)
(* reservation but its own (OneHolder), which the aborting runner can      *)
(* break and one terminal closer cannot exploit (Holding, Fence).          *)
(***************************************************************************)
EXTENDS FaultLease, TLAPS

\* Where a closer holds no finalization of its own.
Ended == {"idle", "requested", "released", "acknowledged", "dead"}
\* From the last look before the close transaction to its publication.
Closing == {"closing", "verifying", "reverifying", "closed", "marking", "marked"}
\* Up to the transaction.
Proving == {"requested", "reserved", "proving", "stopping", "reading", "readingBack",
            "proved", "closing"}

Begun(c) == closer[c].pc \notin Ended

\* A D212 closer of the generation that memory shows.
AtCurrent(c) == Begun(c) /\ closer[c].d212 /\ closer[c].gen = cache.gen

AckAtCurrent == ack.pc # "idle" /\ ack.d212 /\ ack.gen = cache.gen

\* The closer whose reservation owns the port, as a set of at most one.
ReservedBy == IF reserved THEN holders ELSE {}

\* A reservation is made only when no earlier holder is still at work: nobody
\* else's release or abort then frees it.
OneHolder == reserved => \A c, d \in holders : c = d

\* The runner's reservation was revoked by a stop.
Superseded == Begun(Runner) /\ ReservedBy # {Runner}

\* A row that was written: it names its run from the first generation on, and
\* only a lease of a known session was ever open.
Sound(r) ==
    /\ r.gen >= 1 <=> r.bound
    /\ r.status = "open" => r.bound /\ r.exact
    /\ r.status = "closed" => r.exact \/ r.gen = 0

\* Nobody holds a generation ahead of the cache's.
Generations ==
    /\ Sound(durable)
    /\ cache.bound => cache.gen >= 1
    /\ cache.status = "open" => cache.bound /\ durable.gen >= cache.gen
    /\ unconfirmed # NoGeneration => cache.bound /\ unconfirmed <= cache.gen
    /\ unconfirmed = cache.gen => cache.status = "unknown"
    /\ \A s \in Stops : stop[s].pc # "idle" => cache.bound /\ stop[s].gen <= cache.gen
    /\ \A c \in Closers : closer[c].pc # "idle" /\ closer[c].d212
                            => cache.bound /\ closer[c].gen <= cache.gen
    /\ ack.pc # "idle" /\ ack.d212
         => cache.bound /\ ack.gen <= cache.gen /\ durable.gen >= ack.gen

\* A row fetched some time ago: if it was closed then, it is closed still, or
\* its comparison with the cache will refuse it, or the closer that has marked
\* it unknown is about to fence the cache.
Fetched(r) ==
    /\ r \in Leases
    /\ Sound(r)
    /\ r.gen <= durable.gen
    /\ r.gen = durable.gen => /\ r.exact = durable.exact
                              /\ r.status # "open" => durable.status # "open"
    /\ r.status = "closed" =>
         \/ durable.gen = r.gen /\ durable.status = "closed"
         \/ cache.bound /\ cache.gen > r.gen
         \/ /\ cache.bound /\ cache.gen = r.gen
            /\ \/ unconfirmed = cache.gen
               \/ \E c \in Closers : closer[c].pc = "marked" /\ closer[c].gen = cache.gen

RowsFetched ==
    /\ health # NoRow => Fetched(health)
    /\ start.pc = "reading" => Fetched(start.row)

\* One terminal closer owns the finalization gate at a time.
Gate ==
    /\ \A t \in Terminals : closer[t].d212 /\ (Begun(t) => finalizing /\ terminalOwner)
    /\ \A t, u \in Terminals : Begun(t) /\ Begun(u) => t = u
    /\ \A c \in Closers : closer[c].pc \in Closing => closer[c].d212

StartSide ==
    /\ start.pc \in {"creating", "created"} => live \in {"none", "finalized"}
    /\ start.pc = "building" => live = "starting"

\* The runner closes its faulted run. Superseded while a terminal request for
\* the new generation exists, it has seen its run end; and an acknowledgement
\* of that generation, made while the run was active, finds it confirming.
RunnerSide ==
    /\ Begun(Runner) => live = "faulted"
    /\ \A t \in Terminals :
          closer[t].pc # "idle" /\ closer[t].gen = cache.gen /\ Superseded => run # "active"
    /\ AckAtCurrent /\ Superseded /\ run # "active" => closer[Runner].pc = "confirming"

Claims ==
    /\ AtCurrent(Runner) => ReservedBy = {Runner}
    /\ \A t \in Terminals : AtCurrent(t) => ReservedBy = {t} \/ ~AckAtCurrent
    /\ \A t \in Terminals : ~(AtCurrent(t) /\ AtCurrent(Runner))

Unfenced ==
    \A c \in Closers : closer[c].pc \in Closing /\ closer[c].gen = cache.gen
                         => unconfirmed # cache.gen

\* Until it marks the row unknown, a committed close of the current generation
\* is the row.
Committed ==
    \A c \in Closers :
       /\ closer[c].pc \in Proving => ~closer[c].committed
       /\ closer[c].pc = "closed" => closer[c].committed
       /\ /\ closer[c].pc \in Closing \ {"marked"} /\ closer[c].committed
          /\ closer[c].gen = cache.gen
          => durable.gen = cache.gen /\ durable.status = "closed"

\* ClosedIsDurable without its condition on finalization.
CloseBacked ==
    cache.status = "closed" =>
       \/ durable.gen = cache.gen /\ durable.status = "closed"
       \/ \E c \in Closers : closer[c].pc = "marked" /\ closer[c].gen = cache.gen

IInv ==
    /\ TypeOK /\ Generations /\ RowsFetched /\ Gate /\ StartSide /\ RunnerSide
    /\ Claims /\ Unfenced /\ Committed /\ CloseBacked

-----------------------------------------------------------------------------
(* Types.                                                                  *)

CloserType == [pc : CloserPcs, gen : Nat, current : BOOLEAN, d212 : BOOLEAN,
               committed : BOOLEAN]
StopType == [pc : StopPcs, gen : Nat, exact : BOOLEAN,
             target : {"none", "live", "starting", "terminal"}]
StartType == [pc : StartPcs, gen : Nat, current : BOOLEAN, row : Leases \cup {NoRow}]
AckType == [pc : {"idle", "checked", "queued"}, gen : Nat, current : BOOLEAN,
            d212 : BOOLEAN]
ClearType == [pc : {"idle", "proving", "persisting", "persisted"},
              current : BOOLEAN, lease : Leases \cup {NoRow}]

LEMMA NoneTypes ==
    /\ NoStop \in StopType /\ NoStart \in StartType /\ NoCloser \in CloserType
    /\ NoAck \in AckType /\ NoClear \in ClearType /\ NoLease \in Leases
BY DEF NoStop, StopType, StopPcs, NoStart, StartType, StartPcs, NoCloser, CloserType,
       CloserPcs, NoAck, AckType, NoClear, ClearType, NoLease, Leases, Statuses

\* A closer that moves keeps its request, or ends it.
LEMMA AtFacts ==
    ASSUME NEW c \in Closers, NEW p \in CloserPcs, closer \in [Closers -> CloserType]
    PROVE  /\ At(c, p) \in [Closers -> CloserType]
           /\ \A x \in Closers : x # c => At(c, p)[x] = closer[x]
           /\ p = "idle" => At(c, p)[c] = NoCloser
           /\ p # "idle" => /\ At(c, p)[c].gen = closer[c].gen
                            /\ At(c, p)[c].current = closer[c].current
                            /\ At(c, p)[c].d212 = closer[c].d212
                            /\ At(c, p)[c].committed = closer[c].committed
           /\ At(c, p)[c].pc = p
<1>1. CASE p = "idle"
    BY <1>1, NoneTypes DEF At, NoCloser
<1>2. CASE p # "idle"
    <2>1. [closer[c] EXCEPT !.pc = p] \in CloserType
        BY DEF CloserType
    <2>2. At(c, p) = [closer EXCEPT ![c] = [closer[c] EXCEPT !.pc = p]]
        BY <1>2 DEF At
    <2> QED BY <1>2, <2>1, <2>2 DEF CloserType
<1> QED BY <1>1, <1>2

\* What a read of the row leaves in the cache.
LEMMA ReadTypes ==
    ASSUME cache \in Leases, NEW r \in Leases
    PROVE  UnreadableRow \in Leases /\ Reconciled(r) \in Leases
BY DEF UnreadableRow, Reconciled, Leases, Statuses

LEMMA UnknownTypes ==
    ASSUME cache \in Leases, NEW g \in Nat PROVE UnknownAt(g) \in Leases
BY DEF UnknownAt, Leases, Statuses

LEMMA OutdatedFacts ==
    /\ \A r \in CloserType :
          /\ Outdated(r) \in CloserType
          /\ Outdated(r).pc = r.pc /\ Outdated(r).gen = r.gen
          /\ Outdated(r).d212 = r.d212 /\ Outdated(r).committed = r.committed
    /\ \A r \in StartType :
          Outdated(r) \in StartType /\ Outdated(r).pc = r.pc /\ Outdated(r).row = r.row
    /\ \A r \in AckType :
          /\ Outdated(r) \in AckType /\ Outdated(r).pc = r.pc
          /\ Outdated(r).gen = r.gen /\ Outdated(r).d212 = r.d212
    /\ \A r \in ClearType : Outdated(r) \in ClearType
BY DEF Outdated, CloserType, StartType, AckType, ClearType

LEMMA TypesOfStops ==
    ASSUME TypeOK, NEW s \in Stops, StopStep(s) PROVE TypeOK'
<1> USE DEF TypeOK, port, lease, gate, roast, history
<1>1. CASE AdmitStop(s)
    <2>1. StopTarget \in {"none", "live", "starting", "terminal"}
        BY DEF StopTarget
    <2>2. PICK exact \in BOOLEAN :
              /\ cache' = [gen |-> cache.gen + 1, status |-> "unknown", bound |-> TRUE,
                           exact |-> exact]
              /\ stop' = [stop EXCEPT ![s] = [pc |-> "queued", gen |-> cache.gen + 1,
                                              exact |-> exact, target |-> StopTarget]]
        BY <1>1 DEF AdmitStop
    <2>3. cache.gen + 1 \in Nat
        BY DEF Leases
    <2>4. /\ cache' \in Leases /\ unconfirmed' \in Nat
          /\ stop' \in [Stops -> StopType]
        BY <1>1, <2>1, <2>2, <2>3 DEF AdmitStop, Leases, Statuses, StopType, StopPcs
    <2>6. closer' \in [Closers -> CloserType]
        <3>1. \A c \in Closers : Outdated(closer[c]) \in CloserType
            BY OutdatedFacts DEF CloserType
        <3> QED BY <1>1, <3>1 DEF AdmitStop
    <2>7. start' \in StartType /\ clear' \in ClearType /\ ack' \in AckType
        BY <1>1, OutdatedFacts DEF AdmitStop, StartType, ClearType, AckType
    <2>5. onWire' = onWire /\ admitted' = admitted \cup {s}
          /\ holders' = {} /\ reserved' = FALSE
        BY <1>1 DEF AdmitStop, Port!Admit
    <2> QED BY <1>1, <2>4, <2>5, <2>6, <2>7
            DEF AdmitStop, StopType, CloserType, StartType, ClearType, AckType
<1>2. CASE DispatchStop(s)
    BY <1>2 DEF DispatchStop, Port!StartStop
<1>3. CASE WithdrawStop(s)
    BY <1>3 DEF WithdrawStop, Port!Withdraw
<1>4. CASE FinishStop(s)
    BY <1>4 DEF FinishStop, Port!Finish
<1>5. CASE PersistStop(s)
    <2>1. stop' \in [Stops -> StopType] /\ durable' \in Leases
        BY <1>5 DEF PersistStop, StopType, StopPcs, Leases, Statuses
    <2> QED BY <1>5, <2>1 DEF PersistStop, StopType
<1>6. CASE PublishStop(s)
    <2>1. stop' \in [Stops -> StopType] /\ cache' \in Leases
        BY <1>6, NoneTypes DEF PublishStop, StopType, StopPcs
    <2>2. unconfirmed' \in Nat \cup {NoGeneration}
        BY <1>6 DEF PublishStop
    <2> QED BY <1>6, <2>1, <2>2 DEF PublishStop, StopType
<1>7. CASE AuditStop(s)
    <2>1. stop' \in [Stops -> StopType]
        BY <1>7, NoneTypes DEF AuditStop, StopType
    <2> QED BY <1>7, <2>1 DEF AuditStop, StopType
<1>8. CASE PersistStopFails(s)
    <2>1. stop' \in [Stops -> StopType] /\ cache' \in Leases
        BY <1>8, NoneTypes, UnknownTypes, cache.gen \in Nat DEF PersistStopFails, StopType, Leases
    <2> QED BY <1>8, <2>1 DEF PersistStopFails, StopType
<1> QED BY <1>1, <1>2, <1>3, <1>4, <1>5, <1>6, <1>7, <1>8 DEF StopStep

LEMMA TypesOfStart ==
    ASSUME TypeOK, start.pc = "reading" => start.row \in Leases, StartStep PROVE TypeOK'
<1> USE DEF TypeOK, port, lease, gate, roast, history
<1>1. CASE StartAdmitted
    <2>1. start' \in StartType
        BY <1>1 DEF StartAdmitted, StartType, StartPcs
    <2> QED BY <1>1, <2>1 DEF StartAdmitted, StartType
<1>2. CASE StartReadsLease
    <2>1. PICK row \in {start.row, UnreadableRow} :
              /\ cache' = Reconciled(row)
              /\ start' \in {[start EXCEPT !.pc = "creating", !.gen = Reconciled(row).gen,
                                           !.row = NoRow], NoStart}
        BY <1>2 DEF StartReadsLease, StartIdles
    <2>2. cache' \in Leases
        BY <1>2, <2>1, ReadTypes DEF StartReadsLease
    <2>3. start' \in StartType
        BY <2>1, <2>2, NoneTypes, ZenonT(60) DEF StartType, StartPcs, Leases
    <2> QED BY <1>2, <2>2, <2>3 DEF StartReadsLease, StartType
<1>3. CASE StartCreatesRun
    <2>1. start' \in StartType /\ run' \in {"none", "active", "completed"}
        BY <1>3, NoneTypes DEF StartCreatesRun, StartIdles, StartType, StartPcs
    <2> QED BY <1>3, <2>1 DEF StartCreatesRun, StartType
<1>4. CASE StartPublishes
    <2>1. start' \in StartType
        BY <1>4, NoneTypes DEF StartPublishes, StartIdles, StartType, StartPcs
    <2>2. run' \in {"none", "active", "completed"} /\ live' \in {live, "starting"}
        BY <1>4 DEF StartPublishes
    <2> QED BY <1>4, <2>1, <2>2 DEF StartPublishes, StartType
<1>5. CASE StartBuildFails
    <2>1. start' \in StartType
        BY <1>5, NoneTypes DEF StartBuildFails, StartIdles
    <2> QED BY <1>5, <2>1 DEF StartBuildFails, StartType
<1>6. CASE StartBuildsRunner
    <2>1. start' \in StartType
        BY <1>6, NoneTypes DEF StartBuildsRunner, StartType, StartPcs
    <2> QED BY <1>6, <2>1 DEF StartBuildsRunner, StartType
<1>7. CASE StartWrites
    <2>1. start' \in StartType
        BY <1>7, NoneTypes DEF StartWrites, StartIdles
    <2> QED BY <1>7, <2>1 DEF StartWrites, StartType, Port!StartRoutine
<1>8. CASE StartNotWritten
    <2>1. start' \in StartType
        BY <1>8, NoneTypes DEF StartNotWritten, StartIdles
    <2> QED BY <1>8, <2>1 DEF StartNotWritten, StartType
<1> QED BY <1>1, <1>2, <1>3, <1>4, <1>5, <1>6, <1>7, <1>8 DEF StartStep

\* Where a giving-up closer goes.
LEMMA GivenUpIsAt ==
    ASSUME NEW c \in Closers
    PROVE  GivenUp(c) = At(c, IF c = Runner THEN "aborted" ELSE "failed")
BY DEF GivenUp

LEMMA FencedTypes ==
    ASSUME TypeOK, NEW c \in Closers, Fenced(c)
    PROVE  cache' \in Leases /\ unconfirmed' \in Nat \cup {NoGeneration}
BY UnknownTypes, cache.gen \in Nat DEF TypeOK, Fenced, Leases, lease

LEMMA TypesOfClosers ==
    ASSUME TypeOK, NEW c \in Closers, CloserGoesOn(c) PROVE TypeOK'
<1> USE DEF port, lease, gate, roast, history
<1>0. closer \in [Closers -> CloserType]
    BY DEF TypeOK, CloserType
<1>a. \A p \in CloserPcs : closer' = At(c, p) => closer' \in [Closers -> CloserType]
    BY <1>0, AtFacts
<1>p. {"failed", "readingBack", "proved", "proving", "stopping", "reading", "closed",
       "reverifying", "marking", "marked", "confirming", "aborted", "idle", "closing",
       "completing", "verifying"} \subseteq CloserPcs
    BY DEF CloserPcs
<1>g. closer' = GivenUp(c) => closer' \in [Closers -> CloserType]
    BY <1>a, <1>p, GivenUpIsAt
<1>1. CASE WaitForProof(c)
    <2>1. closer' \in [Closers -> CloserType]
        BY <1>1, <1>a, <1>p DEF WaitForProof
    <2> QED BY <1>1, <2>1 DEF WaitForProof, TypeOK, CloserType
<1>2. CASE ProofFails(c)
    <2>1. closer' \in [Closers -> CloserType]
        BY <1>2, <1>a, <1>p DEF ProofFails
    <2> QED BY <1>2, <2>1 DEF ProofFails, TypeOK, CloserType
<1>3. CASE AlreadySafe(c)
    <2>1. closer' \in [Closers -> CloserType]
        BY <1>3, <1>a, <1>p DEF AlreadySafe
    <2>2. zero' \subseteq Closers
        BY <1>3 DEF AlreadySafe, TypeOK
    <2> QED BY <1>3, <2>1, <2>2 DEF AlreadySafe, TypeOK, CloserType
<1>4. CASE StopCooling(c)
    <2>1. closer' \in [Closers -> CloserType]
        BY <1>4, <1>a, <1>p DEF StopCooling
    <2> QED BY <1>4, <2>1 DEF StopCooling, Port!StartRoutine, TypeOK, CloserType
<1>5. CASE StopCoolingReturns(c)
    <2>1. closer' \in [Closers -> CloserType]
        BY <1>5, <1>a, <1>p DEF StopCoolingReturns
    <2> QED BY <1>5, <2>1 DEF StopCoolingReturns, Port!Finish, TypeOK, CloserType
<1>6. CASE CheckAfterStop(c)
    <2>1. closer' \in [Closers -> CloserType]
        BY <1>6, <1>a, <1>p DEF CheckAfterStop
    <2> QED BY <1>6, <2>1 DEF CheckAfterStop, TypeOK, CloserType
<1>7. CASE ReadBackSafeZero(c)
    <2>1. closer' \in [Closers -> CloserType] /\ zero' \subseteq Closers
        BY <1>7, <1>a, <1>p DEF ReadBackSafeZero, TypeOK
    <2> QED BY <1>7, <2>1 DEF ReadBackSafeZero, TypeOK, CloserType
<1>8. CASE BeginClose(c)
    <2>1. closer' \in [Closers -> CloserType] /\ zero' \subseteq Closers
        BY <1>8, <1>a, <1>p, <1>g DEF BeginClose, TypeOK
    <2> QED BY <1>8, <2>1 DEF BeginClose, TypeOK, CloserType
<1>9. CASE CloseTransaction(c)
    <2>1. closer' \in [Closers -> CloserType]
        <3>1. CASE closer' = At(c, "verifying") \/ closer' = At(c, "marking")
            BY <3>1, <1>a, <1>p
        <3>2. CASE closer' = [closer EXCEPT ![c].pc = "verifying", ![c].committed = TRUE]
            BY <3>2, <1>0, ZenonT(60) DEF CloserType, CloserPcs
        <3> QED BY <1>9, <3>1, <3>2 DEF CloseTransaction
    <2>2. durable' \in Leases
        BY <1>9 DEF CloseTransaction, TypeOK, Leases, Statuses
    <2>3. run' \in {run, "completed"} /\ unresolved' \in BOOLEAN /\ zero' \subseteq Closers
        BY <1>9 DEF CloseTransaction, RunCompletedBy, TypeOK
    <2>4. /\ UNCHANGED <<port, lease, clearance, gate, live, stop, start, ack, clear,
                         health, restarts>>
        BY <1>9 DEF CloseTransaction
    <2> QED BY <2>1, <2>2, <2>3, <2>4 DEF TypeOK, CloserType
<1>10. CASE VerifyClose(c)
    <2>1. closer' \in [Closers -> CloserType]
        BY <1>10, <1>a, <1>p, <1>g DEF VerifyClose
    <2>2. cache' \in Leases
        BY <1>10, ReadTypes DEF VerifyClose, TypeOK
    <2> QED BY <1>10, <2>1, <2>2 DEF VerifyClose, TypeOK, CloserType
<1>11. CASE ReverifyClose(c)
    <2>1. closer' \in [Closers -> CloserType]
        BY <1>11, <1>a, <1>p, <1>g DEF ReverifyClose
    <2>2. cache' \in Leases /\ unconfirmed' \in Nat \cup {NoGeneration}
        BY <1>11, FencedTypes DEF ReverifyClose, TypeOK
    <2> QED BY <1>11, <2>1, <2>2 DEF ReverifyClose, TypeOK, CloserType
<1>12. CASE MarkDurableUnknown(c)
    <2>1. closer' \in [Closers -> CloserType]
        BY <1>12, <1>a, <1>p DEF MarkDurableUnknown
    <2>2. durable' \in Leases
        BY <1>12 DEF MarkDurableUnknown, TypeOK, Leases, Statuses
    <2> QED BY <1>12, <2>1, <2>2 DEF MarkDurableUnknown, TypeOK, CloserType
<1>13. CASE MarkCacheUnknown(c)
    <2>1. closer' \in [Closers -> CloserType]
        BY <1>13, <1>a, <1>p, <1>g DEF MarkCacheUnknown
    <2>2. cache' \in Leases /\ unconfirmed' \in Nat \cup {NoGeneration}
        BY <1>13, FencedTypes DEF MarkCacheUnknown, TypeOK
    <2> QED BY <1>13, <2>1, <2>2 DEF MarkCacheUnknown, TypeOK, CloserType
<1>14. CASE ConfirmClose(c)
    <2>1. closer' \in [Closers -> CloserType]
        BY <1>14, <1>a, <1>p DEF ConfirmClose
    <2>2. cache' \in Leases
        BY <1>14 DEF ConfirmClose, TypeOK, Leases, Statuses
    <2> QED BY <1>14, <2>1, <2>2 DEF ConfirmClose, TypeOK, CloserType
<1>15. CASE Answered(c)
    <2>1. closer' \in [Closers -> CloserType]
        BY <1>15, <1>a, <1>p DEF Answered
    <2> QED BY <1>15, <2>1 DEF Answered, TypeOK, CloserType
<1> QED BY <1>1, <1>2, <1>3, <1>4, <1>5, <1>6, <1>7, <1>8, <1>9, <1>10, <1>11, <1>12,
           <1>13, <1>14, <1>15 DEF CloserGoesOn

LEMMA TypesOfEnds ==
    ASSUME TypeOK,
           \/ CompleteRun \/ RunnerFinishes \/ RunnerFails \/ LoopDies
           \/ \E c \in Terminals : \/ RequestTerminal(c) \/ BeginTerminalClose(c)
                                   \/ TerminalReleases(c) \/ TerminalReports(c)
    PROVE  TypeOK'
<1> USE DEF port, lease, gate, roast, history
<1>0. closer \in [Closers -> CloserType] /\ Runner \in Closers /\ Terminals \subseteq Closers
    BY DEF TypeOK, CloserType, Closers
<1>a. \A c \in Closers, p \in CloserPcs : closer' = At(c, p) => closer' \in [Closers -> CloserType]
    BY <1>0, AtFacts
<1>p. {"confirming", "idle", "acknowledged", "dead", "released", "reserved"} \subseteq CloserPcs
    BY DEF CloserPcs
<1>1. CASE CompleteRun
    <2>1. closer' \in [Closers -> CloserType]
        BY <1>1, <1>0, <1>a, <1>p DEF CompleteRun
    <2> QED BY <1>1, <2>1 DEF CompleteRun, TypeOK, CloserType
<1>2. CASE RunnerFinishes
    <2>1. closer' \in [Closers -> CloserType]
        BY <1>2, <1>0, <1>a, <1>p DEF RunnerFinishes
    <2>2. /\ holders' \subseteq Closers /\ reserved' \in BOOLEAN
          /\ UNCHANGED <<onWire, admitted>> /\ finalizing' \in BOOLEAN
        BY <1>2 DEF RunnerFinishes, Port!Release, TypeOK
    <2> QED BY <1>2, <2>1, <2>2 DEF RunnerFinishes, TypeOK, CloserType
<1>3. CASE RunnerFails
    <2>1. closer' \in [Closers -> CloserType]
        BY <1>3, <1>0, <1>a, <1>p DEF RunnerFails
    <2>2. /\ holders' \subseteq Closers /\ reserved' \in BOOLEAN
          /\ UNCHANGED <<onWire, admitted>> /\ finalizing' \in BOOLEAN
        BY <1>3 DEF RunnerFails, Port!Release, Port!Abort, TypeOK
    <2> QED BY <1>3, <2>1, <2>2 DEF RunnerFails, TypeOK, CloserType
<1>4. CASE LoopDies
    <2>1. closer' \in [Closers -> CloserType]
        BY <1>4, <1>0, <1>a, <1>p DEF LoopDies
    <2>2. /\ holders' \subseteq Closers /\ reserved' \in BOOLEAN
          /\ UNCHANGED <<onWire, admitted>> /\ finalizing' \in BOOLEAN
        BY <1>4 DEF LoopDies, Port!Release, TypeOK
    <2> QED BY <1>4, <2>1, <2>2 DEF LoopDies, TypeOK, CloserType
<1>5. ASSUME NEW c \in Terminals, RequestTerminal(c) PROVE TypeOK'
    <2>1. [NoCloser EXCEPT !.pc = "requested", !.gen = cache.gen] \in CloserType
        BY cache.gen \in Nat DEF TypeOK, Leases, NoCloser, CloserType, CloserPcs
    <2>2. closer' \in [Closers -> CloserType]
        BY <1>5, <1>0, <2>1 DEF RequestTerminal
    <2> QED BY <1>5, <2>2 DEF RequestTerminal, TypeOK, CloserType
<1>6. ASSUME NEW c \in Terminals, BeginTerminalClose(c) PROVE TypeOK'
    <2>1. closer' \in [Closers -> CloserType]
        BY <1>6, <1>0, <1>a, <1>p DEF BeginTerminalClose
    <2>2. /\ holders' \subseteq Closers /\ reserved' \in BOOLEAN
          /\ onWire' = onWire /\ admitted' = admitted
          /\ finalizing' \in BOOLEAN /\ terminalOwner' \in BOOLEAN
        BY <1>6, <1>0, ZenonT(60) DEF BeginTerminalClose, Port!Claim, TypeOK
    <2>3. UNCHANGED <<lease, durable, clearance, roast, stop, start, ack, clear, health,
                      restarts, history>>
        BY <1>6 DEF BeginTerminalClose
    <2> QED BY <2>1, <2>2, <2>3 DEF TypeOK, CloserType
<1>7. ASSUME NEW c \in Terminals, TerminalReleases(c) PROVE TypeOK'
    <2>1. closer' \in [Closers -> CloserType]
        BY <1>7, <1>0, <1>a, <1>p DEF TerminalReleases
    <2>2. /\ holders' \subseteq Closers /\ reserved' \in BOOLEAN
          /\ onWire' = onWire /\ admitted' = admitted
          /\ finalizing' \in BOOLEAN /\ terminalOwner' \in BOOLEAN
        BY <1>7 DEF TerminalReleases, Port!Release, TypeOK
    <2>3. UNCHANGED <<lease, durable, clearance, roast, stop, start, ack, clear, health,
                      restarts, history>>
        BY <1>7 DEF TerminalReleases
    <2> QED BY <2>1, <2>2, <2>3 DEF TypeOK, CloserType
<1>8. ASSUME NEW c \in Terminals, TerminalReports(c) PROVE TypeOK'
    <2>1. closer' \in [Closers -> CloserType]
        BY <1>8, <1>0, <1>a, <1>p DEF TerminalReports
    <2> QED BY <1>8, <2>1 DEF TerminalReports, TypeOK, CloserType
<1> QED BY <1>1, <1>2, <1>3, <1>4, <1>5, <1>6, <1>7, <1>8

LEMMA TypesOfRequests ==
    ASSUME TypeOK,
           \/ RequestAck \/ QueueAck \/ DropAck \/ BeginRunnerClose \/ ClearStep
           \/ HealthFetch \/ HealthRead \/ RevokePendingStart
           \/ FinishRoutine \/ FaultControlWrites \/ RunCompletes \/ RunFaults
    PROVE  TypeOK'
<1> USE DEF port, lease, gate, roast, history
<1>1. CASE RequestAck
    <2>1. ack' \in AckType
        BY <1>1 DEF RequestAck, TypeOK, AckType, Leases
    <2> QED BY <1>1, <2>1 DEF RequestAck, TypeOK, AckType
<1>2. CASE QueueAck
    <2>1. ack' \in AckType
        BY <1>2, NoneTypes DEF QueueAck, TypeOK, AckType
    <2> QED BY <1>2, <2>1 DEF QueueAck, TypeOK, AckType
<1>3. CASE DropAck
    BY <1>3, NoneTypes DEF DropAck, TypeOK, AckType
<1>4. CASE BeginRunnerClose
    <2>1. /\ holders' \subseteq Closers /\ reserved' \in BOOLEAN
          /\ onWire' = onWire /\ admitted' = admitted /\ finalizing' \in BOOLEAN
        BY <1>4 DEF BeginRunnerClose, Port!Claim, TypeOK, Closers
    <2>2. [pc |-> "reserved", gen |-> ack.gen, current |-> TRUE, d212 |-> ack.d212,
           committed |-> FALSE] \in CloserType
        BY DEF TypeOK, CloserType, CloserPcs
    <2>3. closer' \in [Closers -> CloserType]
        BY <1>4, <2>2 DEF BeginRunnerClose, TypeOK, CloserType
    <2>4. ack' \in AckType
        BY <1>4, NoneTypes DEF BeginRunnerClose
    <2>5. UNCHANGED <<lease, durable, clearance, terminalOwner, roast, stop, start, clear,
                      health, restarts, history>>
        BY <1>4 DEF BeginRunnerClose
    <2> QED BY <2>1, <2>3, <2>4, <2>5 DEF TypeOK, CloserType, AckType
<1>5. CASE ClearStep
    <2>1. clear' \in ClearType /\ clearance' \in {"required", "cleared", "unknown"}
        <3>1. CASE RequestClearance
            BY <3>1 DEF RequestClearance, TypeOK, ClearType
        <3>2. CASE ProveClearance
            <4>1. [clear EXCEPT !.pc = "persisting"] \in ClearType
                BY DEF TypeOK, ClearType
            <4> QED BY <3>2, <4>1, NoneTypes DEF ProveClearance, TypeOK
        <3>3. CASE PersistClearance
            <4>1. [clear EXCEPT !.pc = "persisted"] \in ClearType
                BY DEF TypeOK, ClearType
            <4> QED BY <3>3, <4>1, NoneTypes DEF PersistClearance, TypeOK
        <3>4. CASE Clear
            BY <3>4, NoneTypes DEF Clear
        <3> QED BY <1>5, <3>1, <3>2, <3>3, <3>4 DEF ClearStep
    <2>2. unresolved' \in BOOLEAN
        BY <1>5 DEF ClearStep, RequestClearance, ProveClearance, PersistClearance, Clear, TypeOK
    <2>3. UNCHANGED <<port, lease, durable, gate, roast, stop, start, closer, ack, health,
                      restarts, zero>>
        BY <1>5 DEF ClearStep, RequestClearance, ProveClearance, PersistClearance, Clear
    <2> QED BY <2>1, <2>2, <2>3 DEF TypeOK, ClearType
<1>6. CASE HealthFetch
    BY <1>6 DEF HealthFetch, TypeOK
<1>7. CASE HealthRead
    <2>1. PICK row \in {durable, UnreadableRow} \cup ({health} \ {NoRow}) :
              cache' = Reconciled(row)
        BY <1>7 DEF HealthRead
    <2>2. cache' \in Leases
        BY <2>1, ReadTypes DEF TypeOK
    <2> QED BY <1>7, <2>2 DEF HealthRead, TypeOK
<1>8. CASE RevokePendingStart
    BY <1>8, OutdatedFacts DEF RevokePendingStart, TypeOK, StartType, ClearType
<1>9. CASE FinishRoutine
    BY <1>9 DEF FinishRoutine, Port!Finish, TypeOK
<1>10. CASE FaultControlWrites
    BY <1>10 DEF FaultControlWrites, Port!StartRoutine, TypeOK
<1>11. CASE RunCompletes \/ RunFaults
    BY <1>11 DEF RunCompletes, RunFaults, TypeOK
<1> QED BY <1>1, <1>2, <1>3, <1>4, <1>5, <1>6, <1>7, <1>8, <1>9, <1>10, <1>11

LEMMA TypesOfRestart == ASSUME TypeOK, Restart PROVE TypeOK'
<1>1. durable' \in Leases
    <2>1. [durable EXCEPT !.status = "unknown"] \in Leases
        BY DEF TypeOK, Leases, Statuses
    <2> QED BY <2>1 DEF Restart, TypeOK
<1>2. cache' \in Leases
    <2>1. [NoLease EXCEPT !.gen = 1, !.status = "unknown"] \in Leases
        BY DEF NoLease, Leases, Statuses
    <2> QED BY <1>1, <2>1 DEF Restart
<1>3. /\ stop' \in [Stops -> StopType] /\ closer' \in [Closers -> CloserType]
      /\ start' \in StartType /\ ack' \in AckType /\ clear' \in ClearType
    BY NoneTypes DEF Restart
<1>4. /\ run' \in {"none", "active", "completed"} /\ live' \in {"none", "recovered"}
      /\ restarts' \in Nat
    BY DEF Restart, TypeOK
<1>5. /\ onWire' = {} /\ admitted' = {} /\ holders' = {} /\ reserved' = FALSE
      /\ unconfirmed' = NoGeneration
      /\ clearance' = "required" /\ finalizing' = FALSE /\ terminalOwner' = FALSE
      /\ health' = NoRow /\ zero' = {} /\ unresolved' = unresolved
    BY DEF Restart
<1> QED BY <1>1, <1>2, <1>3, <1>4, <1>5
        DEF TypeOK, StopType, CloserType, StartType, AckType, ClearType

\* Every step keeps the types.
LEMMA TypesKept ==
    ASSUME TypeOK, start.pc = "reading" => start.row \in Leases, [Next]_vars PROVE TypeOK'
<1>1. CASE Next
    BY <1>1, TypesOfStops, TypesOfStart, TypesOfClosers, TypesOfEnds, TypesOfRequests,
       TypesOfRestart DEF Next, RunnerGoesOn, TerminalGoesOn, Closers
<1>2. CASE UNCHANGED vars
    BY <1>2 DEF vars, port, lease, gate, roast, history, TypeOK
<1> QED BY <1>1, <1>2

-----------------------------------------------------------------------------
(* What the steps have in common.                                          *)

\* A lease that names its run is followed by one of at least its generation.
Newer == cache.bound => cache'.bound /\ cache'.gen >= cache.gen

LEMMA Fields ==
    ASSUME TypeOK
    PROVE  /\ cache.gen \in Nat /\ cache.bound \in BOOLEAN /\ cache.exact \in BOOLEAN
           /\ cache.status \in Statuses
           /\ durable.gen \in Nat /\ durable.bound \in BOOLEAN /\ durable.exact \in BOOLEAN
           /\ durable.status \in Statuses
           /\ ack.gen \in Nat /\ unconfirmed \in Nat \cup {NoGeneration}
           /\ \A c \in Closers : closer[c].gen \in Nat /\ closer[c].pc \in CloserPcs
           /\ \A s \in Stops : stop[s].gen \in Nat
BY DEF TypeOK, Leases

\* A row read at once is a row fetched.
LEMMA DurableFetched == ASSUME TypeOK, Generations PROVE Fetched(durable)
BY Fields DEF Generations, Fetched, TypeOK, Statuses

\* A read leaves the cache newer, and what it shows closed is closed in the row
\* or about to be fenced.
LEMMA ReadFacts ==
    ASSUME TypeOK, Generations, CloseBacked,
           NEW r, Fetched(r) \/ r = UnreadableRow, NEW n, n = Reconciled(r)
    PROVE  /\ n \in Leases
           /\ cache.bound => n.bound /\ n.gen >= cache.gen
           /\ n.bound => n.gen >= 1
           /\ n.status = "open" => n.bound /\ durable.gen >= n.gen
           /\ unconfirmed = n.gen => n.gen = cache.gen /\ n.status = "unknown"
           /\ n.status = "closed" =>
                \/ durable.gen = n.gen /\ durable.status = "closed"
                \/ \E c \in Closers : closer[c].pc = "marked" /\ closer[c].gen = n.gen
<1> USE Fields
<1>1. CASE n = cache
    BY <1>1 DEF TypeOK, Generations, CloseBacked
<1>2. CASE n # cache
    <2>1. n = r /\ unconfirmed # cache.gen /\ (cache.bound => ~(cache.gen > r.gen))
        BY <1>2 DEF Reconciled
    <2>2. unconfirmed # NoGeneration => cache.bound /\ unconfirmed < cache.gen
        BY <2>1 DEF Generations
    <2>3. CASE r = UnreadableRow
        <3>1. /\ r \in Leases /\ r.gen \in Nat /\ r.gen >= cache.gen /\ r.gen >= 1
              /\ r.bound = cache.bound /\ r.status = "unknown"
            <4>1. UnreadableRow \in Leases
                BY ReadTypes, DurableFetched DEF TypeOK, Fetched
            <4> QED BY <2>3, <4>1 DEF UnreadableRow, TypeOK, Leases
        <3>2. unconfirmed # r.gen
            BY <2>2, <3>1, NamesAssumption
        <3> QED BY <2>1, <3>1, <3>2
    <2>4. CASE Fetched(r)
        <3>1. r \in Leases /\ r.gen \in Nat /\ r.bound \in BOOLEAN /\ r.status \in Statuses
            BY <2>4 DEF Fetched, Leases
        <3>2. cache.bound => r.bound /\ r.gen >= cache.gen
            BY <2>1, <2>4, <3>1 DEF Fetched, Sound, Generations
        <3>3. unconfirmed # r.gen
            BY <2>2, <3>1, <3>2, NamesAssumption
        <3>4. r.status = "closed" =>
                \/ durable.gen = r.gen /\ durable.status = "closed"
                \/ \E c \in Closers : closer[c].pc = "marked" /\ closer[c].gen = r.gen
            BY <2>1, <2>4, <3>1 DEF Fetched
        <3> QED BY <2>1, <2>4, <3>1, <3>2, <3>3, <3>4 DEF Fetched, Sound
    <2> QED BY <2>3, <2>4
<1> QED BY <1>1, <1>2

\* Closers go on with the requests they have, begin nothing and end nothing
\* they do not own.
Advances ==
    \A x \in Closers :
        /\ closer'[x].pc = "idle" /\ x \in Terminals => closer'[x].d212
        /\ closer'[x].pc # "idle" =>
              /\ closer[x].pc # "idle"
              /\ closer'[x].gen = closer[x].gen /\ closer'[x].d212 = closer[x].d212
              /\ closer'[x].pc \notin Ended => closer[x].pc \notin Ended
              /\ closer'[x].pc \in Closing => closer[x].d212
              /\ closer[x].pc = "confirming" => closer'[x].pc \in Ended \cup {"confirming"}

\* While nobody reserves or releases, the gate's owners and claims stay.
LEMMA Carried ==
    ASSUME TypeOK, TypeOK', Generations, Gate, RunnerSide, Claims, Advances, Newer,
           UNCHANGED <<ReservedBy, finalizing, terminalOwner, live, ack>>,
           \/ run' = run
           \/ /\ run' = "completed"
              /\ AckAtCurrent /\ Superseded => closer'[Runner].pc = "confirming"
    PROVE  Gate' /\ RunnerSide' /\ Claims'
<1>0. Runner \in Closers /\ Terminals \subseteq Closers /\ cache'.gen \in Nat
    BY DEF Closers, TypeOK, Leases
<1> USE Fields, <1>0
<1>1. \A x \in Closers : Begun(x)' => Begun(x) /\ closer'[x].gen = closer[x].gen
                                              /\ closer'[x].d212 = closer[x].d212
    BY DEF Advances, Begun, Ended
<1>2. \A x \in Closers : closer[x].pc # "idle" /\ closer[x].d212 /\ closer[x].gen = cache'.gen
                           => closer[x].gen = cache.gen
    BY DEF Generations, Newer
<1>3. \A x \in Closers : AtCurrent(x)' => AtCurrent(x)
    BY <1>1, <1>2 DEF AtCurrent, Begun, Ended
<1>4. AckAtCurrent' => AckAtCurrent
    BY DEF AckAtCurrent, Generations, Newer
<1>5. Superseded' => Superseded
    BY <1>1 DEF Superseded
<1>6. Gate'
    <2>1. \A t \in Terminals : closer'[t].d212
        BY DEF Gate, Advances
    <2>2. \A c \in Closers : closer'[c].pc \in Closing => closer'[c].d212
        BY DEF Advances, Closing
    <2> QED BY <1>1, <2>1, <2>2 DEF Gate
<1>7. RunnerSide'
    <2>1. Begun(Runner)' => live' = "faulted"
        BY <1>1 DEF RunnerSide
    <2>2. ASSUME NEW t \in Terminals, closer'[t].pc # "idle", closer'[t].gen = cache'.gen,
                 Superseded'
          PROVE  run' # "active"
        <3>1. closer[t].pc # "idle" /\ closer[t].gen = cache.gen
            BY <2>2, <1>2 DEF Advances, Gate
        <3> QED BY <2>2, <3>1, <1>5 DEF RunnerSide
    <2>3. ASSUME AckAtCurrent', Superseded', run' # "active"
          PROVE  closer'[Runner].pc = "confirming"
        <3>1. AckAtCurrent /\ Superseded
            BY <2>3, <1>4, <1>5
        <3>2. CASE run' = run
            <4>1. closer[Runner].pc = "confirming"
                BY <2>3, <3>1, <3>2 DEF RunnerSide
            <4> QED BY <2>3, <4>1 DEF Advances, Superseded, Begun, Ended
        <3> QED BY <3>1, <3>2
    <2> QED BY <2>1, <2>2, <2>3 DEF RunnerSide
<1>8. Claims'
    BY <1>3, <1>4, <1>0 DEF Claims, AckAtCurrent
<1> QED BY <1>6, <1>7, <1>8

\* While the leases and the rows stay, so does what closers, acknowledgements
\* and fetched rows rest on.
LEMMA Settled ==
    ASSUME TypeOK, TypeOK', Generations, RowsFetched, Unfenced, Committed, CloseBacked,
           UNCHANGED <<cache, unconfirmed, durable, stop, health>>,
           start'.pc = "reading" => start.pc = "reading" /\ start'.row = start.row,
           ack'.pc # "idle" /\ ack'.d212
             => cache.bound /\ ack'.gen <= cache.gen /\ durable.gen >= ack'.gen,
           \A x \in Closers :
              /\ closer'[x].pc # "idle" /\ closer'[x].d212
                   => cache.bound /\ closer'[x].gen <= cache.gen
              /\ closer'[x].pc \in Closing => closer'[x] = closer[x]
              /\ closer'[x].pc \in Proving => ~closer'[x].committed
              /\ closer[x].pc = "marked" => closer'[x] = closer[x]
    PROVE  Generations' /\ RowsFetched' /\ Unfenced' /\ Committed' /\ CloseBacked'
<1>1. Generations'
    BY DEF Generations, Sound
<1>2. \A r : Fetched(r) => Fetched(r)'
    BY DEF Fetched, Sound
<1>3. RowsFetched'
    <2>1. health' # NoRow => Fetched(health)'
        BY <1>2 DEF RowsFetched, Fetched, Sound
    <2>2. start'.pc = "reading" => Fetched(start.row)'
        BY <1>2 DEF RowsFetched, Fetched, Sound
    <2> QED BY <2>1, <2>2 DEF RowsFetched
<1>4. Unfenced' /\ Committed'
    BY DEF Unfenced, Committed, Closing
<1>5. CloseBacked'
    BY DEF CloseBacked
<1> QED BY <1>1, <1>3, <1>4, <1>5

\* A step beside the leases, the gate and the closers, which touches the run
\* only while the runner closes nothing.
LEMMA Aside ==
    ASSUME IInv, TypeOK', StartSide',
           UNCHANGED <<cache, unconfirmed, durable, stop, health, ack, closer, ReservedBy,
                       finalizing, terminalOwner>>,
           start'.pc = "reading" => start.pc = "reading" /\ start'.row = start.row,
           UNCHANGED <<run, live>> \/ ~Begun(Runner)
    PROVE  IInv'
<1> USE DEF IInv
<1>1. Generations' /\ RowsFetched' /\ Unfenced' /\ Committed' /\ CloseBacked'
    <2>1. /\ ack'.pc # "idle" /\ ack'.d212
               => cache.bound /\ ack'.gen <= cache.gen /\ durable.gen >= ack'.gen
          /\ \A x \in Closers :
               /\ closer'[x].pc # "idle" /\ closer'[x].d212
                    => cache.bound /\ closer'[x].gen <= cache.gen
               /\ closer'[x].pc \in Proving => ~closer'[x].committed
        BY DEF Generations, Committed
    <2> QED BY <2>1, Settled
<1>2. Gate' /\ Claims'
    BY DEF Gate, Claims, AtCurrent, AckAtCurrent, Begun
<1>3. RunnerSide'
    BY DEF RunnerSide, Superseded, AckAtCurrent, Begun
<1> QED BY <1>1, <1>2, <1>3

LEMMA InvOfAsides ==
    ASSUME IInv, TypeOK',
           \/ \E s \in Stops : DispatchStop(s) \/ WithdrawStop(s) \/ FinishStop(s)
           \/ StartCreatesRun \/ StartPublishes \/ StartBuildFails \/ StartBuildsRunner
           \/ StartWrites \/ StartNotWritten \/ FinishRoutine \/ FaultControlWrites
           \/ RevokePendingStart \/ ClearStep \/ RunCompletes \/ RunFaults
    PROVE  IInv'
<1> USE DEF port, lease, gate, roast, history
<1>0. StartSide /\ (Begun(Runner) => live = "faulted") /\ start \in StartType
    BY DEF IInv, RunnerSide, TypeOK, StartType
<1>n. NoStart.pc = "idle"
    BY DEF NoStart
<1>1. ASSUME NEW s \in Stops, DispatchStop(s) \/ WithdrawStop(s) \/ FinishStop(s) PROVE IInv'
    <2>1. /\ UNCHANGED <<lease, durable, gate, run, stop, start, closer, ack, health, ReservedBy>>
          /\ live' = live \/ (live \in {"running", "recovered"} /\ live' = "faulted")
        BY <1>1 DEF DispatchStop, WithdrawStop, FinishStop, Port!StartStop, Port!Withdraw,
            Port!Finish, ReservedBy
    <2>2. StartSide'
        BY <2>1, <1>0 DEF StartSide
    <2> QED BY <2>1, <2>2, <1>0, Aside
<1>2. CASE StartCreatesRun \/ StartPublishes \/ StartBuildFails \/ StartBuildsRunner
    <2>1. start.pc \in {"creating", "created", "building"} /\ ~Begun(Runner)
        BY <1>2, <1>0 DEF StartCreatesRun, StartPublishes, StartBuildFails, StartBuildsRunner,
            StartSide
    <2>2. /\ UNCHANGED <<lease, durable, gate, stop, closer, ack, health, ReservedBy>>
          /\ start'.pc # "reading"
        BY <1>2, <1>0, <1>n DEF StartCreatesRun, StartPublishes, StartBuildFails,
            StartBuildsRunner, StartIdles, StartType, StartPcs, ReservedBy
    <2>3. StartSide'
        BY <1>2, <1>0, <1>n DEF StartCreatesRun, StartPublishes, StartBuildFails,
            StartBuildsRunner, StartIdles, StartSide, StartType, StartPcs
    <2> QED BY <2>1, <2>2, <2>3, Aside
<1>3. CASE StartWrites \/ StartNotWritten
    <2>1. /\ UNCHANGED <<lease, durable, gate, run, stop, closer, ack, health, ReservedBy>>
          /\ start'.pc = "idle"
          /\ live' = live \/ live = "running"
        BY <1>3, <1>n DEF StartWrites, StartNotWritten, StartIdles, Port!StartRoutine, ReservedBy
    <2>2. StartSide'
        BY <2>1 DEF StartSide
    <2> QED BY <2>1, <2>2, <1>0, Aside
<1>4. CASE FinishRoutine \/ FaultControlWrites \/ ClearStep
    <2>1. UNCHANGED <<lease, durable, gate, roast, stop, start, closer, ack, health, ReservedBy>>
        BY <1>4 DEF FinishRoutine, FaultControlWrites, ClearStep, RequestClearance,
            ProveClearance, PersistClearance, Clear, Port!StartRoutine, Port!Finish, ReservedBy
    <2>2. StartSide'
        BY <2>1, <1>0 DEF StartSide
    <2> QED BY <2>1, <2>2, Aside
<1>5. CASE RevokePendingStart
    <2>1. /\ UNCHANGED <<lease, durable, gate, roast, stop, closer, ack, health, ReservedBy>>
          /\ start'.pc = start.pc /\ start'.row = start.row
        BY <1>5, <1>0, OutdatedFacts DEF RevokePendingStart, ReservedBy
    <2>2. StartSide'
        BY <2>1, <1>0 DEF StartSide
    <2> QED BY <2>1, <2>2, Aside
<1>6. CASE RunCompletes \/ RunFaults
    <2>1. /\ UNCHANGED <<lease, durable, gate, stop, start, closer, ack, health, ReservedBy>>
          /\ live = "running" /\ start.pc = "idle"
        BY <1>6 DEF RunCompletes, RunFaults, ReservedBy
    <2>2. StartSide'
        BY <2>1 DEF StartSide
    <2> QED BY <2>1, <2>2, <1>0, Aside
<1> QED BY <1>1, <1>2, <1>3, <1>4, <1>5, <1>6

-----------------------------------------------------------------------------
(* The cache is read or made unknown: the row and the admissions stay.     *)

LEMMA FetchedKept ==
    ASSUME TypeOK, TypeOK', UNCHANGED <<unconfirmed, durable>>, Newer,
           \A x \in Closers : closer[x].pc = "marked" =>
                closer'[x].pc = "marked" /\ closer'[x].gen = closer[x].gen
    PROVE  \A r : Fetched(r) => Fetched(r)'
<1> SUFFICES ASSUME NEW r, Fetched(r) PROVE Fetched(r)'
    OBVIOUS
<1>0. r.gen \in Nat /\ cache'.gen \in Nat
    BY DEF Fetched, Leases, TypeOK
<1>1. r.status = "closed" =>
         \/ durable'.gen = r.gen /\ durable'.status = "closed"
         \/ cache'.bound /\ cache'.gen > r.gen
         \/ /\ cache'.bound /\ cache'.gen = r.gen
            /\ \/ unconfirmed' = cache'.gen
               \/ \E c \in Closers : closer'[c].pc = "marked" /\ closer'[c].gen = cache'.gen
    <2> SUFFICES ASSUME r.status = "closed", cache.bound, cache'.gen >= cache.gen, cache'.bound
                 PROVE  \/ ~(cache.gen > r.gen \/ cache.gen = r.gen)
                        \/ cache'.gen > r.gen
                        \/ cache'.gen = cache.gen
        BY DEF Fetched, Newer
    <2> QED BY <1>0, Fields
<1> QED BY <1>1 DEF Fetched, Sound

LEMMA RowsKept ==
    ASSUME RowsFetched, \A r : Fetched(r) => Fetched(r)', health' = health,
           start'.pc = "reading" => start.pc = "reading" /\ start'.row = start.row
    PROVE  RowsFetched'
<1>1. /\ health # NoRow => Fetched(health)
      /\ start.pc = "reading" => Fetched(start.row)
    BY DEF RowsFetched
<1>2. health' # NoRow => Fetched(health)'
    BY <1>1 DEF Fetched, Sound
<1>3. start'.pc = "reading" => Fetched(start.row)'
    BY <1>1 DEF Fetched, Sound
<1> QED BY <1>2, <1>3 DEF RowsFetched

\* What a newer cache may show, and what the requests may have become.
CacheMayShow ==
    /\ Newer
    /\ cache'.bound => cache'.gen >= 1
    /\ cache'.status = "open" => cache'.bound /\ durable.gen >= cache'.gen
    /\ unconfirmed = cache'.gen => cache'.gen = cache.gen /\ cache'.status = "unknown"
    /\ cache'.status = "closed" =>
         \/ durable.gen = cache'.gen /\ durable.status = "closed"
         \/ \E c \in Closers : closer[c].pc = "marked" /\ closer[c].gen = cache'.gen

ClosersKeep ==
    \A x \in Closers :
       /\ closer'[x].pc \in Closing =>
            closer[x].pc \in Closing /\ closer'[x].committed = closer[x].committed
       /\ closer'[x].pc \in Proving =>
            closer[x].pc \in Proving /\ closer'[x].committed = closer[x].committed
       /\ closer[x].pc = "marked" => closer'[x].pc = "marked"
       /\ closer'[x].pc = "closed" => closer'[x].committed

LEMMA CacheStep ==
    ASSUME IInv, TypeOK', CacheMayShow, Advances, ClosersKeep,
           UNCHANGED <<unconfirmed, durable, ack, ReservedBy, finalizing, terminalOwner, run, live>>,
           \A s \in Stops : stop'[s].pc # "idle" =>
                stop[s].pc # "idle" /\ stop'[s].gen = stop[s].gen
    PROVE  /\ Generations' /\ Gate' /\ RunnerSide' /\ Claims' /\ Unfenced' /\ Committed'
           /\ CloseBacked'
           /\ \A r : Fetched(r) => Fetched(r)'
<1> USE Fields DEF IInv
<1>0. cache'.gen \in Nat /\ Newer
    BY DEF TypeOK, Leases, CacheMayShow
<1>1. Gate' /\ RunnerSide' /\ Claims'
    BY <1>0, Carried
<1>2. Generations'
    <2>1. \A s \in Stops : stop'[s].pc # "idle" => cache'.bound /\ stop'[s].gen <= cache'.gen
        BY <1>0 DEF Generations, Newer
    <2>2. \A c \in Closers : closer'[c].pc # "idle" /\ closer'[c].d212
                               => cache'.bound /\ closer'[c].gen <= cache'.gen
        BY <1>0 DEF Generations, Newer, Advances
    <2>3. ack'.pc # "idle" /\ ack'.d212
            => cache'.bound /\ ack'.gen <= cache'.gen /\ durable'.gen >= ack'.gen
        BY <1>0 DEF Generations, Newer
    <2>4. unconfirmed' # NoGeneration => cache'.bound /\ unconfirmed' <= cache'.gen
        BY <1>0 DEF Generations, Newer
    <2> QED BY <2>1, <2>2, <2>3, <2>4 DEF Generations, CacheMayShow, Sound
<1>3. \A c \in Closers : closer[c].pc \in Closing /\ closer[c].gen = cache'.gen
                           => cache'.gen = cache.gen
    <2>1. \A c \in Closers : closer[c].pc \in Closing => closer[c].pc # "idle" /\ closer[c].d212
        BY DEF Gate, Closing
    <2> QED BY <1>0, <2>1 DEF Generations, Newer
<1>4. \A c \in Closers : closer'[c].pc \in Closing =>
          closer[c].pc \in Closing /\ closer'[c].gen = closer[c].gen
    BY DEF ClosersKeep, Advances, Closing
<1>5. Unfenced'
    BY <1>3, <1>4 DEF Unfenced
<1>6. Committed'
    BY <1>3, <1>4 DEF Committed, ClosersKeep, Closing, Proving
<1>7. \A c \in Closers : closer[c].pc = "marked" =>
          closer'[c].pc = "marked" /\ closer'[c].gen = closer[c].gen
    BY DEF ClosersKeep, Advances
<1>8. CloseBacked'
    BY <1>7 DEF CloseBacked, CacheMayShow
<1>9. \A r : Fetched(r) => Fetched(r)'
    BY <1>0, <1>7, FetchedKept
<1> QED BY <1>1, <1>2, <1>5, <1>6, <1>8, <1>9

\* With the closers where they were.
LEMMA ClosersStay ==
    ASSUME Gate, Committed, UNCHANGED closer
    PROVE  Advances /\ ClosersKeep
BY DEF Gate, Committed, Advances, ClosersKeep, Ended

LEMMA CacheStays ==
    ASSUME TypeOK, Generations, CloseBacked, cache' = cache PROVE CacheMayShow
BY Fields DEF Generations, CloseBacked, CacheMayShow, Newer

LEMMA CacheRead ==
    ASSUME TypeOK, Generations, CloseBacked,
           NEW r, Fetched(r) \/ r = UnreadableRow, cache' = Reconciled(r)
    PROVE  CacheMayShow
<1> DEFINE n == Reconciled(r)
<1>1. /\ cache.bound => n.bound /\ n.gen >= cache.gen
      /\ n.bound => n.gen >= 1
      /\ n.status = "open" => n.bound /\ durable.gen >= n.gen
      /\ unconfirmed = n.gen => n.gen = cache.gen /\ n.status = "unknown"
      /\ n.status = "closed" =>
           \/ durable.gen = n.gen /\ durable.status = "closed"
           \/ \E c \in Closers : closer[c].pc = "marked" /\ closer[c].gen = n.gen
    BY ReadFacts
<1>2. cache' = n
    OBVIOUS
<1> HIDE DEF n
<1> QED BY <1>1, <1>2 DEF CacheMayShow, Newer

LEMMA CacheUnknown ==
    ASSUME TypeOK, Generations, CloseBacked, cache' = UnknownAt(cache.gen) PROVE CacheMayShow
<1>1. cache'.gen = cache.gen /\ cache'.bound = cache.bound /\ cache'.status = "unknown"
    BY DEF UnknownAt, TypeOK, Leases
<1> QED BY <1>1, Fields DEF CacheMayShow, Newer, Generations

LEMMA InvOfReads ==
    ASSUME IInv, TypeOK', HealthFetch \/ HealthRead \/ StartAdmitted \/ StartReadsLease
    PROVE  IInv'
<1> USE DEF IInv, port, lease, gate, roast, history
<1>0. Fetched(durable) /\ NoStart.pc = "idle"
    BY DurableFetched DEF NoStart
<1>1. ASSUME UNCHANGED <<unconfirmed, durable, stop, closer, ack, ReservedBy, finalizing,
                         terminalOwner, run, live>>,
             CacheMayShow
      PROVE  /\ Generations' /\ Gate' /\ RunnerSide' /\ Claims' /\ Unfenced' /\ Committed'
             /\ CloseBacked'
             /\ \A r : Fetched(r) => Fetched(r)'
    <2>1. Advances /\ ClosersKeep
        BY <1>1, ClosersStay
    <2> QED BY <1>1, <2>1, CacheStep
<1>2. CASE HealthFetch
    <2>1. /\ UNCHANGED <<cache, unconfirmed, durable, stop, start, closer, ack, ReservedBy,
                         finalizing, terminalOwner, run, live>>
          /\ health' = durable
        BY <1>2 DEF HealthFetch, ReservedBy
    <2>2. CacheMayShow
        BY <2>1, CacheStays
    <2>3. RowsFetched'
        BY <1>0, <1>1, <2>1, <2>2 DEF RowsFetched, Fetched, Sound
    <2>4. StartSide'
        BY <2>1 DEF StartSide
    <2> QED BY <1>1, <2>1, <2>2, <2>3, <2>4
<1>3. CASE HealthRead
    <2>1. /\ UNCHANGED <<unconfirmed, durable, stop, start, closer, ack, ReservedBy,
                         finalizing, terminalOwner, run, live>>
          /\ health' = NoRow
        BY <1>3 DEF HealthRead, ReservedBy
    <2>2. PICK r \in {durable, UnreadableRow} \cup ({health} \ {NoRow}) : cache' = Reconciled(r)
        BY <1>3 DEF HealthRead
    <2>3. Fetched(r) \/ r = UnreadableRow
        BY <1>0 DEF RowsFetched
    <2>4. CacheMayShow
        BY <2>2, <2>3, CacheRead
    <2>5. start'.pc = "reading" => Fetched(start.row)'
        <3>1. start.pc = "reading" => Fetched(start.row)
            BY DEF RowsFetched
        <3> QED BY <1>1, <2>1, <2>4, <3>1 DEF Fetched, Sound
    <2>6. StartSide' /\ RowsFetched'
        BY <2>1, <2>5 DEF StartSide, RowsFetched
    <2> QED BY <1>1, <2>1, <2>4, <2>6
<1>4. CASE StartAdmitted
    <2>1. /\ UNCHANGED <<cache, unconfirmed, durable, stop, health, closer, ack, ReservedBy,
                         finalizing, terminalOwner, run, live>>
          /\ start'.pc = "reading" /\ start'.row = durable
        BY <1>4 DEF StartAdmitted, ReservedBy
    <2>2. CacheMayShow
        BY <2>1, CacheStays
    <2>3. \A r : Fetched(r) => Fetched(r)'
        BY <1>1, <2>1, <2>2
    <2>4. health' # NoRow => Fetched(health)'
        <3>1. health # NoRow => Fetched(health)
            BY DEF RowsFetched
        <3> QED BY <2>1, <2>3, <3>1 DEF Fetched, Sound
    <2>5. Fetched(start.row)'
        BY <1>0, <2>1, <2>3 DEF Fetched, Sound
    <2>6. RowsFetched' /\ StartSide'
        BY <2>1, <2>4, <2>5 DEF RowsFetched, StartSide
    <2> QED BY <1>1, <2>1, <2>2, <2>6
<1>5. CASE StartReadsLease
    <2>1. UNCHANGED <<unconfirmed, durable, stop, health, closer, ack, ReservedBy,
                      finalizing, terminalOwner, run, live>>
        BY <1>5 DEF StartReadsLease, ReservedBy
    <2>2. PICK r \in {start.row, UnreadableRow} :
              /\ cache' = Reconciled(r)
              /\ \/ /\ live \in {"none", "finalized"}
                    /\ start' = [start EXCEPT !.pc = "creating", !.gen = Reconciled(r).gen,
                                              !.row = NoRow]
                 \/ start' = NoStart
        BY <1>5 DEF StartReadsLease, StartIdles
    <2>3. Fetched(r) \/ r = UnreadableRow
        BY <1>5 DEF RowsFetched, StartReadsLease
    <2>4. CacheMayShow
        BY <2>2, <2>3, CacheRead
    <2>5. start'.pc \in {"creating", "idle"} /\ (start'.pc = "creating" => live \in {"none", "finalized"})
        BY <1>0, <2>2 DEF TypeOK
    <2>6. health' # NoRow => Fetched(health)'
        <3>1. health # NoRow => Fetched(health)
            BY DEF RowsFetched
        <3> QED BY <1>1, <2>1, <2>4, <3>1 DEF Fetched, Sound
    <2>7. RowsFetched' /\ StartSide'
        BY <2>1, <2>5, <2>6 DEF RowsFetched, StartSide
    <2> QED BY <1>1, <2>1, <2>4, <2>7
<1> QED BY <1>2, <1>3, <1>4, <1>5

\* A stop whose task only ends, or which makes the cache unknown.
LEMMA InvOfStopEnds ==
    ASSUME IInv, TypeOK', NEW s \in Stops, AuditStop(s) \/ PersistStopFails(s)
    PROVE  IInv'
<1> USE DEF IInv, port, lease, gate, roast, history
<1>1. /\ UNCHANGED <<unconfirmed, durable, closer, ack, ReservedBy, finalizing, terminalOwner,
                     run, live, health, start>>
      /\ stop' = [stop EXCEPT ![s] = NoStop]
      /\ cache' \in {cache, UnknownAt(cache.gen)}
    BY DEF AuditStop, PersistStopFails, ReservedBy
<1>2. CacheMayShow
    BY <1>1, CacheStays, CacheUnknown
<1>3. Advances /\ ClosersKeep
    BY <1>1, ClosersStay
<1>4. \A x \in Stops : stop'[x].pc # "idle" =>
           stop[x].pc # "idle" /\ stop'[x].gen = stop[x].gen
    BY <1>1 DEF NoStop, TypeOK
<1>5. /\ Generations' /\ Gate' /\ RunnerSide' /\ Claims' /\ Unfenced' /\ Committed'
      /\ CloseBacked'
      /\ \A r : Fetched(r) => Fetched(r)'
    BY <1>1, <1>2, <1>3, <1>4, CacheStep
<1>6. RowsFetched'
    BY <1>1, <1>5, RowsKept
<1>7. StartSide'
    BY <1>1 DEF StartSide
<1> QED BY <1>5, <1>6, <1>7

-----------------------------------------------------------------------------
(* Emergency stops.                                                        *)

LEMMA InvOfPersist == ASSUME IInv, TypeOK', NEW s \in Stops, PersistStop(s) PROVE IInv'
<1> USE Fields DEF IInv, port, lease, gate, roast, history
<1>1. /\ UNCHANGED <<cache, unconfirmed, closer, ack, ReservedBy, finalizing, terminalOwner,
                     run, live, health, start>>
      /\ stop' = [stop EXCEPT ![s].pc = "written"] /\ stop[s].pc = "queued"
    BY DEF PersistStop, ReservedBy
<1>2. Newer /\ CacheMayShow
    BY <1>1, CacheStays DEF Newer
<1>3. Advances /\ ClosersKeep
    BY <1>1, ClosersStay
<1>4. \A x \in Stops : stop'[x].pc # "idle" =>
           stop[x].pc # "idle" /\ stop'[x].gen = stop[x].gen
    BY <1>1 DEF TypeOK
<1>5. StartSide'
    BY <1>1 DEF StartSide
<1>6. CASE ~(stop[s].gen > durable.gen)
    <2>1. durable' = durable
        BY <1>6 DEF PersistStop
    <2>2. /\ Generations' /\ Gate' /\ RunnerSide' /\ Claims' /\ Unfenced' /\ Committed'
          /\ CloseBacked'
          /\ \A r : Fetched(r) => Fetched(r)'
        BY <1>1, <1>2, <1>3, <1>4, <2>1, CacheStep
    <2>3. RowsFetched'
        BY <1>1, <2>2, RowsKept
    <2> QED BY <1>5, <2>2, <2>3
<1>7. CASE stop[s].gen > durable.gen
    <2>1. /\ durable'.gen = stop[s].gen /\ durable'.bound /\ durable'.exact = stop[s].exact
          /\ durable'.status = IF stop[s].exact THEN "open" ELSE "unknown"
        BY <1>7 DEF PersistStop
    <2>2. durable'.gen > durable.gen /\ durable'.gen <= cache.gen /\ cache.bound
        BY <1>1, <1>7, <2>1 DEF Generations
    <2>3. durable'.gen \in Nat /\ durable'.gen >= 1
        BY <2>1, <2>2
    <2>4. Generations'
        <3>1. Sound(durable)'
            BY <2>1, <2>3 DEF Sound
        <3>2. cache.status = "open" => durable'.gen >= cache.gen
            BY <2>2, <2>3 DEF Generations
        <3>3. ack.pc # "idle" /\ ack.d212 => durable'.gen >= ack.gen
            BY <2>2, <2>3 DEF Generations
        <3>4. \A x \in Stops : stop'[x].pc # "idle" => cache.bound /\ stop'[x].gen <= cache.gen
            BY <1>4 DEF Generations
        <3> QED BY <1>1, <3>1, <3>2, <3>3, <3>4 DEF Generations
    <2>5. ASSUME NEW r, Fetched(r) PROVE Fetched(r)'
        <3>1. r \in Leases /\ r.gen \in Nat /\ r.gen <= durable.gen
            BY <2>5 DEF Fetched, Leases
        <3>2. r.gen < durable'.gen /\ r.gen < cache.gen
            BY <2>2, <2>3, <3>1
        <3>3. r.gen <= durable'.gen /\ r.gen # durable'.gen /\ cache.gen > r.gen
            BY <2>2, <2>3, <3>1, <3>2
        <3>4. Sound(r)
            BY <2>5 DEF Fetched
        <3> QED BY <1>1, <2>2, <3>1, <3>3, <3>4 DEF Fetched, Sound
    <2>6. RowsFetched'
        BY <1>1, <2>5, RowsKept
    <2>7. durable.gen # cache.gen
        BY <2>2, <2>3
    <2>8. Committed' /\ CloseBacked' /\ Unfenced'
        BY <1>1, <2>7 DEF Committed, CloseBacked, Unfenced
    <2>9. Gate' /\ RunnerSide' /\ Claims'
        BY <1>1, <1>2, <1>3, Carried
    <2> QED BY <1>5, <2>4, <2>6, <2>8, <2>9
<1> QED BY <1>6, <1>7

\* A close of the published generation never was: its row is not of this stop.
LEMMA InvOfPublish == ASSUME IInv, TypeOK', NEW s \in Stops, PublishStop(s) PROVE IInv'
<1> USE Fields DEF IInv, port, lease, gate, roast, history
<1>1. /\ UNCHANGED <<durable, closer, ack, ReservedBy, finalizing, terminalOwner,
                     run, live, health, start>>
      /\ stop[s].pc = "written"
    BY DEF PublishStop, ReservedBy
<1>2. Advances /\ ClosersKeep /\ StartSide'
    BY <1>1, ClosersStay DEF StartSide
<1>3. CASE UNCHANGED lease /\ stop' = [stop EXCEPT ![s] = NoStop]
    <2>1. CacheMayShow
        BY <1>3, CacheStays
    <2>2. \A x \in Stops : stop'[x].pc # "idle" =>
               stop[x].pc # "idle" /\ stop'[x].gen = stop[x].gen
        BY <1>3 DEF NoStop, TypeOK
    <2>3. /\ Generations' /\ Gate' /\ RunnerSide' /\ Claims' /\ Unfenced' /\ Committed'
          /\ CloseBacked'
          /\ \A r : Fetched(r) => Fetched(r)'
        BY <1>1, <1>2, <1>3, <2>1, <2>2, CacheStep
    <2>4. RowsFetched'
        BY <1>1, <2>3, RowsKept
    <2> QED BY <1>2, <2>3, <2>4
<1>4. CASE ~(UNCHANGED lease /\ stop' = [stop EXCEPT ![s] = NoStop])
    <2>1. /\ cache = [gen |-> stop[s].gen, status |-> "unknown", bound |-> TRUE,
                      exact |-> stop[s].exact]
          /\ durable = [cache EXCEPT !.status = IF stop[s].exact THEN "open" ELSE "unknown"]
          /\ cache' = durable /\ unconfirmed' = NoGeneration
          /\ stop' = [stop EXCEPT ![s].pc = "published"]
        BY <1>4 DEF PublishStop
    <2>2. /\ cache.gen = durable.gen /\ durable.bound /\ durable.exact = stop[s].exact
          /\ durable.status = IF stop[s].exact THEN "open" ELSE "unknown"
        BY <2>1
    <2>3. /\ cache'.gen = cache.gen /\ cache'.bound /\ cache'.status # "closed"
          /\ unconfirmed' # cache'.gen
        BY <2>1, <2>2, NamesAssumption
    <2>4. \A x \in Stops : stop'[x].pc # "idle" =>
               stop[x].pc # "idle" /\ stop'[x].gen = stop[x].gen
        BY <1>1, <2>1 DEF TypeOK
    <2>5. Newer
        BY <2>3 DEF Newer
    <2>6. Generations'
        <3>1. \A x \in Stops : stop'[x].pc # "idle" => stop'[x].gen <= cache.gen
            BY <2>4 DEF Generations
        <3>2. \A c \in Closers : closer[c].pc # "idle" /\ closer[c].d212 => closer[c].gen <= cache.gen
            BY DEF Generations
        <3>3. Sound(durable) /\ durable.gen >= cache.gen /\ cache.gen >= 1
            BY <2>1, <2>2 DEF Generations
        <3>4. ack.pc # "idle" /\ ack.d212 => ack.gen <= cache.gen /\ durable.gen >= ack.gen
            BY DEF Generations
        <3> QED BY <1>1, <2>1, <2>3, <3>1, <3>2, <3>3, <3>4 DEF Generations, Sound
    <2>7. ASSUME NEW r, Fetched(r) PROVE Fetched(r)'
        <3>1. r \in Leases /\ r.gen \in Nat /\ r.gen <= durable.gen
            BY <2>7 DEF Fetched, Leases
        <3>2. r.status = "closed" => r.gen # cache.gen
            <4>1. r.gen = durable.gen /\ r.status = "closed" => r.exact
                <5>1. durable.gen # 0
                    BY <2>1, <2>2 DEF Generations
                <5>2. r.status = "closed" => r.exact \/ r.gen = 0
                    BY <2>7 DEF Fetched, Sound
                <5> QED BY <5>1, <5>2
            <4> QED BY <2>2, <2>7, <4>1 DEF Fetched
        <3>3. r.status = "closed" => cache.gen > r.gen
            BY <2>2, <3>1, <3>2
        <3> QED BY <1>1, <2>3, <2>7, <3>1, <3>3 DEF Fetched, Sound
    <2>8. RowsFetched'
        BY <1>1, <2>7, RowsKept
    <2>9. Unfenced' /\ Committed' /\ CloseBacked'
        BY <1>1, <2>3 DEF Unfenced, Committed, CloseBacked
    <2>10. Gate' /\ RunnerSide' /\ Claims'
        BY <1>1, <1>2, <2>5, Carried
    <2> QED BY <1>2, <2>6, <2>8, <2>9, <2>10
<1> QED BY <1>3, <1>4

LEMMA InvOfAdmit == ASSUME IInv, TypeOK', NEW s \in Stops, AdmitStop(s) PROVE IInv'
<1> USE Fields DEF IInv, port, lease, gate, roast, history
<1>0. /\ closer \in [Closers -> CloserType] /\ start \in StartType /\ ack \in AckType
      /\ cache'.gen \in Nat /\ Runner \in Closers /\ Terminals \subseteq Closers
    BY DEF TypeOK, CloserType, StartType, AckType, Closers, Leases
<1>1. /\ UNCHANGED <<durable, finalizing, terminalOwner, run, live, health>>
      /\ cache'.gen = cache.gen + 1 /\ cache'.status = "unknown" /\ cache'.bound
      /\ unconfirmed' = cache.gen + 1
      /\ \A x \in Stops : stop'[x].pc # "idle" =>
              stop'[x].gen = cache.gen + 1 \/ (stop[x].pc # "idle" /\ stop'[x].gen = stop[x].gen)
    BY DEF AdmitStop, TypeOK
<1>2. \A c \in Closers : /\ closer'[c].pc = closer[c].pc /\ closer'[c].gen = closer[c].gen
                         /\ closer'[c].d212 = closer[c].d212
                         /\ closer'[c].committed = closer[c].committed
    BY <1>0, OutdatedFacts DEF AdmitStop
<1>3. /\ start'.pc = start.pc /\ start'.row = start.row
      /\ ack'.pc = ack.pc /\ ack'.gen = ack.gen /\ ack'.d212 = ack.d212
    BY <1>0, OutdatedFacts DEF AdmitStop
<1>4. \A c \in Closers : closer[c].pc # "idle" /\ closer[c].d212 =>
          closer[c].gen <= cache.gen /\ closer[c].gen # cache'.gen
    BY <1>1 DEF Generations
<1>5. ack.pc # "idle" /\ ack.d212 => ack.gen <= cache.gen /\ ack.gen # cache'.gen
    BY <1>1 DEF Generations
<1>6. Generations'
    <2>1. \A x \in Stops : stop'[x].pc # "idle" => stop'[x].gen <= cache'.gen
        BY <1>1 DEF Generations
    <2>2. \A c \in Closers : closer'[c].pc # "idle" /\ closer'[c].d212 => closer'[c].gen <= cache'.gen
        BY <1>1, <1>2, <1>4
    <2>3. ack'.pc # "idle" /\ ack'.d212 => ack'.gen <= cache'.gen /\ durable'.gen >= ack'.gen
        BY <1>1, <1>3, <1>5 DEF Generations
    <2>4. Sound(durable)' /\ cache'.gen >= 1 /\ unconfirmed' <= cache'.gen
        BY <1>1 DEF Generations, Sound
    <2> QED BY <1>1, <2>1, <2>2, <2>3, <2>4 DEF Generations
<1>7. ASSUME NEW r, Fetched(r) PROVE Fetched(r)'
    <2>1. r \in Leases /\ r.gen \in Nat
        BY <1>7 DEF Fetched, Leases
    <2>2. r.status = "closed" => \/ durable.gen = r.gen /\ durable.status = "closed"
                                 \/ cache'.gen > r.gen
        BY <1>1, <1>7, <2>1 DEF Fetched
    <2> QED BY <1>1, <1>7, <2>2 DEF Fetched, Sound
<1>8. RowsFetched' /\ StartSide'
    BY <1>1, <1>3, <1>7, RowsKept DEF StartSide
<1>9. Gate'
    BY <1>0, <1>1, <1>2 DEF Gate, Begun
<1>10. \A c \in Closers : ~AtCurrent(c)'
    BY <1>2, <1>4 DEF AtCurrent, Begun, Ended
<1>11. ~AckAtCurrent'
    BY <1>3, <1>5 DEF AckAtCurrent
<1>12. Claims'
    BY <1>0, <1>10 DEF Claims
<1>13. RunnerSide'
    <2>1. \A t \in Terminals : closer'[t].pc # "idle" => closer'[t].gen # cache'.gen
        BY <1>0, <1>2, <1>4 DEF Gate
    <2> QED BY <1>0, <1>1, <1>2, <1>11, <2>1 DEF RunnerSide, Begun
<1>14. \A c \in Closers : closer'[c].pc \in Closing => closer'[c].gen # cache'.gen
    BY <1>2, <1>4 DEF Gate, Closing
<1>15. Unfenced' /\ Committed' /\ CloseBacked'
    BY <1>1, <1>2, <1>14 DEF Unfenced, Committed, CloseBacked, Closing
<1> QED BY <1>6, <1>8, <1>9, <1>12, <1>13, <1>15

-----------------------------------------------------------------------------
(* Requests, and closers up to their transaction.                          *)

LEMMA Parties ==
    /\ Runner \in Closers /\ Terminals \subseteq Closers /\ Runner \notin Terminals
    /\ \A c \in Closers : c \in Terminals \/ c = Runner
BY NamesAssumption DEF Closers

\* Closers that only move, with their leases and rows where they were.
LEMMA CloserMoves ==
    ASSUME IInv, TypeOK', NEW c \in Closers, NEW p \in CloserPcs, closer' = At(c, p),
           UNCHANGED <<cache, unconfirmed, durable, stop, start, health, ack, ReservedBy,
                       finalizing, terminalOwner, live>>,
           \/ run' = run
           \/ /\ run' = "completed"
              /\ AckAtCurrent /\ Superseded => closer'[Runner].pc = "confirming",
           closer[c].pc \notin {"idle", "marked"}, p \notin Closing,
           p \notin Ended => closer[c].pc \notin Ended,
           p \in Proving => closer[c].pc \in Proving,
           closer[c].pc = "confirming" => p \in Ended
    PROVE  IInv'
<1> USE Fields DEF IInv
<1>0. closer \in [Closers -> CloserType]
    BY DEF TypeOK, CloserType
<1>1. /\ \A x \in Closers : x # c => closer'[x] = closer[x]
      /\ p = "idle" => closer'[c] = NoCloser
      /\ p # "idle" => /\ closer'[c].gen = closer[c].gen
                       /\ closer'[c].d212 = closer[c].d212
                       /\ closer'[c].committed = closer[c].committed
      /\ closer'[c].pc = p
    BY <1>0, AtFacts
<1>2. Advances
    <2>1. closer'[c].pc = "idle" => closer'[c].d212
        BY <1>1 DEF NoCloser
    <2>2. \A x \in Closers : closer[x].pc \in Closing => closer[x].d212
        BY DEF Gate
    <2>3. \A t \in Terminals : closer[t].d212
        BY DEF Gate
    <2> QED BY <1>1, <2>1, <2>2, <2>3 DEF Advances
<1>3. Gate' /\ RunnerSide' /\ Claims'
    BY <1>2, Carried DEF Newer
<1>4. \A x \in Closers :
          /\ closer'[x].pc # "idle" /\ closer'[x].d212
               => cache.bound /\ closer'[x].gen <= cache.gen
          /\ closer'[x].pc \in Closing => closer'[x] = closer[x]
          /\ closer'[x].pc \in Proving => ~closer'[x].committed
          /\ closer[x].pc = "marked" => closer'[x] = closer[x]
    <2>1. \A x \in Closers : closer[x].pc # "idle" /\ closer[x].d212
                               => cache.bound /\ closer[x].gen <= cache.gen
        BY DEF Generations
    <2>2. \A x \in Closers : closer[x].pc \in Proving => ~closer[x].committed
        BY DEF Committed
    <2>3. p \in Proving => p # "idle"
        BY DEF Proving
    <2> QED BY <1>1, <2>1, <2>2, <2>3
<1>5. ack'.pc # "idle" /\ ack'.d212
        => cache.bound /\ ack'.gen <= cache.gen /\ durable.gen >= ack'.gen
    BY DEF Generations
<1>6. Generations' /\ RowsFetched' /\ Unfenced' /\ Committed' /\ CloseBacked'
    BY <1>4, <1>5, Settled
<1>7. StartSide'
    BY DEF StartSide
<1> QED BY <1>3, <1>6, <1>7

LEMMA InvOfProof ==
    ASSUME IInv, TypeOK', NEW c \in Closers,
           \/ WaitForProof(c) \/ ProofFails(c) \/ AlreadySafe(c) \/ StopCooling(c)
           \/ StopCoolingReturns(c) \/ CheckAfterStop(c) \/ ReadBackSafeZero(c)
           \/ Answered(c) \/ TerminalReports(c)
    PROVE  IInv'
<1> USE DEF port, lease, gate, roast, history
<1>1. UNCHANGED <<cache, unconfirmed, durable, stop, start, health, ack, ReservedBy,
                  finalizing, terminalOwner, live, run>>
    BY DEF WaitForProof, ProofFails, AlreadySafe, StopCooling, StopCoolingReturns,
        CheckAfterStop, ReadBackSafeZero, Answered, TerminalReports, Port!StartRoutine,
        Port!Finish, ReservedBy
<1>2. CASE Answered(c) \/ TerminalReports(c)
    <2>1. PICK p \in {"idle", "acknowledged"} : closer' = At(c, p)
        BY <1>2 DEF Answered, TerminalReports
    <2>2. closer[c].pc \in {"acknowledged", "released"} /\ p \in CloserPcs
        BY <1>2 DEF Answered, TerminalReports, CloserPcs
    <2>3. p \notin Closing /\ p \in Ended /\ p \notin Proving
        BY DEF Closing, Ended, Proving
    <2> QED BY <1>1, <2>1, <2>2, <2>3, CloserMoves
<1>3. CASE ~(Answered(c) \/ TerminalReports(c))
    <2>1. PICK p \in {"proving", "failed", "readingBack", "proved", "stopping", "reading"} :
              closer' = At(c, p)
        BY <1>3 DEF WaitForProof, ProofFails, AlreadySafe, StopCooling, StopCoolingReturns,
            CheckAfterStop, ReadBackSafeZero
    <2>2. /\ closer[c].pc \in {"reserved", "proving", "stopping", "reading", "readingBack"}
          /\ p \in CloserPcs
        BY <1>3 DEF WaitForProof, ProofFails, AlreadySafe, StopCooling, StopCoolingReturns,
            CheckAfterStop, ReadBackSafeZero, CloserPcs
    <2>3. p \notin Closing /\ closer[c].pc \in Proving \ (Ended \cup {"marked", "confirming"})
        BY <2>2 DEF Closing, Ended, Proving
    <2>4. closer[c].pc \notin {"idle", "marked"}
        BY <2>2
    <2> QED BY <1>1, <2>1, <2>2, <2>3, <2>4, CloserMoves
<1> QED BY <1>2, <1>3

LEMMA InvOfCompleteRun == ASSUME IInv, TypeOK', CompleteRun PROVE IInv'
<1> USE DEF port, lease, gate, roast, history
<1>1. /\ UNCHANGED <<cache, unconfirmed, durable, stop, start, health, ack, ReservedBy,
                     finalizing, terminalOwner, live>>
      /\ run' = "completed" /\ closer' = At(Runner, "confirming")
      /\ closer[Runner].pc = "completing"
    BY DEF CompleteRun, ReservedBy
<1>2. "confirming" \in CloserPcs \ (Closing \cup Ended \cup Proving)
    BY DEF CloserPcs, Closing, Ended, Proving
<1>3. closer'[Runner].pc = "confirming"
    BY <1>1, <1>2, Parties, AtFacts DEF IInv, TypeOK, CloserType
<1>4. closer[Runner].pc \notin Ended
    BY <1>1 DEF Ended
<1> QED BY <1>1, <1>2, <1>3, <1>4, Parties, CloserMoves

\* The operator's acknowledgement is queued, dropped, or makes the runner begin.
LEMMA InvOfAck == ASSUME IInv, TypeOK', RequestAck \/ QueueAck \/ DropAck PROVE IInv'
<1> USE Fields, Parties DEF IInv, port, lease, gate, roast, history
<1>1. UNCHANGED <<cache, unconfirmed, durable, stop, start, health, closer, ReservedBy,
                  finalizing, terminalOwner, live, run>>
    BY DEF RequestAck, QueueAck, DropAck, ReservedBy
<1>2. /\ ack'.pc # "idle" /\ ack'.d212
           => cache.bound /\ ack'.gen <= cache.gen /\ durable.gen >= ack'.gen
      /\ AckAtCurrent' => AckAtCurrent \/ (~finalizing /\ run = "active")
    <2>1. CASE RequestAck
        <3>1. ack'.gen = cache.gen /\ (ack'.d212 => cache.status = "open")
              /\ ~finalizing /\ run = "active"
            BY <2>1 DEF RequestAck
        <3>2. cache.status = "open" => cache.bound /\ durable.gen >= cache.gen
            BY DEF Generations
        <3>3. ack'.pc # "idle" /\ ack'.d212
                => cache.bound /\ ack'.gen <= cache.gen /\ durable.gen >= ack'.gen
            BY <3>1, <3>2
        <3> QED BY <3>1, <3>3
    <2>2. CASE QueueAck \/ DropAck
        <3>1. \/ ack'.pc = "idle"
              \/ ack.pc # "idle" /\ ack'.gen = ack.gen /\ ack'.d212 = ack.d212
            <4>1. CASE QueueAck
                <5>1. ack.pc = "checked" /\ ack \in AckType
                    BY <4>1 DEF QueueAck, TypeOK, AckType
                <5>2. CASE run = "active" /\ (ack.d212 => Shows(ack))
                    BY <4>1, <5>1, <5>2 DEF QueueAck, AckType
                <5>3. CASE ~(run = "active" /\ (ack.d212 => Shows(ack)))
                    BY <4>1, <5>3 DEF QueueAck, NoAck
                <5> QED BY <5>1, <5>2, <5>3
            <4>2. CASE DropAck
                BY <4>2 DEF DropAck, NoAck
            <4> QED BY <2>2, <4>1, <4>2
        <3>2. AckAtCurrent' => AckAtCurrent
            BY <1>1, <3>1 DEF AckAtCurrent
        <3>3. ack.pc # "idle" /\ ack.d212
                => cache.bound /\ ack.gen <= cache.gen /\ durable.gen >= ack.gen
            BY DEF Generations
        <3> QED BY <3>1, <3>2, <3>3
    <2> QED BY <2>1, <2>2
<1>3. Generations' /\ RowsFetched' /\ Unfenced' /\ Committed' /\ CloseBacked'
    <2>1. \A x \in Closers :
             /\ closer'[x].pc # "idle" /\ closer'[x].d212
                  => cache.bound /\ closer'[x].gen <= cache.gen
             /\ closer'[x].pc \in Proving => ~closer'[x].committed
        BY <1>1 DEF Generations, Committed
    <2> QED BY <1>1, <1>2, <2>1, Settled
<1>4. Gate' /\ StartSide'
    BY <1>1 DEF Gate, StartSide, Begun
<1>5. Claims'
    <2>1. \A t \in Terminals : AtCurrent(t) => finalizing
        BY DEF Gate, AtCurrent
    <2>2. \A x \in Closers : AtCurrent(x)' <=> AtCurrent(x)
        BY <1>1 DEF AtCurrent, Begun
    <2> QED BY <1>1, <1>2, <2>1, <2>2 DEF Claims
<1>6. RunnerSide'
    BY <1>1, <1>2 DEF RunnerSide, Superseded, Begun
<1> QED BY <1>3, <1>4, <1>5, <1>6

LEMMA InvOfRequest == ASSUME IInv, TypeOK', NEW c \in Terminals, RequestTerminal(c) PROVE IInv'
<1> USE Fields, Parties DEF IInv, port, lease, gate, roast, history
<1>1. /\ UNCHANGED <<cache, unconfirmed, durable, stop, start, health, ack, ReservedBy,
                     finalizing, terminalOwner, live, run>>
      /\ cache.status = "open" /\ run = "completed" /\ closer[c].pc = "idle"
    BY DEF RequestTerminal, ReservedBy
<1>2. /\ \A x \in Closers : x # c => closer'[x] = closer[x]
      /\ closer'[c].pc = "requested" /\ closer'[c].gen = cache.gen
      /\ closer'[c].d212 /\ ~closer'[c].committed
    BY DEF RequestTerminal, NoCloser, TypeOK
<1>3. Generations' /\ RowsFetched' /\ Unfenced' /\ Committed' /\ CloseBacked'
    <2>1. \A x \in Closers :
             /\ closer'[x].pc # "idle" /\ closer'[x].d212
                  => cache.bound /\ closer'[x].gen <= cache.gen
             /\ closer'[x].pc \in Proving => ~closer'[x].committed
             /\ closer'[x].pc \in Closing => closer'[x] = closer[x]
             /\ closer[x].pc = "marked" => closer'[x] = closer[x]
        BY <1>1, <1>2 DEF Generations, Committed, Closing
    <2>2. ack'.pc # "idle" /\ ack'.d212
            => cache.bound /\ ack'.gen <= cache.gen /\ durable.gen >= ack'.gen
        BY <1>1 DEF Generations
    <2> QED BY <1>1, <2>1, <2>2, Settled
<1>4. \A x \in Closers : /\ Begun(x)' <=> Begun(x)
                         /\ AtCurrent(x)' <=> AtCurrent(x)
    BY <1>1, <1>2 DEF Begun, AtCurrent, Ended
<1>5. Gate' /\ StartSide'
    <2>1. \A x \in Closers : closer'[x].pc \in Closing => closer'[x].d212
        BY <1>2 DEF Gate, Closing
    <2>2. \A t \in Terminals : closer'[t].d212
        BY <1>2 DEF Gate
    <2> QED BY <1>1, <1>4, <2>1, <2>2 DEF Gate, StartSide
<1>6. Claims'
    BY <1>1, <1>4 DEF Claims, AckAtCurrent
<1>7. RunnerSide'
    <2>1. Superseded' <=> Superseded
        BY <1>1, <1>4 DEF Superseded
    <2>2. c # Runner /\ (AckAtCurrent' <=> AckAtCurrent)
        BY <1>1 DEF AckAtCurrent
    <2> QED BY <1>1, <1>2, <1>4, <2>1, <2>2 DEF RunnerSide
<1> QED BY <1>3, <1>5, <1>6, <1>7

-----------------------------------------------------------------------------
(* Reservations made and released.                                         *)

\* A closer that begins or ends, with its lease and the row where they were.
LEMMA CloserChanges ==
    ASSUME IInv, TypeOK', NEW c \in Closers,
           UNCHANGED <<cache, unconfirmed, durable, stop, start, health>>,
           ack' = ack \/ ack'.pc = "idle",
           \A x \in Closers : x # c => closer'[x] = closer[x],
           closer'[c].pc # "idle" /\ closer'[c].d212
             => cache.bound /\ closer'[c].gen <= cache.gen,
           closer'[c].pc \notin Closing, closer[c].pc # "marked",
           closer'[c].pc \in Proving => ~closer'[c].committed
    PROVE  Generations' /\ RowsFetched' /\ Unfenced' /\ Committed' /\ CloseBacked'
<1> USE DEF IInv
<1>1. ack'.pc # "idle" /\ ack'.d212
        => cache.bound /\ ack'.gen <= cache.gen /\ durable.gen >= ack'.gen
    BY DEF Generations
<1>2. \A x \in Closers :
          /\ closer'[x].pc # "idle" /\ closer'[x].d212
               => cache.bound /\ closer'[x].gen <= cache.gen
          /\ closer'[x].pc \in Closing => closer'[x] = closer[x]
          /\ closer'[x].pc \in Proving => ~closer'[x].committed
          /\ closer[x].pc = "marked" => closer'[x] = closer[x]
    BY DEF Generations, Committed
<1> QED BY <1>1, <1>2, Settled

\* Under OneHolder a closer releases its own reservation and nobody else's.
LEMMA Reserves ==
    ASSUME OneHolder', NEW c, Port!Claim(c) PROVE ReservedBy = {} /\ ReservedBy' = {c}
BY DEF Port!Claim, OneHolder, ReservedBy

LEMMA Releases ==
    ASSUME OneHolder, NEW c, Port!Release(c) PROVE ReservedBy' = ReservedBy \ {c}
BY DEF Port!Release, OneHolder, ReservedBy

LEMMA InvOfRunnerBegins == ASSUME IInv, TypeOK', OneHolder', BeginRunnerClose PROVE IInv'
<1> USE Fields, Parties DEF IInv, port, lease, gate, roast, history
<1>1. /\ UNCHANGED <<cache, unconfirmed, durable, stop, start, health, terminalOwner, live, run>>
      /\ ack.pc = "queued" /\ closer[Runner].pc = "idle" /\ live = "faulted"
      /\ ack.d212 => ack.gen = cache.gen
      /\ ack' = NoAck
    BY DEF BeginRunnerClose, Shows
<1>2. ~AckAtCurrent' /\ ack'.pc = "idle"
    BY <1>1 DEF AckAtCurrent, NoAck
<1>3. StartSide'
    BY <1>1 DEF StartSide
<1>4. CASE admitted = {} /\ ~reserved
    <2>0. ReservedBy = {} /\ ReservedBy' = {Runner}
        BY <1>4, Reserves DEF BeginRunnerClose
    <2>1. /\ ReservedBy' = {Runner} /\ finalizing'
          /\ \A x \in Closers : x # Runner => closer'[x] = closer[x]
          /\ closer'[Runner].pc = "reserved" /\ closer'[Runner].gen = ack.gen
          /\ closer'[Runner].d212 = ack.d212 /\ ~closer'[Runner].committed
        BY <1>4, <2>0 DEF BeginRunnerClose, TypeOK
    <2>2. "reserved" \in Proving \ (Closing \cup Ended)
        BY DEF Proving, Closing, Ended
    <2>3. Generations' /\ RowsFetched' /\ Unfenced' /\ Committed' /\ CloseBacked'
        <3>1. closer'[Runner].d212 => cache.bound /\ closer'[Runner].gen <= cache.gen
            BY <1>1, <2>1 DEF Generations
        <3> QED BY <1>1, <1>2, <2>1, <2>2, <3>1, CloserChanges
    <2>4. Gate'
        <3>1. \A t \in Terminals : closer'[t] = closer[t]
            BY <2>1
        <3>2. \A x \in Closers : closer'[x].pc \in Closing => closer'[x].d212
            BY <2>1, <2>2 DEF Gate
        <3> QED BY <1>1, <2>1, <3>1, <3>2 DEF Gate, Begun
    <2>5. RunnerSide'
        BY <1>1, <1>2, <2>1 DEF RunnerSide, Superseded
    <2>6. Claims'
        <3>1. AtCurrent(Runner)' => AckAtCurrent
            BY <1>1, <2>1 DEF AtCurrent, AckAtCurrent
        <3>2. \A t \in Terminals : AtCurrent(t)' <=> AtCurrent(t)
            BY <1>1, <2>1 DEF AtCurrent, Begun
        <3>3. \A t \in Terminals : AtCurrent(t) => ~AckAtCurrent
            BY <2>0 DEF Claims
        <3> QED BY <1>2, <2>1, <3>1, <3>2, <3>3 DEF Claims
    <2> QED BY <1>3, <2>3, <2>4, <2>5, <2>6
<1>5. CASE ~(admitted = {} /\ ~reserved)
    <2>1. UNCHANGED <<ReservedBy, closer>> /\ finalizing' = terminalOwner
        BY <1>5 DEF BeginRunnerClose, ReservedBy
    <2>2. Generations' /\ RowsFetched' /\ Unfenced' /\ Committed' /\ CloseBacked'
        <3>1. /\ closer'[Runner].pc = "idle"
              /\ "idle" \notin Proving \cup Closing
            BY <1>1, <2>1 DEF Proving, Closing
        <3> QED BY <1>1, <1>2, <2>1, <3>1, CloserChanges
    <2>3. Gate'
        BY <1>1, <2>1 DEF Gate, Begun
    <2>4. RunnerSide' /\ Claims'
        BY <1>1, <1>2, <2>1 DEF RunnerSide, Superseded, Claims, AtCurrent, Begun
    <2> QED BY <1>3, <2>2, <2>3, <2>4
<1> QED BY <1>4, <1>5

LEMMA InvOfTerminalBegins ==
    ASSUME IInv, TypeOK', OneHolder', NEW c \in Terminals, BeginTerminalClose(c)
    PROVE  IInv'
<1> USE Fields, Parties DEF port, lease, gate, roast, history
<1>0. closer \in [Closers -> CloserType] /\ {"idle", "reserved"} \subseteq CloserPcs
    BY DEF IInv, TypeOK, CloserType, CloserPcs
<1>1. /\ UNCHANGED <<cache, unconfirmed, durable, stop, start, health, ack, live, run>>
      /\ closer[c].pc = "requested"
    BY DEF BeginTerminalClose
<1>2. CASE ~(~finalizing /\ admitted = {} /\ ~reserved)
    <2>1. UNCHANGED <<ReservedBy, finalizing, terminalOwner>> /\ closer' = At(c, "idle")
        BY <1>2 DEF BeginTerminalClose, ReservedBy
    <2>2. "idle" \in Ended \ (Proving \cup Closing)
        BY DEF Ended, Proving, Closing
    <2> QED BY <1>0, <1>1, <2>1, <2>2, CloserMoves
<1>3. CASE ~finalizing /\ admitted = {} /\ ~reserved
    <2> USE DEF IInv
    <2>0. ReservedBy = {} /\ ReservedBy' = {c}
        BY <1>3, Reserves DEF BeginTerminalClose
    <2>1. ReservedBy' = {c} /\ finalizing' = TRUE /\ terminalOwner' = TRUE /\ closer' = At(c, "reserved")
        BY <1>3, <2>0 DEF BeginTerminalClose
    <2>2. /\ \A x \in Closers : x # c => closer'[x] = closer[x]
          /\ closer'[c].pc = "reserved" /\ closer'[c].gen = closer[c].gen
          /\ closer'[c].d212 = closer[c].d212 /\ closer'[c].committed = closer[c].committed
        BY <1>0, <2>1, AtFacts
    <2>3. /\ "reserved" \in Proving \ (Closing \cup Ended)
          /\ "requested" \in Proving \cap Ended
        BY DEF Proving, Closing, Ended
    <2>4. Generations' /\ RowsFetched' /\ Unfenced' /\ Committed' /\ CloseBacked'
        <3>1. /\ closer'[c].d212 => cache.bound /\ closer'[c].gen <= cache.gen
              /\ ~closer'[c].committed
            BY <1>1, <2>2, <2>3 DEF Generations, Committed
        <3> QED BY <1>1, <2>2, <2>3, <3>1, CloserChanges
    <2>5. \A t \in Terminals : ~Begun(t) /\ (t # c => ~Begun(t)')
        BY <1>3, <2>2 DEF Gate, Begun
    <2>6. Gate'
        <3>1. \A x \in Closers : closer'[x].pc \in Closing => closer'[x].d212
            BY <2>2, <2>3 DEF Gate
        <3>2. \A t \in Terminals : closer'[t].d212
            BY <2>2 DEF Gate
        <3> QED BY <2>1, <2>5, <3>1, <3>2 DEF Gate
    <2>7. RunnerSide'
        <3>1. closer'[Runner] = closer[Runner] /\ (Superseded' => Superseded)
            BY <2>0, <2>2 DEF Superseded, Begun
        <3>2. \A t \in Terminals : closer'[t].pc # "idle" =>
                                       closer[t].pc # "idle" /\ closer'[t].gen = closer[t].gen
            BY <1>1, <2>2
        <3> QED BY <1>1, <3>1, <3>2 DEF RunnerSide, AckAtCurrent, Begun
    <2>8. Claims'
        <3>1. ~AtCurrent(Runner)'
            BY <1>1, <2>0, <2>2 DEF Claims, AtCurrent, Begun
        <3>2. \A t \in Terminals : AtCurrent(t)' => t = c
            BY <2>5 DEF AtCurrent
        <3> QED BY <2>1, <3>1, <3>2 DEF Claims
    <2>9. StartSide'
        BY <1>1 DEF StartSide
    <2> QED BY <2>4, <2>6, <2>7, <2>8, <2>9
<1> QED BY <1>2, <1>3

LEMMA InvOfTerminalReleases ==
    ASSUME IInv, TypeOK', OneHolder, NEW c \in Terminals, TerminalReleases(c)
    PROVE  IInv'
<1> USE Fields, Parties DEF IInv, port, lease, gate, roast, history
<1>0. closer \in [Closers -> CloserType] /\ {"idle", "released"} \subseteq CloserPcs
    BY DEF TypeOK, CloserType, CloserPcs
<1>1. /\ UNCHANGED <<cache, unconfirmed, durable, stop, start, health, ack, live, run>>
      /\ closer[c].pc \in {"failed", "confirming"} /\ ReservedBy' = ReservedBy \ {c}
    BY Releases DEF TerminalReleases
<1>2. PICK p \in {"idle", "released"} : closer' = At(c, p)
    BY DEF TerminalReleases
<1>3. /\ \A x \in Closers : x # c => closer'[x] = closer[x]
      /\ closer'[c].pc = p
      /\ p = "idle" => closer'[c] = NoCloser
      /\ p # "idle" => closer'[c].gen = closer[c].gen /\ closer'[c].d212 = closer[c].d212
    BY <1>0, <1>2, AtFacts
<1>4. p \in Ended \ (Closing \cup Proving) /\ closer[c].pc \notin Ended \cup {"idle", "marked"}
    BY <1>1 DEF Ended, Closing, Proving
<1>5. Generations' /\ RowsFetched' /\ Unfenced' /\ Committed' /\ CloseBacked'
    <2>1. closer'[c].pc # "idle" /\ closer'[c].d212
            => cache.bound /\ closer'[c].gen <= cache.gen
        BY <1>3, <1>4 DEF Generations
    <2> QED BY <1>1, <1>3, <1>4, <2>1, CloserChanges
<1>6. \A t \in Terminals : ~Begun(t)'
    BY <1>3, <1>4 DEF Gate, Begun
<1>7. Gate'
    <2>1. \A x \in Closers : closer'[x].pc \in Closing => closer'[x].d212
        BY <1>3, <1>4 DEF Gate
    <2>2. \A t \in Terminals : closer'[t].d212
        BY <1>3 DEF Gate, NoCloser
    <2> QED BY <1>6, <2>1, <2>2 DEF Gate
<1>8. closer'[Runner] = closer[Runner] /\ (ReservedBy = {Runner} => ReservedBy' = {Runner})
    BY <1>1, <1>3
<1>9. RunnerSide'
    <2>1. \A t \in Terminals : closer'[t].pc # "idle" =>
                                   closer[t].pc # "idle" /\ closer'[t].gen = closer[t].gen
        BY <1>3, <1>4
    <2> QED BY <1>1, <1>8, <2>1 DEF RunnerSide, AckAtCurrent, Superseded, Begun
<1>10. Claims'
    BY <1>1, <1>6, <1>8 DEF Claims, AtCurrent, Begun
<1>11. StartSide'
    BY <1>1 DEF StartSide
<1> QED BY <1>5, <1>7, <1>9, <1>10, <1>11

\* The runner ends: finalized, released for a retry, or with its loop dead.
\* Aborting, it also releases the reservation of a terminal closer.
LEMMA InvOfRunnerEnds ==
    ASSUME IInv, TypeOK', OneHolder, RunnerFinishes \/ RunnerFails \/ LoopDies PROVE IInv'
<1> USE Fields, Parties DEF IInv, port, lease, gate, roast, history
<1>0. /\ closer \in [Closers -> CloserType]
      /\ {"idle", "acknowledged", "dead"} \subseteq CloserPcs
    BY DEF TypeOK, CloserType, CloserPcs
<1>1. /\ UNCHANGED <<cache, unconfirmed, durable, stop, start, health, ack, terminalOwner>>
      /\ closer[Runner].pc \in {"failed", "aborted", "completing", "confirming"}
      /\ live' = live \/ live' = "finalized"
      /\ finalizing' \in {finalizing, terminalOwner}
    BY DEF RunnerFinishes, RunnerFails, LoopDies
<1>1a. \/ ReservedBy' \in {ReservedBy, ReservedBy \ {Runner}}
       \/ closer[Runner].pc = "aborted"
    <2>1. \/ UNCHANGED <<holders, reserved>> \/ Port!Release(Runner)
          \/ closer[Runner].pc = "aborted"
        BY DEF RunnerFinishes, RunnerFails, LoopDies
    <2> QED BY <2>1, Releases DEF ReservedBy
<1>2. PICK p \in {"idle", "acknowledged", "dead"} : closer' = At(Runner, p)
    <2>1. CASE RunnerFinishes
        BY <2>1 DEF RunnerFinishes
    <2> QED BY <2>1 DEF RunnerFails, LoopDies
<1>3. /\ \A x \in Closers : x # Runner => closer'[x] = closer[x]
      /\ closer'[Runner].pc = p
      /\ p # "idle" => /\ closer'[Runner].gen = closer[Runner].gen
                       /\ closer'[Runner].d212 = closer[Runner].d212
    BY <1>0, <1>2, AtFacts
<1>4. /\ p \in Ended \ (Closing \cup Proving)
      /\ closer[Runner].pc \notin Ended \cup {"idle", "marked"}
    BY <1>1 DEF Ended, Closing, Proving
<1>5. Generations' /\ RowsFetched' /\ Unfenced' /\ Committed' /\ CloseBacked'
    <2>1. closer'[Runner].pc # "idle" /\ closer'[Runner].d212
            => cache.bound /\ closer'[Runner].gen <= cache.gen
        BY <1>3, <1>4 DEF Generations
    <2> QED BY <1>1, <1>3, <1>4, <2>1, CloserChanges
<1>6. Gate'
    <2>1. \A t \in Terminals : closer'[t] = closer[t]
        BY <1>3
    <2>2. \A x \in Closers : closer'[x].pc \in Closing => closer'[x].d212
        BY <1>3, <1>4 DEF Gate
    <2> QED BY <1>1, <2>1, <2>2 DEF Gate, Begun
<1>7. ~Begun(Runner)' /\ Begun(Runner)
    BY <1>3, <1>4 DEF Begun
<1>8. RunnerSide'
    BY <1>7 DEF RunnerSide, Superseded
<1>9. StartSide'
    <2>1. live = "faulted"
        BY <1>7 DEF RunnerSide
    <2> QED BY <1>1, <2>1 DEF StartSide
<1>10. ASSUME NEW t \in Terminals, AtCurrent(t)' PROVE ReservedBy' = {t} \/ ~AckAtCurrent'
    <2>1. AtCurrent(t) /\ closer[t].pc # "idle" /\ (AckAtCurrent' <=> AckAtCurrent)
        BY <1>1, <1>3, <1>10 DEF AtCurrent, Begun, Ended, AckAtCurrent
    <2>2. CASE ReservedBy' \in {ReservedBy, ReservedBy \ {Runner}}
        BY <2>1, <2>2 DEF Claims
    <2>3. CASE closer[Runner].pc = "aborted" /\ ReservedBy = {t}
        <3>1. Superseded
            BY <1>7, <2>3 DEF Superseded
        <3>2. run # "active"
            BY <2>1, <3>1 DEF RunnerSide, AtCurrent
        <3> QED BY <2>1, <2>3, <3>1, <3>2 DEF RunnerSide
    <2>4. CASE ReservedBy # {t}
        BY <2>1, <2>4 DEF Claims
    <2> QED BY <1>1a, <2>2, <2>3, <2>4
<1>11. Claims'
    BY <1>7, <1>10 DEF Claims, AtCurrent
<1> QED BY <1>5, <1>6, <1>8, <1>9, <1>11

-----------------------------------------------------------------------------
(* The close transaction and what follows it.                              *)

\* Nobody else closes the generation memory shows.
LEMMA OneCloser ==
    ASSUME Gate, Claims, NEW a \in Closers, NEW b \in Closers, AtCurrent(a), AtCurrent(b)
    PROVE  a = b
BY Parties DEF Gate, Claims, AtCurrent

LEMMA ClosingFacts ==
    ASSUME TypeOK, Generations, Gate, NEW c \in Closers, closer[c].pc \in Closing
    PROVE  /\ closer[c].d212 /\ cache.bound /\ closer[c].gen <= cache.gen
           /\ closer[c].gen = cache.gen => AtCurrent(c)
BY DEF Generations, Gate, AtCurrent, Begun, Closing, Ended

\* A closer that moves while it closes, or stops closing.
LEMMA ClosingMoves ==
    ASSUME IInv, NEW c \in Closers, NEW p \in CloserPcs \ {"idle"}, closer' = At(c, p),
           closer[c].pc \in Closing
    PROVE  /\ Advances
           /\ \A x \in Closers : x # c => closer'[x] = closer[x]
           /\ closer'[c].pc = p /\ closer'[c].gen = closer[c].gen
           /\ closer'[c].d212 = closer[c].d212 /\ closer'[c].committed = closer[c].committed
<1> USE DEF IInv
<1>0. closer \in [Closers -> CloserType]
    BY DEF TypeOK, CloserType
<1>1. /\ \A x \in Closers : x # c => closer'[x] = closer[x]
      /\ closer'[c].pc = p /\ closer'[c].gen = closer[c].gen
      /\ closer'[c].d212 = closer[c].d212 /\ closer'[c].committed = closer[c].committed
    BY <1>0, AtFacts
<1>2. closer[c].pc \notin Ended \cup {"idle", "confirming"}
    BY DEF Closing, Ended
<1>3. /\ \A x \in Closers : closer[x].pc \in Closing => closer[x].d212
      /\ \A t \in Terminals : closer[t].d212
    BY DEF Gate
<1>4. Advances
    BY <1>1, <1>2, <1>3 DEF Advances
<1> QED BY <1>1, <1>4

\* The closer keeps to the transaction's path, or leaves it.
LEMMA ClosingKeeps ==
    ASSUME IInv, NEW c \in Closers, NEW p \in CloserPcs \ {"idle"}, closer' = At(c, p),
           closer[c].pc \in Closing \ {"marked"}, p \notin Proving,
           p = "closed" => closer[c].committed
    PROVE  ClosersKeep
<1>1. /\ \A x \in Closers : x # c => closer'[x] = closer[x]
      /\ closer'[c].pc = p /\ closer'[c].committed = closer[c].committed
    BY ClosingMoves
<1>2. \A x \in Closers : closer[x].pc = "closed" => closer[x].committed
    BY DEF IInv, Committed
<1> QED BY <1>1, <1>2 DEF ClosersKeep, Proving

LEMMA InvOfBeginClose == ASSUME IInv, TypeOK', NEW c \in Closers, BeginClose(c) PROVE IInv'
<1> USE Fields, Parties DEF port, lease, gate, roast, history
<1>1. /\ UNCHANGED <<cache, unconfirmed, durable, stop, start, health, ack, ReservedBy,
                     finalizing, terminalOwner, live, run>>
      /\ closer[c].pc = "proved"
    BY DEF BeginClose, ReservedBy
<1>2. CASE \E p \in {"completing", "aborted", "failed"} : closer' = At(c, p)
    <2>1. PICK p \in {"completing", "aborted", "failed"} : closer' = At(c, p)
        BY <1>2
    <2>2. p \in CloserPcs \ (Closing \cup Ended \cup Proving)
        BY DEF CloserPcs, Closing, Ended, Proving
    <2>3. closer[c].pc \notin Ended \cup {"idle", "marked", "confirming"}
        BY <1>1 DEF Ended
    <2> QED BY <1>1, <2>1, <2>2, <2>3, CloserMoves
<1>3. CASE closer' = At(c, "closing") /\ closer[c].d212 /\ LeaseStillOpen(c)
    <2> USE DEF IInv
    <2>0. closer \in [Closers -> CloserType] /\ "closing" \in CloserPcs
        BY DEF TypeOK, CloserType, CloserPcs
    <2>1. /\ \A x \in Closers : x # c => closer'[x] = closer[x]
          /\ closer'[c].pc = "closing" /\ closer'[c].gen = closer[c].gen
          /\ closer'[c].d212 = closer[c].d212 /\ closer'[c].committed = closer[c].committed
        <3> HIDE DEF IInv
        <3>1. closer' = At(c, "closing") /\ "closing" # "idle"
            BY <1>3
        <3> QED BY <2>0, <3>1, AtFacts
    <2>2. /\ closer[c].pc \in Proving \ (Closing \cup Ended) /\ closer[c].pc # "confirming"
          /\ "closing" \in Closing \cap Proving
        BY <1>1 DEF Proving, Closing, Ended
    <2>3. ~closer[c].committed
        BY <2>2 DEF Committed
    <2>4. Advances
        <3>1. \A x \in Closers : closer[x].pc \in Closing => closer[x].d212
            BY DEF Gate
        <3> QED BY <1>1, <1>3, <2>1, <2>2, <3>1 DEF Advances, Gate
    <2>5. Gate' /\ RunnerSide' /\ Claims'
        BY <1>1, <2>4, Carried DEF Newer
    <2>6. Generations'
        BY <1>1, <2>1 DEF Generations, Sound
    <2>7. RowsFetched'
        <3>1. \A x \in Closers : closer[x].pc = "marked" =>
                  closer'[x].pc = "marked" /\ closer'[x].gen = closer[x].gen
            BY <1>1, <2>1
        <3>2. \A r : Fetched(r) => Fetched(r)'
            BY <1>1, <3>1, FetchedKept DEF Newer
        <3> QED BY <1>1, <3>2, RowsKept
    <2>8. Unfenced'
        <3>1. unconfirmed # cache.gen
            BY <1>3 DEF LeaseStillOpen, Shows, Generations
        <3> QED BY <1>1, <2>1, <3>1 DEF Unfenced
    <2>9. Committed'
        BY <1>1, <2>1, <2>2, <2>3 DEF Committed
    <2>10. CloseBacked' /\ StartSide'
        BY <1>1, <2>1 DEF CloseBacked, StartSide
    <2> QED BY <2>5, <2>6, <2>7, <2>8, <2>9, <2>10
<1> QED BY <1>2, <1>3, GivenUpIsAt DEF BeginClose

LEMMA InvOfTransaction ==
    ASSUME IInv, TypeOK', NEW c \in Closers, CloseTransaction(c) PROVE IInv'
<1> USE Fields, Parties DEF IInv, port, lease, gate, roast, history
<1>1. /\ UNCHANGED <<cache, unconfirmed, stop, start, health, ack, ReservedBy,
                     finalizing, terminalOwner, live>>
      /\ closer[c].pc = "closing"
    BY DEF CloseTransaction, ReservedBy
<1>2. closer[c].pc \in Closing \ {"marked"} /\ ~closer[c].committed
    BY <1>1 DEF Closing, Committed, Proving
<1>3. StartSide' /\ Newer /\ CacheMayShow
    BY <1>1, CacheStays DEF StartSide, Newer
<1>4. CASE /\ closer' = At(c, "verifying") \/ closer' = At(c, "marking")
           /\ UNCHANGED <<durable, run>>
    <2>1. PICK p \in {"verifying", "marking"} : closer' = At(c, p)
        BY <1>4
    <2>2. p \in CloserPcs \ ({"idle", "closed"} \cup Proving)
        BY DEF CloserPcs, Proving
    <2>3. Advances /\ ClosersKeep
        BY <1>2, <2>1, <2>2, ClosingMoves, ClosingKeeps
    <2>4. /\ Generations' /\ Gate' /\ RunnerSide' /\ Claims' /\ Unfenced' /\ Committed'
          /\ CloseBacked'
          /\ \A r : Fetched(r) => Fetched(r)'
        BY <1>1, <1>3, <1>4, <2>3, CacheStep
    <2> QED BY <1>1, <1>3, <2>4, RowsKept
<1>5. CASE /\ durable.status = "open" /\ durable.gen = closer[c].gen
           /\ durable' = [durable EXCEPT !.status = "closed"]
           /\ run' = RunCompletedBy(c)
           /\ closer' = [closer EXCEPT ![c].pc = "verifying", ![c].committed = TRUE]
    <2>1. /\ durable'.gen = durable.gen /\ durable'.bound = durable.bound
          /\ durable'.exact = durable.exact /\ durable'.status = "closed"
        BY <1>5 DEF TypeOK, Leases
    <2>2. closer \in [Closers -> CloserType]
        BY DEF TypeOK, CloserType
    <2>3. /\ \A x \in Closers : x # c => closer'[x] = closer[x]
          /\ closer'[c].pc = "verifying" /\ closer'[c].gen = closer[c].gen
          /\ closer'[c].d212 = closer[c].d212 /\ closer'[c].committed
        <3> HIDE DEF IInv
        <3> QED BY <1>5, <2>2 DEF CloserType
    <2>4. "verifying" \in Closing \ ({"marked", "closed"} \cup Proving)
        BY DEF Closing, Proving
    <2>5. closer[c].d212 /\ cache.bound /\ closer[c].gen <= cache.gen
          /\ (closer[c].gen = cache.gen => AtCurrent(c))
        BY <1>2, ClosingFacts
    <2>6. Advances
        <3>1. \A x \in Closers : closer[x].pc \in Closing => closer[x].d212
            BY DEF Gate
        <3> QED BY <1>1, <2>3, <2>5, <3>1 DEF Advances, Gate, Ended
    <2>7. c = Runner => ~(AckAtCurrent /\ Superseded)
        <3>1. SUFFICES ASSUME c = Runner, AckAtCurrent, Superseded PROVE FALSE
            OBVIOUS
        <3>2. durable.gen >= cache.gen
            BY <3>1 DEF AckAtCurrent, Generations
        <3>3. closer[c].gen = cache.gen
            BY <1>5, <2>5, <3>2
        <3> QED BY <2>5, <3>1, <3>3 DEF Claims, Superseded
    <2>8. Gate' /\ RunnerSide' /\ Claims'
        BY <1>1, <1>3, <1>5, <2>6, <2>7, Carried DEF RunCompletedBy
    <2>9. Generations'
        <3>1. Sound(durable)'
            BY <1>5, <2>1 DEF Generations, Sound
        <3>2. \A x \in Closers : closer'[x].pc # "idle" /\ closer'[x].d212
                                   => cache.bound /\ closer'[x].gen <= cache.gen
            BY <2>3, <2>5 DEF Generations
        <3> QED BY <1>1, <2>1, <3>1, <3>2 DEF Generations
    <2>10. ASSUME NEW r, Fetched(r) PROVE Fetched(r)'
        <3>1. r.status = "closed" =>
                 \/ cache.bound /\ cache.gen > r.gen
                 \/ /\ cache.bound /\ cache.gen = r.gen
                    /\ \/ unconfirmed = cache.gen
                       \/ \E x \in Closers : closer'[x].pc = "marked" /\ closer'[x].gen = cache.gen
            BY <1>1, <1>5, <2>3, <2>10 DEF Fetched
        <3> QED BY <1>1, <2>1, <2>10, <3>1 DEF Fetched, Sound
    <2>11. RowsFetched'
        BY <1>1, <2>10, RowsKept
    <2>12. Unfenced'
        BY <1>1, <1>2, <2>3 DEF Unfenced
    <2>13. Committed'
        <3>1. ASSUME NEW x \in Closers, x # c,
                     closer[x].pc \in Closing \ {"marked"}, closer[x].committed,
                     closer[x].gen = cache.gen
              PROVE  FALSE
            BY <1>5, <3>1 DEF Committed
        <3>2. durable.gen = closer[c].gen
            BY <1>5
        <3>3. /\ \A x \in Closers : closer[x].pc \in Proving => ~closer[x].committed
              /\ \A x \in Closers : closer[x].pc = "closed" => closer[x].committed
            BY DEF Committed
        <3> HIDE DEF IInv
        <3>4. ASSUME NEW x \in Closers
              PROVE  /\ closer'[x].pc \in Proving => ~closer'[x].committed
                     /\ closer'[x].pc = "closed" => closer'[x].committed
                     /\ closer'[x].pc \in Closing \ {"marked"} /\ closer'[x].committed
                        /\ closer'[x].gen = cache.gen
                        => durable'.gen = cache.gen /\ durable'.status = "closed"
            <4>1. CASE x = c
                BY <4>1, <2>1, <2>3, <2>4, <3>2
            <4>2. CASE x # c
                <5>1. closer'[x] = closer[x]
                    BY <4>2, <2>3
                <5> QED BY <4>2, <5>1, <3>1, <3>3
            <4> QED BY <4>1, <4>2
        <3> QED BY <1>1, <3>4 DEF Committed
    <2>14. CloseBacked'
        BY <1>1, <1>5, <2>3 DEF CloseBacked
    <2> QED BY <1>3, <2>8, <2>9, <2>11, <2>12, <2>13, <2>14
<1> QED BY <1>4, <1>5 DEF CloseTransaction

LEMMA InvOfVerify == ASSUME IInv, TypeOK', NEW c \in Closers, VerifyClose(c) PROVE IInv'
<1> USE DEF port, lease, gate, roast, history
<1>0. /\ TypeOK /\ Generations /\ CloseBacked /\ StartSide /\ RowsFetched
      /\ closer[c].committed \in BOOLEAN
    BY DEF IInv, TypeOK
<1>1. /\ UNCHANGED <<unconfirmed, durable, stop, start, health, ack, ReservedBy, finalizing,
                     terminalOwner, run, live>>
      /\ closer[c].pc = "verifying"
    BY DEF VerifyClose, ReservedBy
<1>2. PICK p \in {"closed", "aborted", "failed", "reverifying", "marking"} :
          closer' = At(c, p) /\ (p = "closed" => closer[c].committed)
    BY GivenUpIsAt DEF VerifyClose
<1>3. CacheMayShow
    <2>1. CASE cache' = cache
        BY <1>0, <2>1, CacheStays
    <2>2. CASE \E row \in {durable, UnreadableRow} : cache' = Reconciled(row)
        <3>1. PICK row \in {durable, UnreadableRow} : cache' = Reconciled(row)
            BY <2>2
        <3>2. Fetched(row) \/ row = UnreadableRow
            BY <1>0, DurableFetched
        <3> QED BY <1>0, <3>1, <3>2, CacheRead
    <2> QED BY <2>1, <2>2 DEF VerifyClose
<1>4. Advances /\ ClosersKeep
    <2>1. closer[c].pc \in Closing \ {"marked"}
        BY <1>1 DEF Closing
    <2>2. p \in CloserPcs \ {"idle"} /\ p \notin Proving
        BY DEF CloserPcs, Proving
    <2> QED BY <1>2, <2>1, <2>2, ClosingMoves, ClosingKeeps
<1>5. /\ Generations' /\ Gate' /\ RunnerSide' /\ Claims' /\ Unfenced' /\ Committed'
      /\ CloseBacked'
      /\ \A r : Fetched(r) => Fetched(r)'
    BY <1>1, <1>3, <1>4, CacheStep
<1>6. StartSide' /\ RowsFetched'
    BY <1>0, <1>1, <1>5, RowsKept DEF StartSide
<1> QED BY <1>5, <1>6 DEF IInv

LEMMA InvOfConfirm == ASSUME IInv, TypeOK', NEW c \in Closers, ConfirmClose(c) PROVE IInv'
<1> USE DEF port, lease, gate, roast, history
<1>0. TypeOK /\ Generations /\ CloseBacked /\ StartSide /\ RowsFetched /\ Gate
    BY DEF IInv
<1>1. /\ UNCHANGED <<unconfirmed, durable, stop, start, health, ack, ReservedBy, finalizing,
                     terminalOwner, run, live>>
      /\ closer[c].pc = "closed"
    BY DEF ConfirmClose, ReservedBy
<1>2. PICK p \in {"confirming", "marking"} : closer' = At(c, p)
    BY DEF ConfirmClose
<1>3. CacheMayShow
    <2>1. CASE cache' = cache
        BY <1>0, <2>1, CacheStays
    <2>2. CASE cache.gen = closer[c].gen /\ cache' = [cache EXCEPT !.status = "closed"]
        <3>1. /\ cache'.gen = cache.gen /\ cache'.bound = cache.bound
              /\ cache'.status = "closed"
            BY <1>0, <2>2 DEF TypeOK, Leases
        <3>2. unconfirmed # cache.gen
            BY <1>1, <2>2 DEF IInv, Unfenced, Closing
        <3>3. durable.gen = cache.gen /\ durable.status = "closed"
            BY <1>1, <2>2 DEF IInv, Committed, Closing
        <3> QED BY <1>0, <3>1, <3>2, <3>3, Fields DEF CacheMayShow, Newer, Generations
    <2> QED BY <2>1, <2>2 DEF ConfirmClose
<1>4. Advances /\ ClosersKeep
    <2>1. closer[c].pc \in Closing \ {"marked"}
        BY <1>1 DEF Closing
    <2>2. p \in CloserPcs \ {"idle"} /\ p \notin Proving /\ p # "closed"
        BY DEF CloserPcs, Proving
    <2> QED BY <1>2, <2>1, <2>2, ClosingMoves, ClosingKeeps
<1>5. /\ Generations' /\ Gate' /\ RunnerSide' /\ Claims' /\ Unfenced' /\ Committed'
      /\ CloseBacked'
      /\ \A r : Fetched(r) => Fetched(r)'
    BY <1>1, <1>3, <1>4, CacheStep
<1>6. StartSide' /\ RowsFetched'
    BY <1>0, <1>1, <1>5, RowsKept DEF StartSide
<1> QED BY <1>5, <1>6 DEF IInv

\* A closer leaves, and fences the cache if it still shows its generation.
LEMMA InvOfFence ==
    ASSUME IInv, TypeOK', NEW c \in Closers,
           closer[c].pc \in {"reverifying", "marked"},
           NEW p \in {"aborted", "failed", "confirming"}, closer' = At(c, p), Fenced(c),
           UNCHANGED <<durable, stop, start, health, ack, ReservedBy, finalizing,
                       terminalOwner, run, live>>
    PROVE  IInv'
<1>0. /\ TypeOK /\ Generations /\ CloseBacked /\ StartSide /\ RowsFetched /\ Gate /\ Claims
      /\ RunnerSide /\ Unfenced /\ Committed
    BY DEF IInv
<1>1. closer[c].pc \in Closing /\ p \in CloserPcs \ {"idle"} /\ p \notin Closing \cup Proving
    BY DEF Closing, Proving, CloserPcs
<1>2. /\ Advances
      /\ \A x \in Closers : x # c => closer'[x] = closer[x]
      /\ closer'[c].pc = p /\ closer'[c].gen = closer[c].gen
      /\ closer'[c].d212 = closer[c].d212 /\ closer'[c].committed = closer[c].committed
    BY <1>1, ClosingMoves
<1>3. /\ closer[c].d212 /\ cache.bound /\ closer[c].gen <= cache.gen
      /\ closer[c].gen = cache.gen => AtCurrent(c)
    BY <1>0, <1>1, ClosingFacts
<1>4. \/ /\ closer[c].gen = cache.gen /\ unconfirmed' = cache.gen
         /\ cache'.gen = cache.gen /\ cache'.bound = cache.bound /\ cache'.status = "unknown"
      \/ closer[c].gen # cache.gen /\ cache' = cache /\ unconfirmed' = unconfirmed
    BY <1>0, ZenonT(60) DEF Fenced, UnknownAt, lease, TypeOK, Leases
<1>5. Newer /\ cache'.gen = cache.gen /\ cache'.bound = cache.bound
    BY <1>0, <1>4, Fields DEF Newer
<1>6. Gate' /\ RunnerSide' /\ Claims'
    BY <1>0, <1>2, <1>5, Carried
<1>7. Generations'
    <2>1. \A x \in Closers : closer'[x].pc # "idle" /\ closer'[x].d212
                               => cache'.bound /\ closer'[x].gen <= cache'.gen
        BY <1>0, <1>2, <1>3, <1>5 DEF Generations
    <2>2. /\ unconfirmed' # NoGeneration => cache'.bound /\ unconfirmed' <= cache'.gen
          /\ unconfirmed' = cache'.gen => cache'.status = "unknown"
          /\ cache'.status = "open" => cache'.bound /\ durable.gen >= cache'.gen
        BY <1>0, <1>3, <1>4, Fields DEF Generations
    <2> QED BY <1>0, <1>5, <2>1, <2>2 DEF Generations, Sound
<1>8. ASSUME NEW x \in Closers, closer[x].pc = "marked", closer[x].gen = cache.gen,
             unconfirmed' # cache'.gen
      PROVE  closer'[x].pc = "marked" /\ closer'[x].gen = cache'.gen
    BY <1>2, <1>4, <1>8
<1>9. RowsFetched' /\ StartSide'
    <2>1. ASSUME NEW r, Fetched(r) PROVE Fetched(r)'
        <3>1. r.status = "closed" =>
                 \/ durable.gen = r.gen /\ durable.status = "closed"
                 \/ cache'.bound /\ cache'.gen > r.gen
                 \/ /\ cache'.bound /\ cache'.gen = r.gen
                    /\ \/ unconfirmed' = cache'.gen
                       \/ \E x \in Closers : closer'[x].pc = "marked" /\ closer'[x].gen = cache'.gen
            <4> SUFFICES ASSUME r.status = "closed", cache.bound, cache.gen = r.gen,
                                unconfirmed' # cache'.gen,
                                unconfirmed = cache.gen
                                \/ \E x \in Closers : closer[x].pc = "marked"
                                                       /\ closer[x].gen = cache.gen
                         PROVE  \E x \in Closers : closer'[x].pc = "marked"
                                                    /\ closer'[x].gen = cache'.gen
                BY <1>5, <2>1 DEF Fetched
            <4>1. unconfirmed # cache.gen
                BY <1>4
            <4> QED BY <1>8, <4>1
        <3> QED BY <2>1, <3>1 DEF Fetched, Sound
    <2> QED BY <1>0, <2>1, RowsKept DEF StartSide
<1>10. Unfenced'
    <2>1. ASSUME NEW x \in Closers, closer'[x].pc \in Closing, closer'[x].gen = cache'.gen
          PROVE  unconfirmed' # cache'.gen
        <3>1. x # c /\ closer'[x] = closer[x]
            BY <1>1, <1>2, <2>1
        <3>2. closer[x].pc \in Closing /\ closer[x].gen = cache.gen
            BY <1>5, <2>1, <3>1
        <3>3. AtCurrent(x) /\ unconfirmed # cache.gen
            BY <1>0, <3>2, ClosingFacts DEF Unfenced
        <3>4. closer[c].gen # cache.gen
            BY <1>0, <1>3, <3>1, <3>3, OneCloser
        <3> QED BY <1>4, <3>3, <3>4
    <2> QED BY <2>1 DEF Unfenced
<1>11. Committed'
    <2>1. ASSUME NEW x \in Closers
          PROVE  /\ closer'[x].pc \in Proving => ~closer'[x].committed
                 /\ closer'[x].pc = "closed" => closer'[x].committed
                 /\ /\ closer'[x].pc \in Closing \ {"marked"} /\ closer'[x].committed
                    /\ closer'[x].gen = cache.gen
                    => durable.gen = cache.gen /\ durable.status = "closed"
        <3>1. CASE x = c
            BY <1>1, <1>2, <3>1
        <3>2. CASE x # c
            <4>1. closer'[x] = closer[x]
                BY <1>2, <3>2
            <4> QED BY <1>0, <4>1 DEF Committed
        <3> QED BY <3>1, <3>2
    <2> QED BY <1>5, <2>1 DEF Committed
<1>12. CloseBacked'
    <2>1. SUFFICES ASSUME cache'.status = "closed"
                   PROVE  \/ durable.gen = cache'.gen /\ durable.status = "closed"
                          \/ \E x \in Closers : closer'[x].pc = "marked"
                                                 /\ closer'[x].gen = cache'.gen
        BY DEF CloseBacked
    <2>2. closer[c].gen # cache.gen /\ cache' = cache
        BY <1>4, <2>1
    <2> QED BY <1>0, <1>2, <2>1, <2>2 DEF CloseBacked
<1> QED BY <1>6, <1>7, <1>9, <1>10, <1>11, <1>12 DEF IInv

LEMMA InvOfReverify == ASSUME IInv, TypeOK', NEW c \in Closers, ReverifyClose(c) PROVE IInv'
<1> USE DEF port, lease, gate, roast, history
<1>1. /\ UNCHANGED <<durable, stop, start, health, ack, ReservedBy, finalizing, terminalOwner,
                     run, live>>
      /\ closer[c].pc = "reverifying"
    BY DEF ReverifyClose, ReservedBy
<1>2. CASE closer' = GivenUp(c) /\ Fenced(c)
    <2>1. PICK p \in {"aborted", "failed"} : closer' = At(c, p)
        BY <1>2, GivenUpIsAt
    <2> QED BY <1>1, <1>2, <2>1, InvOfFence
<1>3. CASE closer[c].committed /\ closer' = At(c, "closed") /\ UNCHANGED lease
    <2>0. TypeOK /\ Generations /\ CloseBacked /\ StartSide /\ RowsFetched
        BY DEF IInv
    <2>1. CacheMayShow
        BY <1>3, <2>0, CacheStays
    <2>2. Advances /\ ClosersKeep
        <3>1. closer[c].pc \in Closing \ {"marked"}
            BY <1>1 DEF Closing
        <3>2. "closed" \in CloserPcs \ {"idle"} /\ "closed" \notin Proving
            BY DEF CloserPcs, Proving
        <3> QED BY <1>3, <3>1, <3>2, ClosingMoves, ClosingKeeps
    <2>3. /\ Generations' /\ Gate' /\ RunnerSide' /\ Claims' /\ Unfenced' /\ Committed'
          /\ CloseBacked'
          /\ \A r : Fetched(r) => Fetched(r)'
        BY <1>1, <1>3, <2>1, <2>2, CacheStep
    <2>4. StartSide' /\ RowsFetched'
        BY <1>1, <2>0, <2>3, RowsKept DEF StartSide
    <2> QED BY <2>3, <2>4 DEF IInv
<1> QED BY <1>2, <1>3 DEF ReverifyClose

LEMMA InvOfMarkCache ==
    ASSUME IInv, TypeOK', NEW c \in Closers, MarkCacheUnknown(c) PROVE IInv'
<1>1. /\ UNCHANGED <<durable, stop, start, health, ack, ReservedBy, finalizing, terminalOwner,
                     run, live>>
      /\ closer[c].pc = "marked" /\ Fenced(c)
    BY DEF MarkCacheUnknown, port, gate, roast, ReservedBy
<1>2. PICK p \in {"aborted", "failed", "confirming"} : closer' = At(c, p)
    BY GivenUpIsAt DEF MarkCacheUnknown
<1> QED BY <1>1, <1>2, InvOfFence

LEMMA InvOfMarkRow ==
    ASSUME IInv, TypeOK', NEW c \in Closers, MarkDurableUnknown(c) PROVE IInv'
<1> USE DEF port, lease, gate, roast, history
<1>0. /\ TypeOK /\ Generations /\ CloseBacked /\ StartSide /\ RowsFetched /\ Gate /\ Claims
      /\ RunnerSide /\ Unfenced /\ Committed
    BY DEF IInv
<1>1. /\ UNCHANGED <<cache, unconfirmed, stop, start, health, ack, ReservedBy, finalizing,
                     terminalOwner, run, live>>
      /\ closer[c].pc = "marking" /\ closer' = At(c, "marked")
    BY DEF MarkDurableUnknown, ReservedBy
<1>2. closer[c].pc \in Closing \ {"marked"} /\ "marked" \in CloserPcs \ ({"idle"} \cup Proving)
    BY <1>1 DEF Closing, Proving, CloserPcs
<1>3. /\ Advances
      /\ \A x \in Closers : x # c => closer'[x] = closer[x]
      /\ closer'[c].pc = "marked" /\ closer'[c].gen = closer[c].gen
      /\ closer'[c].d212 = closer[c].d212 /\ closer'[c].committed = closer[c].committed
    BY <1>1, <1>2, ClosingMoves
<1>4. CASE durable' = durable
    <2>1. CacheMayShow /\ ClosersKeep
        BY <1>0, <1>1, <1>2, CacheStays, ClosingKeeps
    <2>2. /\ Generations' /\ Gate' /\ RunnerSide' /\ Claims' /\ Unfenced' /\ Committed'
          /\ CloseBacked'
          /\ \A r : Fetched(r) => Fetched(r)'
        BY <1>1, <1>3, <1>4, <2>1, CacheStep
    <2> QED BY <1>0, <1>1, <2>2, RowsKept DEF StartSide, IInv
<1>5. CASE durable.gen = closer[c].gen /\ durable' = [durable EXCEPT !.status = "unknown"]
    <2>1. /\ durable'.gen = durable.gen /\ durable'.bound = durable.bound
          /\ durable'.exact = durable.exact /\ durable'.status = "unknown"
        BY <1>0, <1>5 DEF TypeOK, Leases
    <2>2. /\ closer[c].d212 /\ cache.bound /\ closer[c].gen <= cache.gen
          /\ closer[c].gen = cache.gen => AtCurrent(c)
        BY <1>0, <1>2, ClosingFacts
    <2>3. Newer
        BY <1>0, <1>1, Fields DEF Newer
    <2>4. Gate' /\ RunnerSide' /\ Claims'
        BY <1>0, <1>1, <1>3, <2>3, Carried
    <2>5. Generations'
        <3>1. \A x \in Closers : closer'[x].pc # "idle" /\ closer'[x].d212
                                   => cache.bound /\ closer'[x].gen <= cache.gen
            BY <1>0, <1>3, <2>2 DEF Generations
        <3> QED BY <1>0, <1>1, <2>1, <3>1 DEF Generations, Sound
    <2>6. ASSUME NEW x \in Closers, closer[x].pc = "marked"
          PROVE  closer'[x] = closer[x]
        BY <1>1, <1>3, <2>6
    <2>7. RowsFetched' /\ StartSide'
        <3>1. ASSUME NEW r, Fetched(r) PROVE Fetched(r)'
            <4>0. r.gen \in Nat
                BY <3>1 DEF Fetched, Leases
            <4>1. ASSUME r.status = "closed", ~(cache.bound /\ cache.gen > r.gen),
                         unconfirmed # cache.gen
                  PROVE  /\ cache.bound /\ cache.gen = r.gen
                         /\ \E x \in Closers : closer'[x].pc = "marked"
                                                /\ closer'[x].gen = cache.gen
                <5>1. CASE durable.gen = r.gen
                    <6>1. closer[c].gen = r.gen /\ cache.gen = r.gen
                        BY <1>0, <1>5, <2>2, <4>0, <4>1, <5>1, Fields
                    <6> QED BY <1>3, <2>2, <6>1
                <5>2. CASE /\ cache.bound /\ cache.gen = r.gen
                           /\ \E x \in Closers : closer[x].pc = "marked" /\ closer[x].gen = cache.gen
                    BY <2>6, <5>2
                <5>3. \/ durable.gen = r.gen
                      \/ /\ cache.bound /\ cache.gen = r.gen
                         /\ \E x \in Closers : closer[x].pc = "marked"
                                                /\ closer[x].gen = cache.gen
                    BY <3>1, <4>1 DEF Fetched
                <5> QED BY <5>1, <5>2, <5>3
            <4>2. /\ r \in Leases /\ Sound(r) /\ r.gen <= durable'.gen
                  /\ r.gen = durable'.gen => r.exact = durable'.exact
                  /\ durable'.status # "open"
                BY <2>1, <3>1 DEF Fetched
            <4>3. r.status = "closed" =>
                     \/ cache'.bound /\ cache'.gen > r.gen
                     \/ unconfirmed' = cache'.gen /\ cache'.bound /\ cache'.gen = r.gen
                     \/ /\ cache'.bound /\ cache'.gen = r.gen
                        /\ \E x \in Closers : closer'[x].pc = "marked"
                                               /\ closer'[x].gen = cache'.gen
                <5>1. ASSUME r.status = "closed", ~(cache.bound /\ cache.gen > r.gen),
                             unconfirmed = cache.gen
                      PROVE  cache.bound /\ cache.gen = r.gen
                    <6>1. cache.bound /\ cache.gen >= r.gen
                        <7>1. durable.gen = r.gen \/ cache.gen = r.gen
                            BY <2>2, <3>1, <4>0, <5>1 DEF Fetched
                        <7> QED BY <1>5, <2>2, <4>0, <7>1, Fields, <1>0
                    <6> QED BY <1>0, <4>0, <5>1, <6>1, Fields
                <5> QED BY <1>1, <4>1, <5>1
            <4> QED BY <4>2, <4>3 DEF Fetched, Sound
        <3> QED BY <1>0, <1>1, <3>1, RowsKept DEF StartSide
    <2>8. Unfenced'
        BY <1>0, <1>1, <1>2, <1>3 DEF Unfenced
    <2>9. Committed'
        <3>1. ASSUME NEW x \in Closers, x # c, closer[x].pc \in Closing \ {"marked"},
                     closer[x].committed, closer[x].gen = cache.gen
              PROVE  FALSE
            <4>1. durable.gen = cache.gen
                BY <1>0, <3>1 DEF Committed
            <4>2. AtCurrent(c)
                BY <1>5, <2>2, <4>1
            <4>3. AtCurrent(x)
                BY <1>0, <3>1, ClosingFacts
            <4> QED BY <1>0, <3>1, <4>2, <4>3, OneCloser
        <3>2. ASSUME NEW x \in Closers
              PROVE  /\ closer'[x].pc \in Proving => ~closer'[x].committed
                     /\ closer'[x].pc = "closed" => closer'[x].committed
                     /\ ~(/\ closer'[x].pc \in Closing \ {"marked"} /\ closer'[x].committed
                          /\ closer'[x].gen = cache.gen)
            <4>1. CASE x = c
                BY <1>2, <1>3, <4>1
            <4>2. CASE x # c
                <5>1. closer'[x] = closer[x]
                    BY <1>3, <4>2
                <5> QED BY <1>0, <3>1, <4>2, <5>1 DEF Committed
            <4> QED BY <4>1, <4>2
        <3> QED BY <1>1, <3>2 DEF Committed
    <2>10. CloseBacked'
        <3>1. SUFFICES ASSUME cache.status = "closed"
                       PROVE  \E x \in Closers : closer'[x].pc = "marked"
                                                  /\ closer'[x].gen = cache.gen
            BY <1>1 DEF CloseBacked
        <3>2. CASE durable.gen = cache.gen
            BY <1>3, <1>5, <3>2
        <3>3. CASE \E x \in Closers : closer[x].pc = "marked" /\ closer[x].gen = cache.gen
            BY <2>6, <3>3
        <3> QED BY <1>0, <3>1, <3>2, <3>3 DEF CloseBacked
    <2> QED BY <2>4, <2>5, <2>7, <2>8, <2>9, <2>10 DEF IInv
<1> QED BY <1>4, <1>5 DEF MarkDurableUnknown

-----------------------------------------------------------------------------
(* The process starts, and starts again.                                   *)

LEMMA NothingUnderWay ==
    /\ NoStop.pc = "idle" /\ NoStart.pc = "idle" /\ NoAck.pc = "idle"
    /\ NoCloser.pc = "idle" /\ NoCloser.d212 /\ ~NoCloser.committed
    /\ "idle" \in Ended /\ "idle" \notin Closing \cup Proving
BY DEF NoStop, NoStart, NoAck, NoCloser, Ended, Closing, Proving

LEMMA InitInv == ASSUME Init PROVE IInv
<1>1. TypeOK
    <2>1. /\ stop \in [Stops -> StopType] /\ closer \in [Closers -> CloserType]
          /\ start \in StartType /\ ack \in AckType /\ clear \in ClearType
          /\ cache \in Leases /\ durable \in Leases
        BY NoneTypes DEF Init
    <2>2. onWire = {} /\ admitted = {} /\ holders = {} /\ reserved = FALSE
        BY DEF Init, Port!Init
    <2> QED BY <2>1, <2>2 DEF Init, TypeOK, StopType, CloserType, StartType, AckType, ClearType
<1>2. /\ \A s \in Stops : stop[s].pc = "idle"
      /\ \A c \in Closers : closer[c].pc = "idle" /\ closer[c].d212 /\ ~closer[c].committed
      /\ start.pc = "idle" /\ ack.pc = "idle"
    BY NothingUnderWay DEF Init
<1>3. /\ cache.gen = 0 /\ cache.status = "closed" /\ ~cache.bound /\ durable = cache
      /\ unconfirmed = NoGeneration /\ unconfirmed # cache.gen /\ health = NoRow
    BY NamesAssumption DEF Init, NoLease
<1>4. Generations
    BY <1>2, <1>3 DEF Generations, Sound
<1>5. Gate /\ RunnerSide /\ Claims /\ Unfenced /\ Committed
    BY <1>2, NothingUnderWay, Parties
    DEF Gate, RunnerSide, Claims, Unfenced, Committed, AtCurrent, AckAtCurrent, Superseded, Begun
<1> QED BY <1>1, <1>2, <1>3, <1>4, <1>5 DEF IInv, RowsFetched, StartSide, CloseBacked

LEMMA InvOfRestart == ASSUME IInv, TypeOK', Restart PROVE IInv'
<1>0. TypeOK /\ Generations
    BY DEF IInv
<1>2. /\ \A s \in Stops : stop'[s].pc = "idle"
      /\ \A c \in Closers : closer'[c].pc = "idle" /\ closer'[c].d212 /\ ~closer'[c].committed
      /\ start'.pc = "idle" /\ ack'.pc = "idle"
    BY NothingUnderWay DEF Restart
<1>3. Sound(durable)'
    <2>1. CASE durable' = durable
        BY <1>0, <2>1 DEF Generations, Sound
    <2>2. CASE durable = NoLease /\ durable' = [durable EXCEPT !.status = "unknown"]
        <3>1. durable'.gen = 0 /\ durable'.bound = FALSE /\ durable'.status = "unknown"
            BY <2>2 DEF NoLease
        <3> QED BY <3>1 DEF Sound
    <2> QED BY <2>1, <2>2 DEF Restart
<1>4. \/ cache' = durable'
      \/ cache'.gen = 1 /\ ~cache'.bound /\ cache'.status = "unknown"
    BY DEF Restart, NoLease
<1>5. unconfirmed' = NoGeneration /\ unconfirmed' # cache'.gen /\ health' = NoRow
    BY NamesAssumption DEF Restart, TypeOK, Leases
<1>6. durable'.gen \in Nat
    BY DEF TypeOK, Leases
<1>7. Generations'
    BY <1>2, <1>3, <1>4, <1>5, <1>6 DEF Generations, Sound
<1>8. Gate' /\ RunnerSide' /\ Claims' /\ Unfenced' /\ Committed'
    BY <1>2, NothingUnderWay, Parties
    DEF Gate, RunnerSide, Claims, Unfenced, Committed, AtCurrent, AckAtCurrent, Superseded, Begun
<1> QED BY <1>2, <1>4, <1>5, <1>7, <1>8 DEF IInv, RowsFetched, StartSide, CloseBacked

LEMMA NextInv == ASSUME IInv, OneHolder, OneHolder', [Next]_vars PROVE IInv'
<1>1. TypeOK'
    <2>1. TypeOK /\ (start.pc = "reading" => start.row \in Leases)
        BY DEF IInv, RowsFetched, Fetched
    <2> QED BY <2>1, TypesKept
<1>2. CASE UNCHANGED vars
    <2>1. UNCHANGED <<cache, unconfirmed, durable, stop, health, ack, closer, ReservedBy,
                      finalizing, terminalOwner, start, run, live>>
        BY <1>2 DEF vars, port, lease, gate, roast, ReservedBy
    <2>2. StartSide'
        BY <2>1 DEF IInv, StartSide
    <2> QED BY <1>1, <2>1, <2>2, Aside
<1>3. ASSUME NEW s \in Stops, StopStep(s) PROVE IInv'
    BY <1>1, <1>3, InvOfAdmit, InvOfAsides, InvOfPersist, InvOfPublish, InvOfStopEnds
    DEF StopStep
<1>4. CASE StartStep \/ HealthFetch \/ HealthRead
    BY <1>1, <1>4, InvOfReads, InvOfAsides DEF StartStep
<1>5. ASSUME NEW c \in Closers, CloserGoesOn(c) PROVE IInv'
    BY <1>1, <1>5, InvOfProof, InvOfBeginClose, InvOfTransaction, InvOfVerify,
       InvOfReverify, InvOfMarkRow, InvOfMarkCache, InvOfConfirm DEF CloserGoesOn
<1>6. CASE RunnerGoesOn
    BY <1>1, <1>5, <1>6, Parties, InvOfCompleteRun, InvOfRunnerEnds DEF RunnerGoesOn
<1>7. ASSUME NEW c \in Terminals, RequestTerminal(c) \/ TerminalGoesOn(c) PROVE IInv'
    BY <1>1, <1>5, <1>7, Parties, InvOfRequest, InvOfTerminalBegins, InvOfTerminalReleases,
       InvOfProof DEF TerminalGoesOn
<1>8. CASE RequestAck \/ QueueAck \/ DropAck \/ BeginRunnerClose
    BY <1>1, <1>8, InvOfAck, InvOfRunnerBegins
<1>9. CASE \/ RevokePendingStart \/ FinishRoutine \/ FaultControlWrites \/ ClearStep
           \/ RunCompletes \/ RunFaults
    BY <1>1, <1>9, InvOfAsides
<1>10. CASE Restart
    BY <1>1, <1>10, InvOfRestart
<1> QED BY <1>2, <1>3, <1>4, <1>6, <1>7, <1>8, <1>9, <1>10 DEF Next

-----------------------------------------------------------------------------
(* Types, and a lease that never goes back.                                *)

\* A Start that reads has a row to compare.
Typed == TypeOK /\ (start.pc = "reading" => start.row \in Leases)

LEMMA TypedNext == ASSUME Typed, [Next]_vars PROVE Typed'
<1>1. TypeOK'
    BY TypesKept DEF Typed
<1>2. \/ start' \in {start, Outdated(start)}
      \/ start'.pc = "reading" /\ start'.row = durable
      \/ start'.pc # "reading"
    <2>1. NoStart.pc # "reading"
        BY DEF NoStart
    <2>2. start \in StartType
        BY DEF Typed, TypeOK, StartType
    <2>3. CASE StartStep
        <3>1. CASE StartAdmitted
            BY <3>1 DEF StartAdmitted
        <3>2. CASE StartReadsLease
            BY <2>1, <2>2, <3>2 DEF StartReadsLease, StartIdles, StartType
        <3>3. CASE \/ StartCreatesRun \/ StartPublishes \/ StartBuildFails
                   \/ StartBuildsRunner \/ StartWrites \/ StartNotWritten
            BY <2>1, <2>2, <3>3 DEF StartCreatesRun, StartPublishes, StartBuildFails,
               StartBuildsRunner, StartWrites, StartNotWritten, StartIdles, StartType
        <3> QED BY <2>3, <3>1, <3>2, <3>3 DEF StartStep
    <2>4. CASE Restart
        BY <2>1, <2>4 DEF Restart
    <2>5. CASE RevokePendingStart \/ \E s \in Stops : StopStep(s)
        BY <2>5 DEF RevokePendingStart, StopStep, AdmitStop, DispatchStop, WithdrawStop,
           FinishStop, PersistStop, PublishStop, AuditStop, PersistStopFails
    <2>6. ASSUME NEW c \in Closers, CloserGoesOn(c) PROVE start' = start
        BY <2>6 DEF CloserGoesOn, WaitForProof, ProofFails, AlreadySafe, StopCooling,
           StopCoolingReturns, CheckAfterStop, ReadBackSafeZero, BeginClose, CloseTransaction,
           VerifyClose, ReverifyClose, MarkDurableUnknown, MarkCacheUnknown, ConfirmClose,
           Answered
    <2>7. CASE \/ HealthFetch \/ HealthRead \/ FinishRoutine \/ FaultControlWrites
               \/ RequestAck \/ QueueAck \/ DropAck \/ BeginRunnerClose \/ RunnerGoesOn
        BY <2>6, <2>7, Parties DEF HealthFetch, HealthRead, FinishRoutine, FaultControlWrites,
           RequestAck, QueueAck, DropAck, BeginRunnerClose, RunnerGoesOn, CompleteRun,
           RunnerFinishes, RunnerFails, LoopDies
    <2>8. CASE \/ \E c \in Terminals : RequestTerminal(c) \/ TerminalGoesOn(c)
               \/ ClearStep \/ RunCompletes \/ RunFaults
        BY <2>6, <2>8, Parties DEF RequestTerminal, TerminalGoesOn, BeginTerminalClose,
           TerminalReleases, TerminalReports, ClearStep, RequestClearance, ProveClearance,
           PersistClearance, Clear, RunCompletes, RunFaults
    <2>9. CASE UNCHANGED vars
        BY <2>9 DEF vars
    <2> QED BY <2>3, <2>4, <2>5, <2>7, <2>8, <2>9 DEF Next
<1>3. start \in StartType /\ durable \in Leases
    BY DEF Typed, TypeOK, StartType
<1> QED BY <1>1, <1>2, <1>3, OutdatedFacts DEF Typed

LEMMA AlwaysTyped == Spec => []Typed
<1>1. Init => Typed
    BY InitInv DEF IInv, Typed, RowsFetched, Fetched
<1>2. Typed /\ [Next]_vars => Typed'
    BY TypedNext
<1> QED BY <1>1, <1>2, PTL DEF Spec

\* Every request, row and lease keeps its type.
THEOREM TypeCorrect == Spec => []TypeOK
<1>1. Typed => TypeOK
    BY DEF Typed
<1> QED BY <1>1, AlwaysTyped, PTL

\* One step of LeaseNeverRegresses.
Onwards ==
    /\ durable'.gen >= durable.gen
    /\ durable'.gen = durable.gen /\ durable.status # "open" => durable'.status # "open"
    /\ restarts' = restarts /\ cache.bound => cache'.gen >= cache.gen

LEMMA RowStays ==
    ASSUME TypeOK, durable' = durable, cache.bound => cache'.gen >= cache.gen PROVE Onwards
BY Fields DEF Onwards

LEMMA CacheReadOnwards ==
    ASSUME TypeOK, durable' = durable, NEW r \in Leases, cache' = Reconciled(r)
    PROVE  Onwards
<1>1. r.gen \in Nat /\ cache.gen \in Nat
    BY Fields DEF Leases
<1> QED BY <1>1, RowStays DEF Reconciled

LEMMA FencedOnwards ==
    ASSUME TypeOK, durable' = durable, NEW c \in Closers, Fenced(c) PROVE Onwards
<1>1. cache'.gen = cache.gen /\ cache.gen \in Nat
    BY DEF Fenced, UnknownAt, TypeOK, Leases, lease
<1> QED BY <1>1, RowStays

LEMMA StopsGoOn == ASSUME TypeOK, NEW s \in Stops, StopStep(s) PROVE Onwards
<1> USE Fields DEF lease
<1>1. CASE AdmitStop(s)
    BY <1>1, RowStays DEF AdmitStop
<1>2. CASE DispatchStop(s) \/ WithdrawStop(s) \/ FinishStop(s) \/ AuditStop(s)
    BY <1>2, RowStays DEF DispatchStop, WithdrawStop, FinishStop, AuditStop
<1>3. CASE PersistStop(s)
    BY <1>3 DEF PersistStop, Onwards
<1>4. CASE PublishStop(s)
    <2>1. cache' = cache
          \/ (/\ durable = [cache EXCEPT !.status = IF stop[s].exact THEN "open" ELSE "unknown"]
              /\ cache' = durable)
        BY <1>4 DEF PublishStop
    <2>2. cache'.gen = cache.gen /\ cache'.bound = cache.bound
        BY <2>1 DEF TypeOK, Leases
    <2> QED BY <1>4, <2>2, RowStays DEF PublishStop
<1>5. CASE PersistStopFails(s)
    <2>1. cache'.gen = cache.gen /\ cache'.bound = cache.bound
        BY <1>5 DEF PersistStopFails, UnknownAt, TypeOK, Leases
    <2> QED BY <1>5, <2>1, RowStays DEF PersistStopFails
<1> QED BY <1>1, <1>2, <1>3, <1>4, <1>5 DEF StopStep

LEMMA ClosersGoOn == ASSUME TypeOK, NEW c \in Closers, CloserGoesOn(c) PROVE Onwards
<1> USE Fields DEF lease
<1>1. CASE \/ WaitForProof(c) \/ ProofFails(c) \/ AlreadySafe(c) \/ StopCooling(c)
           \/ StopCoolingReturns(c) \/ CheckAfterStop(c) \/ ReadBackSafeZero(c)
           \/ BeginClose(c) \/ Answered(c)
    BY <1>1, RowStays DEF WaitForProof, ProofFails, AlreadySafe, StopCooling,
       StopCoolingReturns, CheckAfterStop, ReadBackSafeZero, BeginClose, Answered
<1>2. CASE CloseTransaction(c)
    <2>1. /\ \/ durable' = durable
             \/ durable.status = "open" /\ durable' = [durable EXCEPT !.status = "closed"]
          /\ cache' = cache
        BY <1>2 DEF CloseTransaction
    <2>2. durable'.gen = durable.gen /\ (durable.status # "open" => durable'.status # "open")
        BY <2>1 DEF TypeOK, Leases
    <2> QED BY <2>1, <2>2 DEF Onwards
<1>3. CASE VerifyClose(c)
    <2>1. durable' = durable
          /\ (cache' = cache \/ \E row \in {durable, UnreadableRow} : cache' = Reconciled(row))
        BY <1>3 DEF VerifyClose
    <2>2. CASE cache' = cache
        BY <2>1, <2>2, RowStays
    <2>3. CASE \E row \in {durable, UnreadableRow} : cache' = Reconciled(row)
        <3>1. PICK row \in {durable, UnreadableRow} : cache' = Reconciled(row)
            BY <2>3
        <3>2. row \in Leases
            BY ReadTypes DEF TypeOK
        <3> QED BY <2>1, <3>1, <3>2, CacheReadOnwards
    <2> QED BY <2>1, <2>2, <2>3
<1>4. CASE ReverifyClose(c) \/ MarkCacheUnknown(c)
    <2>1. durable' = durable /\ (cache' = cache \/ Fenced(c))
        BY <1>4 DEF ReverifyClose, MarkCacheUnknown
    <2> QED BY <2>1, RowStays, FencedOnwards
<1>5. CASE MarkDurableUnknown(c)
    <2>1. /\ durable' \in {durable, [durable EXCEPT !.status = "unknown"]}
          /\ cache' = cache
        BY <1>5 DEF MarkDurableUnknown
    <2>2. durable'.gen = durable.gen /\ (durable.status # "open" => durable'.status # "open")
        BY <2>1 DEF TypeOK, Leases
    <2> QED BY <2>1, <2>2 DEF Onwards
<1>6. CASE ConfirmClose(c)
    <2>1. cache' = cache \/ cache' = [cache EXCEPT !.status = "closed"]
        BY <1>6 DEF ConfirmClose
    <2>2. cache'.gen = cache.gen /\ cache'.bound = cache.bound
        BY <2>1 DEF TypeOK, Leases
    <2> QED BY <1>6, <2>2, RowStays DEF ConfirmClose
<1> QED BY <1>1, <1>2, <1>3, <1>4, <1>5, <1>6 DEF CloserGoesOn

LEMMA StepsGoOn == ASSUME Typed, [Next]_vars PROVE Onwards \/ UNCHANGED vars
<1> USE Fields DEF lease
<1>0. TypeOK
    BY DEF Typed
<1>1. CASE HealthRead
    <2>1. PICK row \in {durable, UnreadableRow} \cup ({health} \ {NoRow}) :
              cache' = Reconciled(row)
        BY <1>1 DEF HealthRead
    <2>2. row \in Leases
        BY <1>0, ReadTypes DEF TypeOK
    <2> QED BY <1>1, <2>1, <2>2, <1>0, CacheReadOnwards DEF HealthRead
<1>2. CASE StartReadsLease
    <2>1. PICK row \in {start.row, UnreadableRow} : cache' = Reconciled(row)
        BY <1>2 DEF StartReadsLease
    <2>2. row \in Leases
        BY <1>0, <1>2, ReadTypes DEF Typed, TypeOK, StartReadsLease
    <2> QED BY <1>2, <2>1, <2>2, <1>0, CacheReadOnwards DEF StartReadsLease
<1>3. CASE Restart
    <2>1. /\ \/ durable' = durable
             \/ durable = NoLease /\ durable' = [durable EXCEPT !.status = "unknown"]
          /\ restarts' = restarts + 1 /\ restarts \in Nat
        BY <1>0, <1>3 DEF Restart, TypeOK
    <2>2. durable'.gen = durable.gen /\ (durable.status # "open" => durable'.status # "open")
        BY <1>0, <2>1 DEF TypeOK, Leases
    <2> QED BY <1>0, <2>1, <2>2 DEF Onwards
<1>4. ASSUME NEW s \in Stops, StopStep(s) PROVE Onwards
    BY <1>0, <1>4, StopsGoOn
<1>5. ASSUME NEW c \in Closers, CloserGoesOn(c) PROVE Onwards
    BY <1>0, <1>5, ClosersGoOn
<1>6. CASE \/ HealthFetch \/ StartAdmitted \/ StartCreatesRun \/ StartPublishes
           \/ StartBuildFails \/ StartBuildsRunner \/ StartWrites \/ StartNotWritten
           \/ FinishRoutine \/ FaultControlWrites \/ RevokePendingStart
    BY <1>0, <1>6, RowStays DEF HealthFetch, StartAdmitted, StartCreatesRun, StartPublishes,
       StartBuildFails, StartBuildsRunner, StartWrites, StartNotWritten, FinishRoutine,
       FaultControlWrites, RevokePendingStart
<1>7. CASE \/ RequestAck \/ QueueAck \/ DropAck \/ BeginRunnerClose \/ CompleteRun
           \/ RunnerFinishes \/ RunnerFails \/ LoopDies \/ ClearStep \/ RunCompletes \/ RunFaults
    BY <1>0, <1>7, RowStays DEF RequestAck, QueueAck, DropAck, BeginRunnerClose, CompleteRun,
       RunnerFinishes, RunnerFails, LoopDies, ClearStep, RequestClearance, ProveClearance,
       PersistClearance, Clear, RunCompletes, RunFaults
<1>8. ASSUME NEW c \in Terminals,
             \/ RequestTerminal(c) \/ BeginTerminalClose(c) \/ TerminalReleases(c)
             \/ TerminalReports(c)
      PROVE  Onwards
    BY <1>0, <1>8, RowStays DEF RequestTerminal, BeginTerminalClose, TerminalReleases,
       TerminalReports
<1> QED BY <1>1, <1>2, <1>3, <1>4, <1>5, <1>6, <1>7, <1>8, Parties
        DEF Next, StartStep, RunnerGoesOn, TerminalGoesOn

\* The durable row only takes newer generations and is never opened again, and
\* a lease in memory that names its run is replaced by an older one only by a
\* restart (store.py: the ordered upsert; api.py: the comparison after each read).
THEOREM LeaseMonotone == Spec => LeaseNeverRegresses
<1>1. Typed /\ [Next]_vars => [Onwards]_vars
    BY StepsGoOn
<1>2. [Onwards]_vars => [/\ durable'.gen >= durable.gen
                         /\ durable'.gen = durable.gen /\ durable.status # "open"
                              => durable'.status # "open"
                         /\ restarts' = restarts /\ cache.bound
                              => cache'.gen >= cache.gen]_vars
    BY DEF Onwards
<1> QED BY <1>1, <1>2, AlwaysTyped, PTL DEF Spec, LeaseNeverRegresses

-----------------------------------------------------------------------------
(* With one terminal closer a reservation is made only when no earlier      *)
(* holder is still at work, so that nobody else frees it.                   *)

OneTerminal == \A t, u \in Terminals : t = u

\* A closer that a stop or the terminal closer has left without its hold is at
\* work beside an active run.
Stale ==
    /\ run = "active"
    /\ \/ \E t \in Terminals : Begun(t) /\ t \notin holders
       \/ Begun(Runner) /\ ~finalizing

\* A row that shows the current lease closed will be refused.
Held(r) == r.status = "closed" /\ r.gen >= cache.gen => unconfirmed = cache.gen

\* The lease of such a run stays unresolved: no plain acknowledgement is made.
Fence ==
    Stale => /\ cache.status # "closed" /\ cache.bound /\ Held(durable)
             /\ health # NoRow => Held(health)
             /\ start.pc = "reading" => Held(start.row)

AckReady == ack.pc = "queued" /\ ack.current /\ (ack.d212 => ack.gen = cache.gen)

\* Who holds what: a terminal closer that holds no reservation is of an older
\* generation, and once the aborting runner has cleared the reservation of one,
\* no acknowledgement is left for the runner to begin again with.
Holding ==
    /\ Runner \in holders => reserved /\ (Begun(Runner) \/ closer[Runner].pc = "dead")
    /\ \A t \in Terminals :
          /\ t \in holders => Begun(t)
          /\ Begun(t) /\ t \notin holders => closer[t].gen < cache.gen
          /\ Begun(Runner) /\ ~finalizing /\ closer[t].pc = "requested" => run # "active"
          /\ Begun(Runner) /\ t \in holders /\ Runner \notin holders => run # "active"
          /\ t \in holders /\ ~reserved
               => live = "faulted" /\ run # "active" /\ ~Begun(Runner) /\ ~AckReady
          /\ start.pc = "creating" /\ start.current /\ Begun(t) => t \in holders
    /\ Begun(Runner) /\ ack.pc # "idle" => ack.d212
    /\ Begun(Runner) /\ closer[Runner].committed => run # "active"

\* The step of somebody who neither makes nor frees a reservation.
Bystands ==
    /\ UNCHANGED <<holders, reserved, finalizing>>
    /\ \A x \in Closers : /\ Begun(x)' <=> Begun(x)
                          /\ Begun(x) => closer'[x].gen = closer[x].gen
    /\ \A t \in Terminals :
          closer'[t].pc = "requested" => closer[t].pc = "requested" \/ run # "active"
    /\ closer[Runner].pc = "dead" => closer'[Runner].pc = "dead"
    /\ Begun(Runner) /\ closer'[Runner].committed => closer[Runner].committed \/ run' # "active"
    /\ run' = "active" => run = "active" \/ (start.pc = "creating" /\ start.current)
    /\ live = "faulted" => live' = "faulted"
    /\ \/ ack' = ack
       \/ ack'.pc = "idle"
       \/ ack'.pc = "checked" /\ (Begun(Runner) => ack'.d212)
       \/ run = "active" /\ ack.pc # "idle" /\ ack'.d212 = ack.d212
    /\ start'.pc = "creating" /\ start'.current
         => ~finalizing \/ (start.pc = "creating" /\ start.current)

LEMMA HoldingKept ==
    ASSUME IInv, TypeOK', Holding, Bystands, cache.bound => cache'.gen >= cache.gen
    PROVE  Holding'
<1> USE Fields, Parties DEF IInv
<1>0. cache'.gen \in Nat
    BY DEF TypeOK, Leases
<1>1. run' = "active" /\ live = "faulted" => run = "active"
    BY DEF Bystands, StartSide
<1>2. Begun(Runner) => live = "faulted"
    BY DEF RunnerSide
<1>3. Runner \in holders' => reserved' /\ (Begun(Runner)' \/ closer'[Runner].pc = "dead")
    BY DEF Holding, Bystands
<1>4. ASSUME NEW t \in Terminals
      PROVE  /\ t \in holders' => Begun(t)'
             /\ Begun(t)' /\ t \notin holders' => closer'[t].gen < cache'.gen
    <2>1. t \in Closers /\ closer[t].gen \in Nat /\ closer[t].d212
        BY DEF Gate
    <2>2. Begun(t) => closer[t].pc # "idle" /\ cache.bound
        BY <2>1 DEF Begun, Ended, Generations
    <2> QED BY <1>0, <2>1, <2>2 DEF Holding, Bystands
<1>5. ASSUME NEW t \in Terminals
      PROVE  /\ Begun(Runner)' /\ ~finalizing' /\ closer'[t].pc = "requested" => run' # "active"
             /\ Begun(Runner)' /\ t \in holders' /\ Runner \notin holders' => run' # "active"
    BY <1>1, <1>2 DEF Holding, Bystands
<1>6. ASSUME NEW t \in Terminals, t \in holders', ~reserved'
      PROVE  live' = "faulted" /\ run' # "active" /\ ~Begun(Runner)' /\ ~AckReady'
    <2>1. live = "faulted" /\ run # "active" /\ ~Begun(Runner) /\ ~AckReady
        BY <1>6 DEF Holding, Bystands
    <2>2. CASE ack' = ack
        <3>1. ack.pc = "queued" /\ ack.d212 => cache.bound /\ ack.gen <= cache.gen
            BY DEF Generations
        <3> QED BY <1>0, <1>1, <2>1, <2>2, <3>1 DEF Bystands, AckReady
    <2>3. CASE ack'.pc # "queued"
        BY <1>1, <2>1, <2>3 DEF Bystands, AckReady
    <2> QED BY <2>1, <2>2, <2>3 DEF Bystands
<1>7. ASSUME NEW t \in Terminals, start'.pc = "creating", start'.current, Begun(t)'
      PROVE  t \in holders'
    <2>1. Begun(t) /\ finalizing
        BY <1>7 DEF Bystands, Gate
    <2> QED BY <1>7, <2>1 DEF Bystands, Holding
<1>8. Begun(Runner)' /\ ack'.pc # "idle" => ack'.d212
    BY DEF Bystands, Holding
<1>9. Begun(Runner)' /\ closer'[Runner].committed => run' # "active"
    BY <1>1, <1>2 DEF Bystands, Holding
<1> QED BY <1>3, <1>4, <1>5, <1>6, <1>7, <1>8, <1>9 DEF Holding

LEMMA StaleBefore == ASSUME IInv, Holding, Bystands PROVE Stale' => Stale
<1> USE Parties DEF IInv
<1>1. SUFFICES ASSUME Stale' PROVE Stale
    OBVIOUS
<1>2. \/ \E t \in Terminals : Begun(t) /\ t \notin holders
      \/ Begun(Runner) /\ ~finalizing
    BY <1>1 DEF Stale, Bystands
<1>3. run = "active"
    <2>1. SUFFICES ASSUME start.pc = "creating", start.current PROVE FALSE
        BY <1>1 DEF Stale, Bystands
    <2> QED BY <1>2, <2>1 DEF Holding, RunnerSide, StartSide
<1> QED BY <1>2, <1>3 DEF Stale

\* The lease and the rows where they were, or further from closed.
LEMMA FenceKept ==
    ASSUME TypeOK, TypeOK', Fence, Stale' => Stale,
           cache'.gen = cache.gen, cache'.bound = cache.bound,
           cache'.status = "closed" => cache.status = "closed" \/ ~Stale',
           unconfirmed' \in {unconfirmed, cache.gen},
           \/ durable' = durable \/ durable'.status # "closed"
           \/ durable'.gen < cache.gen \/ ~Stale',
           health' \in {health, durable, NoRow},
           start'.pc = "reading" => \/ start'.row = durable
                                    \/ start.pc = "reading" /\ start'.row = start.row
    PROVE  Fence'
<1>1. SUFFICES ASSUME Stale'
      PROVE  /\ cache'.status # "closed" /\ cache'.bound /\ Held(durable)'
             /\ health' # NoRow => Held(health)'
             /\ start'.pc = "reading" => Held(start.row)'
    BY DEF Fence
<1>2. /\ cache.status # "closed" /\ cache.bound /\ Held(durable)
      /\ health # NoRow => Held(health)
      /\ start.pc = "reading" => Held(start.row)
    BY <1>1 DEF Fence
<1>3. cache.gen \in Nat /\ durable'.gen \in Nat
    BY DEF TypeOK, Leases
<1> QED BY <1>1, <1>2, <1>3 DEF Held

\* A row compared with the cache is refused if it shows the lease closed.
LEMMA FenceRead ==
    ASSUME IInv, TypeOK', Fence, Stale' => Stale,
           NEW r, Fetched(r) \/ r = UnreadableRow, Stale /\ Fetched(r) => Held(r),
           cache' = Reconciled(r), UNCHANGED <<unconfirmed, durable>>,
           health' \in {health, NoRow},
           start'.pc = "reading" => start.pc = "reading" /\ start'.row = start.row
    PROVE  Fence'
<1> USE DEF IInv
<1>1. CASE cache' = cache
    BY <1>1, FenceKept
<1>2. CASE cache' # cache
    <2>1. cache' = r /\ unconfirmed # cache.gen
        BY <1>2 DEF Reconciled
    <2>2. SUFFICES ASSUME Stale' PROVE /\ cache'.status # "closed" /\ cache'.bound /\ Held(durable)'
                                       /\ health' # NoRow => Held(health)'
                                       /\ start'.pc = "reading" => Held(start.row)'
        BY DEF Fence
    <2>3. Stale /\ cache.bound
        BY <2>2 DEF Fence
    <2>4. cache'.bound /\ cache'.gen >= cache.gen
        BY <2>3, CacheRead DEF CacheMayShow, Newer
    <2>5. cache.gen \in Nat /\ cache'.gen \in Nat /\ durable.gen \in Nat
        BY Fields DEF TypeOK, Leases
    <2>6. cache'.status # "closed"
        <3>1. CASE r = UnreadableRow
            BY <2>1, <3>1 DEF UnreadableRow, TypeOK, Leases
        <3>2. CASE Fetched(r)
            BY <2>1, <2>3, <2>4, <3>2 DEF Held
        <3> QED BY <3>1, <3>2
    <2>7. ASSUME NEW q \in Leases, Held(q) PROVE ~(q.status = "closed" /\ q.gen >= cache'.gen)
        <3>1. q.gen \in Nat
            BY DEF Leases
        <3> QED BY <2>1, <2>4, <2>5, <2>7, <3>1 DEF Held
    <2>8. durable \in Leases /\ (health # NoRow => health \in Leases)
          /\ (start.pc = "reading" => start.row \in Leases)
        BY DEF TypeOK, RowsFetched, Fetched
    <2>9. Held(durable) /\ (health # NoRow => Held(health))
          /\ (start.pc = "reading" => Held(start.row))
        BY <2>3 DEF Fence
    <2> QED BY <2>4, <2>6, <2>7, <2>8, <2>9 DEF Held
<1> QED BY <1>1, <1>2

\* Everything that is kept, and what a step has to show to keep it.
Kept == OneHolder' /\ Holding' /\ Fence'

LEMMA BystandsFenced ==
    ASSUME IInv, TypeOK', OneHolder, Holding, Bystands, Fence',
           cache.bound => cache'.gen >= cache.gen
    PROVE  Kept
<1>1. OneHolder'
    BY DEF Bystands, OneHolder
<1> QED BY <1>1, HoldingKept DEF Kept

LEMMA BystandsKeep ==
    ASSUME IInv, TypeOK', OneHolder, Holding, Fence, Bystands, cache.bound => cache'.gen >= cache.gen,
           cache'.gen = cache.gen, cache'.bound = cache.bound,
           cache'.status = "closed" => cache.status = "closed" \/ ~Stale',
           unconfirmed' \in {unconfirmed, cache.gen},
           \/ durable' = durable \/ durable'.status # "closed"
           \/ durable'.gen < cache.gen \/ ~Stale',
           health' \in {health, durable, NoRow},
           start'.pc = "reading" => \/ start'.row = durable
                                    \/ start.pc = "reading" /\ start'.row = start.row
    PROVE  Kept
BY BystandsFenced, StaleBefore, FenceKept DEF IInv

\* Closers, acknowledgement and start where they were.
LEMMA AloneBystands ==
    ASSUME UNCHANGED <<holders, reserved, finalizing, closer, ack, start>>,
           run' = run \/ run' = "completed", live = "faulted" => live' = "faulted"
    PROVE  Bystands
<1>1. \A x \in Closers : (Begun(x)' <=> Begun(x)) /\ closer'[x] = closer[x]
    BY DEF Begun
<1>2. run' = "active" => run = "active"
    OBVIOUS
<1> QED BY <1>1, <1>2, Parties DEF Bystands

LEMMA HoldStops ==
    ASSUME IInv, TypeOK', OneHolder, Holding, Fence, cache.bound => cache'.gen >= cache.gen,
           NEW s \in Stops, StopStep(s), ~AdmitStop(s)
    PROVE  Kept
<1> USE Fields DEF IInv, lease, gate, roast, port, history
<1>1. Bystands
    <2>1. /\ UNCHANGED <<holders, reserved, finalizing, closer, ack, start, run>>
          /\ live = "faulted" => live' = "faulted"
        BY DEF StopStep, DispatchStop, WithdrawStop, FinishStop, PersistStop, PublishStop,
           AuditStop, PersistStopFails, Port!StartStop, Port!Withdraw, Port!Finish
    <2> QED BY <2>1, AloneBystands
<1>2. CASE DispatchStop(s) \/ WithdrawStop(s) \/ FinishStop(s) \/ AuditStop(s)
    <2>1. UNCHANGED <<lease, durable, health>>
        BY <1>2 DEF DispatchStop, WithdrawStop, FinishStop, AuditStop
    <2>2. start' = start
        BY <1>2 DEF DispatchStop, WithdrawStop, FinishStop, AuditStop
    <2> QED BY <1>1, <2>1, <2>2, BystandsKeep
<1>3. CASE PersistStop(s)
    <2>1. /\ UNCHANGED <<lease, health, start>>
          /\ durable' = durable \/ durable'.status # "closed"
        BY <1>3 DEF PersistStop
    <2> QED BY <1>1, <2>1, BystandsKeep
<1>4. CASE PersistStopFails(s)
    <2>1. /\ UNCHANGED <<unconfirmed, health, start, durable>>
          /\ cache'.gen = cache.gen /\ cache'.bound = cache.bound
          /\ cache' = cache \/ cache'.status = "unknown"
        BY <1>4 DEF PersistStopFails, UnknownAt, TypeOK, Leases
    <2> QED BY <1>1, <2>1, BystandsKeep
<1>5. CASE PublishStop(s)
    <2>1. CASE UNCHANGED lease
        <3>1. UNCHANGED <<lease, health, start, durable>>
            BY <1>5, <2>1 DEF PublishStop
        <3> QED BY <1>1, <3>1, BystandsKeep
    <2>2. CASE /\ cache.bound /\ cache.exact = stop[s].exact
               /\ durable = [cache EXCEPT !.status = IF stop[s].exact THEN "open" ELSE "unknown"]
               /\ cache' = durable /\ unconfirmed' = NoGeneration
        <3>1. /\ durable.gen = cache.gen /\ durable.bound /\ durable.exact = cache.exact
              /\ durable.status = IF cache.exact THEN "open" ELSE "unknown"
            BY <2>2 DEF TypeOK, Leases
        <3>2. cache.gen >= 1
            BY <2>2 DEF Generations
        <3>3. ASSUME NEW r, Fetched(r) PROVE Held(r)'
            <4>1. r.gen \in Nat
                BY <3>3 DEF Fetched, Leases
            <4> QED BY <2>2, <3>1, <3>2, <3>3, <4>1 DEF Held, Fetched, Sound
        <3>4. UNCHANGED <<health, start, durable>>
            BY <1>5 DEF PublishStop
        <3>5. Fence'
            BY <2>2, <3>1, <3>3, <3>4, DurableFetched DEF Fence, RowsFetched, Held
        <3> QED BY <1>1, <3>5, BystandsFenced
    <2> QED BY <1>5, <2>1, <2>2 DEF PublishStop
<1> QED BY <1>2, <1>3, <1>4, <1>5 DEF StopStep

LEMMA HoldAdmit ==
    ASSUME IInv, TypeOK', Holding, NEW s \in Stops, AdmitStop(s)
    PROVE  Kept
<1> USE Fields, Parties DEF IInv, lease, gate, roast, port, history
<1>1. /\ holders' = {} /\ reserved' = FALSE /\ UNCHANGED <<finalizing, run, live, durable, health>>
      /\ cache'.gen = cache.gen + 1 /\ cache'.bound /\ cache'.status = "unknown"
      /\ unconfirmed' = cache'.gen
      /\ start' \in {start, Outdated(start)} /\ ack' = Outdated(ack)
      /\ StopTarget # "live" => start' = Outdated(start)
      /\ closer' = [c \in Closers |-> Outdated(closer[c])]
    BY DEF AdmitStop, Port!Admit
<1>2. \A c \in Closers : /\ closer'[c].pc = closer[c].pc /\ closer'[c].gen = closer[c].gen
                         /\ closer'[c].d212 = closer[c].d212
                         /\ closer'[c].committed = closer[c].committed
    BY <1>1, OutdatedFacts DEF TypeOK, CloserType
<1>3. ack'.pc = ack.pc /\ ack'.d212 = ack.d212
    BY <1>1, OutdatedFacts DEF TypeOK, AckType
<1>4. Fence'
    BY <1>1 DEF Fence, Held
<1>5. ~(start'.pc = "creating" /\ start'.current)
    <2>1. CASE StopTarget # "live"
        BY <1>1, <2>1 DEF Outdated, TypeOK
    <2>2. CASE StopTarget = "live"
        <3>1. live \notin {"none", "finalized"}
            BY <2>2 DEF StopTarget
        <3> QED BY <1>1, <3>1, OutdatedFacts DEF StartSide, TypeOK, StartType
    <2> QED BY <2>1, <2>2
<1>6. ASSUME NEW t \in Terminals, Begun(t)' PROVE closer'[t].gen < cache'.gen
    <2>1. closer[t].pc # "idle" /\ closer[t].d212 /\ t \in Closers
        BY <1>2, <1>6 DEF Begun, Ended, Gate
    <2>2. closer[t].gen <= cache.gen
        BY <2>1 DEF Generations
    <2> QED BY <1>1, <1>2, <2>1, <2>2
<1>7. Begun(Runner)' => Begun(Runner)
    BY <1>2 DEF Begun
<1>8. \A t \in Terminals : closer'[t].pc = closer[t].pc
    BY <1>2
<1> QED BY <1>1, <1>2, <1>3, <1>4, <1>5, <1>6, <1>7, <1>8 DEF Kept, Holding, OneHolder

LEMMA HoldStart ==
    ASSUME IInv, TypeOK', OneHolder, Holding, Fence, cache.bound => cache'.gen >= cache.gen,
           StartStep
    PROVE  Kept
<1> USE Fields DEF IInv, lease, gate, roast, port, history
<1>0. NoStart.pc = "idle" /\ start \in StartType
    BY DEF NoStart, TypeOK, StartType
<1>1. CASE StartReadsLease
    <2>1. PICK row \in {start.row, UnreadableRow} : cache' = Reconciled(row)
        BY <1>1 DEF StartReadsLease
    <2>2. /\ UNCHANGED <<holders, reserved, finalizing, closer, ack, run, live, unconfirmed,
                         durable, health>>
          /\ start.pc = "reading"
        BY <1>1 DEF StartReadsLease
    <2>3. /\ start'.pc # "reading"
          /\ start'.pc = "creating" => ~finalizing
        BY <1>0, <1>1 DEF StartReadsLease, StartIdles, StartType, FinalizationInProgress
    <2>4. Bystands
        BY <2>2, <2>3 DEF Bystands, Begun
    <2>5. (Fetched(row) \/ row = UnreadableRow) /\ (Stale /\ Fetched(row) => Held(row))
        <3>1. CASE row = start.row
            BY <2>2, <3>1 DEF RowsFetched, Fence
        <3>2. CASE row = UnreadableRow
            <4>1. row.status = "unknown"
                BY <3>2 DEF UnreadableRow, TypeOK, Leases
            <4> QED BY <3>2, <4>1 DEF Held
        <3> QED BY <2>1, <3>1, <3>2
    <2>6. Fence'
        BY <2>1, <2>2, <2>3, <2>4, <2>5, StaleBefore, FenceRead
    <2> QED BY <2>4, <2>6, BystandsFenced
<1>2. CASE StartAdmitted
    <2>1. /\ UNCHANGED <<holders, reserved, finalizing, closer, ack, run, live, lease,
                         durable, health>>
          /\ start'.pc = "reading" /\ start'.row = durable
        BY <1>2 DEF StartAdmitted
    <2>2. Bystands
        BY <2>1 DEF Bystands, Begun
    <2> QED BY <2>1, <2>2, BystandsKeep
<1>3. CASE \/ StartCreatesRun \/ StartPublishes \/ StartBuildFails \/ StartBuildsRunner
           \/ StartWrites \/ StartNotWritten
    <2>1. UNCHANGED <<holders, reserved, finalizing, closer, ack, lease, durable, health>>
        BY <1>3 DEF StartCreatesRun, StartPublishes, StartBuildFails, StartBuildsRunner,
           StartWrites, StartNotWritten, Port!StartRoutine
    <2>2. start'.pc \notin {"reading", "creating"}
        BY <1>0, <1>3 DEF StartCreatesRun, StartPublishes, StartBuildFails, StartBuildsRunner,
           StartWrites, StartNotWritten, StartIdles, StartType
    <2>3. run' = "active" => run = "active" \/ (start.pc = "creating" /\ start.current)
        BY <1>3 DEF StartCreatesRun, StartPublishes, StartBuildFails, StartBuildsRunner,
           StartWrites, StartNotWritten
    <2>4. live = "faulted" => live' = "faulted"
        BY <1>3 DEF StartCreatesRun, StartPublishes, StartBuildFails, StartBuildsRunner,
           StartWrites, StartNotWritten, StartSide
    <2>5. Bystands
        BY <2>1, <2>2, <2>3, <2>4 DEF Bystands, Begun
    <2> QED BY <2>1, <2>2, <2>5, BystandsKeep
<1> QED BY <1>1, <1>2, <1>3 DEF StartStep

\* What moves a closer that has begun leaves it at work.
LEMMA MoveBystands ==
    ASSUME TypeOK, NEW c \in Closers, NEW p \in CloserPcs,
           UNCHANGED <<holders, reserved, finalizing, live, ack, start>>,
           \A x \in Closers : x # c => closer'[x] = closer[x],
           closer'[c].pc = p, p \notin Ended => closer'[c].gen = closer[c].gen,
           p \notin Ended <=> Begun(c),
           closer[c].pc # "dead", p = "requested" => run # "active",
           closer'[c].committed => closer[c].committed \/ c # Runner \/ run' # "active",
           run' = run \/ run' = "completed"
    PROVE  Bystands
<1>1. \A x \in Closers : /\ Begun(x)' <=> Begun(x)
                         /\ Begun(x) => closer'[x].gen = closer[x].gen
    BY DEF Begun, Ended
<1> QED BY <1>1, Parties DEF Bystands, Begun, Ended

LEMMA HoldClosers ==
    ASSUME IInv, TypeOK', OneHolder, Holding, Fence, cache.bound => cache'.gen >= cache.gen,
           NEW c \in Closers, CloserGoesOn(c)
    PROVE  Kept
<1> USE Fields, Parties DEF IInv, lease, gate, roast, port, history
<1>0. closer \in [Closers -> CloserType]
    BY DEF TypeOK, CloserType
<1>p. /\ {"failed", "readingBack", "proved", "proving", "stopping", "reading", "closed",
          "reverifying", "marking", "marked", "confirming", "aborted", "closing",
          "completing", "verifying"} \subseteq CloserPcs \ (Ended \cup {"idle", "requested"})
      /\ "idle" \in CloserPcs \cap Ended
    BY DEF CloserPcs, Ended
<1>m. ASSUME NEW p \in CloserPcs \ (Ended \cup {"requested"}), closer' = At(c, p), Begun(c),
             UNCHANGED <<holders, reserved, finalizing, live, ack, start>>,
             run' = run \/ run' = "completed"
      PROVE  Bystands
    <2>1. /\ \A x \in Closers : x # c => closer'[x] = closer[x]
          /\ closer'[c].pc = p /\ closer'[c].gen = closer[c].gen
          /\ closer'[c].committed = closer[c].committed
        BY <1>0, <1>p, <1>m, AtFacts
    <2> QED BY <1>m, <2>1, MoveBystands DEF Begun, Ended
<1>t. c \in Terminals /\ Begun(c) /\ c \in holders => ~Stale
    BY DEF Gate, Stale
<1>1. CASE \/ WaitForProof(c) \/ ProofFails(c) \/ AlreadySafe(c) \/ StopCooling(c)
           \/ StopCoolingReturns(c) \/ CheckAfterStop(c) \/ ReadBackSafeZero(c) \/ BeginClose(c)
    <2>1. /\ UNCHANGED <<holders, reserved, finalizing, live, ack, start, lease, durable,
                         health, run>>
          /\ closer[c].pc \in {"reserved", "proving", "stopping", "reading", "readingBack",
                               "proved"}
        BY <1>1 DEF WaitForProof, ProofFails, AlreadySafe, StopCooling, StopCoolingReturns,
           CheckAfterStop, ReadBackSafeZero, BeginClose, Port!StartRoutine, Port!Finish
    <2>2. \E p \in CloserPcs \ (Ended \cup {"requested"}) : closer' = At(c, p)
        BY <1>1, <1>p, GivenUpIsAt DEF WaitForProof, ProofFails, AlreadySafe, StopCooling,
           StopCoolingReturns, CheckAfterStop, ReadBackSafeZero, BeginClose
    <2>3. Bystands
        BY <1>m, <2>1, <2>2 DEF Begun, Ended
    <2> QED BY <2>1, <2>3, BystandsKeep
<1>2. CASE CloseTransaction(c)
    <2>1. /\ UNCHANGED <<holders, reserved, finalizing, live, ack, start, lease, health>>
          /\ closer[c].pc = "closing" /\ Begun(c)
        BY <1>2 DEF CloseTransaction, Begun, Ended
    <2>2. CASE /\ durable' = durable /\ run' = run
               /\ \E p \in {"verifying", "marking"} : closer' = At(c, p)
        <3>1. Bystands
            BY <1>m, <1>p, <2>1, <2>2
        <3> QED BY <2>1, <2>2, <3>1, BystandsKeep
    <2>3. CASE /\ durable.gen = closer[c].gen
               /\ durable' = [durable EXCEPT !.status = "closed"]
               /\ run' = RunCompletedBy(c)
               /\ closer' = [closer EXCEPT ![c].pc = "verifying", ![c].committed = TRUE]
        <3>1. /\ \A x \in Closers : x # c => closer'[x] = closer[x]
              /\ closer'[c].pc = "verifying" /\ closer'[c].gen = closer[c].gen
            BY <1>0, <2>3 DEF CloserType
        <3>2. /\ c = Runner => run' = "completed"
              /\ run' = run \/ run' = "completed"
            BY <2>3 DEF RunCompletedBy
        <3>3. Bystands
            BY <1>p, <2>1, <3>1, <3>2, MoveBystands DEF Begun
        <3>4. durable'.gen = closer[c].gen
            BY <2>3 DEF TypeOK, Leases
        <3>5. durable'.gen < cache.gen \/ ~Stale'
            <4>1. CASE c = Runner
                BY <3>2, <4>1 DEF Stale
            <4>2. CASE c \in Terminals
                BY <1>t, <2>1, <3>3, <3>4, <4>2, StaleBefore DEF Holding
            <4> QED BY <4>1, <4>2
        <3> QED BY <2>1, <3>3, <3>5, BystandsKeep
    <2> QED BY <1>2, <2>2, <2>3 DEF CloseTransaction
<1>3. CASE VerifyClose(c)
    <2>1. /\ UNCHANGED <<holders, reserved, finalizing, live, ack, start, unconfirmed, durable,
                         health, run>>
          /\ closer[c].pc = "verifying" /\ Begun(c)
        BY <1>3 DEF VerifyClose, Begun, Ended
    <2>2. /\ \E p \in CloserPcs \ (Ended \cup {"requested"}) : closer' = At(c, p)
          /\ cache' = cache \/ \E row \in {durable, UnreadableRow} : cache' = Reconciled(row)
        BY <1>3, <1>p, GivenUpIsAt DEF VerifyClose
    <2>3. Bystands
        BY <1>m, <2>1, <2>2
    <2>4. CASE cache' = cache
        BY <2>1, <2>3, <2>4, BystandsKeep
    <2>5. ASSUME NEW row \in {durable, UnreadableRow}, cache' = Reconciled(row) PROVE Kept
        <3>1. (Fetched(row) \/ row = UnreadableRow) /\ (Stale /\ Fetched(row) => Held(row))
            <4>1. UnreadableRow.status = "unknown"
                BY DEF UnreadableRow, TypeOK, Leases
            <4> QED BY <2>5, <4>1, DurableFetched DEF Fence, Held
        <3>2. Fence'
            BY <2>1, <2>3, <2>5, <3>1, StaleBefore, FenceRead
        <3> QED BY <2>3, <3>2, BystandsFenced
    <2> QED BY <2>2, <2>4, <2>5
<1>4. CASE ReverifyClose(c) \/ MarkCacheUnknown(c)
    <2>1. /\ UNCHANGED <<holders, reserved, finalizing, live, ack, start, durable, health, run>>
          /\ Begun(c) /\ \E p \in CloserPcs \ (Ended \cup {"requested"}) : closer' = At(c, p)
          /\ UNCHANGED lease \/ Fenced(c)
        BY <1>4, <1>p, GivenUpIsAt DEF ReverifyClose, MarkCacheUnknown, Begun, Ended
    <2>2. Bystands
        BY <1>m, <2>1
    <2>3. /\ cache'.gen = cache.gen /\ cache'.bound = cache.bound
          /\ cache' = cache \/ cache'.status = "unknown"
          /\ unconfirmed' \in {unconfirmed, cache.gen}
        BY <2>1 DEF Fenced, UnknownAt, TypeOK, Leases
    <2> QED BY <2>1, <2>2, <2>3, BystandsKeep
<1>5. CASE MarkDurableUnknown(c)
    <2>1. /\ UNCHANGED <<holders, reserved, finalizing, live, ack, start, lease, health, run>>
          /\ Begun(c) /\ closer' = At(c, "marked")
          /\ durable' = durable \/ durable'.status # "closed"
        BY <1>5 DEF MarkDurableUnknown, Begun, Ended, TypeOK, Leases
    <2>2. Bystands
        BY <1>m, <1>p, <2>1
    <2> QED BY <2>1, <2>2, BystandsKeep
<1>6. CASE ConfirmClose(c)
    <2>1. /\ UNCHANGED <<holders, reserved, finalizing, live, ack, start, unconfirmed, durable,
                         health, run>>
          /\ closer[c].pc = "closed" /\ Begun(c)
          /\ \E p \in {"confirming", "marking"} : closer' = At(c, p)
        BY <1>6 DEF ConfirmClose, Begun, Ended
    <2>2. Bystands
        BY <1>m, <1>p, <2>1
    <2>3. CASE cache' = cache
        BY <2>1, <2>2, <2>3, BystandsKeep
    <2>4. CASE cache.gen = closer[c].gen /\ cache' = [cache EXCEPT !.status = "closed"]
        <3>1. cache'.gen = cache.gen /\ cache'.bound = cache.bound
            BY <2>4 DEF TypeOK, Leases
        <3>2. ~Stale'
            <4>1. CASE c = Runner
                BY <2>1, <4>1 DEF Committed, Holding, Stale
            <4>2. CASE c \in Terminals
                BY <1>t, <2>1, <2>2, <2>4, <4>2, StaleBefore DEF Holding
            <4> QED BY <4>1, <4>2
        <3> QED BY <2>1, <2>2, <3>1, <3>2, BystandsKeep
    <2> QED BY <1>6, <2>3, <2>4 DEF ConfirmClose
<1>7. CASE Answered(c)
    <2>1. /\ UNCHANGED <<holders, reserved, finalizing, live, ack, start, lease, durable,
                         health, run>>
          /\ closer[c].pc = "acknowledged" /\ closer' = At(c, "idle")
        BY <1>7 DEF Answered
    <2>2. /\ \A x \in Closers : x # c => closer'[x] = closer[x]
          /\ closer'[c].pc = "idle" /\ ~closer'[c].committed
        BY <1>0, <1>p, <2>1, AtFacts, NothingUnderWay
    <2>3. Bystands
        BY <1>p, <2>1, <2>2, MoveBystands DEF Begun, Ended
    <2> QED BY <2>1, <2>3, BystandsKeep
<1> QED BY <1>1, <1>2, <1>3, <1>4, <1>5, <1>6, <1>7 DEF CloserGoesOn

LEMMA HoldRequests ==
    ASSUME IInv, TypeOK', OneHolder, Holding, Fence, cache.bound => cache'.gen >= cache.gen,
           \/ HealthFetch \/ HealthRead \/ RevokePendingStart \/ FinishRoutine
           \/ FaultControlWrites \/ ClearStep \/ RunCompletes \/ RunFaults
           \/ RequestAck \/ QueueAck \/ DropAck
    PROVE  Kept
<1> USE Fields, Parties DEF IInv, lease, gate, roast, port, history
<1>1. CASE HealthFetch \/ FinishRoutine \/ FaultControlWrites \/ ClearStep \/ RunCompletes \/ RunFaults
    <2>1. /\ UNCHANGED <<holders, reserved, finalizing, closer, ack, start, cache, unconfirmed,
                         durable>>
          /\ run' = run \/ run' = "completed"
          /\ live = "faulted" => live' = "faulted"
          /\ health' \in {health, durable}
        BY <1>1 DEF HealthFetch, FinishRoutine, FaultControlWrites, ClearStep, RequestClearance,
           ProveClearance, PersistClearance, Clear, RunCompletes, RunFaults, Port!Finish,
           Port!StartRoutine
    <2>2. Bystands
        BY <2>1, AloneBystands
    <2> QED BY <2>1, <2>2, BystandsKeep
<1>2. CASE HealthRead
    <2>1. PICK row \in {durable, UnreadableRow} \cup ({health} \ {NoRow}) :
              cache' = Reconciled(row)
        BY <1>2 DEF HealthRead
    <2>2. /\ UNCHANGED <<holders, reserved, finalizing, closer, ack, start, run, live,
                         unconfirmed, durable>>
          /\ health' = NoRow
        BY <1>2 DEF HealthRead
    <2>3. Bystands
        BY <2>2, AloneBystands
    <2>4. (Fetched(row) \/ row = UnreadableRow) /\ (Stale /\ Fetched(row) => Held(row))
        <3>1. UnreadableRow.status = "unknown"
            BY DEF UnreadableRow, TypeOK, Leases
        <3> QED BY <2>1, <3>1, DurableFetched DEF Fence, Held, RowsFetched
    <2>5. Fence'
        BY <2>1, <2>2, <2>3, <2>4, StaleBefore, FenceRead
    <2> QED BY <2>3, <2>5, BystandsFenced
<1>3. CASE RevokePendingStart
    <2>1. /\ UNCHANGED <<holders, reserved, finalizing, closer, ack, run, live, lease, durable,
                         health>>
          /\ start'.pc = start.pc /\ start'.row = start.row /\ ~start'.current
        BY <1>3, OutdatedFacts DEF RevokePendingStart, Outdated, TypeOK, StartType
    <2>2. Bystands
        BY <2>1 DEF Bystands, Begun
    <2> QED BY <2>1, <2>2, BystandsKeep
<1>4. CASE RequestAck \/ QueueAck \/ DropAck
    <2>1. UNCHANGED <<holders, reserved, finalizing, closer, run, live, lease, durable, health,
                      start>>
        BY <1>4 DEF RequestAck, QueueAck, DropAck
    <2>2. \/ ack'.pc = "idle"
          \/ ack'.pc = "checked" /\ (Begun(Runner) => ack'.d212)
          \/ run = "active" /\ ack.pc # "idle" /\ ack'.d212 = ack.d212
        <3>1. CASE RequestAck
            BY <3>1 DEF RequestAck, Fence, Stale
        <3>2. CASE QueueAck \/ DropAck
            BY <3>2, NothingUnderWay DEF QueueAck, DropAck, TypeOK
        <3> QED BY <1>4, <3>1, <3>2
    <2>3. Bystands
        BY <2>1, <2>2 DEF Bystands, Begun
    <2> QED BY <2>1, <2>3, BystandsKeep
<1> QED BY <1>1, <1>2, <1>3, <1>4

LEMMA HoldEnds ==
    ASSUME IInv, TypeOK', OneHolder, Holding, Fence, cache.bound => cache'.gen >= cache.gen,
           \/ CompleteRun
           \/ \E t \in Terminals : RequestTerminal(t) \/ TerminalReports(t)
    PROVE  Kept
<1> USE Fields, Parties DEF IInv, lease, gate, roast, port, history
<1>0. /\ closer \in [Closers -> CloserType]
      /\ {"confirming", "idle", "acknowledged", "requested"} \subseteq CloserPcs
    BY DEF TypeOK, CloserType, CloserPcs
<1>1. CASE CompleteRun
    <2>1. /\ UNCHANGED <<holders, reserved, finalizing, live, ack, start, lease, durable, health>>
          /\ run' = "completed" /\ closer[Runner].pc = "completing"
          /\ closer' = At(Runner, "confirming")
        BY <1>1 DEF CompleteRun
    <2>2. /\ \A x \in Closers : x # Runner => closer'[x] = closer[x]
          /\ closer'[Runner].pc = "confirming" /\ closer'[Runner].gen = closer[Runner].gen
        BY <1>0, <2>1, AtFacts
    <2>3. Bystands
        BY <1>0, <2>1, <2>2, MoveBystands DEF Begun, Ended
    <2> QED BY <2>1, <2>3, BystandsKeep
<1>2. ASSUME NEW t \in Terminals, RequestTerminal(t) PROVE Kept
    <2>1. /\ UNCHANGED <<holders, reserved, finalizing, live, ack, start, lease, durable, health,
                         run>>
          /\ run = "completed" /\ closer[t].pc = "idle"
          /\ \A x \in Closers : x # t => closer'[x] = closer[x]
          /\ closer'[t].pc = "requested" /\ ~closer'[t].committed
        BY <1>0, <1>2 DEF RequestTerminal, NoCloser
    <2>2. Bystands
        BY <1>0, <2>1, MoveBystands DEF Begun, Ended
    <2> QED BY <2>1, <2>2, BystandsKeep
<1>3. ASSUME NEW t \in Terminals, TerminalReports(t) PROVE Kept
    <2>1. PICK p \in {"acknowledged", "idle"} : closer' = At(t, p)
        BY <1>3 DEF TerminalReports
    <2>2. /\ UNCHANGED <<holders, reserved, finalizing, live, ack, start, lease, durable, health,
                         run>>
          /\ closer[t].pc = "released"
        BY <1>3 DEF TerminalReports
    <2>3. /\ \A x \in Closers : x # t => closer'[x] = closer[x]
          /\ closer'[t].pc = p /\ (closer'[t].committed => closer[t].committed)
        BY <1>0, <2>1, AtFacts, NothingUnderWay
    <2>4. Bystands
        BY <1>0, <2>1, <2>2, <2>3, MoveBystands DEF Begun, Ended
    <2> QED BY <2>2, <2>4, BystandsKeep
<1> QED BY <1>1, <1>2, <1>3

\* Before a reservation is made there is no holder left.
LEMMA NoHolderBefore ==
    ASSUME Holding, ~reserved, \A t \in Terminals : t \notin holders, TypeOK
    PROVE  holders = {}
BY Parties DEF Holding, TypeOK

LEMMA HoldTerminalBegins ==
    ASSUME OneTerminal, IInv, TypeOK', OneHolder, Holding, Fence,
           cache.bound => cache'.gen >= cache.gen,
           NEW c \in Terminals, BeginTerminalClose(c)
    PROVE  Kept
<1> USE Fields, Parties DEF IInv, lease, gate, roast, port, history
<1>0. closer \in [Closers -> CloserType] /\ {"idle", "reserved"} \subseteq CloserPcs
    BY DEF TypeOK, CloserType, CloserPcs
<1>1. /\ UNCHANGED <<live, ack, start, lease, durable, health, run>>
      /\ closer[c].pc = "requested" /\ ~Begun(c)
    BY DEF BeginTerminalClose, Begun, Ended
<1>2. CASE ~(~finalizing /\ admitted = {} /\ ~reserved)
    <2>1. UNCHANGED <<holders, reserved, finalizing>> /\ closer' = At(c, "idle")
        BY <1>2 DEF BeginTerminalClose
    <2>2. /\ \A x \in Closers : x # c => closer'[x] = closer[x]
          /\ closer'[c].pc = "idle" /\ ~closer'[c].committed
        BY <1>0, <2>1, AtFacts, NothingUnderWay
    <2>3. Bystands
        BY <1>0, <1>1, <2>1, <2>2, MoveBystands DEF Begun, Ended
    <2> QED BY <1>1, <2>1, <2>3, BystandsKeep
<1>3. CASE ~finalizing /\ admitted = {} /\ ~reserved
    <2>1. \A t \in Terminals : t = c
        BY DEF OneTerminal
    <2>2. holders = {}
        BY <1>1, <1>3, <2>1, NoHolderBefore DEF Holding
    <2>3. holders' = {c} /\ reserved' /\ finalizing' /\ closer' = At(c, "reserved")
        BY <1>3, <2>2 DEF BeginTerminalClose, Port!Claim
    <2>4. /\ \A x \in Closers : x # c => closer'[x] = closer[x]
          /\ closer'[c].pc = "reserved" /\ Begun(c)'
        BY <1>0, <2>3, AtFacts DEF Begun, Ended
    <2>5. Begun(Runner)' <=> Begun(Runner)
        BY <2>4 DEF Begun
    <2>6. Holding'
        BY <1>1, <1>3, <2>1, <2>3, <2>4, <2>5 DEF Holding
    <2>7. ~Stale'
        BY <2>1, <2>3 DEF Stale
    <2> QED BY <1>1, <2>3, <2>6, <2>7, FenceKept DEF Kept, OneHolder
<1> QED BY <1>2, <1>3

LEMMA HoldTerminalReleases ==
    ASSUME OneTerminal, IInv, TypeOK', OneHolder, Holding, Fence,
           NEW c \in Terminals, TerminalReleases(c)
    PROVE  Kept
<1> USE Fields, Parties DEF IInv, lease, gate, roast, port, history
<1>0. closer \in [Closers -> CloserType] /\ {"idle", "released"} \subseteq CloserPcs
    BY DEF TypeOK, CloserType, CloserPcs
<1>1. /\ UNCHANGED <<live, ack, start, lease, durable, health, run>>
      /\ closer[c].pc \in {"failed", "confirming"} /\ Begun(c)
      /\ holders' = holders \ {c} /\ reserved' = (reserved /\ c \notin holders)
      /\ finalizing' = FALSE
    BY DEF TerminalReleases, Begun, Ended, Port!Release
<1>2. PICK p \in {"idle", "released"} : closer' = At(c, p)
    BY DEF TerminalReleases
<1>3. /\ \A x \in Closers : x # c => closer'[x] = closer[x]
      /\ closer'[c].pc = p /\ ~Begun(c)'
    BY <1>0, <1>2, AtFacts DEF Begun, Ended
<1>4. closer'[Runner] = closer[Runner] /\ (Begun(Runner)' <=> Begun(Runner))
    BY <1>3 DEF Begun
<1>5. \A t \in Terminals : t = c
    BY DEF OneTerminal
<1>6. Runner \in holders => reserved /\ c \notin holders
    BY DEF Holding, OneHolder
<1>7. Holding'
    <2>1. c \notin holders' /\ closer'[c].pc # "requested"
        BY <1>1, <1>3
    <2> QED BY <1>1, <1>3, <1>4, <1>5, <1>6, <2>1 DEF Holding
<1>8. Stale' => Stale
    <2>1. SUFFICES ASSUME Stale' PROVE Stale
        OBVIOUS
    <2>2. run = "active" /\ Begun(Runner)
        BY <1>1, <1>3, <1>4, <1>5, <2>1 DEF Stale
    <2>3. c \notin holders
        BY <1>6, <2>2 DEF Holding
    <2> QED BY <1>1, <2>2, <2>3 DEF Stale
<1> QED BY <1>1, <1>7, <1>8, FenceKept DEF Kept, OneHolder

LEMMA HoldRunnerBegins ==
    ASSUME IInv, TypeOK', OneHolder, Holding, Fence, BeginRunnerClose
    PROVE  Kept
<1> USE Fields, Parties DEF IInv, lease, gate, roast, port, history
<1>1. /\ UNCHANGED <<live, start, lease, durable, health, run>>
      /\ closer[Runner].pc = "idle" /\ ~Begun(Runner) /\ ack' = NoAck /\ ack'.pc = "idle"
      /\ AckReady
    BY NothingUnderWay DEF BeginRunnerClose, Begun, Ended, AckReady, Shows
<1>2. CASE ~(admitted = {} /\ ~reserved)
    <2>1. UNCHANGED <<holders, reserved, closer>> /\ finalizing' = terminalOwner
        BY <1>2 DEF BeginRunnerClose
    <2>2. \A x \in Closers : closer'[x] = closer[x] /\ (Begun(x)' <=> Begun(x))
        BY <2>1 DEF Begun
    <2>3. Holding'
        BY <1>1, <2>1, <2>2 DEF Holding, AckReady
    <2>4. Stale' => Stale
        BY <1>1, <2>1, <2>2 DEF Stale
    <2> QED BY <1>1, <2>1, <2>3, <2>4, FenceKept DEF Kept, OneHolder
<1>3. CASE admitted = {} /\ ~reserved
    <2>1. holders = {}
        BY <1>1, <1>3, NoHolderBefore DEF Holding
    <2>2. /\ holders' = {Runner} /\ reserved' /\ finalizing'
          /\ \A x \in Closers : x # Runner => closer'[x] = closer[x]
          /\ closer'[Runner].pc = "reserved" /\ ~closer'[Runner].committed
        BY <1>3, <2>1 DEF BeginRunnerClose, Port!Claim, TypeOK
    <2>3. Begun(Runner)' /\ \A t \in Terminals : closer'[t] = closer[t] /\ (Begun(t)' <=> Begun(t))
        BY <2>2 DEF Begun, Ended
    <2>4. Holding'
        BY <1>1, <2>1, <2>2, <2>3 DEF Holding
    <2>5. Stale' => Stale
        BY <1>1, <2>1, <2>2, <2>3 DEF Stale
    <2> QED BY <1>1, <2>2, <2>4, <2>5, FenceKept DEF Kept, OneHolder
<1> QED BY <1>2, <1>3

\* An aborting runner clears a reservation that is not its own only when its
\* run has ended and no acknowledgement of the current generation is left.
LEMMA HoldRunnerEnds ==
    ASSUME IInv, TypeOK', OneHolder, Holding, Fence, RunnerFinishes \/ RunnerFails \/ LoopDies
    PROVE  Kept
<1> USE Fields, Parties DEF IInv, lease, gate, roast, port, history
<1>0. /\ closer \in [Closers -> CloserType]
      /\ {"idle", "acknowledged", "dead"} \subseteq CloserPcs
    BY DEF TypeOK, CloserType, CloserPcs
<1>1. /\ UNCHANGED <<ack, start, lease, durable, health>>
      /\ closer[Runner].pc \in {"failed", "aborted", "completing", "confirming"} /\ Begun(Runner)
      /\ run' = run \/ run' = "completed"
    BY DEF RunnerFinishes, RunnerFails, LoopDies, Begun, Ended
<1>2. PICK p \in {"idle", "acknowledged", "dead"} : closer' = At(Runner, p)
    <2>1. CASE RunnerFinishes
        BY <2>1 DEF RunnerFinishes
    <2> QED BY <2>1 DEF RunnerFails, LoopDies
<1>3. /\ \A x \in Closers : x # Runner => closer'[x] = closer[x]
      /\ closer'[Runner].pc = p /\ ~Begun(Runner)'
    BY <1>0, <1>2, AtFacts DEF Begun, Ended
<1>4. \A t \in Terminals : closer'[t] = closer[t] /\ (Begun(t)' <=> Begun(t))
    BY <1>3 DEF Begun
<1>5. \/ UNCHANGED <<holders, reserved>> /\ p = "dead"
      \/ holders' = holders \ {Runner} /\ reserved' = (reserved /\ Runner \notin holders)
      \/ /\ holders' = holders \ {Runner} /\ reserved' = FALSE
         /\ closer[Runner].pc = "aborted" /\ UNCHANGED <<run, live>>
    <2>1. CASE RunnerFinishes
        BY <2>1 DEF RunnerFinishes, Port!Release
    <2>2. CASE RunnerFails
        BY <2>2 DEF RunnerFails, Port!Release, Port!Abort
    <2>3. CASE LoopDies
        <3>1. closer'[Runner].pc = "dead"
            BY <1>0, <2>3, AtFacts DEF LoopDies
        <3> QED BY <1>3, <2>3, <3>1 DEF LoopDies, Port!Release
    <2> QED BY <2>1, <2>2, <2>3
<1>6. \A t \in Terminals : t \in holders' <=> t \in holders
    BY <1>5
<1>7. Runner \in holders' => reserved' /\ closer'[Runner].pc = "dead"
    BY <1>3, <1>5 DEF Holding
<1>8. ASSUME NEW t \in Terminals, t \in holders, ~reserved'
      PROVE  live' = "faulted" /\ run' # "active" /\ ~AckReady'
    <2>1. reserved
        BY <1>1, <1>8 DEF Holding
    <2>2. Runner \notin holders /\ holders = {t}
        BY <1>8, <2>1 DEF OneHolder
    <2>3. closer[Runner].pc = "aborted" /\ UNCHANGED <<run, live>>
        BY <1>5, <1>8, <2>1, <2>2
    <2>4. run # "active" /\ live = "faulted"
        BY <1>1, <1>8, <2>2 DEF Holding, RunnerSide
    <2>5. Superseded
        BY <1>1, <2>1, <2>2 DEF Superseded, ReservedBy
    <2>6. ~AckAtCurrent
        BY <2>3, <2>4, <2>5 DEF RunnerSide
    <2>7. ~AckReady'
        BY <1>1, <2>6 DEF AckReady, AckAtCurrent, Holding
    <2> QED BY <2>3, <2>4, <2>7
<1>9. Holding'
    BY <1>1, <1>3, <1>4, <1>6, <1>7, <1>8 DEF Holding
<1>10. Stale' => Stale
    BY <1>1, <1>3, <1>4, <1>6 DEF Stale
<1>11. OneHolder'
    BY <1>5 DEF OneHolder
<1> QED BY <1>1, <1>9, <1>10, <1>11, FenceKept DEF Kept

LEMMA HoldRestart == ASSUME TypeOK', Restart PROVE Kept
<1>1. /\ holders' = {} /\ ~reserved' /\ start'.pc = "idle" /\ ack'.pc = "idle"
      /\ \A x \in Closers : closer'[x].pc = "idle" /\ ~Begun(x)'
    BY NothingUnderWay DEF Restart, Begun
<1> QED BY <1>1, Parties DEF Kept, OneHolder, Holding, Fence, Stale

\* Only a restart begins a new process.
LEMMA SameProcess == ASSUME Next, ~Restart PROVE restarts' = restarts
<1>1. ASSUME NEW c \in Closers, CloserGoesOn(c) PROVE restarts' = restarts
    BY <1>1 DEF CloserGoesOn, WaitForProof, ProofFails, AlreadySafe, StopCooling,
       StopCoolingReturns, CheckAfterStop, ReadBackSafeZero, BeginClose, CloseTransaction,
       VerifyClose, ReverifyClose, MarkDurableUnknown, MarkCacheUnknown, ConfirmClose, Answered
<1>2. ASSUME NEW s \in Stops, StopStep(s) PROVE restarts' = restarts
    BY <1>2 DEF StopStep, AdmitStop, DispatchStop, WithdrawStop, FinishStop, PersistStop,
       PublishStop, AuditStop, PersistStopFails
<1>3. ASSUME NEW c \in Terminals, RequestTerminal(c) \/ TerminalGoesOn(c)
      PROVE  restarts' = restarts
    BY <1>1, <1>3, Parties DEF RequestTerminal, TerminalGoesOn, BeginTerminalClose,
       TerminalReleases, TerminalReports
<1>4. CASE StartStep \/ HealthFetch \/ HealthRead \/ RevokePendingStart
    BY <1>4 DEF HealthFetch, HealthRead, RevokePendingStart, StartStep, StartAdmitted,
       StartReadsLease, StartCreatesRun, StartPublishes, StartBuildFails, StartBuildsRunner,
       StartWrites, StartNotWritten
<1>5. CASE \/ RequestAck \/ QueueAck \/ DropAck \/ BeginRunnerClose \/ RunnerGoesOn
           \/ FinishRoutine \/ FaultControlWrites
    BY <1>1, <1>5, Parties DEF RequestAck, QueueAck, DropAck, BeginRunnerClose, RunnerGoesOn,
       CompleteRun, RunnerFinishes, RunnerFails, LoopDies, FinishRoutine, FaultControlWrites
<1>6. CASE ClearStep \/ RunCompletes \/ RunFaults
    BY <1>6 DEF ClearStep, RequestClearance, ProveClearance, PersistClearance, Clear,
       RunCompletes, RunFaults
<1> QED BY <1>2, <1>3, <1>4, <1>5, <1>6 DEF Next

LEMMA HoldNext ==
    ASSUME OneTerminal, IInv, OneHolder, Holding, Fence, [Next]_vars
    PROVE  IInv' /\ OneHolder' /\ Holding' /\ Fence'
<1>1. Typed
    BY DEF IInv, Typed, RowsFetched, Fetched
<1>2. TypeOK'
    BY <1>1, TypedNext DEF Typed
<1>3. SUFFICES Kept
    BY NextInv DEF Kept
<1>4. CASE UNCHANGED vars
    <2>1. UNCHANGED <<holders, reserved, finalizing, closer, ack, start, run, live, cache,
                      unconfirmed, durable, health>>
        BY <1>4 DEF vars, port, lease, gate, roast
    <2>2. cache.gen \in Nat
        BY Fields DEF IInv
    <2> QED BY <1>2, <2>1, <2>2, AloneBystands, BystandsKeep
<1>5. CASE Restart
    BY <1>2, <1>5, HoldRestart
<1>6. CASE Next /\ ~Restart
    <2>1. CASE \E s \in Stops : AdmitStop(s)
        BY <1>2, <2>1, HoldAdmit
    <2>2. CASE BeginRunnerClose \/ RunnerFinishes \/ RunnerFails \/ LoopDies
        BY <1>2, <2>2, HoldRunnerBegins, HoldRunnerEnds
    <2>3. CASE \E t \in Terminals : TerminalReleases(t)
        BY <1>2, <2>3, HoldTerminalReleases
    <2>4. CASE ~ \E s \in Stops : AdmitStop(s)
        <3>1. cache.bound => cache'.gen >= cache.gen
            <4>1. Onwards \/ UNCHANGED vars
                BY <1>1, StepsGoOn
            <4>2. restarts' = restarts
                BY <1>6, SameProcess
            <4>3. cache.gen \in Nat
                BY Fields DEF IInv
            <4> QED BY <4>1, <4>2, <4>3 DEF Onwards, vars, lease
        <3>2. ASSUME NEW s \in Stops, StopStep(s) PROVE Kept
            BY <1>2, <2>4, <3>1, <3>2, HoldStops
        <3>3. ASSUME NEW c \in Closers, CloserGoesOn(c) PROVE Kept
            BY <1>2, <3>1, <3>3, HoldClosers
        <3>4. ASSUME NEW t \in Terminals, RequestTerminal(t) \/ TerminalGoesOn(t) PROVE Kept
            BY <1>2, <2>3, <3>1, <3>3, <3>4, Parties, HoldEnds, HoldTerminalBegins
            DEF TerminalGoesOn
        <3>5. CASE BeginRunnerClose \/ RunnerGoesOn
            BY <1>2, <2>2, <3>1, <3>3, <3>5, Parties, HoldEnds DEF RunnerGoesOn
        <3>6. CASE StartStep
            BY <1>2, <3>1, <3>6, HoldStart
        <3>7. CASE \/ HealthFetch \/ HealthRead \/ RevokePendingStart \/ FinishRoutine
                   \/ FaultControlWrites \/ ClearStep \/ RunCompletes \/ RunFaults
                   \/ RequestAck \/ QueueAck \/ DropAck
            BY <1>2, <3>1, <3>7, HoldRequests
        <3> QED BY <1>6, <3>2, <3>4, <3>5, <3>6, <3>7 DEF Next
    <2> QED BY <2>1, <2>4
<1> QED BY <1>4, <1>5, <1>6

LEMMA HoldInit == ASSUME Init PROVE OneHolder /\ Holding /\ Fence
<1>1. /\ holders = {} /\ ~reserved /\ start.pc = "idle" /\ ack.pc = "idle"
      /\ \A x \in Closers : closer[x].pc = "idle" /\ ~Begun(x)
    BY NothingUnderWay DEF Init, Port!Init, Begun
<1> QED BY <1>1, Parties DEF OneHolder, Holding, Fence, Stale

-----------------------------------------------------------------------------
(* The theorems.                                                           *)

\* While no reservation is made beside an earlier holder, every reachable state
\* satisfies the inductive invariant.
THEOREM Invariant == Spec /\ []OneHolder => []IInv
<1>1. Init => IInv
    BY InitInv
<1>2. IInv /\ OneHolder /\ OneHolder' /\ [Next]_vars => IInv'
    BY NextInv
<1> QED BY <1>1, <1>2, PTL DEF Spec

\* With one terminal closer a reservation that a live runner's abort has
\* cleared is not made again while its holder is at work (api.py: the abort
\* releases whatever generation is current, whoever reserved it).
THEOREM HeldAlone == OneTerminal => (Spec => []OneHolder)
<1>1. SUFFICES ASSUME OneTerminal PROVE Spec => []OneHolder
    OBVIOUS
<1>2. Init => IInv /\ OneHolder /\ Holding /\ Fence
    BY InitInv, HoldInit
<1>3. IInv /\ OneHolder /\ Holding /\ Fence /\ [Next]_vars
        => IInv' /\ OneHolder' /\ Holding' /\ Fence'
    BY <1>1, HoldNext
<1> QED BY <1>2, <1>3, PTL DEF Spec

\* The condition under which memory's closed lease is SQLite's, for any number
\* of terminal closers: nobody frees a reservation but its holder.
LEMMA DurableWhenHeldAlone == Spec /\ []OneHolder => []ClosedIsDurable
<1>1. IInv => ClosedIsDurable
    <2>1. SUFFICES ASSUME IInv, cache.status = "closed", ~FinalizationInProgress,
                          NEW c \in Closers, closer[c].pc = "marked", closer[c].gen = cache.gen
                   PROVE  FALSE
        BY DEF IInv, CloseBacked, ClosedIsDurable
    <2>2. closer[c].pc \in Closing
        BY <2>1 DEF Closing
    <2>3. AtCurrent(c)
        BY <2>1, <2>2, ClosingFacts DEF IInv
    <2>4. CASE c = Runner
        BY <2>1, <2>3, <2>4 DEF IInv, Claims, FinalizationInProgress, ReservedBy
    <2>5. CASE c \in Terminals
        BY <2>1, <2>3, <2>5 DEF IInv, Gate, AtCurrent, FinalizationInProgress
    <2> QED BY <2>4, <2>5, Parties
<1> QED BY <1>1, Invariant, PTL

\* With one terminal request at a time, a lease that memory holds closed while
\* no finalization is in progress is closed in SQLite (api.py:
\* _close_current_fault_lease_for_acknowledgement_result publishes no close that
\* a restart would not find), however late a health read of the row comes back
\* and whichever writes have failed.
THEOREM DurableClose == OneTerminal => (Spec => []ClosedIsDurable)
BY HeldAlone, DurableWhenHeldAlone, PTL
=============================================================================
