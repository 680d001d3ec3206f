----------------------------- MODULE FaultLease -----------------------------
(***************************************************************************)
(* The fault-control lease of RoastService (api.py) and its durable row    *)
(* (store.py).  An emergency stop opens a new lease generation in memory   *)
(* before anything can be awaited and writes it to SQLite later; the D212  *)
(* closers (the runner's acknowledgement and the terminal one) close it    *)
(* once they have read the roaster back at safe zero; Start is fenced by   *)
(* everything that is not closed.  Every await is a step boundary, so each *)
(* of these requests interleaves with the others, with health reads of the *)
(* row, with failing writes and with a restart of the process.             *)
(*                                                                         *)
(* The actuator gate is its abstract promise, PriorityPort: "the close     *)
(* reservation is current" is Port!Owns(c), and a monotone counter that is *)
(* only compared with an earlier copy of itself is a flag, `current`.      *)
(***************************************************************************)
EXTENDS Integers

CONSTANTS
    Stops,          \* concurrent emergency-stop requests
    Terminals,      \* concurrent terminal D212 requests
    NoGeneration,   \* None for _unconfirmed_fault_lease_generation
    NoRow,          \* no durable row fetched
    MaxGeneration,  \* bound: lease generations
    MaxRestarts,    \* bound: process restarts
    MaxLateReads    \* bound: restarts after which a read may still come late

Start == "start"     \* the Start request (start_lock admits one)
Runner == "runner"   \* the live runner's D212 and plain acknowledgements
Control == "control" \* a routine fault-control write under an open lease

Closers == Terminals \cup {Runner}

ASSUME BoundsAssumption == {MaxGeneration, MaxRestarts, MaxLateReads} \subseteq Nat
ASSUME NamesAssumption ==
    /\ NoGeneration \notin Nat
    /\ {Start, Runner, Control} \cap (Stops \cup Terminals) = {}
    /\ Stops \cap Terminals = {}

VARIABLES
    onWire, admitted, holders, reserved,  \* the actuator port
    cache,          \* _fault_lease_cache
    unconfirmed,    \* _unconfirmed_fault_lease_generation
    durable,        \* the fault_control_lease row
    clearance,      \* _restart_clearance_state
    finalizing,     \* fault_finalization_started
    terminalOwner,  \* _terminal_owner is not None
    run,            \* the latest roast_runs row
    live,           \* active_run_id, runner and its phase
    stop, start, closer, ack, clear,  \* the requests' local state
    health,         \* a row fetched by a health read and not yet compared
    restarts,
    zero,           \* history: closers whose safe-zero read is still true
    unresolved      \* history: a stop was admitted and nobody proved it over

port == <<onWire, admitted, holders, reserved>>
lease == <<cache, unconfirmed>>
gate == <<finalizing, terminalOwner>>
roast == <<run, live>>
history == <<zero, unresolved>>
vars == <<port, lease, durable, clearance, gate, roast, stop, start, closer,
          ack, clear, health, restarts, history>>

Port == INSTANCE PriorityPort WITH Routines <- Closers \cup {Start, Control}

Statuses == {"open", "closed", "unknown"}
\* bound: the lease names its run; exact: it names its MCP session.
Leases == [gen : Nat, status : Statuses, bound : BOOLEAN, exact : BOOLEAN]

StopPcs == {"idle", "queued", "written", "published"}
StartPcs == {"idle", "reading", "creating", "created", "building", "ready"}
CloserPcs == {"idle", "requested", "reserved", "proving", "stopping", "reading",
              "readingBack", "proved", "closing", "verifying", "reverifying",
              "closed", "marking", "marked", "completing", "confirming",
              "released", "acknowledged", "failed", "aborted", "dead"}

NoStop == [pc |-> "idle", gen |-> 0, exact |-> FALSE, target |-> "none"]
NoStart == [pc |-> "idle", gen |-> 0, current |-> FALSE, row |-> NoRow]
NoCloser == [pc |-> "idle", gen |-> 0, current |-> FALSE, d212 |-> TRUE,
             committed |-> FALSE]
NoAck == [pc |-> "idle", gen |-> 0, current |-> FALSE, d212 |-> FALSE]
NoClear == [pc |-> "idle", current |-> FALSE, lease |-> NoRow]

TypeOK ==
    /\ onWire \subseteq Stops \cup Closers \cup {Start, Control}
    /\ admitted \subseteq Stops
    /\ holders \subseteq Closers /\ reserved \in BOOLEAN
    /\ cache \in Leases /\ durable \in Leases
    /\ unconfirmed \in Nat \cup {NoGeneration}
    /\ clearance \in {"required", "cleared", "unknown"}
    /\ finalizing \in BOOLEAN /\ terminalOwner \in BOOLEAN
    /\ run \in {"none", "active", "completed"}
    /\ live \in {"none", "starting", "running", "recovered", "faulted", "finalized"}
    /\ stop \in [Stops -> [pc : StopPcs, gen : Nat, exact : BOOLEAN,
                           target : {"none", "live", "starting", "terminal"}]]
    /\ start \in [pc : StartPcs, gen : Nat, current : BOOLEAN, row : Leases \cup {NoRow}]
    /\ closer \in [Closers -> [pc : CloserPcs, gen : Nat, current : BOOLEAN,
                               d212 : BOOLEAN, committed : BOOLEAN]]
    /\ ack \in [pc : {"idle", "checked", "queued"}, gen : Nat, current : BOOLEAN,
               d212 : BOOLEAN]
    /\ clear \in [pc : {"idle", "proving", "persisting", "persisted"},
                  current : BOOLEAN, lease : Leases \cup {NoRow}]
    /\ health \in Leases \cup {NoRow}
    /\ restarts \in Nat
    /\ zero \subseteq Closers /\ unresolved \in BOOLEAN

\* The first process of a new database: no row reads as closed.
NoLease == [gen |-> 0, status |-> "closed", bound |-> FALSE, exact |-> FALSE]

Init ==
    /\ Port!Init
    /\ cache = NoLease /\ durable = NoLease
    /\ unconfirmed = NoGeneration
    /\ clearance = "required"
    /\ finalizing = FALSE /\ terminalOwner = FALSE
    /\ run = "none" /\ live = "none"
    /\ stop = [s \in Stops |-> NoStop]
    /\ start = NoStart
    /\ closer = [c \in Closers |-> NoCloser]
    /\ ack = NoAck
    /\ clear = NoClear
    /\ health = NoRow
    /\ restarts = 0
    /\ zero = {} /\ unresolved = FALSE

-----------------------------------------------------------------------------
(* Reading the row, fail closed.                                           *)

\* Mutant: a row fetched before the admission replaces the newer lease.
ReconciledWithoutRecheck(row) ==
    IF unconfirmed = cache.gen THEN cache ELSE row

\* The row is compared with the cache as it is after the await: an admission
\* that is newer, or not yet durable, is kept.
Reconciled(row) ==
    IF \/ unconfirmed = cache.gen
       \/ cache.gen > row.gen /\ cache.bound
    THEN cache ELSE row

\* Mutant: the fallback loses the admitted generation.
UnreadablePrevious == [cache EXCEPT !.gen = @ - 1, !.status = "unknown"]

\* A failed read keeps the admitted target for a repeated stop, as unknown.
UnreadableRow ==
    [cache EXCEPT !.gen = IF @ > 1 THEN @ ELSE 1, !.status = "unknown"]

UnknownAt(g) == [cache EXCEPT !.gen = g, !.status = "unknown"]

\* Any request that shows the lease reads the row, and its answer may come
\* back late.  An answer the row has not moved on from is the row as it is, so
\* only one fetched with a writer of the row under way is kept.
HealthFetch ==
    /\ health = NoRow
    /\ restarts <= MaxLateReads
    /\ \/ \E s \in Stops : stop[s].pc = "queued"
       \/ \E c \in Closers : closer[c].pc \in {"closing", "marking"}
    /\ health' = durable
    /\ UNCHANGED <<port, lease, durable, clearance, gate, roast, stop, start,
                   closer, ack, clear, restarts, history>>

HealthRead ==
    /\ \E row \in {durable, UnreadableRow} \cup ({health} \ {NoRow}) :
          cache' = Reconciled(row)
    /\ health' = NoRow
    /\ UNCHANGED <<port, unconfirmed, durable, clearance, gate, roast, stop,
                   start, closer, ack, clear, restarts, history>>

-----------------------------------------------------------------------------
(* Emergency stops.                                                        *)

TerminalLeaseIsActionable ==
    /\ cache.bound /\ cache.exact
    /\ cache.status = "closed" => live = "finalized"

\* The target is chosen from memory alone.
StopTarget ==
    CASE live \in {"running", "recovered", "faulted"} -> "live"
      [] live = "starting" -> "starting"
      [] live \in {"none", "finalized"} ->
            IF TerminalLeaseIsActionable THEN "terminal" ELSE "none"

\* Every stop outdates the evidence other requests are collecting.
Outdated(r) == [r EXCEPT !.current = FALSE]

\* Nothing can be stopped: a pending Start is revoked and that is all.
RevokePendingStart ==
    /\ StopTarget = "none" \/ start.pc \in {"creating", "created"}
    /\ start' = Outdated(start)
    /\ clear' = Outdated(clear)
    /\ UNCHANGED <<port, lease, durable, clearance, gate, roast, stop, closer,
                   ack, health, restarts, history>>

\* One synchronous step: the lease generation, the pending Start, the pending
\* acknowledgement and the actuator gate, before any task is created.
AdmitStop(s) ==
    /\ stop[s] = NoStop /\ s \notin admitted \cup onWire
    /\ StopTarget # "none"
    /\ cache.gen < MaxGeneration
    /\ \E exact \in IF StopTarget = "live" THEN BOOLEAN
                    ELSE {StopTarget = "terminal"} :
          /\ cache' = [gen |-> cache.gen + 1, status |-> "unknown",
                       bound |-> TRUE, exact |-> exact]
          /\ stop' = [stop EXCEPT ![s] = [pc |-> "queued", gen |-> cache.gen + 1,
                                          exact |-> exact, target |-> StopTarget]]
    /\ unconfirmed' = cache.gen + 1
    /\ Port!Admit(s)
    /\ closer' = [c \in Closers |-> Outdated(closer[c])]
    /\ clear' = Outdated(clear)
    /\ ack' = Outdated(ack)
    /\ start' \in IF StopTarget = "live" THEN {start, Outdated(start)}
                  ELSE {Outdated(start)}
    /\ unresolved' = TRUE
    /\ UNCHANGED <<durable, clearance, gate, roast, health, restarts, zero>>

\* An executor's stop is refused once its lease is no longer the current one.
DispatchStop(s) ==
    /\ stop[s].target = "terminal" => cache.gen = stop[s].gen
    /\ stop[s].target # "starting"
    /\ Port!StartStop(s)
    /\ zero' = {}
    /\ UNCHANGED <<lease, durable, clearance, gate, roast, stop, start, closer,
                   ack, clear, health, restarts, unresolved>>

WithdrawStop(s) ==
    /\ Port!Withdraw(s)
    /\ UNCHANGED <<lease, durable, clearance, gate, roast, stop, start, closer,
                   ack, clear, health, restarts, history>>

\* The controller faults a run it has stopped.
FinishStop(s) ==
    /\ s \in onWire
    /\ Port!Finish
    /\ live' = IF live \in {"running", "recovered"} THEN "faulted" ELSE live
    /\ UNCHANGED <<lease, durable, clearance, gate, run, stop, start, closer, ack,
                   clear, health, restarts, history>>

\* Mutant: the last writer wins, whatever its generation.
PersistStopUnordered(s) ==
    /\ stop[s].pc = "queued"
    /\ stop' = [stop EXCEPT ![s].pc = "written"]
    /\ durable' = [gen |-> stop[s].gen, bound |-> TRUE, exact |-> stop[s].exact,
                   status |-> IF stop[s].exact THEN "open" ELSE "unknown"]
    /\ UNCHANGED <<port, lease, clearance, gate, roast, start, closer, ack, clear,
                   health, restarts, history>>

\* The upsert only ever raises the stored generation.
PersistStop(s) ==
    /\ stop[s].pc = "queued"
    /\ stop' = [stop EXCEPT ![s].pc = "written"]
    /\ durable' = IF stop[s].gen > durable.gen
                  THEN [gen |-> stop[s].gen, bound |-> TRUE, exact |-> stop[s].exact,
                        status |-> IF stop[s].exact THEN "open" ELSE "unknown"]
                  ELSE durable
    /\ UNCHANGED <<port, lease, clearance, gate, roast, start, closer, ack, clear,
                   health, restarts, history>>

\* Still the current admission, and the row is its own.
PublishStop(s) ==
    /\ stop[s].pc = "written"
    /\ IF /\ cache = [gen |-> stop[s].gen, status |-> "unknown", bound |-> TRUE,
                      exact |-> stop[s].exact]
          /\ unconfirmed = stop[s].gen
          /\ durable = [cache EXCEPT !.status = IF stop[s].exact THEN "open" ELSE "unknown"]
       THEN /\ cache' = durable
            /\ unconfirmed' = NoGeneration
            /\ stop' = [stop EXCEPT ![s].pc = "published"]
       ELSE /\ stop' = [stop EXCEPT ![s] = NoStop]
            /\ UNCHANGED lease
    /\ UNCHANGED <<port, durable, clearance, gate, roast, start, closer, ack,
                   clear, health, restarts, history>>

AuditStop(s) ==
    /\ stop[s].pc = "published"
    /\ stop' = [stop EXCEPT ![s] = NoStop]
    /\ UNCHANGED <<port, lease, durable, clearance, gate, roast, start, closer,
                   ack, clear, health, restarts, history>>

\* The task raises: in its write, in the read back or in the audit record.
PersistStopFails(s) ==
    /\ stop[s].pc # "idle"
    /\ stop' = [stop EXCEPT ![s] = NoStop]
    /\ cache' = IF cache.gen = stop[s].gen THEN UnknownAt(cache.gen) ELSE cache
    /\ UNCHANGED <<port, unconfirmed, durable, clearance, gate, roast, start,
                   closer, ack, clear, health, restarts, history>>

-----------------------------------------------------------------------------
(* Start.                                                                  *)

FinalizationInProgress == finalizing \/ reserved

StartIdles == start' = NoStart

StartAdmitted ==
    /\ start.pc = "idle"
    /\ ~FinalizationInProgress
    /\ start' = [pc |-> "reading", gen |-> 0, current |-> TRUE, row |-> durable]
    /\ UNCHANGED <<port, lease, durable, clearance, gate, roast, stop, closer,
                   ack, clear, health, restarts, history>>

\* The prior run is over in memory: loop done, runner finalized.
StartReadsLease ==
    /\ start.pc = "reading"
    /\ \E row \in {start.row, UnreadableRow} :
          LET read == Reconciled(row) IN
          /\ cache' = read
          /\ IF /\ start.current /\ ~FinalizationInProgress
                /\ clearance = "cleared"
                /\ read.status = "closed"
                /\ live \in {"none", "finalized"}
             THEN start' = [start EXCEPT !.pc = "creating", !.gen = read.gen,
                                         !.row = NoRow]
             ELSE StartIdles
    /\ UNCHANGED <<port, unconfirmed, durable, clearance, gate, roast, stop,
                   closer, ack, clear, health, restarts, history>>

StartCreatesRun ==
    /\ start.pc = "creating"
    /\ IF start.current /\ run # "active"
       THEN run' = "active" /\ start' = [start EXCEPT !.pc = "created"]
       ELSE run' = run /\ StartIdles
    /\ UNCHANGED <<port, lease, durable, clearance, gate, live, stop, closer, ack,
                   clear, health, restarts, history>>

\* The unpublished row of a revoked start is retired; a valid one becomes the
\* active run.
StartPublishes ==
    /\ start.pc = "created"
    /\ IF start.current
       THEN /\ live' = "starting"
            /\ start' = [start EXCEPT !.pc = "building"]
            /\ run' = run
       ELSE run' = "completed" /\ StartIdles /\ live' = live
    /\ UNCHANGED <<port, lease, durable, clearance, gate, stop, closer, ack,
                   clear, health, restarts, history>>

\* Construction raises: the run stays active with no runner to stop or to end
\* it, until a restart attaches to it.
StartBuildFails ==
    /\ start.pc = "building"
    /\ live' = "none"
    /\ StartIdles
    /\ UNCHANGED <<port, lease, durable, clearance, gate, run, stop, closer, ack,
                   clear, health, restarts, history>>

StartBuildsRunner ==
    /\ start.pc = "building"
    /\ live' = "running"
    /\ start' = [start EXCEPT !.pc = "ready"]
    /\ UNCHANGED <<port, lease, durable, clearance, gate, run, stop, closer, ack,
                   clear, health, restarts, history>>

StartWritePermitted == cache.gen = start.gen /\ cache.status = "closed"

StartWrites ==
    /\ start.pc = "ready"
    /\ StartWritePermitted
    /\ Port!StartRoutine(Start)
    /\ StartIdles
    /\ zero' = {}
    /\ UNCHANGED <<lease, durable, clearance, gate, roast, stop, closer, ack,
                   clear, health, restarts, unresolved>>

\* Not permitted, or discarded by the gate.
StartNotWritten ==
    /\ start.pc = "ready"
    /\ StartWritePermitted => admitted # {} \/ reserved
    /\ live' \in IF live = "running" THEN {"running", "faulted"} ELSE {live}
    /\ StartIdles
    /\ UNCHANGED <<port, lease, durable, clearance, gate, run, stop, closer, ack,
                   clear, health, restarts, history>>

\* Routine calls that need nothing more when they return.
FinishRoutine ==
    /\ onWire \cap {Start, Control} # {}
    /\ Port!Finish
    /\ UNCHANGED <<lease, durable, clearance, gate, roast, stop, start, closer,
                   ack, clear, health, restarts, history>>

\* Cooling, drop and the like, under an open lease.
FaultControlWrites ==
    /\ clearance = "cleared"
    /\ cache.status = "open"
    /\ live \in {"faulted", "finalized", "none"}
    /\ Port!StartRoutine(Control)
    /\ zero' = {}
    /\ UNCHANGED <<lease, durable, clearance, gate, roast, stop, start, closer,
                   ack, clear, health, restarts, unresolved>>

-----------------------------------------------------------------------------
(* The D212 closers: finalization and the gate are reserved, the roaster is *)
(* proved at safe zero, the lease is closed, everything is released.        *)

\* The lease is open at the generation r was given.
Shows(r) == cache.gen = r.gen /\ cache.status = "open"

At(c, pc) == [closer EXCEPT ![c] = IF pc = "idle" THEN NoCloser ELSE [@ EXCEPT !.pc = pc]]

\* A terminal request shows the open generation to be closed, for a run that
\* is already history; it awaits more reads before it begins.
RequestTerminal(c) ==
    /\ closer[c].pc = "idle"
    /\ ~finalizing /\ clearance = "cleared"
    /\ cache.status = "open" /\ run = "completed"
    /\ closer' = [closer EXCEPT ![c] = [NoCloser EXCEPT !.pc = "requested", !.gen = cache.gen]]
    /\ UNCHANGED <<port, lease, durable, clearance, gate, roast, stop, start, ack,
                   clear, health, restarts, history>>

BeginTerminalClose(c) ==
    /\ closer[c].pc = "requested"
    /\ IF ~finalizing /\ admitted = {} /\ ~reserved
       THEN /\ Port!Claim(c)
            /\ finalizing' = TRUE /\ terminalOwner' = TRUE
            /\ closer' = At(c, "reserved")
       ELSE UNCHANGED <<port, gate>> /\ closer' = At(c, "idle")
    /\ UNCHANGED <<lease, durable, clearance, roast, stop, start, ack, clear,
                   health, restarts, history>>

\* The operator acknowledges the fault of the live run: D212 under its open
\* lease, plainly when no stop opened one.  More reads follow the gate's check,
\* and the request is queued for the runner's next tick.
RequestAck ==
    /\ ack.pc = "idle"
    /\ ~finalizing /\ clearance = "cleared"
    /\ live = "faulted" /\ run = "active"
    /\ cache.status \in {"open", "closed"}
    /\ ack' = [pc |-> "checked", gen |-> cache.gen, current |-> TRUE,
               d212 |-> cache.status = "open"]
    /\ UNCHANGED <<port, lease, durable, clearance, gate, roast, stop, start,
                   closer, clear, health, restarts, history>>

\* Only D212 compares its lease once more.
QueueAck ==
    /\ ack.pc = "checked"
    /\ ack' = IF run = "active" /\ (ack.d212 => Shows(ack))
              THEN [ack EXCEPT !.pc = "queued", !.current = TRUE] ELSE NoAck
    /\ UNCHANGED <<port, lease, durable, clearance, gate, roast, stop, start,
                   closer, clear, health, restarts, history>>

\* An acknowledgement queued before a stop is dropped by the next drain.
DropAck ==
    /\ ack.pc = "queued"
    /\ closer[Runner].pc = "idle"
    /\ \/ ~ack.current \/ live # "faulted"
       \/ ack.d212 /\ ~Shows(ack)
    /\ ack' = NoAck
    /\ UNCHANGED <<port, lease, durable, clearance, gate, roast, stop, start,
                   closer, clear, health, restarts, history>>

\* The runner begins in one step: the epoch is captured, the D212 generation
\* compared and both reservations made.  A refused one aborts finalization
\* unless a terminal closer owns it.
BeginRunnerClose ==
    /\ ack.pc = "queued" /\ ack.current
    /\ closer[Runner].pc = "idle"
    /\ live = "faulted"
    /\ ack.d212 => Shows(ack)
    /\ ack' = NoAck
    /\ IF admitted = {} /\ ~reserved
       THEN /\ Port!Claim(Runner)
            /\ finalizing' = TRUE
            /\ closer' = [closer EXCEPT ![Runner] =
                  [pc |-> "reserved", gen |-> ack.gen, current |-> TRUE,
                   d212 |-> ack.d212, committed |-> FALSE]]
       ELSE UNCHANGED <<port, closer>> /\ finalizing' = terminalOwner
    /\ UNCHANGED <<lease, durable, clearance, terminalOwner, roast, stop, start,
                   clear, health, restarts, history>>

LeaseStillOpen(c) == Shows(closer[c])

\* What a closer looks at before it writes and after each read.
StillCurrent(c) ==
    IF c = Runner THEN closer[c].current ELSE LeaseStillOpen(c) /\ Port!Owns(c)

WaitForProof(c) ==
    /\ closer[c].pc = "reserved"
    /\ Port!Owns(c) => onWire = {}
    /\ closer' = At(c, IF Port!Owns(c) THEN "proving" ELSE "failed")
    /\ UNCHANGED <<port, lease, durable, clearance, gate, roast, stop, start, ack,
                   clear, health, restarts, history>>

\* The roaster is unsafe or cannot be read, or the closer has been superseded.
ProofFails(c) ==
    /\ closer[c].pc \in {"proving", "reading", "readingBack"}
    /\ closer' = At(c, "failed")
    /\ UNCHANGED <<port, lease, durable, clearance, gate, roast, stop, start, ack,
                   clear, health, restarts, history>>

\* Cooling is off already: no write is needed, and the executor's reading is
\* its proof; the runner reads once more.
AlreadySafe(c) ==
    /\ closer[c].pc = "proving"
    /\ IF c = Runner
       THEN closer' = At(c, "readingBack") /\ zero' = zero
       ELSE /\ StillCurrent(c)
            /\ closer' = At(c, "proved")
            /\ zero' = zero \cup {c}
    /\ UNCHANGED <<port, lease, durable, clearance, gate, roast, stop, start, ack,
                   clear, health, restarts, unresolved>>

StopCooling(c) ==
    /\ closer[c].pc = "proving"
    /\ StillCurrent(c)
    /\ Port!StartRoutine(c)
    /\ Port!Owns(c)
    /\ closer' = At(c, "stopping")
    /\ zero' = {}
    /\ UNCHANGED <<lease, durable, clearance, gate, roast, stop, start, ack,
                   clear, health, restarts, unresolved>>

StopCoolingReturns(c) ==
    /\ closer[c].pc = "stopping"
    /\ Port!Finish
    /\ closer' = At(c, "reading")
    /\ UNCHANGED <<lease, durable, clearance, gate, roast, stop, start, ack,
                   clear, health, restarts, history>>

\* The executor compares before its read back, the runner only after it.
CheckAfterStop(c) ==
    /\ closer[c].pc = "reading"
    /\ c # Runner => StillCurrent(c)
    /\ closer' = At(c, "readingBack")
    /\ UNCHANGED <<port, lease, durable, clearance, gate, roast, stop, start, ack,
                   clear, health, restarts, history>>

ReadBackSafeZero(c) ==
    /\ closer[c].pc = "readingBack"
    /\ c = Runner => closer[c].current /\ (closer[c].d212 => LeaseStillOpen(c))
    /\ closer' = At(c, "proved")
    /\ zero' = zero \cup {c}
    /\ UNCHANGED <<port, lease, durable, clearance, gate, roast, stop, start, ack,
                   clear, health, restarts, unresolved>>

\* Giving up after the proof; the runner then releases whatever is reserved.
GivenUp(c) == At(c, IF c = Runner THEN "aborted" ELSE "failed")

\* The runner's tick compares its epoch again, which a stop of the controller's
\* own also advances; the service requires the lease open, current and
\* finalization started.
BeginClose(c) ==
    /\ closer[c].pc = "proved"
    /\ \/ /\ c = Runner => finalizing /\ closer[c].current
          /\ closer' = IF ~closer[c].d212 THEN At(c, "completing")
                       ELSE IF finalizing /\ LeaseStillOpen(c) THEN At(c, "closing")
                       ELSE GivenUp(c)
       \/ /\ c = Runner
          /\ closer' = GivenUp(c)
    /\ zero' = IF closer'[c].pc = "closing" THEN zero ELSE zero \ {c}
    /\ UNCHANGED <<port, lease, durable, clearance, gate, roast, stop, start,
                   ack, clear, health, restarts, unresolved>>

RunCompletedBy(c) == IF c = Runner THEN "completed" ELSE run

\* One transaction closes the exact open row, writes its audit record and ends
\* a live run, or rolls all of it back; connecting to the store may raise.
CloseTransaction(c) ==
    /\ closer[c].pc = "closing"
    /\ \/ /\ durable.status = "open" /\ durable.gen = closer[c].gen
          /\ durable' = [durable EXCEPT !.status = "closed"]
          /\ run' = RunCompletedBy(c)
          /\ closer' = [closer EXCEPT ![c].pc = "verifying", ![c].committed = TRUE]
          /\ unresolved' = (unresolved /\ ~(c \in zero /\ cache.gen = closer[c].gen))
          /\ zero' = zero \ {c}
       \/ /\ closer' = At(c, "verifying")
          /\ zero' = zero \ {c}
          /\ UNCHANGED <<durable, run, unresolved>>
       \/ /\ closer' = At(c, "marking")
          /\ zero' = zero \ {c}
          /\ UNCHANGED <<durable, run, unresolved>>
    /\ UNCHANGED <<port, lease, clearance, gate, live, stop, start, ack, clear,
                   health, restarts>>

\* A second connection looks for the audit record.  Without it the row is read
\* again: still open, the lease is as it was; otherwise it becomes unknown.
VerifyClose(c) ==
    /\ closer[c].pc = "verifying"
    /\ \/ /\ closer[c].committed
          /\ closer' = At(c, "closed")
          /\ UNCHANGED cache
       \/ \E unavailable \in BOOLEAN : \E row \in {durable, UnreadableRow} :
          LET read == Reconciled(row) IN
          /\ unavailable \/ ~closer[c].committed
          /\ cache' = read
          /\ closer' = IF read.gen = closer[c].gen /\ read.status = "open" THEN GivenUp(c)
                       ELSE At(c, IF unavailable THEN "reverifying" ELSE "marking")
    /\ UNCHANGED <<port, unconfirmed, durable, clearance, gate, roast, stop,
                   start, ack, clear, health, restarts, history>>

\* The fence of an unproved close: unknown until a restart.
Fenced(c) ==
    IF cache.gen = closer[c].gen
    THEN cache' = UnknownAt(cache.gen) /\ unconfirmed' = cache.gen
    ELSE UNCHANGED lease

ReverifyClose(c) ==
    /\ closer[c].pc = "reverifying"
    /\ \/ /\ closer[c].committed
          /\ closer' = At(c, "closed")
          /\ UNCHANGED lease
       \/ /\ closer' = GivenUp(c)
          /\ Fenced(c)
    /\ UNCHANGED <<port, durable, clearance, gate, roast, stop, start, ack, clear,
                   health, restarts, history>>

MarkDurableUnknown(c) ==
    /\ closer[c].pc = "marking"
    /\ durable' \in IF durable.gen = closer[c].gen
                    THEN {durable, [durable EXCEPT !.status = "unknown"]} ELSE {durable}
    /\ closer' = At(c, "marked")
    /\ UNCHANGED <<port, lease, clearance, gate, roast, stop, start, ack, clear,
                   health, restarts, history>>

MarkCacheUnknown(c) ==
    /\ closer[c].pc = "marked"
    /\ Fenced(c)
    /\ closer' = IF closer[c].committed THEN At(c, "confirming") ELSE GivenUp(c)
    /\ UNCHANGED <<port, durable, clearance, gate, roast, stop, start, ack, clear,
                   health, restarts, history>>

\* Mutant: a close superseded by a stop is still published as the current one.
ConfirmCloseAlways(c) ==
    /\ closer[c].pc = "closed"
    /\ cache' = [cache EXCEPT !.gen = closer[c].gen, !.status = "closed"]
    /\ closer' = At(c, "confirming")
    /\ UNCHANGED <<port, unconfirmed, durable, clearance, gate, roast, stop,
                   start, ack, clear, health, restarts, history>>

\* History is closed; the current lease only if no stop was admitted since and
\* the verification saw the row closed.
ConfirmClose(c) ==
    /\ closer[c].pc = "closed"
    /\ IF cache.gen = closer[c].gen
       THEN \/ /\ cache' = [cache EXCEPT !.status = "closed"]
               /\ closer' = At(c, "confirming")
            \/ /\ UNCHANGED cache
               /\ closer' = At(c, "marking")
       ELSE /\ UNCHANGED cache
            /\ closer' = At(c, "confirming")
    /\ UNCHANGED <<port, unconfirmed, durable, clearance, gate, roast, stop,
                   start, ack, clear, health, restarts, history>>

\* A plain acknowledgement ends the run's row and leaves the lease alone.
CompleteRun ==
    /\ closer[Runner].pc = "completing"
    /\ run' = "completed"
    /\ closer' = At(Runner, "confirming")
    /\ UNCHANGED <<port, lease, durable, clearance, gate, live, stop, start, ack,
                   clear, health, restarts, history>>

\* The runner's last step: it publishes the acknowledgement if the lease is
\* closed and current (or, plain, if no stop came), and is finalized anyway.
RunnerFinishes ==
    /\ closer[Runner].pc = "confirming"
    /\ live' = "finalized"
    /\ closer' = At(Runner, IF IF closer[Runner].d212 THEN cache.status = "closed"
                               ELSE finalizing /\ closer[Runner].current
                            THEN "acknowledged" ELSE "idle")
    /\ finalizing' = terminalOwner
    /\ Port!Release(Runner)
    /\ UNCHANGED <<lease, durable, clearance, terminalOwner, run, stop, start,
                   ack, clear, health, restarts, history>>

\* Nothing up to the loop's task catches a store write that raises: the task
\* ends.  Only a failed proof has a finally that releases what it reserved.
LoopDies ==
    /\ closer[Runner].pc \in {"failed", "aborted", "completing", "confirming"}
    /\ closer[Runner].pc = "confirming" /\ closer[Runner].d212 => cache.status # "closed"
    /\ IF closer[Runner].pc = "failed"
       THEN finalizing' = terminalOwner /\ Port!Release(Runner)
       ELSE UNCHANGED <<port, finalizing>>
    /\ run' \in IF closer[Runner].pc = "completing" THEN {run, "completed"} ELSE {run}
    /\ closer' = At(Runner, "dead")
    /\ UNCHANGED <<lease, durable, clearance, terminalOwner, live, stop, start,
                   ack, clear, health, restarts, history>>

RunnerFails ==
    /\ closer[Runner].pc \in {"failed", "aborted"}
    /\ finalizing' = terminalOwner
    /\ IF closer[Runner].pc = "aborted"
       THEN Port!Abort(Runner)
       ELSE Port!Release(Runner)
    /\ closer' = At(Runner, "idle")
    /\ UNCHANGED <<lease, durable, clearance, terminalOwner, roast, stop, start,
                   ack, clear, health, restarts, history>>

TerminalReleases(c) ==
    /\ closer[c].pc \in {"failed", "confirming"}
    /\ finalizing' = FALSE /\ terminalOwner' = FALSE
    /\ Port!Release(c)
    /\ closer' = At(c, IF closer[c].pc = "failed" THEN "idle" ELSE "released")
    /\ UNCHANGED <<lease, durable, clearance, roast, stop, start, ack, clear,
                   health, restarts, history>>

\* The projection is read after the release; a stop may have come by then.
TerminalReports(c) ==
    /\ closer[c].pc = "released"
    /\ closer' = At(c, IF cache.gen = closer[c].gen /\ cache.status = "closed"
                       THEN "acknowledged" ELSE "idle")
    /\ UNCHANGED <<port, lease, durable, clearance, gate, roast, stop, start, ack,
                   clear, health, restarts, history>>

Answered(c) ==
    /\ closer[c].pc = "acknowledged"
    /\ closer' = At(c, "idle")
    /\ UNCHANGED <<port, lease, durable, clearance, gate, roast, stop, start, ack,
                   clear, health, restarts, history>>

-----------------------------------------------------------------------------
(* Restart clearance, the run's own life and the process's.                *)

\* The operator's clearance is refused over an unknown lease, and over an
\* active run unless its fault is the open lease's.
RequestClearance ==
    /\ clear.pc = "idle" /\ clearance = "required"
    /\ cache.status # "unknown"
    /\ run = "active" => cache.status = "open" /\ live = "faulted"
    /\ clear' = [pc |-> "proving", current |-> TRUE, lease |-> cache]
    /\ UNCHANGED <<port, lease, durable, clearance, gate, roast, stop, start,
                   closer, ack, health, restarts, history>>

ClearanceCurrent == clearance = "required" /\ clear.current /\ cache = clear.lease

\* The roaster proves that no session exists, or that its fault is at zero,
\* and the evidence is compared once more.
ProveClearance ==
    /\ clear.pc = "proving"
    /\ clear' \in {NoClear} \cup
                  IF ClearanceCurrent THEN {[clear EXCEPT !.pc = "persisting"]} ELSE {}
    /\ UNCHANGED <<port, lease, durable, clearance, gate, roast, stop, start,
                   closer, ack, health, restarts, history>>

\* The row moves from required to cleared once; a second confirmation, or one
\* whose outcome is uncertain, leaves the process fenced until it restarts.
PersistClearance ==
    /\ clear.pc = "persisting"
    /\ \/ clear' = [clear EXCEPT !.pc = "persisted"] /\ UNCHANGED clearance
       \/ clear' = NoClear /\ clearance' = "unknown"
    /\ UNCHANGED <<port, lease, durable, gate, roast, stop, start, closer, ack,
                   health, restarts, history>>

\* Mutant: nothing is compared after the row has been written.
ClearUnconditionally ==
    /\ clear.pc = "persisted"
    /\ clear' = NoClear
    /\ clearance' = "cleared"
    /\ unresolved' = (unresolved /\ ~(ClearanceCurrent /\ cache.status = "closed"))
    /\ UNCHANGED <<port, lease, durable, gate, roast, stop, start, closer, ack,
                   health, restarts, zero>>

\* Published only if no stop was admitted and the lease is still the one seen.
Clear ==
    /\ clear.pc = "persisted"
    /\ clear' = NoClear
    /\ clearance' = IF ClearanceCurrent THEN "cleared" ELSE "unknown"
    /\ unresolved' = (unresolved /\ ~(ClearanceCurrent /\ cache.status = "closed"))
    /\ UNCHANGED <<port, lease, durable, gate, roast, stop, start, closer, ack,
                   health, restarts, zero>>

RunCompletes ==
    /\ live = "running" /\ start.pc = "idle" /\ Start \notin onWire
    /\ run' = "completed" /\ live' = "finalized"
    /\ UNCHANGED <<port, lease, durable, clearance, gate, stop, start, closer,
                   ack, clear, health, restarts, history>>

\* A safety verdict faults the run without any operator's stop.
RunFaults ==
    /\ live = "running" /\ start.pc = "idle"
    /\ live' = "faulted"
    /\ UNCHANGED <<port, lease, durable, clearance, gate, run, stop, start,
                   closer, ack, clear, health, restarts, history>>

\* An orderly shutdown drains the stops' writes and marks its epoch clean.
OrderlyShutdown ==
    /\ \A s \in Stops : stop[s] = NoStop
    /\ clearance = "cleared" /\ cache.status = "closed" /\ run # "active"

\* The process ends, anywhere, and starts again: memory is gone, the row is
\* not, and a missing row is trusted only after an orderly shutdown.  A run
\* persisted as faulted is finalized, any other active one is attached to
\* without a command.
Restart ==
    /\ restarts < MaxRestarts
    /\ restarts' = restarts + 1
    /\ onWire' = {} /\ admitted' = {} /\ holders' = {} /\ reserved' = FALSE
    /\ durable' = IF durable = NoLease /\ ~OrderlyShutdown
                  THEN [durable EXCEPT !.status = "unknown"] ELSE durable
    /\ cache' \in {durable', [NoLease EXCEPT !.gen = 1, !.status = "unknown"]}
    /\ unconfirmed' = NoGeneration
    /\ clearance' = "required"
    /\ finalizing' = FALSE /\ terminalOwner' = FALSE
    /\ \/ run = "active" /\ run' = run /\ live' = "recovered"
       \/ run = "active" /\ live = "faulted" /\ run' = "completed" /\ live' = "none"
       \/ run # "active" /\ run' = run /\ live' = "none"
    /\ stop' = [s \in Stops |-> NoStop]
    /\ start' = NoStart
    /\ closer' = [c \in Closers |-> NoCloser]
    /\ ack' = NoAck
    /\ clear' = NoClear
    /\ health' = NoRow
    /\ zero' = {}
    /\ UNCHANGED unresolved

-----------------------------------------------------------------------------
StopStep(s) ==
    \/ AdmitStop(s) \/ DispatchStop(s) \/ WithdrawStop(s) \/ FinishStop(s)
    \/ PersistStop(s) \/ PublishStop(s) \/ AuditStop(s) \/ PersistStopFails(s)

StartStep ==
    \/ StartAdmitted \/ StartReadsLease \/ StartCreatesRun \/ StartPublishes
    \/ StartBuildFails \/ StartBuildsRunner \/ StartWrites \/ StartNotWritten

\* What a closer does once it has begun.
CloserGoesOn(c) ==
    \/ WaitForProof(c) \/ ProofFails(c) \/ AlreadySafe(c) \/ StopCooling(c)
    \/ StopCoolingReturns(c) \/ CheckAfterStop(c) \/ ReadBackSafeZero(c)
    \/ BeginClose(c) \/ CloseTransaction(c) \/ VerifyClose(c) \/ ReverifyClose(c)
    \/ MarkDurableUnknown(c) \/ MarkCacheUnknown(c) \/ ConfirmClose(c) \/ Answered(c)
RunnerGoesOn ==
    CloserGoesOn(Runner) \/ CompleteRun \/ RunnerFinishes \/ RunnerFails \/ LoopDies
TerminalGoesOn(c) ==
    \/ CloserGoesOn(c) \/ BeginTerminalClose(c) \/ TerminalReleases(c) \/ TerminalReports(c)

ClearStep == RequestClearance \/ ProveClearance \/ PersistClearance \/ Clear

Next ==
    \/ HealthFetch \/ HealthRead
    \/ RevokePendingStart
    \/ \E s \in Stops : StopStep(s)
    \/ StartStep \/ FinishRoutine \/ FaultControlWrites
    \/ RequestAck \/ QueueAck \/ DropAck \/ BeginRunnerClose \/ RunnerGoesOn
    \/ \E c \in Terminals : RequestTerminal(c) \/ TerminalGoesOn(c)
    \/ ClearStep
    \/ RunCompletes \/ RunFaults \/ Restart

Spec == Init /\ [][Next]_vars

\* Calls to the roaster and to the store end, and runnable tasks run.
Fairness ==
    /\ WF_vars(FinishRoutine)
    /\ WF_vars(RunnerGoesOn)
    /\ \A c \in Terminals : WF_vars(TerminalGoesOn(c))
    /\ \A s \in Stops : WF_vars(FinishStop(s))

FairSpec == Spec /\ Fairness

-----------------------------------------------------------------------------
(* Properties.                                                             *)

\* A Start writes to the roaster only when every emergency stop admitted
\* before has been resolved: its lease closed on a safe-zero proof, or, after
\* a restart that lost it, cleared by the operator against the roaster.
StartFollowsResolution ==
    [][Start \notin onWire /\ Start \in onWire' => ~unresolved]_vars

\* A D212 acknowledgement is published only while the lease is closed and on
\* a safe-zero reading that no write and no stop has outdated.
AcknowledgedOnlyResolved ==
    [][\A c \in Closers :
          /\ closer[c].pc # "acknowledged" /\ closer'[c].pc = "acknowledged"
          /\ closer[c].d212
          => cache.status = "closed" /\ ~unresolved]_vars

\* Neither the row nor, within a process, a lease that names its run goes back
\* to an older generation, and a row that left "open" is never open again.
LeaseNeverRegresses ==
    [][/\ durable'.gen >= durable.gen
       /\ durable'.gen = durable.gen /\ durable.status # "open"
            => durable'.status # "open"
       /\ restarts' = restarts /\ cache.bound => cache'.gen >= cache.gen]_vars

\* What memory holds closed, SQLite holds closed: no Start rests on a close a
\* restart would not find.
ClosedIsDurable ==
    cache.status = "closed" /\ ~FinalizationInProgress =>
        durable.gen = cache.gen /\ durable.status = "closed"

\* A failed finalization is released for a later retry, whatever the store and
\* the roaster answer.
FinalizationEnds == finalizing ~> ~finalizing
=============================================================================
