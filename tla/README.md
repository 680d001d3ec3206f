# A TLA+ model of roastpilot-agent

roastpilot-agent runs supervised coffee roasts on a Hottop through a child
process, `coffee-roaster-mcp`. A language model advises; a deterministic
controller owns the one-second loop, every command passes a safety policy,
SQLite keeps the record, and a restart never resumes heat on its own. What
makes the program hard is neither the numbers nor the prompts but the order of
things: an operator's emergency stop may arrive at any `await` of the loop, of
another request, of a store transaction or of a roaster call, and must win
every time; and around that core several protocols of tasks, processes and
files have to survive timeouts, cancellation and restarts.

This directory models the core and those protocols: who may write to the
roaster and when, what the controller does with its phase and heat while stops
interleave with it, the fault-control lease that keeps a new roast out until a
stop is resolved, the executor of fault controls, the lifecycle of the child,
the event stream to the console, the bean-sourcing attempts shared by several
processes, and the two-phase cold characterisation run. TLC checks the modules
on small instances; TLAPS proves the safety properties of all eight components
for any number of callers, of attempts, of restarts and of faults, with the
exceptions named under *Proofs*.

Paths below are relative to `src/roastpilot_agent/` unless they start with
`docs/`, `tests/` or `web/`.

## The system

| Part | Keeps | Operations | Correct when |
|---|---|---|---|
| Command arbiter (`controller.py:113`) | generation, pending stops, release epoch, in-flight flags, close reservation, a condition's sleepers | `run_routine`, `admit_emergency_stop`, `run_emergency_stop`, `cancel_...`, `reserve_close`, `wait_for_close_proof`, `release_close` | one call at a time; a stop waits for at most that call; no write admitted before a stop is made after it; a closer's proof is exclusive, but for what an aborting runner frees |
| Roast controller (`controller.py:1513`) | phase, fail-safe latch and its retry, transition gate, heat/fan mirrors, T0 and clocks | `tick`, `start`, `recover_from_restart`, `operator_*`, emergency stops | phases follow the table; a latched verdict is enforced; only a stop moves the phase once admitted; heat rises under control |
| Fault-control executor (`controller.py:543`) | priority queue, one worker, audit tasks | `execute`, `settle_for_shutdown` | a stop is served before queued controls; what is recorded of a write is what happened to it |
| Tick scheduler, advisory cadence (`controller.py:1208`, `1302`) | next target time; last advice | `run`, `stop`; when to ask | no drift; the loop lives as long as the run |
| Safety policy (`safety.py`) | nothing | `evaluate_*` | limits and the command x phase matrix; failures fail closed |
| Lever policies (`control_policy.py`, `post_fc_control.py`, `coherence.py`) | ramp and PI state | targets for a tick | inside the phase's box; no reversal inside the deadband |
| Roast service (`api.py:2438`) | active run, runner, lease cache, restart clearance, start admissions, tasks of stops and closes | `start_roast`, `submit_*`, closers, `acknowledge_restart_clearance`, recovery endings, shutdown | no roast starts over an unresolved stop; an acknowledgement is true when it is published |
| Roast runner (`api.py:964`) | operator queue, acknowledgement epoch, finalized flag, event buffer | `tick_once`, dispatch, completion | a run finalizes once, on proof |
| Event broadcaster (`api.py:381`) and console stream (`web/src/hooks`) | subscribers' queues, replay ring, sequence; the page's last id and view | `emit`, `subscribe`, flush; connect, hydrate, resume, apply | never blocks a tick; frames arrive once and in order; resumes without gaps inside the ring |
| Store (`store.py`) | SQLite rows | one transaction per operation | compare-and-set on the lease; history immutable |
| MCP client and child (`mcp_client.py`) | session, owner task, unconfirmed-stop flag, teardown incident | typed calls, `start`, `stop`, acknowledgement | calls bounded; one child; an uncertain stop is never reported clean |
| Bean sourcing and its attempts (`api.py:7626`, `store.py:4371`) | leased attempt rows, heartbeats, tasks, claims | draft, recommend, save a profile | a roast preempts them; rows of the living are kept, rows of the dead end; a draft makes one profile |
| Cold characterisation (`cold_characterisation/`) | evidence log, owned child, sampler, result | one two-phase run | evidence sealed only when accounted; the child never abandoned |
| Advisor (`advisor.py`) | conversation | one recommendation | typed data or a failure, no write access |
| Configuration, catalogue, profiles, evidence analysis, replay, appliance, pages, scripts | | | see `components` in `PROJECT.json` |

How they meet: HTTP requests call the service; the service calls the runner's
queue or, for an emergency stop, the controller directly; one asyncio task per
run drains the queue and ticks the controller; every actuator call of the loop,
of the executor and of the closers goes through the one arbiter; stops and
closers write the lease to the store from tasks of their own; health and
projection reads fetch the lease row back into the service's cache; events
leave through the broadcaster at once and reach the store with the next flush.
Everything in one process runs on one event loop, so a step between two awaits
is atomic and every await is a place where anything else may happen. That is
the granularity of all modules here. Two processes meet only in SQLite, whose
`BEGIN IMMEDIATE` transactions are atomic.

What is hard: stops racing ticks, starts, acknowledgements and each other;
rows read before and used after a stop; writes of several tasks landing in any
order; a transaction whose outcome is unknown; calls that time out and were
made all the same; tasks that die of an exception nobody handles; a process
that dies between any two of these. `hazards` in `PROJECT.json` lists each at
its line, with the properties that guard it or the reason none does yet.

## Modules

| Module | Models | Extends or instantiates |
|---|---|---|
| `PriorityPort` | what the arbiter promises, without generations, epochs or waits | |
| `CommandArbiter` | `CommandArbiter`, callers included | `PriorityPort` (refinement) |
| `RoastController` | `RoastController` serving one run | `CommandArbiter` |
| `FaultLease` | the lease, Start, both closers, clearance, restarts | `PriorityPort` |
| `FaultControlExecutor` | `FaultControlExecutor`, its callers and the live runner | `PriorityPort` |
| `ChildProcess` | `MCPServerProcess`: owner tasks, start, stop, incidents | |
| `DraftAttempts` | the attempts' rows, requests and saves, in several processes | |
| `EventStream` | broadcaster, buffered events, phase row, one browser | |
| `ColdRun` | the two-phase run, its evidence, child and sampler | |
| `CommandArbiterProofs`, `RoastControllerProofs`, `FaultLeaseProofs`, `FaultControlExecutorProofs`, `ChildProcessProofs`, `DraftAttemptsProofs`, `EventStreamProofs`, `ColdRunProofs` | the TLAPS proofs | the module they name, TLAPS; `RoastControllerProofs` also `CommandArbiterProofs` |
| `MC...` | the instance of each for TLC | |

An operator whose name says how it goes wrong (`...WithoutRecheck`,
`...Always`, `...Unbounded`) and whose comment begins with "Mutant:" is not
part of a specification: it is a version of the definition below it with a
plausible slip, kept to show that a property would notice (`mutants` in
`PROJECT.json`).

### CommandArbiter

The variables are the object's fields under the code's names, plus where each
caller stands: `call[p].pc` of a routine caller or a closer (`captured` or `reserved`
before it enters the gate, `waiting` or `woken` in the condition,
`proofWaiting`/`proofWoken` in `wait_for_close_proof`, `proving`, `calling`) with
the generation and epoch it captured, and `stop[s]` of a stop. An action is what a caller does from one
suspension to the next: the loop in `run_routine` is `EnterRoutine` (first
pass) and `RecheckRoutine` (a pass after a wakeup), each ending in `Discard`,
`WaitForCall` or `Dispatch`. `notify_all` marks every sleeper woken; a woken
sleeper takes its turn in any order. Callers may be cancelled in the wait.

A closer's own cleanup releases the generation it captured (`ReleaseClose`). The
live runner (`Runners`) has a second way out: an acknowledgement that is
superseded, or whose close fails, releases the generation current at that moment
(`AbortClose`, `api.py:1938`, `1978`), which another closer may have reserved since.
That closer keeps working; it finds its reservation gone when it next looks,
unless a third has reserved the same generation by then and so given it back an
entitlement that had lapsed. `CloseProofExclusive` is therefore about a closer that
alone holds the generation it reserved (`HoldsAlone`); without that condition TLC
finds the schedule in 11 states, with one runner and one other closer.

`PriorityPort` is the promise the other modules rely on: `holders` are the closers
that reserved since the last admitted stop and have not finished, `reserved` says
that the reservation stands; `Release` is a holder's, `Abort` the runner's, which
clears it whoever made it. A reservation does not name its owner, in the port
as in the code, which stores a generation. `ImplementsPort` maps the calls on the
wire, the admitted stops, the closers of the current generation and the
reservation to its four variables.

### RoastController

One run, its loop and the stops the service dispatches. The loop's program
counter is the await it sits at; `loop.doing` names the operation whose call it
makes. `TickBegins` to `LoopReturns` are the tick's stages in the code's order
with their early returns; `BeginCommand`/`CommandPersisted` and the routine
call are an operator's command; `OperatorResume`, `StartRun`,
`RecoverFromRestart` are the runner's entry points; `AdmitOperatorStop`,
`StopProceeds`, `StopConfirmed`, `StopRaises`, `StopCancelled` a stop. Calls use
the arbiter's own actions through `INSTANCE CommandArbiter`, so the gate here
is the real one, not its abstraction.

Data are reduced to what the properties tell apart: telemetry, rules, lever
policies and the advisor are a choice among the verdicts and levels the phase
admits; heat is a small number, the fan only succeeds or fails as the second
half of a pair. A call that raises may or may not have reached the roaster.
A transition and the writes behind it are one step only where the code has no
await between them.

### FaultLease

`cache`, `unconfirmed`, `clearance`, the finalization gate and the run are the
service's fields; `durable` and `run` are SQLite's. A stop request admits
(`AdmitStop`: one synchronous step that bumps the generation, revokes pending
starts and closers' claims), is dispatched and proved or not (`DispatchStop`,
`WithdrawStop`, `FinishStop`) and, independently, written to the store and
published (`PersistStop`, `PublishStop`, `AuditStop`, `PersistStopFails`). Start
is its five awaits. A closer is the live runner's acknowledgement (also the
plain one, which does not close) or a terminal D212 request: reservation,
exclusive proof, optional cooling stop, readback, close transaction, and the
checks after it, with every outcome of a transaction that raised. `HealthFetch`
and `HealthRead` are a row read early and compared late. `StartBuildFails` leaves
an active run without a runner. `Restart` may strike
anywhere. `LoopDies` is the loop's task ending of a store error.

A monotone counter that the code only compares with an earlier copy of itself
is a boolean `current` that admission clears. The gate is `PriorityPort`: the
abstraction the arbiter is proved to refine. `zero` and `unresolved` are
history: whose safe-zero reading is still true of the roaster, and whether a
stop was admitted that nobody has proved over. No guard reads them. A runner
that gives up after its proof is `aborted` and releases by `Port!Abort`; every
other end of a closer is `Port!Release`.

### FaultControlExecutor

The worker's program counter is the await `_execute_one` sits at: the wait for
the gate's proof, the read before the write, the read of the newest row, the
wait for the gate, the write, the read back, and the same for a stop. The two
queues are the priority queue's two priorities. `Route`, `Execute` and
`EvaluationRecorded` are a request's way into the queue; `CancelWaiter` its
HTTP task ending while the control runs on; `AdmitStop` to `StopReadBack` a
stop on a terminal session; `LiveWrites` the live runner's own call on the same
port, `LiveAborts` its superseded acknowledgement, which clears the reservation a
D212 request may hold. `report` is the trace row written last together with how far the write
really got; `begun` and `older` are history.

asyncio runs ready tasks in the order they became ready. `TasksRan` states the
one consequence used: the task of a stop that was admitted before a roaster
call began has put the stop into the queue by the time that call returns.

### ChildProcess

A spawn is a generation. `owner[g]` is where its owner task is in
`_run_session` (`entering` the transport, `spawned`, `checking` its health,
`parked` on the stop event, `unwinding`, `done`; `BodyAborted` may end any of the
first four), `child[g]` whether its
process group may be alive, `hook` the generation whose group
`_force_terminate` would signal. `call[c]` is a task inside `start()` or
`stop()`. A bounded wait ends by the owner (`StopEnds`, `UnwindEnds`), by its
timeout or by cancellation of the caller; `FailClosed` is
`_mark_teardown_unconfirmed` with its incident and its signal.
`OperatorVerifies` and `Acknowledge` are the hardware clear, with requests that
arrive late, twice or with an older incident's number.

### DraftAttempts

`row[a]` is the attempt's row in SQLite, with dates replaced by the ticks left
(`lease`, `claim`) or gone (`seen`); a tick is a heartbeat interval. `req[a]` is
the HTTP request, `task[a]` the task it awaits, `lock[p]` the start lock of each
process. `Sweep` is the reconciliation every process runs: a lapsed lease is
observed, and ended only when it stayed lapsed for the confirmation time.
`StartRoast`/`RoastPersisted` are the start that cancels the process's work.
`SaveBegins`, `SaveCommits`, `SaveRollsBack` are the transaction that makes a
profile and claims the draft; `Database` is its exclusion. `Crash` and
`Shutdown` end a process, `ClockJumps` and `HeartbeatFails` are the troubles
`MaxTrouble` bounds. `AdmittedForNobody` is an admission whose client left.

### EventStream

`ChangePhase` and `PublishTelemetry` publish a frame: the sequence steps, the
ring keeps the newest, a subscriber's full queue does not take it. A phase
change is also buffered; `BeginFlush` drains the buffer under the lock and
`FlushRow` writes one row, or skips the event the store refuses.
`FlushCancelled` is a flush that ends at its insert: `CancelledError` passes the
handler of a refused one (`api.py:2111`), so the rest of the batch is lost. It is
a stop's flush when a bound of the shutdown's heat-off expires (`api.py:6365`,
`6388`), or the tick's with its loop. `RetryOnlyAfterEnd` and `DiscardDrained` are the
runner that outlives the durable end of a recovered run for the sake of its
heat-off: its ticks drain the buffer and drop what was in it (`api.py:1365`, `1368`,
`1390`). `loop` says which of these the tick loop still does.
`PersistPhase` is the run's row that the REST snapshot shows. The browser
connects, hydrates from that snapshot, subscribes with its last id, applies
what the reducer accepts, and loses its connection. `Restart` is a new process:
its sequence, ring and buffer are empty. `lost` and `skipped` are history.

### ColdRun

The coroutine's program counter stands at its awaits and at each write between
them; `mode` says whether it is running, in teardown, recovering from a primary
failure or unwinding a cancellation. The evidence is one sequence of records
`<<phase, record>>`, and `Admits` the sink's rules of what may follow what;
`Reload` applies the conformance grammar to what was sealed. The child is the
owner's state and whether a process lives. The sampler of each window runs
beside the coroutine: it opens an attempt, invokes the provider in a task that
may never return, and its answer is consumed, abandoned or left unresolved when
the window settles. Each write, call, clock sample and builder may fail
(`MaxFaults` in all), and a cancellation may arrive at every await
(`MaxCancels`).

## Runs

| Run | Instance | Shows |
|---|---|---|
| `arbiter` | 1 writer, 2 closers, one of them the live runner's, 2 stops, 3 admissions | no write entered under or overtaken by a stop reaches the wire; a closer's proof is alone while nobody else holds its generation; an admitted stop is dispatched or withdrawn; the gate refines the port |
| `controller` | loop, its own stop, 2 operator stops, heats 0..2, 3 admissions | a latched verdict is enforced; heat rises only under control; only a stop moves the phase once admitted; the controller uses the arbiter as specified; an unconfirmed heat-off is written again |
| `resume` (violation) | 1 operator stop, heats 0..1, 1 admission | a resume can leave unconfirmed heat on |
| `mark_first_crack` (violation) | the same | a stop during a first-crack mark ends the loop, and the retry with it |
| `lease_safety` | 1 stop request, Start, runner, 1 terminal closer, 2 generations, 1 restart | Start and acknowledgements follow resolution; the row and the cache never go back; closed in memory is closed in SQLite |
| `lease_finalization` (violation) | 1 generation, no restart, fairness | a store error during completion leaves finalization held |
| `executor` | 1 control, 1 D212 request, 2 stops, the live runner | a stop waits for at most one call begun after it, and is resolved; the trace row says what happened; no older control writes behind a stop |
| `child_process` | 2 callers, 3 spawns | no child that may live is forgotten, none starts beside another, no stale group is signalled, every call returns |
| `draft_attempts` | 1 attempt, 2 processes, 2 saves, 2 values | rows of the living stay and those of the dead end; a roast leaves no request running; a draft makes at most one profile |
| `event_stream` | queue and ring of 2, 2 flushers, 3 phases, 5 frames, 2 drops, 1 restart | frames once and in order; a gap is a full queue's or an evicted frame's; the trace keeps the order of emission, and an event emitted while a flush writes outlives that flush |
| `console_restart` (violation) | the same | a page that outlives a restart refuses frames it was never given |
| `cold_run` | 1 tick and 1 attempt a window, 2 faults, 2 cancellations | the child is never abandoned or doubled; nothing unresolved seals as an ordinary run; every run ends |

Each property of a passing run has a mutant in its module under which TLC
finds it violated by the run's own configuration.

### Bounds

- *Callers.* The arbiter has two closers and two stops and one writer, which
  with each other give the races closer against closer, stop against stop and
  each inside another's wait. One closer is a runner, so the other one's
  reservation can be aborted; the controller, whose calls are the loop's, has no
  closer and no runner. The controller has one loop by construction, and
  its own stop and two of the operator's give three stops in flight. The proofs
  remove both bounds.
- `MaxGeneration` caps admissions. Three let a stop be admitted, run and end,
  and a second and a third be pending while callers of each earlier generation
  are still around. In `FaultLease` two are what TLC
  finishes: every comparison in the code is between one held and one current
  generation. They show what two requests can do to each other; the one thing
  known to take more is the fourth observation under *Findings*.
- `Heats` 0..2 distinguish off, on and higher, which "heat rises" needs.
- `MaxRestarts`, `MaxBoot` 1: a restart forgets everything in memory, so what a
  second one starts from, the first can also leave. `MaxLateReads` 0: a read of
  the row may come back late in the first process; behind the restart reads
  answer at once, which keeps the instance within minutes.
- `MaxGen` 3 in `ChildProcess`: an owner that never ends, its replacement, and
  the one after the acknowledged incident. The proofs remove the bound.
- `Lease` 4 and `Confirm` 2 keep the code's order of a heartbeat, a lease that
  survives missed ones, and a confirmation shorter than the lease; one trouble
  is one jump of the clock or one failed renewal, of which the code promises to
  survive one. Two saves of two values are the same save again and a
  conflicting one. One attempt is enough for the row's life; the proofs have
  any number, and any periods in the same order.
- `MaxQueue` = `ReplayBuffer` = 2 make both overflow with three frames; five
  frames reach a replay behind an overflow.
- In `ColdRun` two faults are a primary one and one in the handling of it, two
  cancellations one in the body and one in the cleanup. A second tick or attempt
  repeats the window's own loop.
- The proofs keep no bound of any module but two: `LiveOwnersKeepAttempts` is
  about one trouble, `DurableClose` about one terminal request. For the lease,
  `StartFollowsResolution` and `AcknowledgedOnlyResolved` are claimed for the
  instance only.
- `CHECK_DEADLOCK FALSE` is set where the system really ends (a completed or dead
  loop, a sealed run) or where a bound on admissions, frames or spawns stops
  every request; the arbiter, whose callers start over, is checked for deadlock.

No run uses symmetry: most check a temporal property, for which it is unsound.

### Fairness

- Arbiter, controller, executor: `WF` on the ends of calls and on woken tasks.
  Every MCP call has a timeout (`mcp_client.py:2715`), and asyncio runs every
  ready task. `SF` on `TickBegins` alone: a pass of the loop drains a bounded
  queue before its tick, so commands cannot hold it off for ever; the model
  lets a command begin at any idle moment and needs strong fairness to say so.
- `FaultLease` (only for `lease_finalization`): calls to the roaster and the
  store end, and closers that have begun go on.
- `ChildProcess`: `WF` of each caller's own steps, timeouts included. The owner
  and the child are owed nothing: an owner may hang in its context exit for ever.
- `DraftAttempts`: time passes, transactions end, and the sweep of the main
  process, a request's task and its heartbeat get their turn although writers
  of the database may keep taking it (`SF`).
- `ColdRun`: the coroutine goes on, for its ports are bounded by the deadlines
  of the code; the provider may never answer.
- No fairness is assumed of operators, of closers that may give up, or of a
  store write that may fail.

## Proofs

Eight modules, each for any values of the constants that satisfy the named
assumptions of its component. Every one has the same frame: an inductive
invariant `IInv`, a lemma for each action (or each group that changes the same
things), their union for `Next`, and the theorems read off. TLC checked each
`IInv` before it was proved. "None" values, disjoint names and natural bounds
are what most of the assumptions say; the others are named below.

`CommandArbiterProofs` assumes that writers, closers and stops are disjoint, the
stops finite, the bound a number and "no reservation" not one. `IInv` is `TypeOK`,
`SingleCall`, `AdmissionsConserved`, `WriteEnteredOutsideStop`,
`CloseProofExclusive`, `ReservationOwned` and `NoLostWakeup`; each was stated so that
together they need no further strengthening. The heart is the second half of
`AdmissionsConserved`, `generation = releaseEpoch + pending + (1 if a stop is on the
wire)`: it turns "no stop is outstanding" into the equation of two counters. A
caller that enters with `gen = epoch` entered outside any stop, and finding both
unchanged after a wait means no stop came and went meanwhile, so
`WriteEnteredOutsideStop` survives the pass after a wakeup, of which neither
counter alone would tell. `ReservationOwned` says that a reservation is current,
that no stop is pending beside it and that a closer which made it is still there
to release it; it does not say which, for after a runner's abort there may be
two. `CloseProofExclusive` asks of one that it holds its generation alone
(`HoldsAlone`): a reservation once lost can come back only by another closer that
reserves the same generation. The waits of both need `NoLostWakeup` to be left at
all. Each action has its lemma, `NextInv` puts them
together. `GateImplementsPort` maps each action to one step of the port or to a
stutter; it is what lets `FaultLease` and `FaultControlExecutor` use the port.

`RoastControllerProofs` takes any finite set of operator stops, any heat levels
with 0 and any bound on generations. `IInv` is the arbiter's own
(`Gate!IInv`, for every step of the controller is one of the arbiter or leaves
it alone) and `Control`: where the loop's program counter stands, its arbiter call
stands (`CallMatchesLoop`, `LoopShape`); the transition gate is shut while a stop is
outstanding (`GateTracksStops`), and whatever the loop began before that stop
has an older generation (`StopsSupersede`); unless superseded the loop writes heat
only in a phase that heats (`StagePhase`). The step that needs thought is a write
that returns behind a stop. `LatchedVerdictEnforced` alone is not inductive: a
superseded call on the wire may yet turn the heat on, so `StaleCallAnswered`
says that it has a stop, or the retry of a cancelled one, behind it. It gives
`LatchedVerdictEnforced`, `HeatRisesUnderControl`, `StopOwnsPhase`, and
`UsesArbiter`, through which the arbiter's theorems hold of the controller.

`FaultLeaseProofs` takes any sets of stops and terminal closers and any number of
restarts. `TypeCorrect` and `LeaseMonotone` need no more: nobody holds a
generation ahead of the cache (`Generations`) and a row fetched long ago can only
be refused, or be the row as it is (`RowsFetched`). `ClosedIsDurable` is the hard
one: a close that was committed but could not be verified is marked unknown
behind it, so what memory holds closed could be the close of somebody else.
`Claims` excludes it: nobody else closes the same generation, because a runner
begins only with nothing reserved, and a terminal closer of the current
generation that lost its reservation lost it to an aborting runner, which leaves
no acknowledgement of that generation to begin with (`RunnerSide`). All this
rests on a closer freeing no reservation but its own, `OneHolder`: `Invariant` is
proved under it, for any number of terminal requests. `HeldAlone` discharges it
for one terminal request beside the live runner's closer, with two more
invariants. `Holding`: a terminal closer without a reservation is of an older
generation, and one whose reservation an aborting
runner has cleared leaves that runner nothing to begin again with. `Fence`: while
a closer without its hold is at work beside an active run, the current lease is
not closed and every row that says so will be refused, so that no plain
acknowledgement can be made. With three terminal requests `OneHolder` and
`ClosedIsDurable` are both false (the fourth observation under *Findings*), so
`DurableClose` states its hypothesis, `OneTerminal`.

`FaultControlExecutorProofs` takes any sets of controls, closers and stops.
`OneCallAheadOfStop` rests on `Punctual`: between two calls of the worker, a stop
that a call was begun ahead of has reached the queue, which is the consequence
of asyncio's order that the module states as `TasksRan`. `NoWriteBehindStop` rests on
`OlderFirst`: stops are queued and served in the order of their admission, so the
newest, whose lease the row carries, has none outstanding when it is dispatched,
and `OlderOutdated`: a request made before a stop has lost its lease for good.
`TraceIsHonest` follows from how the worker's await tells how far the write is
(`WorkerShape`) and whose lease it still has (`LeaseOfWrite`).

`ChildProcessProofs` assumes that the number of spawns has a bound. To the four
safety properties `IInv` adds what a call and the kill hook refer to
(`CallsAndHook`), that a generation has no child before it spawned, that behind
a verdict no owner comes to life and whoever may acknowledge it saw no child
(`VerdictFreezes`), and that a generation raises at most one incident
(`OneIncident`). The last is why an old acknowledgement cannot clear a new verdict:
the identity an operator verified is the current one only if its child was
seen gone. It gives `UncertainIsNeverClean`, `SerialPortExclusive`,
`SessionOfCurrentOwner` and `SignalsOwnGroup`.

`DraftAttemptsProofs` assumes that the main process is one of the processes,
that "none" is no value, process, save or number, that no attempt is called like a
state of the lock, and that the periods are positive. `IInv` adds to the types that a snapshot is that of an unsaved
successful draft (`RowsTruthful`), that a request not yet admitted has no row
and no task (`NotAdmitted`), that the transaction holding the database claims a
draft nobody saved (`OneClaim`), whom the start lock belongs to (`LockOwned`), and that
from the moment a roast starts its process admits and runs nothing
(`StartPreempts`), which is stronger than `NoDraftBesideRoast` by exactly the
window between the cancellation and the run's row. It gives `RoastLeavesNoDraft`
and `DraftSavedOnce` for any number of attempts, processes and saves.
`LiveOwnersKeepAttempts` adds the promise of the lease itself, for at most one
trouble, a lease of at least three heartbeats and a confirmation of at least two
(the code has four and two). `LiveRows` measures what a row in progress has left before
its next renewal: so much of its lease, or, behind a jump of the clock, so
little time since it was first seen lapsed; `Beating` adds that a heartbeat
begins with the admission and that no request ends itself as reconciled.

`EventStreamProofs` takes any ring no longer than the queue, any set of flushers
and any bounds. The ring holds the newest frames without a hole (`RingShape`), so
what a reconnect cannot replay is exactly what was evicted; above it every id
behind the last one applied is on its way or was lost where a reader can see
it (`Accounted`), and everything received is before everything on its way
(`ReceivedBefore`). The trace is the rows, then what the one holder of the lock has
still to write, then the buffer, ascending throughout (`InOrder`), and covers
every change (`Covered`). A cancelled flush drops the end of its batch and a
discarding tick the buffer: what is left is still a subsequence in order, and
what is missing is in `skipped`.

`ColdRunProofs` takes any number of ticks, attempts, faults and cancellations.
`SealedIsAccounted` compares counts of records over the whole evidence, so `IInv`
carries the difference: intents and answers differ by the attempt that is open
(`Attempts`). A settlement that leaves one open is the first to take a path, because the
second window begins only when the first has left none (`Windows`), so the
terminal that is written is the failed run's (`Terminates`). `ChildSide` relates the
coroutine's place to the child for `ChildOwned`.

Only model-checked are:

- `StartFollowsResolution` and `AcknowledgedOnlyResolved`, on the run's
  instance, and `ClosedIsDurable` with more than one terminal request. They are
  not claimed for every value of the constants: once three terminal requests can
  be pending, an aborting runner may clear the reservation of one, its next
  acknowledgement may reserve the same generation, and the other's release then
  frees that; a routine fault control may write between the runner's reading and
  its close, which is acknowledged. So `AcknowledgedOnlyResolved` is false there,
  and `ClosedIsDurable` for a moment; *Findings* has the schedule. The instance
  stays below it.
- Every liveness property (`StopResolved` of the arbiter and of the executor,
  `FailSafeRetried`, `FinalizationEnds`, `CallsReturn`, `AttemptsResolved`,
  `RunEnds`): TLAPS proves neither `ENABLED` nor a conclusion from fairness.
- The properties the violation runs refute.

## Findings

Four places where the code does something other than a comment, docstring or
document says; each is a violation run, quoted in `PROJECT.json`: heat after a
resume (`controller.py:5538`), the first-crack mark that kills the loop
(`controller.py:5592`), finalization held by a dead loop (`api.py:1996`), and the
page that refuses a restarted agent's frames (`web/src/hooks/roastStreamReducer.ts:69`).

Four more observations have no run of their own; the modules contain the
behaviour, and the properties beside them are stated so that they hold with it.
A latch set while no verdict is recorded never escalates (`controller.py:4604`,
`TickDoesNotEscalate`); an advisor's lever write that raises ends the loop
(`controller.py:5107`, so `FailSafeRetried` speaks of a loop that lives); and work whose
generation was captured while a stop was outstanding may be the first write
behind that stop (`controller.py:225`), which is why `WriteEnteredOutsideStop` is
about where a write entered the gate, not where its generation was captured.

The fourth came out of an attempt to prove `AcknowledgedOnlyResolved`.
`controller.py:185` says that a D212 close's "still-owned reservation keeps every
routine writer out through the final proof and durable close", and `api.py:917`
that an aborting finalizer of the live run "must not release that other
operation's owner token". It leaves the finalization gate's token alone, but the
statement after it releases the actuator's reservation of the generation current
at that moment (`api.py:1938`, `1978`), not the one captured at `api.py:1679`. Both
`CommandArbiter` (`AbortClose`) and `FaultLease` (`RunnerFails`) have that release.
In `FaultLease` TLC shows the consequence with three terminal requests, one stop
request, three generations and no restart, in 73 states of an orderly schedule
(clearance, Start and the write of a stop uninterrupted, nobody reading the row):

1. A run is stopped (1) and completes; three terminal requests show that
   generation. The first closes it; the other two still await their reads.
2. A Start follows and its run faults without a stop. The second request takes
   the gate, a further stop (2) revokes its reservation, and the runner's plain
   acknowledgement reserves although the gate is the terminal's (`api.py:1695`).
   A stop (3) supersedes both, and the terminal's release frees the gate while
   the runner is still aborting.
3. The operator acknowledges the stop (3). Before the queue is drained the
   third terminal request takes the gate and reserves, and now the aborting
   runner releases "the current" reservation, the third's.
4. The runner's new acknowledgement reserves the same generation again and
   reads safe zero. The third request, whose work was in vain, releases the
   generation it captured: the runner's. A fault control under the open lease
   is written before the runner's close, which is acknowledged over it.

If instead the close's outcome is unknown and SQLite has been marked so, the same
release opens the finalization gate before memory is marked too: for that moment
memory's closed lease is not durable, which is why `DurableClose` is about one
terminal request. With two, neither was violated in the same orderly schedule.

## Not modelled

- *Recovery endings*: the end of a recovered run without a roaster (D216), the
  initialization of a missing safety record (D220) and the retirement of a
  stranded fault (`api.py:3006`-`4483`). Each is one more way to close a lease, with
  its own identity checks; `FaultLease` is already at the limit of what TLC
  finishes in minutes, so they need an instance of their own with one flag for
  session identity replaced by sessions.
- *Startup and shutdown*: the ordered teardown and its deadlines. `FaultLease`
  has the restart, the epoch's clearance and whether the shutdown was orderly.
- *Safety policy and lever policies*: threshold and fixed-point arithmetic
  without interleaving. `RoastController` takes every verdict and every level
  the phase admits, so its properties do not depend on them.
- *Advisory cadence, T0 debounce, drift of the tick scheduler, the
  operator-timeout alert*: clocks that decide when, not whether, an action of
  the model happens.
- *Advisor, bean fetching and extraction, catalogue ranking, prompts*: the
  answers of remote models and web pages; the modules take any answer or none.
- *Configuration, domain models, evidence files, landmarks, reports*: validation
  and transformation of one value at a time. `ColdRun` has the order of the records, not their format.
- *Store*: schema, migrations, projections and history queries are single SQL
  statements; the transactions that several tasks contend for are in
  `FaultLease`, `DraftAttempts` and `EventStream`.
- *MCP client's typed calls*: argument checks and result parsing; here a call
  returns, raises, or times out having been made.
- *Replay, serving, command line, appliance, pages, scripts*: composition, I/O
  and rendering, with no protocol of their own.
- In `FaultLease`, session identity is one flag, and the request flag that a
  superseded D212 acknowledgement leaves set (`api.py:1930`) is taken with each
  acknowledgement.

## Plan

1. The lease's two history properties: the weakest condition on concurrent
   terminal requests under which they hold for any number of stops,
   generations and restarts, and a proof under it.
2. `RecoveryEndings` with sessions as values, beside `FaultLease`.
3. `SafetyPolicy` and `PostFirstCrack` as operators over bounded telemetry
   and fixed-point levels against reference definitions.
4. An abstract specification of the attempt's row (admitted, kept while its
   owner lives, ended once), with `DraftAttempts` shown to implement it.
