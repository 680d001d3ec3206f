--------------------------- MODULE ChildProcess ---------------------------
(***************************************************************************)
(* The lifecycle of the coffee-roaster-mcp child (mcp_client.py            *)
(* MCPServerProcess).  Each spawn is a generation: an owner task enters    *)
(* and leaves the session's context, start() and stop() are bounded        *)
(* requests to it made from any task, and every end that could not be      *)
(* confirmed raises an incident which only an operator can acknowledge.    *)
(*                                                                         *)
(* A step runs from one await of one task to its next.  A start() whose    *)
(* answer is there runs before a stop() that waits for the same owner, so  *)
(* it reaps the owner it created; a cancellation reaches an owner before   *)
(* anything else does.                                                     *)
(***************************************************************************)
EXTENDS Integers

CONSTANTS
    Callers,    \* the tasks that call start() and stop()
    MaxGen      \* bounds the spawns

ASSUME MaxGenAssumption == MaxGen \in Nat \ {0}

VARIABLES
    gen,         \* spawns so far; the number of a generation
    ownerTask,   \* _owner_task: a generation, 0 for None
    owner,       \* where each owner task is in _run_session
    ready,       \* each generation's ready future
    stopEvents,  \* the generations whose stop event is set
    cancelled,   \* owners with a cancellation to be delivered
    session,     \* _session: a generation, 0 for None
    hook,        \* _force_terminate: the generation it signals, 0 for None
    unconfirmed, \* _stop_unconfirmed
    incident,    \* _teardown_incident_id, numbered; kept after it is cleared
    child,       \* the process group of each generation
    call,        \* each caller's start() or stop()
    acks,        \* incidents an operator verified and may still acknowledge
    signalled    \* history: whose group was last signalled, and was its owner done

owners == <<gen, ownerTask, owner, ready, stopEvents, cancelled>>
verdict == <<unconfirmed, incident, signalled>>
vars == <<owners, session, hook, verdict, child, call, acks>>

Gens == 1..MaxGen
Body == {"entering", "spawned", "checking", "parked"}
Idle == [pc |-> "idle", gen |-> 0]
CallPcs == {"idle", "stopping", "reaping", "starting", "unwind", "unwindCancelled"}

TypeOK ==
    /\ gen \in 0..MaxGen /\ ownerTask \in 0..gen
    /\ owner \in [Gens -> Body \cup {"none", "unwinding", "done"}]
    /\ \A g \in Gens : owner[g] = "none" <=> g > gen
    /\ ready \in [Gens -> {"pending", "ok", "failed"}]
    /\ stopEvents \subseteq 1..gen /\ cancelled \subseteq 1..gen
    /\ session \in 0..gen /\ hook \in 0..gen
    /\ unconfirmed \in BOOLEAN /\ incident \in 0..gen
    /\ child \in [Gens -> {"none", "up", "gone"}]
    /\ call \in [Callers -> [pc : CallPcs, gen : 0..gen]]
    /\ acks \subseteq 1..incident
    /\ signalled \in [gen : 0..gen, late : BOOLEAN]

Init ==
    /\ gen = 0 /\ ownerTask = 0
    /\ owner = [g \in Gens |-> "none"]
    /\ ready = [g \in Gens |-> "pending"]
    /\ stopEvents = {} /\ cancelled = {}
    /\ session = 0 /\ hook = 0
    /\ unconfirmed = FALSE /\ incident = 0
    /\ child = [g \in Gens |-> "none"]
    /\ call = [c \in Callers |-> Idle]
    /\ acks = {}
    /\ signalled = [gen |-> 0, late |-> FALSE]

OwnerAt(g, pc) == owner' = [owner EXCEPT ![g] = pc]
CallAt(c, pc) == call' = [call EXCEPT ![c].pc = pc]
Returns(c) == call' = [call EXCEPT ![c] = Idle]
Ready(g, answer) ==
    ready' = [ready EXCEPT ![g] = IF @ = "pending" THEN answer ELSE @]

-----------------------------------------------------------------------------
(* Failing closed.                                                         *)

\* The verdict and a best-effort SIGKILL, which may not end the group.
FailClosed ==
    /\ unconfirmed' = TRUE
    /\ incident' = IF unconfirmed THEN incident ELSE incident + 1
    /\ IF hook = 0
       THEN UNCHANGED <<signalled, child>>
       ELSE /\ signalled' = [gen |-> hook,
                             late |-> hook # ownerTask \/ owner[hook] = "done"]
            /\ \/ child' = [child EXCEPT ![hook] = "gone"]
               \/ UNCHANGED child

NotFailing == UNCHANGED <<unconfirmed, incident, signalled, child>>

\* A call fails closed once, for the owner that is still the current one.
FailClosedFor(g) ==
    IF ownerTask = g /\ ~unconfirmed THEN FailClosed ELSE NotFailing

\* and cancels that owner; a retry does not cancel it a second time.
FailClosedAndCancel(g) ==
    /\ FailClosedFor(g)
    /\ cancelled' = IF ownerTask = g /\ ~unconfirmed THEN cancelled \cup {g} ELSE cancelled

-----------------------------------------------------------------------------
(* The owner task, _run_session.                                           *)

Undisturbed(g, pc) == owner[g] = pc /\ g \notin cancelled

\* The factory spawned the child and registered its process group.
Spawned(g) ==
    /\ Undisturbed(g, "entering")
    /\ OwnerAt(g, "spawned")
    /\ child' = [child EXCEPT ![g] = "up"]
    /\ hook' = IF hook = 0 THEN g ELSE hook
    /\ UNCHANGED <<gen, ownerTask, ready, stopEvents, cancelled, session, verdict, call, acks>>

SpawnFailed(g) ==
    /\ Undisturbed(g, "entering")
    /\ OwnerAt(g, "done") /\ Ready(g, "failed")
    /\ session' = 0
    /\ UNCHANGED <<gen, ownerTask, stopEvents, cancelled, hook, verdict, child, call, acks>>

Initialized(g) ==
    /\ Undisturbed(g, "spawned")
    /\ OwnerAt(g, "checking")
    /\ session' = g
    /\ UNCHANGED <<gen, ownerTask, ready, stopEvents, cancelled, hook, verdict, child, call, acks>>

\* The health check answered: start() may return, the owner parks.
HealthChecked(g) ==
    /\ Undisturbed(g, "checking") /\ child[g] = "up"
    /\ OwnerAt(g, "parked") /\ Ready(g, "ok")
    /\ UNCHANGED <<gen, ownerTask, stopEvents, cancelled, session, hook, verdict, child, call, acks>>

\* A timeout or an error of initialize() or of the health check.
StartupFailed(g) ==
    /\ Undisturbed(g, "spawned") \/ Undisturbed(g, "checking")
    /\ OwnerAt(g, "unwinding") /\ Ready(g, "failed")
    /\ session' = 0
    /\ UNCHANGED <<gen, ownerTask, stopEvents, cancelled, hook, verdict, child, call, acks>>

StopHeard(g) ==
    /\ Undisturbed(g, "parked") /\ g \in stopEvents
    /\ OwnerAt(g, "unwinding")
    /\ UNCHANGED <<gen, ownerTask, ready, stopEvents, cancelled, session, hook, verdict, child, call, acks>>

\* A cancellation that was requested, or the transport's task group ending the
\* body at any of its awaits.
BodyAborted(g) ==
    /\ owner[g] \in Body
    /\ FailClosedFor(g)
    /\ OwnerAt(g, "unwinding")
    /\ cancelled' = cancelled \ {g}
    /\ UNCHANGED <<gen, ownerTask, ready, stopEvents, session, hook, call, acks>>

\* Mutant of Unwound: a raising context exit passes for a clean end.
UnwoundAlwaysClean(g) ==
    /\ owner[g] = "unwinding"
    /\ OwnerAt(g, "done") /\ Ready(g, "failed")
    /\ session' = 0 /\ cancelled' = cancelled \ {g}
    /\ \/ child' = [child EXCEPT ![g] = IF @ = "up" THEN "gone" ELSE @]
       \/ UNCHANGED child
    /\ UNCHANGED <<gen, ownerTask, stopEvents, hook, verdict, call, acks>>

\* The context was left: it ended the child, or it raised.
Unwound(g) ==
    /\ owner[g] = "unwinding"
    /\ OwnerAt(g, "done") /\ Ready(g, "failed")
    /\ session' = 0 /\ cancelled' = cancelled \ {g}
    /\ \/ /\ g \notin cancelled
          /\ child' = [child EXCEPT ![g] = IF @ = "up" THEN "gone" ELSE @]
          /\ UNCHANGED verdict
       \/ FailClosedFor(g)
    /\ UNCHANGED <<gen, ownerTask, stopEvents, hook, call, acks>>

ChildExits(g) ==
    /\ child[g] = "up"
    /\ child' = [child EXCEPT ![g] = "gone"]
    /\ UNCHANGED <<owners, session, hook, verdict, call, acks>>

-----------------------------------------------------------------------------
(* start()                                                                 *)

Attached == session # 0 /\ session \notin stopEvents

\* The next generation: its own stop event, and no kill hook yet.
Spawn(c) ==
    /\ gen' = gen + 1
    /\ ownerTask' = gen'
    /\ OwnerAt(gen', "entering")
    /\ call' = [call EXCEPT ![c] = [pc |-> "starting", gen |-> gen']]
    /\ UNCHANGED <<ready, stopEvents, cancelled, session, verdict, child, acks>>

\* Mutant of Start: the last hook is kept.
StartKeepsHook(c) ==
    /\ call[c] = Idle /\ gen < MaxGen
    /\ ~Attached /\ ownerTask = 0 /\ ~unconfirmed
    /\ Spawn(c) /\ UNCHANGED hook

\* Otherwise start() returns at once or refuses, and changes nothing.
Start(c) ==
    /\ call[c] = Idle /\ gen < MaxGen
    /\ ~Attached /\ ownerTask = 0 /\ ~unconfirmed
    /\ Spawn(c) /\ hook' = 0

StartReturns(c) ==
    /\ call[c].pc = "starting" /\ ready[call[c].gen] = "ok"
    /\ Returns(c)
    /\ UNCHANGED <<owners, session, hook, verdict, child, acks>>

\* The startup failed, ready took too long, or the caller was cancelled.
StartFails(c) ==
    /\ call[c].pc = "starting"
    /\ CallAt(c, "unwind")
    /\ UNCHANGED <<owners, session, hook, verdict, child, acks>>

\* _await_owner_finished: the owner first has time to end by itself.
UnwindTimesOut(c) ==
    LET g == call[c].gen IN
    /\ call[c].pc = "unwind" /\ owner[g] # "done"
    /\ FailClosedAndCancel(g)
    /\ CallAt(c, "unwindCancelled")
    /\ UNCHANGED <<gen, ownerTask, owner, ready, stopEvents, session, hook, acks>>

\* Its second wait may end with the owner still there: it is retained.
UnwindEnds(c) ==
    LET g == call[c].gen IN
    /\ call[c].pc \in {"unwind", "unwindCancelled"}
    /\ owner[g] = "done" \/ call[c].pc = "unwindCancelled"
    /\ ownerTask' = IF ownerTask = g /\ owner[g] = "done" THEN 0 ELSE ownerTask
    /\ Returns(c)
    /\ UNCHANGED <<gen, owner, ready, stopEvents, cancelled, session, hook, verdict, child, acks>>

\* The caller is cancelled while it reaps: the owner stays as it is.
UnwindCancelled(c) ==
    /\ call[c].pc \in {"unwind", "unwindCancelled"}
    /\ Returns(c)
    /\ UNCHANGED <<owners, session, hook, verdict, child, acks>>

-----------------------------------------------------------------------------
(* stop()                                                                  *)

\* Without an owner stop() returns at once.
Stop(c) ==
    /\ call[c] = Idle /\ ownerTask # 0
    /\ stopEvents' = stopEvents \cup {ownerTask}
    /\ call' = [call EXCEPT ![c] = [pc |-> "stopping", gen |-> ownerTask]]
    /\ UNCHANGED <<gen, ownerTask, owner, ready, cancelled, session, hook, verdict, child, acks>>

\* Mutant of StopTimesOut: the wait for the owner has no bound.
StopWaitsForever(c) ==
    LET g == call[c].gen IN
    /\ call[c].pc = "stopping" /\ owner[g] = "done"
    /\ FailClosedAndCancel(g)
    /\ CallAt(c, "reaping")
    /\ UNCHANGED <<gen, ownerTask, owner, ready, stopEvents, session, hook, acks>>

\* The bound passed, or the caller was cancelled, before the owner ended.
StopTimesOut(c) ==
    LET g == call[c].gen IN
    /\ call[c].pc = "stopping" /\ owner[g] # "done"
    /\ FailClosedAndCancel(g)
    /\ CallAt(c, "reaping")
    /\ UNCHANGED <<gen, ownerTask, owner, ready, stopEvents, session, hook, acks>>

\* Mutant of StopEnds: it lets go of whatever generation is the current one.
StopDetachesAny(c) ==
    LET g == call[c].gen IN
    /\ call[c].pc \in {"stopping", "reaping"}
    /\ owner[g] = "done" \/ call[c].pc = "reaping"
    /\ ownerTask' = IF owner[g] = "done" THEN 0 ELSE ownerTask
    /\ session' = 0
    /\ Returns(c)
    /\ UNCHANGED <<gen, owner, ready, stopEvents, cancelled, hook, verdict, child, acks>>

\* Only the stop of the current generation clears its session; it keeps the
\* owner that is not done, so that no second child starts.
StopEnds(c) ==
    LET g == call[c].gen IN
    /\ call[c].pc \in {"stopping", "reaping"}
    /\ owner[g] = "done" \/ call[c].pc = "reaping"
    /\ IF ownerTask = g
       THEN /\ ownerTask' = IF owner[g] = "done" THEN 0 ELSE ownerTask
            /\ session' = 0
       ELSE UNCHANGED <<ownerTask, session>>
    /\ Returns(c)
    /\ UNCHANGED <<gen, owner, ready, stopEvents, cancelled, hook, verdict, child, acks>>

-----------------------------------------------------------------------------
(* The operator.                                                           *)

\* Physical verification: whoever acknowledges saw that no child is left.
OperatorVerifies ==
    /\ unconfirmed /\ \A g \in Gens : child[g] # "up"
    /\ acks' = acks \cup {incident}
    /\ UNCHANGED <<owners, session, hook, verdict, child, call>>

\* Mutant of Acknowledge: any acknowledgement clears the current incident.
AcknowledgeAny(i) ==
    /\ i \in acks /\ unconfirmed /\ session = 0
    /\ ownerTask # 0 => owner[ownerTask] = "done"
    /\ ownerTask' = 0 /\ hook' = 0 /\ unconfirmed' = FALSE
    /\ UNCHANGED <<gen, owner, ready, stopEvents, cancelled, session, incident, signalled,
                   child, call, acks>>

\* Another: the identities of incidents start again.
AcknowledgeRecycles(i) ==
    /\ i \in acks /\ unconfirmed /\ i = incident /\ session = 0
    /\ ownerTask # 0 => owner[ownerTask] = "done"
    /\ ownerTask' = 0 /\ hook' = 0 /\ unconfirmed' = FALSE /\ incident' = 0
    /\ UNCHANGED <<gen, owner, ready, stopEvents, cancelled, session, signalled,
                   child, call, acks>>

\* A request may be repeated or arrive late: it stays in acks.
Acknowledge(i) ==
    /\ i \in acks /\ unconfirmed /\ i = incident /\ session = 0
    /\ ownerTask # 0 => owner[ownerTask] = "done"
    /\ ownerTask' = 0 /\ hook' = 0 /\ unconfirmed' = FALSE
    /\ UNCHANGED <<gen, owner, ready, stopEvents, cancelled, session, incident, signalled,
                   child, call, acks>>

-----------------------------------------------------------------------------
CallerStep(c) ==
    \/ StartReturns(c) \/ StartFails(c) \/ UnwindTimesOut(c) \/ UnwindEnds(c)
    \/ StopTimesOut(c) \/ StopEnds(c)

OwnerStep(g) ==
    \/ Spawned(g) \/ SpawnFailed(g) \/ Initialized(g) \/ HealthChecked(g)
    \/ StartupFailed(g) \/ StopHeard(g) \/ BodyAborted(g) \/ Unwound(g)

Next ==
    \/ \E c \in Callers : Start(c) \/ Stop(c) \/ UnwindCancelled(c) \/ CallerStep(c)
    \/ \E g \in Gens : OwnerStep(g) \/ ChildExits(g)
    \/ OperatorVerifies
    \/ \E i \in acks : Acknowledge(i)

Spec == Init /\ [][Next]_vars

\* A call's timers fire; an owner may resist its cancellation for ever.
FairSpec == Spec /\ \A c \in Callers : WF_vars(CallerStep(c))

-----------------------------------------------------------------------------
(* Safety.                                                                 *)

\* stop() and start(): an uncertain end never reads as a clean one.  Every
\* child that may be alive has its owner in place or a verdict against it.
NoChildForgotten ==
    \A g \in Gens : child[g] = "up" =>
        \/ unconfirmed
        \/ ownerTask = g /\ owner[g] # "done"

\* start() refuses a second child: whatever stops, cancellations and late
\* owners do, two process groups never hold the serial port together.
OneChild == \A g, h \in Gens : child[g] = "up" /\ child[h] = "up" => g = h

\* _run_session's finally detaches without looking whose session it is, so
\* an attached session must belong to the current owner, and no other owner
\* may still have that finally before it.
SessionIsOwned ==
    /\ session # 0 => session = ownerTask /\ owner[session] # "done"
    /\ \A g \in 1..gen : g # ownerTask => owner[g] = "done"

\* _register_force_terminate: only the group of the generation that is being
\* torn down is signalled, never a pid of an earlier one, which the system
\* may have given to another process.
NoStaleSignal == ~signalled.late

-----------------------------------------------------------------------------
(* Liveness.                                                               *)

\* stop() "NEVER blocks this stop call past the bound", and neither does a
\* failing start(), even when the owner never ends.
CallsReturn == \A c \in Callers : call[c].pc # "idle" ~> call[c].pc = "idle"
=============================================================================
