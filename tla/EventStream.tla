---------------------------- MODULE EventStream ----------------------------
(***************************************************************************)
(* The event stream of a run, from the controller's emission to the        *)
(* operator's console: the broadcaster with its sequence, replay ring and  *)
(* bounded subscriber queue (api.py, EventBroadcaster and stream_events),  *)
(* the buffering emitter whose events are persisted later, by several      *)
(* tasks under one lock (BufferingEventEmitter, _flush_events), the phase  *)
(* row the REST snapshot is read from, and the browser's hook and reducer  *)
(* (useRoastStream.ts, roastStreamReducer.ts) with lost connections and    *)
(* restarts of the agent.                                                  *)
(*                                                                         *)
(* A phase is the number of phase changes so far. A frame is its process   *)
(* (boot), the id that process stamped, its kind and, for "phase_changed", *)
(* the phase. Frames other than "phase_changed" and "telemetry" behave     *)
(* like the "recovery_required" of a restart: the reducer ignores them.    *)
(***************************************************************************)
EXTENDS Naturals, Sequences, SequencesExt

CONSTANTS
    MaxQueue,       \* frames one subscriber may hold pending
    ReplayBuffer,   \* frames the ring retains
    Flushers,       \* the tasks that flush: the tick loop, a stop's dispatch
    Tick,           \* the tick loop, which is one of them
    None,
    MaxPhase,       \* bound: phase changes
    MaxFrames,      \* bound: frames of one process
    MaxDrops,       \* bound: lost connections
    MaxBoot         \* bound: restarts of the agent

ASSUME StreamAssumption ==
    /\ MaxQueue \in Nat /\ ReplayBuffer \in 1 .. MaxQueue
    /\ Tick \in Flushers
    /\ MaxPhase \in Nat \ {0} /\ MaxFrames \in Nat \ {0, 1}
    /\ MaxDrops \in Nat /\ MaxBoot \in Nat

VARIABLES
    boot,       \* restarts so far
    sequence,   \* the broadcaster's last id
    ring,       \* its replay buffer, oldest first
    queue,      \* the queue of the console's subscription, None without one
    phase,      \* the controller's phase
    stored,     \* the phase of the run's row
    buffer,     \* phase changes emitted and not yet drained
    flushing,   \* the drained events each flusher has still to write
    rows,       \* the phase changes of roast_events
    loop,       \* the tick loop records, only retries a heat-off, or is over
    console,    \* the browser's connection, view-model and received frames
    drops,      \* connections lost so far
    lost,       \* history: frames dropped by the full queue or evicted unread
    skipped     \* history: phase changes no row was written for

server == <<boot, sequence, ring, phase, stored>>
trace  == <<buffer, flushing, rows, loop, skipped>>
vars   == <<server, trace, queue, console, drops, lost>>

Kinds  == {"phase_changed", "telemetry", "recovery_required"}
Frames == [boot : 0 .. MaxBoot, id : 1 .. MaxFrames, kind : Kinds, phase : 0 .. MaxPhase]

\* Python's None is neither an id nor a queue.
ASSUME NoneAssumption == None \notin Nat \cup Seq(Frames)

Frame(b, i, k, p) == [boot |-> b, id |-> i, kind |-> k, phase |-> p]

\* A deque of maximal length keeps the newest.
Retained(s) == IF Len(s) <= ReplayBuffer THEN s ELSE Tail(s)

LockFree == \A f \in Flushers : flushing[f] = <<>>

Subscribed == queue # None

-----------------------------------------------------------------------------
(* The agent *)

\* Mutant: the subscriber's queue is not bounded.
PublishUnbounded(kind, p) ==
    LET f == Frame(boot, sequence + 1, kind, p)
    IN  /\ sequence < MaxFrames
        /\ sequence' = sequence + 1
        /\ ring' = Retained(Append(ring, f))
        /\ queue' = IF Subscribed THEN Append(queue, f) ELSE queue
        /\ lost' = lost

\* EventBroadcaster._publish: stamp, retain, offer to the subscriber.
Publish(kind, p) ==
    LET f == Frame(boot, sequence + 1, kind, p)
        fits == Subscribed /\ Len(queue) < MaxQueue
    IN  /\ sequence < MaxFrames
        /\ sequence' = sequence + 1
        /\ ring' = Retained(Append(ring, f))
        /\ queue' = IF fits THEN Append(queue, f) ELSE queue
        /\ lost' = IF Subscribed /\ ~fits THEN lost \cup {f} ELSE lost

\* A transition of the controller: to the stream at once, to the buffer.
ChangePhase ==
    /\ phase < MaxPhase
    /\ phase' = phase + 1
    /\ Publish("phase_changed", phase + 1)
    /\ buffer' = Append(buffer, phase + 1)
    /\ UNCHANGED <<boot, stored, flushing, rows, loop, skipped, console, drops>>

\* The tick's telemetry frame; it is not an event and is not buffered.
PublishTelemetry ==
    /\ loop = "records"
    /\ Publish("telemetry", 0)
    /\ UNCHANGED <<boot, phase, stored, trace, console, drops>>

\* The end of a tick writes the phase the controller is in by then.
PersistPhase ==
    /\ loop = "records"
    /\ stored # phase
    /\ stored' = phase
    /\ UNCHANGED <<boot, sequence, ring, phase, trace, queue, console, drops, lost>>

\* A flush by the tick loop comes in a tick that records.
MayFlush(f) == f = Tick => loop = "records"

\* Mutant: the buffer is drained without the lock that keeps a second flush out.
BeginFlushUnlocked(f) ==
    /\ MayFlush(f)
    /\ flushing[f] = <<>>
    /\ buffer # <<>>
    /\ flushing' = [flushing EXCEPT ![f] = buffer]
    /\ buffer' = <<>>
    /\ UNCHANGED <<server, rows, loop, skipped, queue, console, drops, lost>>

\* _flush_events: under the lock, drain what has been emitted.
BeginFlush(f) ==
    /\ MayFlush(f)
    /\ LockFree
    /\ buffer # <<>>
    /\ flushing' = [flushing EXCEPT ![f] = buffer]
    /\ buffer' = <<>>
    /\ UNCHANGED <<server, rows, loop, skipped, queue, console, drops, lost>>

\* One event's insert; the store may refuse it and the event is skipped. The
\* lock is released behind the last one.
FlushRow(f) ==
    /\ flushing[f] # <<>>
    /\ \/ rows' = Append(rows, Head(flushing[f])) /\ skipped' = skipped
       \/ rows' = rows /\ skipped' = skipped \cup {Head(flushing[f])}
    /\ flushing' = [flushing EXCEPT ![f] = Tail(@)]
    /\ UNCHANGED <<server, buffer, loop, queue, console, drops, lost>>

\* The flush is cancelled in an insert: a stop's by the bound on the shutdown's
\* attempt, the tick's with its loop, which is then over. The insert may have
\* reached the store's connection; the rest of the batch is gone. (A loop that
\* is cancelled anywhere else takes no further step.)
FlushCancelled(f) ==
    /\ flushing[f] # <<>>
    /\ \/ rows' = Append(rows, Head(flushing[f]))
          /\ skipped' = skipped \cup ToSet(Tail(flushing[f]))
       \/ rows' = rows /\ skipped' = skipped \cup ToSet(flushing[f])
    /\ flushing' = [flushing EXCEPT ![f] = <<>>]
    /\ loop' = IF f = Tick THEN "over" ELSE loop
    /\ UNCHANGED <<server, buffer, queue, console, drops, lost>>

\* The recovered run is ended for good under the lock that a recording tick
\* holds, and a stop that came meanwhile keeps the runner: its ticks retry the
\* heat-off and touch neither the trace nor the run's row.
RetryOnlyAfterEnd ==
    /\ boot > 0 /\ loop = "records" /\ flushing[Tick] = <<>>
    /\ loop' = "retries"
    /\ UNCHANGED <<server, buffer, flushing, rows, skipped, queue, console, drops, lost>>

\* Such a tick drains the events and drops them.
DiscardDrained ==
    /\ loop = "retries" /\ buffer # <<>>
    /\ buffer' = <<>>
    /\ skipped' = skipped \cup ToSet(buffer)
    /\ UNCHANGED <<server, flushing, rows, loop, queue, console, drops, lost>>

\* The agent dies and its successor recovers the run before it serves again:
\* ids, ring, subscriptions and unwritten events are gone.
Restart ==
    /\ boot < MaxBoot
    /\ phase < MaxPhase
    /\ boot' = boot + 1
    /\ phase' = phase + 1
    /\ stored' = phase + 1
    /\ sequence' = 2
    /\ ring' = Retained(Append(Retained(<<Frame(boot + 1, 1, "phase_changed", phase + 1)>>),
                                Frame(boot + 1, 2, "recovery_required", 0)))
    /\ rows' = Append(rows, phase + 1)
    /\ skipped' = skipped \cup ToSet(buffer)
                          \cup UNION {ToSet(flushing[f]) : f \in Flushers}
    /\ buffer' = <<>>
    /\ flushing' = [f \in Flushers |-> <<>>]
    /\ loop' = "records"
    /\ queue' = None
    /\ console' = [console EXCEPT !.conn = "waiting"]
    /\ UNCHANGED <<drops, lost>>

-----------------------------------------------------------------------------
(* The browser *)

\* The reconnect timer fires: connect() asks for the snapshot.
Connect ==
    /\ console.conn = "waiting"
    /\ console' = [console EXCEPT !.conn = "fetching"]
    /\ UNCHANGED <<server, trace, queue, drops, lost>>

\* The snapshot is read from the run's row, hydrates the view-model, and the
\* EventSource is constructed in the same callback.
Hydrate ==
    /\ console.conn = "fetching"
    /\ console' = [console EXCEPT !.conn = "opening", !.phase = stored]
    /\ UNCHANGED <<server, trace, queue, drops, lost>>

\* The frames of the ring from this id on: ids ascend, so they are its end.
RingFrom(id) ==
    LET first == CHOOSE k \in 1 .. Len(ring) + 1 :
                     \A i \in DOMAIN ring : ring[i].id >= id <=> i >= k
    IN  SubSeq(ring, first, Len(ring))

\* Mutant: the frame the client names is replayed again.
ReplayAgain(last) == IF last = None THEN <<>> ELSE RingFrom(last)

\* Mutant: the explicit reconnect does not resume.
ReplayNothing(last) == <<>>

\* The frames subscribe() loads for a client that names its last id.
Replay(last) == IF last = None THEN <<>> ELSE RingFrom(last + 1)

\* stream_events: the subscription, with the gap the ring still holds. What the
\* ring no longer holds of the gap is gone.
Subscribe ==
    LET last == console.lastAppliedId
    IN  /\ console.conn = "opening"
        /\ queue' = Replay(last)
        /\ lost' = lost \cup
              IF last = None THEN {}
              ELSE {f \in Frames : /\ f.boot = boot /\ last < f.id
                                   /\ \A i \in DOMAIN ring : f.id < ring[i].id}
        /\ console' = [console EXCEPT !.conn = "open"]
        /\ UNCHANGED <<server, trace, drops>>

\* roastStreamReducer's applyEvent: what the view-model shows after frame f.
Applied(c, f) ==
    IF c.lastEventId # None /\ f.id <= c.lastEventId
    THEN [c EXCEPT !.refused = @ \cup {f}]
    ELSE CASE f.kind = "phase_changed" -> [c EXCEPT !.phase = f.phase, !.lastEventId = f.id]
           [] f.kind = "telemetry"     -> [c EXCEPT !.lastEventId = f.id]
           [] OTHER                    -> c

\* A frame reaches the listener: the reducer, the append-only frame buffer of
\* the pages, and the highest id for the next explicit reconnect.
Deliver ==
    /\ console.conn = "open"
    /\ queue # <<>>
    /\ LET f == Head(queue)
           highest == IF console.lastAppliedId = None \/ f.id > console.lastAppliedId
                      THEN f.id ELSE console.lastAppliedId
       IN  console' = [Applied(console, f) EXCEPT
                          !.frames = Append(@, f), !.lastAppliedId = highest]
    /\ queue' = Tail(queue)
    /\ UNCHANGED <<server, trace, drops, lost>>

\* The connection or the snapshot request fails; frames on the way are gone.
Disconnect ==
    /\ drops < MaxDrops
    /\ console.conn # "waiting"
    /\ drops' = drops + 1
    /\ queue' = None
    /\ console' = [console EXCEPT !.conn = "waiting"]
    /\ UNCHANGED <<server, trace, lost>>

-----------------------------------------------------------------------------
\* A started run whose first phase is stored, and a page that opens.
Init ==
    /\ boot = 0 /\ sequence = 1
    /\ ring = <<Frame(0, 1, "phase_changed", 1)>>
    /\ queue = None
    /\ phase = 1 /\ stored = 1
    /\ buffer = <<>> /\ flushing = [f \in Flushers |-> <<>>]
    /\ rows = <<1>> /\ loop = "records" /\ skipped = {}
    /\ console = [conn |-> "fetching", phase |-> 0, lastEventId |-> None,
                  lastAppliedId |-> None, frames |-> <<>>, refused |-> {}]
    /\ drops = 0 /\ lost = {}

Next ==
    \/ ChangePhase \/ PublishTelemetry \/ PersistPhase \/ Restart
    \/ \E f \in Flushers : BeginFlush(f) \/ FlushRow(f) \/ FlushCancelled(f)
    \/ RetryOnlyAfterEnd \/ DiscardDrained
    \/ Connect \/ Hydrate \/ Subscribe \/ Deliver \/ Disconnect

Spec == Init /\ [][Next]_vars

-----------------------------------------------------------------------------
\* Types of the stream, the trace and the console.
TypeOK ==
    /\ boot \in 0 .. MaxBoot /\ sequence \in 1 .. MaxFrames
    /\ ring \in Seq(Frames) /\ Len(ring) <= ReplayBuffer
    /\ Subscribed => queue \in Seq(Frames) /\ Len(queue) <= MaxQueue
    /\ phase \in 1 .. MaxPhase /\ stored \in 1 .. phase
    /\ buffer \in Seq(1 .. phase) /\ flushing \in [Flushers -> Seq(1 .. phase)]
    /\ rows \in Seq(1 .. phase) /\ skipped \subseteq 1 .. phase
    /\ loop \in {"records", "retries", "over"}
    /\ console \in [conn : {"waiting", "fetching", "opening", "open"},
                    phase : 0 .. MaxPhase, lastEventId : (1 .. MaxFrames) \cup {None},
                    lastAppliedId : (1 .. MaxFrames) \cup {None},
                    frames : Seq(Frames), refused : SUBSET Frames]
    /\ console.conn = "open" <=> Subscribed
    /\ drops \in 0 .. MaxDrops /\ lost \subseteq Frames

Precedes(f, g) == f.boot < g.boot \/ (f.boot = g.boot /\ f.id < g.id)

\* The pages, which fold faults, recoveries and markers off the frame buffer
\* and do not look at ids, see every frame at most once and in order, across
\* reconnects, replays and restarts.
FramesOnceInOrder ==
    \A j \in DOMAIN console.frames : \A i \in 1 .. j - 1 :
        Precedes(console.frames[i], console.frames[j])

\* In the process whose frames it saw first, the console never passes over a
\* frame unless its queue was full for it or the ring had evicted it: a
\* reconnect at any moment replays the gap.
NoSilentGap ==
    \A i \in 1 .. Len(console.frames) - 1 :
        LET f == console.frames[i]
            g == console.frames[i + 1]
        IN  f.boot = g.boot /\ g.boot = console.frames[1].boot =>
                \A id \in f.id + 1 .. g.id - 1 :
                    \E h \in lost : h.boot = f.boot /\ h.id = id

\* The decision trace keeps the order of emission however many tasks flush and
\* wherever one of them is cancelled. It loses an event only to an insert that
\* is refused, with the rest of a cancelled flush's batch, to a tick behind a
\* durable end, or with the process: an event emitted while a flush is writing
\* outlives that flush.
TraceKeepsEvents ==
    LET held == (UNION {ToSet(flushing[f]) : f \in Flushers}) \cup ToSet(buffer)
    IN  /\ \A j \in DOMAIN rows : \A i \in 1 .. j - 1 : rows[i] < rows[j]
        /\ ToSet(rows) \cup held \cup skipped = 1 .. phase

\* The reducer's comment (roastStreamReducer.ts:69): a dropped frame is one it
\* has already been given.
RefusedOnlyApplied ==
    \A f \in console.refused :
        \E i, j \in DOMAIN console.frames : i < j /\ console.frames[i] = f
                                                  /\ console.frames[j] = f

=============================================================================
