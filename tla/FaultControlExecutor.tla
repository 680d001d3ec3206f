----------------------- MODULE FaultControlExecutor -----------------------
(***************************************************************************)
(* The single worker that executes fault controls on a terminal session    *)
(* (controller.py FaultControlExecutor), with the service calls that feed  *)
(* it (api.py).  Emergency stops and routine controls wait in one priority *)
(* queue; each routine control is a chain of roaster calls (read, write,   *)
(* read back) with a generation check between them; actuator writes pass   *)
(* through the command gate, here by its contract PriorityPort.            *)
(*                                                                         *)
(* A step runs from one await of one task to its next one.  Python tasks   *)
(* run in the order they became ready, so the task of a stop that was      *)
(* admitted before a roaster call began has run when that call returns.    *)
(***************************************************************************)
EXTENDS Integers, Sequences, SequencesExt

CONSTANTS
    Controls,   \* drop_beans, start_cooling and stop_cooling requests
    Closers,    \* stop_cooling_and_acknowledge requests (D212)
    Stops,      \* emergency stops that take the terminal path
    Live,       \* a write of the live runner, outside the worker
    None        \* Python's None, distinct from every request

ASSUME RequestsDisjoint ==
    /\ Controls \cap Closers = {}
    /\ (Controls \cup Closers) \cap Stops = {}
    /\ Live \notin Controls \cup Closers \cup Stops
    /\ None \notin Controls \cup Closers \cup Stops \cup {Live}

Requests == Controls \cup Closers

VARIABLES
    onWire, admitted, holders, reserved,  \* the command gate
    req,        \* a routine request: its step and what it captured
    stop,       \* an emergency stop's step
    stopQueue, routineQueue,  \* _queue: priority 0, then 1, each by _sequence
    worker,     \* _drain and _execute_one: the item, the await it is in, its write
    lease,      \* the cached lease: its newest stop, and its status
    report,     \* the outcome recorded last, and how far the write really got
    begun,      \* history: worker calls begun between a stop's admission and dispatch
    older       \* the requests and stops that were made before a stop

port == <<onWire, admitted, holders, reserved>>
queues == <<stopQueue, routineQueue>>
order == <<begun, older>>
vars == <<port, req, stop, queues, worker, lease, report, order>>

Port == INSTANCE PriorityPort WITH Routines <- Requests \cup {Live}

ReqPcs == {"idle", "routed", "evaluating", "queued", "working", "answered", "done"}
StopPcs == {"idle", "admitted", "queued", "working", "done"}
WorkerPcs == {"none", "starting", "proofWait", "reading", "readingLatest", "writeWait",
              "writing", "readingBack", "stopWait", "stopping", "readingBackStop"}
Dispatches == {"not_attempted", "not_completed", "not_required", "not_dispatched",
               "failed", "completed"}
NoTrace == "none"    \* an exception before the write is not traced
Progress == {"no", "entered", "returned", "failed"}
NoWorker == [pc |-> "none", item |-> None, wrote |-> "no"]
NoReport == [item |-> None, dispatch |-> NoTrace, wrote |-> "no"]

TypeOK ==
    /\ onWire \subseteq Requests \cup Stops \cup {Live}
    /\ admitted \subseteq Stops
    /\ holders \subseteq Closers /\ reserved \in BOOLEAN
    /\ req \in [Requests -> [pc : ReqPcs, lease : BOOLEAN, gen : BOOLEAN, ok : BOOLEAN]]
    /\ stop \in [Stops -> StopPcs]
    /\ stopQueue \in Seq(Stops) /\ routineQueue \in Seq(Requests)
    /\ \A i \in DOMAIN stopQueue : stop[stopQueue[i]] = "queued"
    /\ \A i \in DOMAIN routineQueue : req[routineQueue[i]].pc = "queued"
    /\ worker \in [pc : WorkerPcs, item : Requests \cup Stops \cup {None}, wrote : Progress]
    /\ lease \in [newest : Stops \cup {None}, status : {"open", "unknown", "closed"}]
    /\ report \in [item : Requests \cup Stops \cup {None}, wrote : Progress,
                   dispatch : Dispatches \cup {NoTrace}]
    /\ begun \in [Stops -> Nat]
    /\ older \in [Stops -> SUBSET (Requests \cup Stops)]

Init ==
    /\ Port!Init
    /\ req = [r \in Requests |-> [pc |-> "idle", lease |-> FALSE, gen |-> FALSE, ok |-> FALSE]]
    /\ stop = [s \in Stops |-> "idle"]
    /\ stopQueue = <<>> /\ routineQueue = <<>>
    /\ worker = NoWorker
    /\ lease = [newest |-> None, status |-> "open"]
    /\ report = NoReport
    /\ begun = [s \in Stops |-> 0]
    /\ older = [s \in Stops |-> {}]

ReqAt(r, pc) == req' = [req EXCEPT ![r].pc = pc]
StopAt(s, pc) == stop' = [stop EXCEPT ![s] = pc]

At(pc, i) == [pc |-> pc, item |-> i, wrote |-> "no"]

\* The worker begins a roaster call for item i, perhaps after ending another.
Begins(i) == begun' = [s \in Stops |->
                         IF s \in admitted \ {i, worker.item} THEN begun[s] + 1 ELSE begun[s]]

\* Ready tasks run first in, first out: every stop admitted before the
\* current call began is in the queue by the time the call returns.
TasksRan == \A s \in Stops : stop[s] = "admitted" => begun[s] = 0

-----------------------------------------------------------------------------
(* The worker takes its next item: an emergency stop before any routine.   *)

\* Mutant of TakeNext: one queue in order of arrival, without a priority.
TakeNextInOrder ==
    \/ /\ routineQueue # <<>>
       /\ routineQueue' = Tail(routineQueue)
       /\ worker' = At("reading", Head(routineQueue))
       /\ Begins(Head(routineQueue))
       /\ UNCHANGED stopQueue
    \/ /\ routineQueue = <<>> /\ stopQueue # <<>>
       /\ worker' = At("stopWait", Head(stopQueue))
       /\ stopQueue' = Tail(stopQueue)
       /\ UNCHANGED <<routineQueue, begun>>
    \/ /\ stopQueue = <<>> /\ routineQueue = <<>>
       /\ worker' = NoWorker
       /\ UNCHANGED <<queues, begun>>

\* An item whose waiter was cancelled has left the queue, see CancelWaiter.
TakeNext ==
    \/ /\ stopQueue # <<>>
       /\ worker' = At("stopWait", Head(stopQueue))
       /\ stopQueue' = Tail(stopQueue)
       /\ UNCHANGED <<routineQueue, begun>>
    \/ /\ stopQueue = <<>> /\ routineQueue # <<>>
       /\ routineQueue' = Tail(routineQueue)
       /\ LET r == Head(routineQueue) IN
            IF r \in Closers
            THEN worker' = At("proofWait", r) /\ UNCHANGED begun
            ELSE worker' = At("reading", r) /\ Begins(r)
       /\ UNCHANGED stopQueue
    \/ /\ stopQueue = <<>> /\ routineQueue = <<>>
       /\ worker' = NoWorker
       /\ UNCHANGED <<queues, begun>>

\* execute() starts a worker when none runs.  A mutant starts only the first.
EnsureWorkerOnce ==
    worker' = IF worker = NoWorker /\ report = NoReport
              THEN At("starting", None) ELSE worker
EnsureWorker ==
    worker' = IF worker = NoWorker THEN At("starting", None) ELSE worker

WorkerStarts ==
    /\ worker.pc = "starting"
    /\ TakeNext
    /\ LET i == worker'.item IN
         /\ req' = [r \in Requests |-> IF r = i THEN [req[r] EXCEPT !.pc = "working"] ELSE req[r]]
         /\ stop' = [s \in Stops |-> IF s = i THEN "working" ELSE stop[s]]
    /\ UNCHANGED <<port, lease, report, older>>

\* The current item ends with this outcome and the worker takes the next one
\* in the same turn.  An exception before the write leaves no trace.
FinishWrote(i, outcome, ok, progress) ==
    /\ TakeNext
    /\ report' = [item |-> i, dispatch |-> outcome, wrote |-> progress]
    /\ LET n == worker'.item IN
         /\ req' = [r \in Requests |->
                      IF r = i THEN [req[r] EXCEPT !.pc = "answered", !.ok = ok]
                      ELSE IF r = n THEN [req[r] EXCEPT !.pc = "working"] ELSE req[r]]
         /\ stop' = [s \in Stops |-> IF s = i THEN "done"
                                     ELSE IF s = n THEN "working" ELSE stop[s]]
    /\ UNCHANGED <<lease, older>>

Finish(i, outcome, ok) == FinishWrote(i, outcome, ok, worker.wrote)

\* Mutant of NotCompleted: the result of a control that was never attempted.
NotCompletedAsUnattempted == "not_attempted"
NotCompleted == "not_completed"

-----------------------------------------------------------------------------
(* Routine controls, from the route to the queue.                          *)

\* submit_fault_controls_action reads the lease and selects the terminal
\* executor; D212 takes the terminal ownership, which one request has at a
\* time, and reserves the gate before it creates its task.
Route(r) ==
    /\ req[r].pc = "idle"
    /\ lease.status = "open"
    /\ IF r \in Closers
       THEN (\A d \in Closers : req[d].pc \in {"idle", "done"}) /\ Port!Claim(r)
       ELSE UNCHANGED port
    /\ req' = [req EXCEPT ![r].pc = "routed", ![r].lease = TRUE]
    /\ UNCHANGED <<stop, queues, worker, lease, report, order>>

\* execute() captures the arbiter generation before its evaluation is
\* persisted.
Execute(r) ==
    /\ req[r].pc = "routed"
    /\ req' = [req EXCEPT ![r].pc = "evaluating", ![r].gen = TRUE]
    /\ UNCHANGED <<port, stop, queues, worker, lease, report, order>>

\* A routine control is queued only once its evaluation is durable.
EvaluationRecorded(r) ==
    /\ req[r].pc = "evaluating"
    /\ ReqAt(r, "queued")
    /\ routineQueue' = Append(routineQueue, r)
    /\ EnsureWorker
    /\ UNCHANGED <<port, stop, stopQueue, lease, report, order>>

EvaluationFails(r) ==
    /\ req[r].pc = "evaluating"
    /\ ReqAt(r, "answered")
    /\ UNCHANGED <<port, stop, queues, worker, lease, report, order>>

\* Mutant of CancelWaiter: the cancelled item is executed all the same.
CancelWaiterIgnored(r) ==
    /\ r \in Controls /\ req[r].pc = "queued"
    /\ ReqAt(r, "done")
    /\ UNCHANGED <<port, stop, queues, worker, lease, report, order>>

\* The HTTP request of the run-scoped route ends while its control is
\* queued: the worker drops an item whose future is cancelled.
CancelWaiter(r) ==
    /\ r \in Controls /\ req[r].pc = "queued"
    /\ ReqAt(r, "done")
    /\ \E i \in DOMAIN routineQueue :
          routineQueue[i] = r /\ routineQueue' = RemoveAt(routineQueue, i)
    /\ UNCHANGED <<port, stop, stopQueue, worker, lease, report, order>>

-----------------------------------------------------------------------------
(* Routine controls in the worker.                                         *)

Working(i, pc) == worker.item = i /\ worker.pc = pc
WorkerAt(pc) == worker' = [worker EXCEPT !.pc = pc]

\* generation_current() and, for D212, close_reservation_is_current().
StillCurrent(r) ==
    /\ req[r].lease /\ lease.status = "open"
    /\ r \in Closers => Port!Owns(r)

\* wait_for_close_proof.
ProofWaitEnds(r) ==
    /\ Working(r, "proofWait")
    /\ \/ /\ onWire = {} /\ Port!Owns(r)
          /\ WorkerAt("reading") /\ Begins(r)
          /\ UNCHANGED <<req, stop, queues, report, lease, older>>
       \/ /\ ~Port!Owns(r)
          /\ Finish(r, NotCompleted, FALSE)
    /\ UNCHANGED port

\* The first read of this session: an error is raised to the caller, a wrong
\* session refuses, and a stop admitted meanwhile is noticed.
ReadReturns(r) ==
    /\ Working(r, "reading") /\ TasksRan
    /\ \/ Finish(r, NoTrace, FALSE)
       \/ Finish(r, "not_attempted", FALSE)
       \/ ~StillCurrent(r) /\ Finish(r, NotCompleted, FALSE)
       \/ /\ StillCurrent(r)
          /\ IF r \in Closers THEN WorkerAt("readingLatest") /\ Begins(r)
                              ELSE WorkerAt("writeWait") /\ UNCHANGED begun
          /\ UNCHANGED <<req, stop, queues, report, lease, older>>
    /\ UNCHANGED port

\* D212 reads the latest session too.  Cooling already off needs no write.
LatestReturns(r) ==
    /\ Working(r, "readingLatest") /\ TasksRan
    /\ \/ Finish(r, NoTrace, FALSE)
       \/ Finish(r, "not_attempted", FALSE)
       \/ ~StillCurrent(r) /\ Finish(r, NotCompleted, FALSE)
       \/ StillCurrent(r) /\ \E ok \in BOOLEAN : Finish(r, "not_required", ok)
       \/ /\ StillCurrent(r)
          /\ WorkerAt("writeWait")
          /\ UNCHANGED <<req, stop, queues, report, lease, begun, older>>
    /\ UNCHANGED port

\* run_routine's discard condition.
Superseded(r) ==
    \/ ~req[r].gen \/ admitted # {} \/ ~(req[r].lease /\ lease.status = "open")
    \/ reserved /\ r \notin holders
    \/ r \in Closers /\ ~Port!Owns(r)

WriteWaitEnds(r) ==
    /\ Working(r, "writeWait")
    /\ \/ /\ ~Superseded(r)
          /\ Port!StartRoutine(r)
          /\ worker' = [pc |-> "writing", item |-> r, wrote |-> "entered"]
          /\ Begins(r)
          /\ UNCHANGED <<req, stop, queues, report, lease, older>>
       \/ /\ Superseded(r)
          /\ Finish(r, NotCompleted, FALSE)
          /\ UNCHANGED port

\* The write returns or fails.  A stop admitted while it ran makes the
\* outcome "not completed" although the roaster answered.
WriteReturns(r) ==
    /\ Working(r, "writing") /\ TasksRan
    /\ Port!Finish
    /\ \/ FinishWrote(r, "failed", FALSE, "failed")
       \/ ~StillCurrent(r) /\ FinishWrote(r, NotCompleted, FALSE, "returned")
       \/ /\ StillCurrent(r)
          /\ worker' = [pc |-> "readingBack", item |-> r, wrote |-> "returned"]
          /\ Begins(r)
          /\ UNCHANGED <<req, stop, queues, report, lease, older>>

\* The last read is not checked against the generation again.
ReadBackReturns(r) ==
    /\ Working(r, "readingBack") /\ TasksRan
    /\ \E ok \in BOOLEAN : Finish(r, "completed", ok)
    /\ UNCHANGED port

\* The request's own task gets the result.  D212 closes the lease with it,
\* unless a stop has been admitted, and releases what it still owns.
Answer(r) ==
    /\ req[r].pc = "answered"
    /\ ReqAt(r, "done")
    /\ lease' = IF r \in Closers /\ req[r].ok /\ StillCurrent(r)
                THEN [lease EXCEPT !.status = "closed"] ELSE lease
    /\ IF r \in Closers THEN Port!Release(r) ELSE UNCHANGED port
    /\ UNCHANGED <<stop, queues, worker, report, order>>

-----------------------------------------------------------------------------
(* Emergency stops.                                                        *)

\* A stop outdates every captured generation, lease's and arbiter's; the
\* mutant reuses them.
OutdatedNot == req
Outdated == [r \in Requests |-> [req[r] EXCEPT !.lease = FALSE, !.gen = FALSE]]

\* Synchronous: the cached lease takes a new generation that is not open, the
\* arbiter admits the stop, and every captured generation is outdated.
AdmitStop(s) ==
    /\ stop[s] = "idle"
    /\ lease.status # "closed"
    /\ Port!Admit(s)
    /\ StopAt(s, "admitted")
    /\ lease' = [newest |-> s, status |-> "unknown"]
    /\ req' = Outdated
    /\ older' = [older EXCEPT ![s] = {r \in Requests : req[r].pc # "idle"} \cup
                                          {t \in Stops : stop[t] # "idle"}]
    /\ UNCHANGED <<queues, worker, report, begun>>

\* The lease of the newest stop is persisted and published open.
PublishLease ==
    /\ lease.status = "unknown"
    /\ lease' = [lease EXCEPT !.status = "open"]
    /\ UNCHANGED <<port, req, stop, queues, worker, report, order>>

\* The stop's own task enters execute(), in the order of admission.
QueueStop(s) ==
    /\ stop[s] = "admitted"
    /\ \A t \in older[s] \cap Stops : stop[t] # "admitted"
    /\ StopAt(s, "queued")
    /\ stopQueue' = Append(stopQueue, s)
    /\ EnsureWorker
    /\ UNCHANGED <<port, req, routineQueue, lease, report, order>>

\* run_emergency_stop: a stop that a newer one replaced gives its admission
\* back without a call.
RefusedStop(s) == Port!Withdraw(s)

DispatchStop(s) ==
    /\ Working(s, "stopWait")
    /\ onWire = {}
    /\ \/ /\ lease.newest # s
          /\ RefusedStop(s)
          /\ Finish(s, "not_dispatched", FALSE)
       \/ /\ lease.newest = s
          /\ Port!StartStop(s)
          /\ worker' = [pc |-> "stopping", item |-> s, wrote |-> "entered"]
          /\ Begins(s)
          /\ UNCHANGED <<req, stop, queues, report, lease, older>>

StopReturns(s) ==
    /\ Working(s, "stopping") /\ TasksRan
    /\ Port!Finish
    /\ \/ FinishWrote(s, "failed", FALSE, "failed")
       \/ lease.newest # s /\ FinishWrote(s, "completed", FALSE, "returned")
       \/ /\ lease.newest = s
          /\ worker' = [pc |-> "readingBackStop", item |-> s, wrote |-> "returned"]
          /\ Begins(s)
          /\ UNCHANGED <<req, stop, queues, report, lease, older>>

StopReadBack(s) ==
    /\ Working(s, "readingBackStop") /\ TasksRan
    /\ \E ok \in BOOLEAN : Finish(s, "completed", ok)
    /\ UNCHANGED port

-----------------------------------------------------------------------------
(* A live runner that is finishing shares the gate.                        *)

LiveWrites ==
    /\ Port!StartRoutine(Live)
    /\ UNCHANGED <<req, stop, queues, worker, lease, report, order>>

LiveReturns ==
    /\ onWire = {Live}
    /\ Port!Finish
    /\ UNCHANGED <<req, stop, queues, worker, lease, report, order>>

\* Its superseded acknowledgement releases whatever reservation is current.
LiveAborts ==
    /\ reserved
    /\ Port!Abort(Live)
    /\ UNCHANGED <<req, stop, queues, worker, lease, report, order>>

RoutineStep(r) ==
    \/ ProofWaitEnds(r) \/ ReadReturns(r) \/ LatestReturns(r) \/ WriteWaitEnds(r)
    \/ WriteReturns(r) \/ ReadBackReturns(r)

WorkerStep ==
    \/ WorkerStarts
    \/ \E r \in Requests : RoutineStep(r)
    \/ \E s \in Stops : DispatchStop(s) \/ StopReturns(s) \/ StopReadBack(s)

Next ==
    \/ WorkerStep
    \/ \E r \in Requests :
          Route(r) \/ Execute(r) \/ EvaluationRecorded(r) \/ EvaluationFails(r)
          \/ CancelWaiter(r) \/ Answer(r)
    \/ \E s \in Stops : AdmitStop(s) \/ QueueStop(s)
    \/ PublishLease \/ LiveWrites \/ LiveReturns \/ LiveAborts

Spec == Init /\ [][Next]_vars

\* Every roaster call ends (the client bounds it with a timeout), every ready
\* task runs, and the event loop serves the worker.
Fairness ==
    /\ WF_vars(WorkerStep) /\ WF_vars(LiveReturns)
    /\ \A s \in Stops : WF_vars(QueueStop(s))

FairSpec == Spec /\ Fairness

-----------------------------------------------------------------------------
(* Properties.                                                             *)

\* The priority promise of controller.py ("the next dispatch always takes an
\* admitted e-stop"), with what the code really allows: between a stop's
\* admission and its dispatch the worker may begin one more roaster call, the
\* first read of a control it took before the stop's task could run, and
\* never a second one.
OneCallAheadOfStop == \A s \in Stops : begun[s] <= 1

\* The recorded outcome does not claim more, or less, than happened: a write
\* reported complete was answered, and one reported unnecessary or unattempted
\* never entered the roaster.
TraceIsHonest ==
    /\ report.dispatch = "completed" => report.wrote = "returned"
    /\ report.dispatch \in {"not_attempted", "not_required", "not_dispatched", NoTrace} =>
           report.wrote = "no"
    /\ report.dispatch = "failed" => report.wrote = "failed"

\* No write of a control that was requested before a stop reaches the roaster
\* after the stop's own: not from the queue, and not from a chain of reads.
NoWriteBehindStop ==
    [][\A r \in Requests :
        r \in onWire' \ onWire =>
            \A s \in Stops : r \notin older[s]]_vars

\* Every admitted stop is dispatched, or gives way to a newer one.
StopResolved == \A s \in Stops : stop[s] = "admitted" ~> stop[s] = "done"
=============================================================================
