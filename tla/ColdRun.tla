------------------------------ MODULE ColdRun ------------------------------
(***************************************************************************)
(* One two-phase cold characterisation run (cold_characterisation): the    *)
(* coroutine that owns the child, observes the recording-off and then the  *)
(* recording-on window and writes the evidence (two_phase.py, engine.py),  *)
(* beside it the advisory sampler of each window with its one provider     *)
(* call (advisory_sampler.py, advisory_run_owner.py), on one event loop.   *)
(* The coroutine's program counter stands at its awaits, where the other   *)
(* tasks run and a cancellation arrives, and at single writes in between,  *)
(* where nothing else runs. A fault is a refused write, a failed call of   *)
(* the child, the MCP, the host or the provider, an invalid clock sample,  *)
(* a budget exceeded or a builder that raises; MaxFaults bounds them.      *)
(*                                                                         *)
(* The evidence is one log of <<phase, record>> in the order of the        *)
(* writes. A tick stands for its pair with the temperature record.         *)
(***************************************************************************)
EXTENDS Naturals, Sequences, FiniteSets, SequencesExt

CONSTANTS
    None,
    MaxTicks,       \* bound: ticks of a window
    MaxAttempts,    \* bound: advisory attempts of a window
    MaxFaults,      \* bound: faults of the run
    MaxCancels      \* bound: cancellations of the run's task

ASSUME ColdRunAssumption ==
    {MaxTicks, MaxAttempts, MaxFaults, MaxCancels} \subseteq Nat
ASSUME NoneAssumption ==
    None \notin {"off", "on", "decision", "failure", "abandoned", "unresolved",
                 "no_open_attempt", "completed", "terminal", "refused"}

VARIABLES
    pc,         \* where the run's coroutine stands
    mode,       \* running, teardown, recovering or unwinding
    phase,      \* the phase the coroutine is in
    ending,     \* how the engine's window ended
    failed,     \* a primary failure is recorded
    finalised,  \* what the session's finalisation returned
    path,       \* the advisory path of the result
    check,      \* the provider check
    outcome,    \* the result, None while the run is on
    log,        \* the evidence
    sink,       \* the run's guard over the writer
    child,      \* the owned child: the owner's state and whether it lives
    sampler,    \* per phase: the sampler, its open attempt, its provider task
    faults, cancels

coroutine == <<pc, mode, phase, ending, finalised>>
verdict   == <<path, check, outcome>>
vars      == <<coroutine, failed, verdict, log, sink, child, sampler, faults, cancels>>

Phases == {"off", "on"}

Awaits == {"starting", "freezing", "admitting", "session", "activating", "sleeping",
           "reading", "hosting", "finalising", "stopping", "cleanup"}
EngineAwaits == {"session", "activating", "sleeping", "reading", "hosting"}

Fault == faults < MaxFaults /\ faults' = faults + 1

-----------------------------------------------------------------------------
(* The evidence sink *)

Count(p, kinds) == Cardinality({i \in DOMAIN log : log[i][1] = p /\ log[i][2] \in kinds})
Has(p, k)       == \E i \in DOMAIN log : log[i] = <<p, k>>

Terminals  == {"completed", "failed", "failed_run"}
Answers    == {"decision", "failure", "abandoned", "unresolved"}
Lifecycles == {"activated", "transition", "elapsed", "not_finalised", "clean", "not_clean",
               "no_result", "not_retained", "stopped", "stop_unconfirmed", "started",
               "start_failed", "completed", "failed"}

\* The phase of the latest header.
SinkPhase == IF Has("on", "header") THEN "on" ELSE IF Has("off", "header") THEN "off" ELSE None
Terminated == \E i \in DOMAIN log : log[i][2] \in Terminals
Usable == sink.open /\ ~sink.poisoned /\ ~Terminated

WindowClosed(p) == Has(p, "elapsed") \/ Has(p, "not_finalised")

\* _RunSink's rules for the records of a phase.
Admits(p, k) ==
    /\ Usable
    /\ CASE k = "header"       -> IF p = "off" THEN SinkPhase = None
                                  ELSE SinkPhase = "off" /\ Has("off", "started")
         [] k = "candidate"    -> SinkPhase = p /\ ~WindowClosed(p) /\ ~Has(p, k) /\ ~Has(p, "tick")
         [] k = "tick"         -> SinkPhase = p /\ ~WindowClosed(p) /\ Has(p, "candidate")
         [] k = "finalisation" -> SinkPhase = p /\ Has(p, "elapsed") /\ ~Has(p, "abort")
                                  /\ Count(p, {k, "clean", "not_clean", "no_result",
                                               "not_retained", "not_finalised"}) = 0
         [] k \in {"intent"} \cup Answers
                               -> SinkPhase = p /\ ~WindowClosed(p) /\ ~Has(p, "finalisation")
         [] OTHER              -> SinkPhase = p /\ ~WindowClosed(p)

\* A durable write, or its refusal by the rules or by the writer: then the
\* sink is poisoned.
Writes(p, k) == Admits(p, k) /\ log' = Append(log, <<p, k>>) /\ UNCHANGED <<sink, faults>>
Refuses(p, k) ==
    /\ IF Admits(p, k) THEN Fault ELSE faults' = faults
    /\ sink' = [sink EXCEPT !.poisoned = TRUE]
    /\ log' = log

\* Where a builder's exception leads: once to the recovery.
Raised == IF mode = "recovering" THEN "contain" ELSE "recover"

\* _RunSink's rules for a lifecycle record.
AdmitsLifecycle(k) ==
    CASE k \in {"clean", "not_clean"}        -> Has(SinkPhase, "finalisation")
      [] k \in {"no_result", "not_retained"} -> ~Has(SinkPhase, "finalisation")
      [] k = "not_finalised"                 -> ~Has(SinkPhase, "finalisation")
      [] k = "elapsed"                       -> ~Has(SinkPhase, "abort")
      [] OTHER                               -> TRUE

\* _lifecycle: a record behind a valid clock sample, if the sink is usable. The
\* coroutine goes on at "written", "missed" or, behind a builder's exception,
\* "raised".
Lifecycle(k, written, missed, raised) ==
    \/ /\ Usable /\ AdmitsLifecycle(k)
       /\ log' = Append(log, <<SinkPhase, k>>)
       /\ pc' = written
       /\ UNCHANGED <<sink, failed, faults>>
    \/ /\ Usable
       /\ Fault
       /\ \/ sink' = [sink EXCEPT !.poisoned = TRUE] /\ failed' = failed /\ pc' = missed
          \/ sink' = sink /\ failed' = TRUE /\ pc' = missed
          \/ sink' = sink /\ failed' = failed /\ pc' = raised
       /\ log' = log
    \/ /\ ~Usable \/ ~AdmitsLifecycle(k)
       /\ sink' = [sink EXCEPT !.poisoned = (@ \/ Usable)]
       /\ pc' = missed
       /\ UNCHANGED <<log, failed, faults>>

-----------------------------------------------------------------------------
(* The owned child *)

\* Mutant: a start that failed leaves nothing to stop.
NeedsStopRunning == \/ child.state = "running"
                    \/ child.state = "interrupted" /\ ~child.cleaned

\* _ChildOwner.needs_stop.
NeedsStop == \/ child.state \in {"starting", "running"}
             \/ child.state = "interrupted" /\ ~child.cleaned

\* _ChildOwner.stop: confirmed by the port's flags; a cleanup stop behind an
\* interrupted one never upgrades the claim.
StoppedOrNot(c, confirmed) ==
    IF c.state = "interrupted" THEN [c EXCEPT !.cleaned = TRUE]
    ELSE [c EXCEPT !.state = IF confirmed THEN "stopped" ELSE "unconfirmed"]

\* The loop runs another task: the coroutine waits or is over.
Yielded == \/ pc \in Awaits \ {"cleanup"}
           \/ pc = "cleanup" /\ NeedsStop
           \/ pc = "ended"

ChildStops ==
    \/ /\ faults' = faults
       /\ child' = [StoppedOrNot(child, TRUE) EXCEPT !.alive = FALSE]
    \/ /\ Fault
       /\ \E a \in BOOLEAN :
              child' = [StoppedOrNot(child, FALSE) EXCEPT !.alive = (child.alive /\ a)]

-----------------------------------------------------------------------------
(* The run up to a window *)

Ends(o) == pc' = "ended" /\ outcome' = o

\* execute begins: the child's flags and the configuration of the phase.
Configure ==
    /\ pc = "configure"
    /\ \/ /\ faults' = faults
          /\ pc' = "starting"
          /\ child' = [child EXCEPT !.state = "starting"]
          /\ outcome' = outcome
       \/ /\ Fault
          /\ Ends("refused")
          /\ child' = child
    /\ UNCHANGED <<mode, phase, ending, finalised, failed, path, check, log, sink, sampler, cancels>>

StartReturns ==
    /\ pc = "starting"
    /\ \/ /\ faults' = faults
          /\ child' = [child EXCEPT !.state = "running", !.alive = TRUE]
          /\ pc' = IF phase = "off" THEN "freezing" ELSE "child_started"
          /\ failed' = failed
       \/ /\ Fault
          /\ \E a \in BOOLEAN : child' = [child EXCEPT !.alive = a]
          /\ pc' = IF phase = "off" THEN "teardown" ELSE "child_started"
          /\ failed' = (failed \/ phase = "on")
    /\ UNCHANGED <<mode, phase, ending, finalised, verdict, log, sink, sampler, cancels>>

\* _respawn's record of the start.
ChildStarted ==
    /\ pc = "child_started"
    /\ LET running == child.state = "running"
       IN  Lifecycle(IF running THEN "started" ELSE "start_failed",
                     IF running THEN "checked_respawn" ELSE "teardown", "teardown", Raised)
    /\ UNCHANGED <<mode, phase, ending, finalised, verdict, child, sampler, cancels>>

\* A step that passes, or fails the run and ends in teardown; what fails before
\* there is evidence is a refusal of the start.
Passes(next) ==
    \/ faults' = faults /\ failed' = failed /\ pc' = next
    \/ Fault /\ failed' = (failed \/ phase = "on") /\ pc' = "teardown"

FreezeReturns ==
    /\ pc = "freezing"
    /\ Passes(IF phase = "off" THEN "admitting" ELSE "checked_identity")
    /\ UNCHANGED <<mode, phase, ending, finalised, verdict, log, sink, child, sampler, cancels>>

\* admit_cold_phase; recording-on also compares the two identities.
AdmitReturns ==
    /\ pc = "admitting"
    /\ Passes(IF phase = "off" THEN "open" ELSE "checked_admission")
    /\ UNCHANGED <<mode, phase, ending, finalised, verdict, log, sink, child, sampler, cancels>>

OpenEvidence ==
    /\ pc = "open"
    /\ Passes("header")
    /\ sink' = [sink EXCEPT !.open = (pc' = "header")]
    /\ UNCHANGED <<mode, phase, ending, finalised, verdict, log, child, sampler, cancels>>

\* A clock sample and the transition budget at six points of the sequence.
AfterCheckpoint ==
    [checked_window |-> "finalising", checked_finalisation |-> "stopping",
     checked_stop |-> "advance", checked_respawn |-> "freezing",
     checked_identity |-> "admitting", checked_admission |-> "header"]

Checkpoint ==
    /\ pc \in DOMAIN AfterCheckpoint
    /\ \/ faults' = faults /\ failed' = failed /\ pc' = AfterCheckpoint[pc]
       \/ Fault /\ failed' = TRUE /\ pc' = "teardown"
    /\ UNCHANGED <<mode, phase, ending, finalised, verdict, log, sink, child, sampler, cancels>>

-----------------------------------------------------------------------------
(* One window: the engine *)

\* The engine's window ends; "settle" and what follows classify it.
WindowEnds(how, next) == ending' = how /\ pc' = next

AppendHeader ==
    /\ pc = "header"
    /\ \/ Writes(phase, "header") /\ pc' = "session" /\ ending' = ending
       \/ Refuses(phase, "header") /\ WindowEnds("unexpected", "settle")
    /\ UNCHANGED <<mode, phase, finalised, failed, verdict, child, sampler, cancels>>

\* start_cold_session and mark_beans_added.
SessionCall ==
    /\ pc \in {"session", "activating"}
    /\ \/ faults' = faults /\ pc' = (IF pc = "session" THEN "activating" ELSE "activated")
          /\ ending' = ending
       \/ Fault /\ WindowEnds("aborted", "abort")
    /\ UNCHANGED <<mode, phase, finalised, failed, verdict, log, sink, child, sampler, cancels>>

\* The activation hook's records; one that is missing is an unexpected failure
\* of the engine.
Activated ==
    /\ pc = "activated"
    /\ Lifecycle("activated", "candidate", "abort", "abort")
    /\ ending' = IF pc' = "abort" THEN "unexpected" ELSE ending
    /\ UNCHANGED <<mode, phase, finalised, verdict, child, sampler, cancels>>

Candidate ==
    /\ pc = "candidate"
    /\ \/ /\ Writes(phase, "candidate")
          /\ pc' = IF phase = "off" THEN "advise" ELSE "transition"
          /\ ending' = ending
       \/ Refuses(phase, "candidate") /\ WindowEnds("unexpected", "abort")
    /\ UNCHANGED <<mode, phase, finalised, failed, verdict, child, sampler, cancels>>

Transition ==
    /\ pc = "transition"
    /\ Lifecycle("transition", "in_budget", "abort", "abort")
    /\ ending' = IF pc' = "abort" THEN "unexpected" ELSE ending
    /\ UNCHANGED <<mode, phase, finalised, verdict, child, sampler, cancels>>

\* The hook refuses an activation out of the budget, with no abort record.
InBudget ==
    /\ pc = "in_budget"
    /\ \/ faults' = faults /\ pc' = "advise" /\ ending' = ending
       \/ Fault /\ WindowEnds("refused", "settle")
    /\ UNCHANGED <<mode, phase, finalised, failed, verdict, log, sink, child, sampler, cancels>>

Outstanding(s) == s.task \in {"created", "invoked"}

\* _start_advisory: the owner refuses recording-on while the provider call of
\* recording-off is out.
Advise ==
    /\ pc = "advise"
    /\ \/ /\ faults' = faults
          /\ sampler' = [sampler EXCEPT ![phase].run =
                            IF phase = "on" /\ Outstanding(sampler["off"]) THEN "refused" ELSE "due"]
       \/ /\ Fault
          /\ sampler' = [sampler EXCEPT ![phase].run = "refused"]
    /\ pc' = "sleeping"
    /\ UNCHANGED <<mode, phase, ending, finalised, failed, verdict, log, sink, child, cancels>>

\* The head of the loop: the deadline, or the next read is due. A window that
\* elapsed without a tick fails the run.
Sleeps ==
    /\ pc = "sleeping"
    /\ LET ticks == Count(phase, {"tick"})
       IN  \/ ticks < MaxTicks /\ faults' = faults /\ pc' = "reading" /\ ending' = ending
           \/ ticks > 0 /\ faults' = faults /\ WindowEnds("elapsed", "settle")
           \/ Fault /\ WindowEnds("aborted", "abort")
           \/ ticks = 0 /\ Fault /\ WindowEnds("elapsed", "settle")
    /\ failed' = (failed \/ (pc' = "settle" /\ ~Has(phase, "tick")))
    /\ UNCHANGED <<mode, phase, finalised, verdict, log, sink, child, sampler, cancels>>

\* A read, its paired records and their evaluation; the tick observer's failure
\* fails the run and not the window.
ReadReturns ==
    /\ pc = "reading"
    /\ \/ Writes(phase, "tick") /\ pc' = "hosting" /\ UNCHANGED <<ending, failed>>
       \/ Refuses(phase, "tick") /\ WindowEnds("unexpected", "settle") /\ failed' = failed
       \/ /\ Fault
          /\ WindowEnds("aborted", "abort")
          /\ UNCHANGED <<failed, log, sink>>
       \/ /\ Admits(phase, "tick") /\ Fault
          /\ log' = Append(log, <<phase, "tick">>)
          /\ \/ WindowEnds("aborted", "abort") /\ failed' = failed
             \/ pc' = "hosting" /\ ending' = ending /\ failed' = TRUE
          /\ sink' = sink
    /\ UNCHANGED <<mode, phase, finalised, verdict, child, sampler, cancels>>

HostReturns ==
    /\ pc = "hosting"
    /\ \/ Writes(phase, "host") /\ pc' = "sleeping" /\ ending' = ending
       \/ Refuses(phase, "host") /\ WindowEnds("unexpected", "settle")
       \/ Fault /\ WindowEnds("aborted", "abort") /\ UNCHANGED <<log, sink>>
    /\ UNCHANGED <<mode, phase, finalised, failed, verdict, child, sampler, cancels>>

\* _record_aborts; a record that cannot be built is left out and the sink stays
\* usable. A cancelled engine raises behind it.
RecordAbort ==
    /\ pc = "abort"
    /\ \/ Writes(phase, "abort")
       \/ Refuses(phase, "abort")
       \/ Fault /\ UNCHANGED <<log, sink>>
    /\ pc' = IF ending = "cancelled" THEN "unwind" ELSE "settle"
    /\ UNCHANGED <<mode, phase, ending, finalised, failed, verdict, child, sampler, cancels>>

-----------------------------------------------------------------------------
(* The settlement of the advisory sampler *)

Started(p) == sampler[p].run # "none"
Settled(p) == sampler[p].closure # None

\* Mutant: every finished call is recorded by the outcome it has.
ClosesAsAnswered(p) ==
    LET s == sampler[p]
    IN  IF ~s.open THEN {<<None, "no_open_attempt">>}
        ELSE IF s.task = "done" THEN {<<s.answer, "completed">>}
        ELSE {<<"unresolved", "terminal">>}

\* The closures of an attempt that is open at the phase's end: its call's
\* recorded answer, or one of the five terminal ones, recorded or not.
Closes(p) ==
    LET s == sampler[p]
    IN  IF ~s.open THEN {<<None, "no_open_attempt">>}
        ELSE IF s.task = "done" /\ s.answer \in {"decision", "failure"}
        THEN {<<s.answer, "completed">>}
        ELSE IF s.task = "done" /\ s.answer # "refused"
        THEN {<<None, "terminal">>}
        ELSE {<<"unresolved", "terminal">>}

\* Mutant: an attempt closed without its answer does not fail the run.
TriggersOnOutstanding(closure, s) == Outstanding(s)

\* OD5: a terminal closure, or a provider call that is out at the settlement.
Triggers(closure, s) == closure = "terminal" \/ Outstanding(s)

\* The owner's settlement: the gate closes, the open attempt has its record or
\* stays open, provider and run are asked to cancel; then OD5.
SettledAs(p, closure, open) ==
    LET s   == sampler[p]
        od5 == Triggers(closure, s)
    IN  /\ sampler' = [sampler EXCEPT ![p] =
                          [s EXCEPT !.closure = closure, !.run = "cancelled", !.open = open,
                                    !.cancel = (s.cancel \/ Outstanding(s))]]
        /\ failed' = (failed \/ od5)
        /\ path' = CASE ~od5 \/ path # "none" -> path
                     [] od5 /\ path = "none" /\ closure = "terminal" -> "failed_run"
                     [] OTHER -> "outstanding"

\* _settle: once per started phase, in one synchronous piece; "by" is the sink's
\* state by then.
Settle(p) ==
    IF ~Started(p) \/ Settled(p)
    THEN UNCHANGED <<sampler, failed, path, log, sink, faults>>
    ELSE IF sampler[p].run = "refused"
    THEN /\ sampler' = [sampler EXCEPT ![p].closure = "refused"]
         /\ failed' = TRUE
         /\ UNCHANGED <<path, log, sink, faults>>
    ELSE \E c \in Closes(p) :
            \/ /\ c[1] = None
               /\ SettledAs(p, c[2], sampler[p].open)
               /\ UNCHANGED <<log, sink, faults>>
            \/ /\ c[1] # None
               /\ \/ Writes(p, c[1]) /\ SettledAs(p, c[2], FALSE)
                  \/ Refuses(p, c[1]) /\ SettledAs(p, "terminal", TRUE)
                  \/ Fault /\ UNCHANGED <<log, sink>> /\ SettledAs(p, "terminal", TRUE)

\* Mutant: the settlement joins the provider task.
SettleWindowJoins ==
    /\ pc = "settle"
    /\ ~Outstanding(sampler[phase])
    /\ Settle(phase)
    /\ pc' = IF ending = "elapsed" THEN "elapsed" ELSE "not_finalised"
    /\ UNCHANGED <<mode, phase, ending, finalised, check, outcome, child, cancels>>

\* _observe settles before it classifies the window's end.
SettleWindow ==
    /\ pc = "settle"
    /\ Settle(phase)
    /\ pc' = IF ending = "elapsed" THEN "elapsed" ELSE "not_finalised"
    /\ UNCHANGED <<mode, phase, ending, finalised, check, outcome, child, cancels>>

-----------------------------------------------------------------------------
(* The end of a phase *)

Elapsed ==
    /\ pc = "elapsed"
    /\ \/ Lifecycle("elapsed", IF phase = "off" THEN "checked_window" ELSE "finalising",
                    "teardown", Raised)
       \/ Fault /\ pc' = "not_finalised" /\ UNCHANGED <<failed, log, sink>>
    /\ UNCHANGED <<mode, phase, ending, finalised, verdict, child, sampler, cancels>>

\* _not_finalised: the failure is recorded first.
NotFinalised ==
    /\ pc = "not_finalised"
    /\ IF failed THEN Lifecycle("not_finalised", "teardown", "teardown", Raised)
       ELSE failed' = TRUE /\ UNCHANGED <<pc, log, sink, faults>>
    /\ UNCHANGED <<mode, phase, ending, finalised, verdict, child, sampler, cancels>>

\* finalise_session returns a clean result, an unclean one, or none. Behind its
\* elapsed record the phase is eligible.
FinaliseReturns ==
    /\ pc = "finalising"
    /\ \/ /\ faults' = faults
          /\ failed' = failed
          /\ finalised' = "clean" /\ pc' = "finalised"
       \/ /\ Fault
          /\ failed' = TRUE
          /\ \/ finalised' = "not_clean" /\ pc' = "finalised"
             \/ finalised' = "no_result" /\ pc' = "returned"
             \/ finalised' = finalised /\ pc' = "teardown"
    /\ UNCHANGED <<mode, phase, ending, verdict, log, sink, child, sampler, cancels>>

FinalisationRecord ==
    /\ pc = "finalised"
    /\ pc' = "returned"
    /\ \/ Writes(phase, "finalisation") /\ UNCHANGED <<failed, finalised>>
       \/ Refuses(phase, "finalisation") /\ failed' = TRUE /\ finalised' = "not_retained"
       \/ Fault /\ UNCHANGED <<log, sink>> /\ failed' = TRUE /\ finalised' = "not_retained"
    /\ UNCHANGED <<mode, phase, ending, verdict, child, sampler, cancels>>

\* FINALISATION_RETURNED; recording-off stops its child only in a run that has
\* not failed.
FinalisationReturned ==
    /\ pc = "returned"
    /\ Lifecycle(finalised,
                 IF finalised # "clean" THEN "teardown"
                 ELSE IF phase = "on" THEN "stopping"
                 ELSE IF failed THEN "teardown" ELSE "checked_finalisation",
                 "teardown", Raised)
    /\ UNCHANGED <<mode, phase, ending, finalised, verdict, child, sampler, cancels>>

StopReturns ==
    /\ pc = "stopping"
    /\ ChildStops
    /\ failed' = (failed \/ (sink.open /\ child'.state # "stopped"))
    /\ \/ sink.open /\ pc' = "stopped" /\ outcome' = outcome
       \/ ~sink.open /\ Ends("refused")
    /\ UNCHANGED <<mode, phase, ending, finalised, path, check, log, sink, sampler, cancels>>

\* Mutant: recording-on starts behind a stop that is not confirmed.
ChildStoppedAnyway ==
    /\ pc = "stopped"
    /\ Lifecycle(IF child.state = "stopped" THEN "stopped" ELSE "stop_unconfirmed",
                 IF mode = "running" /\ phase = "off" THEN "checked_stop" ELSE "teardown",
                 "teardown", Raised)
    /\ UNCHANGED <<mode, phase, ending, finalised, verdict, child, sampler, cancels>>

\* _stop's record; the sequence goes on behind a confirmed stop of recording-off.
ChildStopped ==
    /\ pc = "stopped"
    /\ LET confirmed == child.state = "stopped"
       IN  Lifecycle(IF confirmed THEN "stopped" ELSE "stop_unconfirmed",
                     IF confirmed /\ mode = "running" /\ phase = "off"
                     THEN "checked_stop" ELSE "teardown",
                     "teardown", Raised)
    /\ UNCHANGED <<mode, phase, ending, finalised, verdict, child, sampler, cancels>>

\* _advance_permitted, then _respawn's configuration of recording-on; flags that
\* are not those of a confirmed stop refuse the start before it is tried.
Advance ==
    /\ pc = "advance"
    /\ LET s == sampler["off"]
           permitted == /\ s.closure \in {"no_open_attempt", "completed"}
                        /\ path = "none"
                        /\ ~Outstanding(s)
       IN  \/ /\ permitted
              /\ faults' = faults /\ failed' = failed
              /\ phase' = "on" /\ pc' = "starting"
              /\ child' = [child EXCEPT !.state = "starting"]
           \/ /\ IF permitted THEN Fault ELSE faults' = faults
              /\ failed' = TRUE /\ pc' = "teardown"
              /\ UNCHANGED <<phase, child>>
           \/ /\ permitted /\ Fault
              /\ failed' = TRUE /\ phase' = "on" /\ pc' = "child_started"
              /\ child' = child
    /\ UNCHANGED <<mode, ending, finalised, verdict, log, sink, sampler, cancels>>

-----------------------------------------------------------------------------
(* The end of the run *)

\* _teardown: one owned stop if one is still due; without evidence a refusal.
Teardown ==
    /\ pc = "teardown"
    /\ mode' = IF mode = "running" THEN "teardown" ELSE mode
    /\ \/ NeedsStop /\ pc' = "stopping" /\ outcome' = outcome
       \/ ~NeedsStop /\ sink.open /\ pc' = "terminal" /\ outcome' = outcome
       \/ ~NeedsStop /\ ~sink.open /\ Ends("refused")
    /\ UNCHANGED <<phase, ending, finalised, failed, path, check, log, sink, child, sampler, faults, cancels>>

\* RUN_TERMINATED, or on a terminal closure's path the failed-run terminal in
\* its place; a builder that raises for the latter writes nothing.
Terminal ==
    /\ pc = "terminal"
    /\ IF path = "failed_run"
       THEN /\ pc' = "seal"
            /\ failed' = failed
            /\ \/ /\ Usable /\ SinkPhase # None
                  /\ log' = Append(log, <<SinkPhase, "failed_run">>)
                  /\ UNCHANGED <<sink, faults>>
               \/ /\ ~Usable
                  /\ UNCHANGED <<log, sink, faults>>
               \/ /\ Usable /\ Fault
                  /\ log' = log
                  /\ \E p \in BOOLEAN : sink' = [sink EXCEPT !.poisoned = p]
       ELSE Lifecycle(IF failed THEN "failed" ELSE "completed", "seal", "seal", Raised)
    /\ UNCHANGED <<mode, phase, ending, finalised, verdict, child, sampler, cancels>>

\* The provider check of an OD5 path, taken once, of the phase that set the path.
Checked == IF path = "none" \/ check # None THEN check ELSE Outstanding(sampler[phase])

\* _end: a terminated run is sealed, on an OD5 path the check follows at once;
\* a seal that is refused or fails closes the sink.
Seal ==
    /\ pc = "seal"
    /\ check' = Checked
    /\ \/ /\ ~sink.poisoned /\ Terminated
          /\ sink' = [sink EXCEPT !.sealed = TRUE]
          /\ pc' = "reload"
          /\ UNCHANGED <<outcome, faults>>
       \/ /\ IF ~sink.poisoned /\ Terminated THEN Fault ELSE faults' = faults
          /\ sink' = [sink EXCEPT !.poisoned = TRUE]
          /\ Ends("not_sealed")
    /\ UNCHANGED <<mode, phase, ending, finalised, failed, path, log, child, sampler, cancels>>

Grammar == <<<<"off", "activated">>, <<"off", "elapsed">>, <<"off", "clean">>, <<"off", "stopped">>,
             <<"off", "started">>, <<"on", "activated">>, <<"on", "transition">>,
             <<"on", "elapsed">>, <<"on", "clean">>, <<"on", "stopped">>, <<"on", "completed">>>>

\* check_revised_conformance on the retained evidence.
Conformant ==
    /\ SelectSeq(log, LAMBDA r : r[2] \in Lifecycles) = Grammar
    /\ \A p \in Phases :
           /\ Has(p, "header") /\ ~Has(p, "abort")
           /\ Count(p, {"finalisation"}) = 1
           /\ Count(p, {"tick"}) > 0
           /\ Count(p, {"tick"}) = Count(p, {"host"})
           /\ Has(p, "intent")
           /\ Count(p, {"intent"}) = Count(p, {"decision"})

\* _reload: the sealed run by its digest.
Reload ==
    /\ pc = "reload"
    /\ \/ /\ Conformant /\ ~failed /\ child.state = "stopped" /\ path = "none"
          /\ Ends("conformant")
          /\ faults' = faults
       \/ /\ IF Conformant /\ ~failed /\ child.state = "stopped" /\ path = "none"
             THEN Fault ELSE faults' = faults
          /\ Ends("not_conformant")
    /\ UNCHANGED <<mode, phase, ending, finalised, failed, path, check, log, sink, child, sampler, cancels>>

\* _recover from a builder's exception: settle, then at most one more teardown.
\* The failure is recorded before the settlement.
Recover ==
    /\ pc = "recover"
    /\ mode' = "recovering"
    /\ IF failed THEN Settle(phase) ELSE failed' = TRUE /\ UNCHANGED <<sampler, path, log, sink, faults>>
    /\ pc' = IF ~failed THEN "recover" ELSE IF sink'.poisoned \/ Terminated THEN "contain" ELSE "teardown"
    /\ UNCHANGED <<phase, ending, finalised, check, outcome, child, cancels>>

\* _contained closes the sink; then the cleanup stop.
Contain ==
    /\ pc = "contain"
    /\ failed' = TRUE
    /\ sink' = [sink EXCEPT !.poisoned = TRUE]
    /\ pc' = "cleanup"
    /\ UNCHANGED <<mode, phase, ending, finalised, verdict, log, child, sampler, faults, cancels>>

\* execute's last handler: close the sink, settle what is not settled.
Unwind ==
    /\ pc = "unwind"
    /\ IF sink.open /\ ~sink.poisoned
       THEN /\ sink' = [sink EXCEPT !.poisoned = TRUE]
            /\ pc' = pc /\ mode' = mode
            /\ UNCHANGED <<sampler, failed, path, log, faults>>
       ELSE /\ Settle(phase)
            /\ pc' = "cleanup" /\ mode' = "unwinding"
    /\ UNCHANGED <<phase, ending, finalised, check, outcome, child, cancels>>

\* shielded_cleanup's one stop, and what the handler then returns or re-raises.
CleanupEnds ==
    /\ pc = "cleanup"
    /\ IF NeedsStop THEN ChildStops ELSE UNCHANGED <<child, faults>>
    /\ IF mode = "unwinding" THEN check' = check /\ Ends("raised")
       ELSE check' = Checked /\ Ends("not_sealed")
    /\ UNCHANGED <<mode, phase, ending, finalised, failed, path, log, sink, sampler, cancels>>

\* The run's task is cancelled at an await: the engine records it, a stop is
\* interrupted, the shielded cleanup only remembers it.
Cancel ==
    /\ cancels < MaxCancels
    /\ pc \in Awaits /\ Yielded
    /\ cancels' = cancels + 1
    /\ pc' = IF pc \in EngineAwaits THEN "abort" ELSE IF pc = "cleanup" THEN pc ELSE "unwind"
    /\ ending' = IF pc \in EngineAwaits THEN "cancelled" ELSE ending
    /\ mode' = IF pc = "cleanup" THEN "unwinding" ELSE mode
    /\ \E a \in BOOLEAN :
           child' = CASE pc = "starting" -> [child EXCEPT !.alive = a]
                      [] pc = "stopping" -> [child EXCEPT !.state = "interrupted",
                                                          !.alive = (@ /\ a)]
                      [] OTHER -> child
    /\ UNCHANGED <<phase, finalised, failed, verdict, log, sink, sampler, faults>>

-----------------------------------------------------------------------------
(* The advisory sampler and its provider task *)

\* What an attempt needs at its due time: a retained pair, and the previous
\* provider task over.
SamplerOpens(p) ==
    /\ sampler[p].run = "due"
    /\ Has(p, "tick") /\ ~Outstanding(sampler[p])
    /\ Count(p, {"intent"}) < MaxAttempts
    /\ \/ /\ Writes(p, "intent")
          /\ sampler' = [sampler EXCEPT ![p] = [@ EXCEPT !.open = TRUE, !.task = "created",
                                                         !.answer = "none", !.run = "called"]]
       \/ /\ Refuses(p, "intent")
          /\ sampler' = [sampler EXCEPT ![p].run = "stopped"]

\* The sampler stops between two attempts: the window is exhausted, there is no
\* context, or its clock is invalid.
SamplerOver(p) ==
    /\ sampler[p].run = "due"
    /\ sampler' = [sampler EXCEPT ![p].run = "stopped"]
    /\ UNCHANGED <<log, sink, faults>>

\* The task's checks, then the one call of the advisor; or a refusal before it.
ProviderStarts(p) ==
    /\ sampler[p].task = "created" /\ ~sampler[p].cancel
    /\ \/ /\ faults' = faults
          /\ sampler' = [sampler EXCEPT ![p].task = "invoked"]
       \/ /\ Fault
          /\ sampler' = [sampler EXCEPT ![p].task = "done", ![p].answer = "refused"]
    /\ UNCHANGED <<log, sink>>

\* The call returns or raises; behind the settlement its answer is discarded.
ProviderAnswers(p) ==
    /\ sampler[p].task = "invoked"
    /\ \/ /\ faults' = faults
          /\ sampler' = [sampler EXCEPT ![p].task = "done",
                            ![p].answer = IF Settled(p) THEN @ ELSE "decision"]
       \/ /\ ~Settled(p) /\ Fault
          /\ \E a \in {"failure", "untimed"} :
                 sampler' = [sampler EXCEPT ![p].task = "done", ![p].answer = a]
    /\ UNCHANGED <<log, sink>>

\* A cancellation, the requested one or one the advisor raises, ends the task
\* without an outcome; an advisor may also ignore the request.
ProviderEnds(p) ==
    /\ Outstanding(sampler[p])
    /\ IF sampler[p].cancel THEN faults' = faults ELSE sampler[p].task = "invoked" /\ Fault
    /\ sampler' = [sampler EXCEPT ![p].task = "done"]
    /\ UNCHANGED <<log, sink>>

\* The sampler run wakes behind its provider task: the resolution of a timed
\* outcome, or the end of the run.
SamplerConsumes(p) ==
    LET s == sampler[p]
        timed == s.answer \in {"decision", "failure"}
    IN  /\ s.run = "called" /\ s.task = "done"
        /\ \/ /\ timed /\ Writes(p, s.answer)
              /\ sampler' = [sampler EXCEPT ![p].open = FALSE, ![p].run = "due"]
           \/ /\ timed /\ Refuses(p, s.answer)
              /\ sampler' = [sampler EXCEPT ![p].run = "stopped"]
           \/ /\ ~timed
              /\ sampler' = [sampler EXCEPT ![p].run = "stopped"]
              /\ UNCHANGED <<log, sink, faults>>

\* The call's bound: one cancellation request, the abandonment's record, and the
\* run stops; the task stays owned.
SamplerAbandons(p) ==
    /\ sampler[p].run = "called" /\ sampler[p].task = "invoked"
    /\ \/ /\ Writes(p, "abandoned")
          /\ sampler' = [sampler EXCEPT ![p] = [@ EXCEPT !.cancel = TRUE, !.run = "stopped",
                                                         !.open = FALSE]]
       \/ /\ Refuses(p, "abandoned")
          /\ sampler' = [sampler EXCEPT ![p].cancel = TRUE, ![p].run = "stopped"]

\* An invalid clock sample or waiter ends the run with its attempt open.
SamplerClockFails(p) ==
    /\ sampler[p].run = "called"
    /\ Fault
    /\ sampler' = [sampler EXCEPT ![p].run = "stopped"]
    /\ UNCHANGED <<log, sink>>

SamplerStep ==
    /\ Yielded
    /\ \E p \in Phases :
           \/ SamplerOpens(p) \/ SamplerOver(p) \/ SamplerConsumes(p)
           \/ SamplerAbandons(p) \/ SamplerClockFails(p)
           \/ ProviderStarts(p) \/ ProviderAnswers(p) \/ ProviderEnds(p)
    /\ UNCHANGED <<coroutine, failed, verdict, child, cancels>>

-----------------------------------------------------------------------------
Init ==
    /\ pc = "configure" /\ mode = "running" /\ phase = "off"
    /\ ending = None /\ finalised = None /\ failed = FALSE
    /\ path = "none" /\ check = None /\ outcome = None
    /\ log = <<>>
    /\ sink = [open |-> FALSE, poisoned |-> FALSE, sealed |-> FALSE]
    /\ child = [state |-> "none", cleaned |-> FALSE, alive |-> FALSE]
    /\ sampler = [p \in Phases |-> [run |-> "none", task |-> "none", answer |-> "none",
                                    open |-> FALSE, cancel |-> FALSE, closure |-> None]]
    /\ faults = 0 /\ cancels = 0

MainStep ==
    \/ Configure \/ StartReturns \/ ChildStarted \/ FreezeReturns \/ AdmitReturns
    \/ OpenEvidence \/ Checkpoint
    \/ AppendHeader \/ SessionCall \/ Activated \/ Candidate \/ Transition \/ InBudget
    \/ Advise \/ Sleeps \/ ReadReturns \/ HostReturns \/ RecordAbort
    \/ SettleWindow \/ Elapsed \/ NotFinalised
    \/ FinaliseReturns \/ FinalisationRecord \/ FinalisationReturned
    \/ StopReturns \/ ChildStopped \/ Advance
    \/ Teardown \/ Terminal \/ Seal \/ Reload \/ Recover \/ Contain \/ Unwind \/ CleanupEnds

Next == MainStep \/ SamplerStep \/ Cancel

\* The coroutine always goes on: its ports answer or time out. The provider
\* task is owed nothing.
Spec == Init /\ [][Next]_vars /\ WF_vars(MainStep)

-----------------------------------------------------------------------------
(* Properties *)

Kinds == {"header", "candidate", "tick", "host", "abort", "finalisation", "intent"}
            \cup Answers \cup Lifecycles \cup Terminals

\* Type invariant: the coroutine's state, the log, the sink, the child and the
\* samplers keep their types within the bounds.
TypeOK ==
    /\ pc \in Awaits \cup DOMAIN AfterCheckpoint \cup
               {"configure", "child_started", "open", "header", "activated", "candidate",
                "transition", "in_budget", "advise", "abort", "settle", "elapsed",
                "not_finalised", "finalised", "returned", "stopped", "advance", "teardown",
                "terminal", "seal", "reload", "recover", "contain", "unwind", "ended"}
    /\ mode \in {"running", "teardown", "recovering", "unwinding"}
    /\ phase \in Phases
    /\ ending \in {None, "elapsed", "aborted", "unexpected", "refused", "cancelled"}
    /\ finalised \in {None, "clean", "not_clean", "no_result", "not_retained"}
    /\ path \in {"none", "failed_run", "outstanding"}
    /\ check \in BOOLEAN \cup {None}
    /\ outcome \in {None, "refused", "not_sealed", "not_conformant", "conformant", "raised"}
    /\ failed \in BOOLEAN
    /\ log \in Seq(Phases \X Kinds)
    /\ sink \in [open : BOOLEAN, poisoned : BOOLEAN, sealed : BOOLEAN]
    /\ child \in [state : {"none", "starting", "running", "stopped", "unconfirmed", "interrupted"},
                  cleaned : BOOLEAN, alive : BOOLEAN]
    /\ sampler \in [Phases ->
          [run : {"none", "due", "called", "stopped", "cancelled", "refused"},
           task : {"none", "created", "invoked", "done"},
           answer : {"none", "refused", "decision", "failure", "untimed"},
           open : BOOLEAN, cancel : BOOLEAN,
           closure : {None, "no_open_attempt", "completed", "terminal", "refused"}]]
    /\ faults \in 0..MaxFaults
    /\ cancels \in 0..MaxCancels

\* The run owns one child at a time and never loses it.  It starts one only when
\* none is alive: the child of recording-on when the one of recording-off is gone,
\* whatever its stop, its record or the settlement before it did.  However it ends,
\* by a result, a refusal or an exception out of a cancelled task, a stop was tried
\* on the child it last started, and a child it calls stopped is dead (_respawn,
\* _advance_permitted, _ChildOwner.needs_stop, _teardown, shielded_cleanup).
ChildOwned ==
    /\ pc = "starting" => ~child.alive
    /\ pc = "ended" => /\ child.state \notin {"starting", "running"}
                       /\ child.state = "interrupted" => child.cleaned
                       /\ child.state = "stopped" => ~child.alive

\* A sealed run ends in its one terminal record, and but for the failed-run
\* terminal every attempt in it has its resolution: a settlement that could not
\* write one never seals as an ordinary run (_settle, _append_failed_run_terminal).
SealedIsAccounted ==
    sink.sealed =>
        /\ \A i \in DOMAIN log : log[i][2] \in Terminals <=> i = Len(log)
        /\ Last(log)[2] # "failed_run" =>
              \A p \in Phases : Count(p, {"intent"}) = Count(p, Answers)

\* A run ends although its provider call never returns and is never cancelled.
RunEnds == <>(pc = "ended")

=============================================================================
