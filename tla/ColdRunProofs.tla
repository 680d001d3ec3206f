---------------------------- MODULE ColdRunProofs ----------------------------
(***************************************************************************)
(* What ColdRun keeps true for any number of ticks, attempts, faults and   *)
(* cancellations: its types, that the child is owned to the end, and that  *)
(* a sealed run accounts for every attempt.                                *)
(*                                                                         *)
(* The last rests on the count of attempts and answers, which differ by    *)
(* the attempt that is open (Attempts), and on the path: a settlement that *)
(* leaves an attempt open is the first to take a path, because the second  *)
(* window begins only when the first has left none (Windows), so the run's *)
(* terminal is then the failed-run one (Terminates).                       *)
(***************************************************************************)
EXTENDS ColdRun, FiniteSetTheorems, SequenceTheorems, TLAPS

\* Up to the first advice of a window, and from its settlement to the end.
Before == {"configure", "starting", "child_started", "freezing", "admitting", "open", "header",
           "session", "activating", "activated", "candidate", "transition", "in_budget",
           "advise", "checked_respawn", "checked_identity", "checked_admission"}
After == {"elapsed", "not_finalised", "finalised", "returned", "checked_window",
          "checked_finalisation", "checked_stop", "finalising", "stopping", "stopped",
          "advance", "teardown", "terminal", "seal", "reload"}

\* No sampler of the phase is running or will be settled.
Quiet(p) == ~Started(p) \/ Settled(p)

\* Evidence that can be written to has its header, but right before the first.
Headed ==
    /\ sink.open /\ ~sink.poisoned /\ pc # "header" => SinkPhase # None
    /\ pc \in {"finalised", "returned"} =>
         finalised \in {"clean", "not_clean", "no_result", "not_retained"}

\* A child called stopped is dead; one that is started was none, or is stopped.
ChildSide ==
    /\ pc = "configure" => child.state = "none" /\ ~child.alive
    /\ pc = "starting" => child.state = "starting" /\ ~child.alive
    /\ child.state = "stopped" => ~child.alive
    /\ pc \in {"checked_stop", "advance"} => child.state = "stopped" /\ phase = "off"
    /\ pc \in {"terminal", "seal", "reload", "ended"} => ~NeedsStop

\* What is open while the sampler runs, and after its settlement.
Attempt(p) ==
    /\ Count(p, {"intent"}) = Count(p, Answers) + (IF sampler[p].open THEN 1 ELSE 0)
    /\ sampler[p].open => sampler[p].run \in {"called", "stopped", "cancelled"}
    /\ sampler[p].run = "called" => sampler[p].open
    /\ sampler[p].run = "cancelled" => Settled(p)
    /\ Settled(p) => sampler[p].run \in {"cancelled", "refused"}
    /\ Settled(p) /\ sampler[p].open => path = "failed_run"
Attempts == \A p \in Phases : Attempt(p)

\* A path is taken once, by the settlement that ends the run.
Windows ==
    /\ phase = "off" => ~Started("on")
    /\ phase = "on" => Settled("off")
    /\ pc \in Before => ~Started(phase) /\ path = "none"
    /\ pc \in After => Quiet(phase)
    /\ path # "none" => Quiet("off") /\ Quiet("on")

\* The terminal record is the last, and but for one kind accounts for all.
Terminates ==
    /\ \A i \in DOMAIN log : log[i][2] \in Terminals => i = Len(log)
    /\ sink.sealed => Terminated
    /\ Terminated /\ Last(log)[2] # "failed_run" =>
          \A p \in Phases : Count(p, {"intent"}) = Count(p, Answers)

IInv == TypeOK /\ Headed /\ ChildSide /\ Attempts /\ Windows /\ Terminates

-----------------------------------------------------------------------------
(* The log.                                                                *)

LEMMA AppendFacts ==
    ASSUME NEW T, NEW s \in Seq(T), NEW x \in T
    PROVE  /\ Append(s, x) \in Seq(T)
           /\ Len(s) \in Nat /\ Len(Append(s, x)) = Len(s) + 1
           /\ DOMAIN s = 1..Len(s) /\ DOMAIN Append(s, x) = 1..(Len(s) + 1)
           /\ \A i \in 1..Len(s) : Append(s, x)[i] = s[i]
           /\ Append(s, x)[Len(s) + 1] = x
BY AppendProperties

Logs == Seq(Phases \X Kinds)

\* One more record counts once, where it belongs.
LEMMA CountAppend ==
    ASSUME log \in Logs, NEW q \in Phases, NEW k \in Kinds, log' = Append(log, <<q, k>>),
           NEW p, NEW kinds
    PROVE  /\ Count(p, kinds) \in Nat
           /\ Count(p, kinds)' = Count(p, kinds) + (IF q = p /\ k \in kinds THEN 1 ELSE 0)
<1> DEFINE n == Len(log)
           S == {i \in DOMAIN log : log[i][1] = p /\ log[i][2] \in kinds}
           U == {i \in DOMAIN log' : log'[i][1] = p /\ log'[i][2] \in kinds}
<1>1. /\ n \in Nat /\ DOMAIN log = 1..n /\ DOMAIN log' = 1..(n + 1)
      /\ \A i \in 1..n : log'[i] = log[i]
      /\ log'[n + 1] = <<q, k>>
    BY AppendFacts DEF Logs
<1>2. IsFiniteSet(S) /\ n + 1 \notin S
    <2>1. IsFiniteSet(1..n)
        <3> HIDE DEF n
        <3> QED BY <1>1, FS_Interval
    <2>2. S \subseteq 1..n
        BY <1>1
    <2> QED BY <1>1, <2>1, <2>2, FS_Subset
<1>3. Cardinality(S) \in Nat
    BY <1>2, FS_CardinalityType
<1>4. U = IF q = p /\ k \in kinds THEN S \cup {n + 1} ELSE S
    <2>1. \A i \in 1..n : i # n + 1
        BY <1>1
    <2>2. 1..(n + 1) = 1..n \cup {n + 1}
        BY <1>1
    <2>3. log'[n + 1][1] = q /\ log'[n + 1][2] = k
        BY <1>1
    <2> HIDE DEF n
    <2> QED BY <1>1, <2>1, <2>2, <2>3
<1>5. Cardinality(U) = Cardinality(S) + (IF q = p /\ k \in kinds THEN 1 ELSE 0)
    <2>1. Cardinality(S \cup {n + 1}) = Cardinality(S) + 1
        BY <1>2, FS_AddElement
    <2>2. CASE q = p /\ k \in kinds
        BY <1>4, <2>1, <2>2
    <2>3. CASE ~(q = p /\ k \in kinds)
        <3>1. Cardinality(U) = Cardinality(S)
            BY <1>4, <2>3
        <3> HIDE DEF U, S
        <3> QED BY <1>3, <2>3, <3>1
    <2> QED BY <2>2, <2>3
<1>6. Count(p, kinds) = Cardinality(S) /\ Count(p, kinds)' = Cardinality(U)
    BY DEF Count
<1> QED BY <1>3, <1>5, <1>6

LEMMA CountType ==
    ASSUME log \in Logs, NEW p, NEW kinds PROVE Count(p, kinds) \in Nat
<1> DEFINE S == {i \in DOMAIN log : log[i][1] = p /\ log[i][2] \in kinds}
<1>1. Len(log) \in Nat /\ DOMAIN log = 1..Len(log)
    BY LenProperties DEF Logs
<1>2. IsFiniteSet(S)
    <2>1. IsFiniteSet(1..Len(log))
        <3> HIDE DEF S
        <3> QED BY <1>1, FS_Interval
    <2>2. S \subseteq 1..Len(log)
        BY <1>1
    <2> QED BY <2>1, <2>2, FS_Subset
<1> QED BY <1>2, FS_CardinalityType DEF Count

\* A record behind evidence that is not terminated.
LEMMA TerminalAppend ==
    ASSUME log \in Logs, NEW q \in Phases, NEW k \in Kinds, log' = Append(log, <<q, k>>),
           ~Terminated
    PROVE  /\ \A i \in DOMAIN log' : log'[i][2] \in Terminals => i = Len(log')
           /\ Terminated' => k \in Terminals
           /\ Last(log)'[2] = k
<1>1. /\ Len(log) \in Nat /\ DOMAIN log = 1..Len(log) /\ DOMAIN log' = 1..(Len(log) + 1)
      /\ Len(log') = Len(log) + 1
      /\ \A i \in 1..Len(log) : log'[i] = log[i]
      /\ log'[Len(log) + 1] = <<q, k>>
    BY AppendFacts DEF Logs
<1>2. log'[Len(log) + 1][2] = k
    BY <1>1
<1>3. \A i \in DOMAIN log' : log'[i][2] \in Terminals => i = Len(log) + 1
    <2>1. \A i \in 1..Len(log) : log[i][2] \notin Terminals
        BY <1>1 DEF Terminated
    <2> QED BY <1>1, <2>1
<1> QED BY <1>1, <1>2, <1>3 DEF Terminated, Last

\* What was recorded stays recorded.
LEMMA HasAppend ==
    ASSUME log \in Logs, NEW q \in Phases, NEW k \in Kinds, log' = Append(log, <<q, k>>)
    PROVE  /\ \A p, j : Has(p, j) => Has(p, j)'
           /\ Has(q, k)'
           /\ SinkPhase # None => SinkPhase' # None
<1>1. /\ Len(log) \in Nat /\ DOMAIN log = 1..Len(log) /\ DOMAIN log' = 1..(Len(log) + 1)
      /\ \A i \in 1..Len(log) : log'[i] = log[i]
      /\ log'[Len(log) + 1] = <<q, k>>
    BY AppendFacts DEF Logs
<1>2. \A p, j : Has(p, j) => Has(p, j)'
    BY <1>1 DEF Has
<1>3. Has(q, k)'
    BY <1>1 DEF Has
<1> QED BY <1>2, <1>3, NoneAssumption DEF SinkPhase

-----------------------------------------------------------------------------
(* What most steps have in common.                                         *)

Pcs == Awaits \cup DOMAIN AfterCheckpoint \cup
         {"configure", "child_started", "open", "header", "activated", "candidate",
          "transition", "in_budget", "advise", "abort", "settle", "elapsed",
          "not_finalised", "finalised", "returned", "stopped", "advance", "teardown",
          "terminal", "seal", "reload", "recover", "contain", "unwind", "ended"}
SinkType == [open : BOOLEAN, poisoned : BOOLEAN, sealed : BOOLEAN]
ChildType == [state : {"none", "starting", "running", "stopped", "unconfirmed", "interrupted"},
              cleaned : BOOLEAN, alive : BOOLEAN]
SamplerType ==
    [run : {"none", "due", "called", "stopped", "cancelled", "refused"},
     task : {"none", "created", "invoked", "done"},
     answer : {"none", "refused", "decision", "failure", "untimed"},
     open : BOOLEAN, cancel : BOOLEAN,
     closure : {None, "no_open_attempt", "completed", "terminal", "refused"}]

\* The records that neither open, resolve nor end anything.
Plain == Kinds \ ({"intent"} \cup Answers \cup Terminals)

Recorded ==
    \/ log' = log
    \/ \E q \in Phases, k \in Plain : Usable /\ log' = Append(log, <<q, k>>)

SinkKept ==
    /\ sink' \in SinkType /\ sink'.sealed = sink.sealed
    /\ sink'.open /\ ~sink'.poisoned /\ pc' # "header" => sink.open /\ ~sink.poisoned

CoroutineTyped ==
    /\ pc' \in Pcs
    /\ mode' \in {"running", "teardown", "recovering", "unwinding"}
    /\ ending' \in {None, "elapsed", "aborted", "unexpected", "refused", "cancelled"}
    /\ finalised' \in {None, "clean", "not_clean", "no_result", "not_retained"}
    /\ check' \in BOOLEAN \cup {None}
    /\ outcome' \in {None, "refused", "not_sealed", "not_conformant", "conformant", "raised"}
    /\ failed' \in BOOLEAN
    /\ faults' \in 0..MaxFaults /\ cancels' \in 0..MaxCancels

\* A step of the coroutine beside its samplers and its verdict on them.
Ordinary ==
    /\ Recorded /\ SinkKept /\ CoroutineTyped
    /\ UNCHANGED <<sampler, path, phase>>
    /\ pc' \in Before => pc \in Before
    /\ pc' \in After => pc \in Before \cup After
    /\ pc' \in {"finalised", "returned"} =>
         finalised' \in {"clean", "not_clean", "no_result", "not_retained"}

LEMMA PcsFacts ==
    /\ Before \subseteq Pcs /\ After \subseteq Pcs /\ Awaits \subseteq Pcs
    /\ {"abort", "settle", "recover", "contain", "unwind", "ended", "sleeping", "reading",
        "hosting", "cleanup"} \subseteq Pcs \ (Before \cup After)
    /\ DOMAIN AfterCheckpoint = {"checked_window", "checked_finalisation", "checked_stop",
                                 "checked_respawn", "checked_identity", "checked_admission"}
BY DEF Before, After, Pcs, Awaits, AfterCheckpoint

LEMMA TypesFrom ==
    ASSUME CoroutineTyped, phase' \in Phases, path' \in {"none", "failed_run", "outstanding"},
           log' \in Logs, sink' \in SinkType, child' \in ChildType,
           sampler' \in [Phases -> SamplerType]
    PROVE  TypeOK'
BY DEF CoroutineTyped, TypeOK, Pcs, Logs, SinkType, ChildType, SamplerType

LEMMA Typed ==
    ASSUME TypeOK
    PROVE  /\ pc \in Pcs /\ phase \in Phases /\ log \in Logs /\ sink \in SinkType
           /\ child \in ChildType /\ sampler \in [Phases -> SamplerType]
           /\ mode \in {"running", "teardown", "recovering", "unwinding"}
           /\ ending \in {None, "elapsed", "aborted", "unexpected", "refused", "cancelled"}
           /\ finalised \in {None, "clean", "not_clean", "no_result", "not_retained"}
           /\ check \in BOOLEAN \cup {None} /\ path \in {"none", "failed_run", "outstanding"}
           /\ outcome \in {None, "refused", "not_sealed", "not_conformant", "conformant", "raised"}
           /\ failed \in BOOLEAN /\ faults \in 0..MaxFaults /\ cancels \in 0..MaxCancels
BY DEF TypeOK, Pcs, Logs, SinkType, ChildType, SamplerType

LEMMA FaultTyped ==
    ASSUME TypeOK, Fault \/ faults' = faults PROVE faults' \in 0..MaxFaults
BY ColdRunAssumption DEF TypeOK, Fault

LEMMA RecordedTyped == ASSUME TypeOK, Recorded PROVE log' \in Logs
<1>1. ASSUME NEW q \in Phases, NEW k \in Plain, log' = Append(log, <<q, k>>)
      PROVE  log' \in Logs
    BY <1>1, Typed, AppendFacts DEF Logs, Plain
<1> QED BY <1>1, Typed DEF Recorded

LEMMA SinkPoisoned ==
    ASSUME TypeOK
    PROVE  /\ [sink EXCEPT !.poisoned = TRUE] \in SinkType
           /\ [sink EXCEPT !.poisoned = TRUE].sealed = sink.sealed
           /\ [sink EXCEPT !.poisoned = TRUE].open = sink.open
           /\ [sink EXCEPT !.poisoned = TRUE].poisoned
BY Typed DEF SinkType

\* A record of the phase, written or refused.
LEMMA RecordFacts ==
    ASSUME TypeOK, NEW p \in Phases, NEW k \in Plain, Writes(p, k) \/ Refuses(p, k)
    PROVE  Recorded /\ SinkKept /\ faults' \in 0..MaxFaults
<1>1. CASE Writes(p, k)
    <2>1. Usable /\ log' = Append(log, <<p, k>>) /\ sink' = sink /\ faults' = faults
        BY <1>1 DEF Writes, Admits
    <2> QED BY <2>1, Typed DEF Recorded, SinkKept
<1>2. CASE Refuses(p, k)
    <2>1. /\ log' = log /\ sink' = [sink EXCEPT !.poisoned = TRUE]
          /\ Fault \/ faults' = faults
        BY <1>2 DEF Refuses
    <2> QED BY <2>1, SinkPoisoned, FaultTyped DEF Recorded, SinkKept
<1> QED BY <1>1, <1>2

\* A lifecycle record, written or not.
LEMMA LifecycleFacts ==
    ASSUME TypeOK, Headed, pc # "header", NEW k \in Kinds, NEW w, NEW m, NEW r,
           Lifecycle(k, w, m, r)
    PROVE  /\ pc' \in {w, m, r} /\ sink' \in SinkType
           /\ sink'.sealed = sink.sealed /\ sink'.open = sink.open
           /\ sink.poisoned => sink'.poisoned
           /\ \/ log' = log
              \/ /\ Usable /\ SinkPhase \in Phases /\ log' = Append(log, <<SinkPhase, k>>)
                 /\ pc' = w
           /\ pc' = w \/ pc' = m \/ log' = log
           /\ failed' \in BOOLEAN /\ (failed => failed') /\ faults' \in 0..MaxFaults
<1>1. Usable => SinkPhase \in Phases
    BY DEF Usable, Headed, SinkPhase, Phases
<1>2. CASE /\ Usable /\ log' = Append(log, <<SinkPhase, k>>) /\ pc' = w
           /\ UNCHANGED <<sink, failed, faults>>
    BY <1>1, <1>2, Typed
<1>3. CASE /\ Fault /\ log' = log
           /\ \/ sink' = [sink EXCEPT !.poisoned = TRUE] /\ failed' = failed /\ pc' = m
              \/ sink' = sink /\ failed' = TRUE /\ pc' = m
              \/ sink' = sink /\ failed' = failed /\ pc' = r
    <2>1. faults' \in 0..MaxFaults
        BY <1>3, FaultTyped
    <2>2. CASE sink' = [sink EXCEPT !.poisoned = TRUE] /\ failed' = failed /\ pc' = m
        <3>1. /\ sink' \in SinkType /\ sink'.sealed = sink.sealed /\ sink'.open = sink.open
              /\ sink'.poisoned
            BY <2>2, SinkPoisoned
        <3>2. failed' \in BOOLEAN /\ (failed => failed')
            BY <2>2, Typed
        <3> QED BY <1>3, <2>1, <2>2, <3>1, <3>2
    <2>3. CASE sink' = sink /\ (failed' = TRUE \/ failed' = failed) /\ (pc' = m \/ pc' = r)
        <3>1. sink' = sink /\ sink \in SinkType
            BY <2>3, Typed
        <3>2. failed' \in BOOLEAN /\ (failed => failed')
            <4>1. failed \in BOOLEAN
                BY Typed
            <4>2. CASE failed' = TRUE
                BY <4>2
            <4>3. CASE failed' = failed
                BY <4>1, <4>3
            <4> QED BY <2>3, <4>2, <4>3
        <3> QED BY <1>3, <2>1, <2>3, <3>1, <3>2
    <2> QED BY <1>3, <2>2, <2>3
<1>4. CASE /\ sink' = [sink EXCEPT !.poisoned = (@ \/ Usable)]
           /\ pc' = m /\ UNCHANGED <<log, failed, faults>>
    <2>1. /\ sink' \in SinkType /\ sink'.sealed = sink.sealed /\ sink'.open = sink.open
          /\ sink.poisoned => sink'.poisoned
        BY <1>4, Typed DEF SinkType, Usable, Terminated
    <2> QED BY <1>4, <2>1, Typed
<1> QED BY <1>2, <1>3, <1>4 DEF Lifecycle

-----------------------------------------------------------------------------
(* The steps of the coroutine beside its samplers.                         *)

ChildPcs == {"configure", "starting", "checked_stop", "advance", "terminal", "seal", "reload",
             "ended"}

\* What an ordinary step owes the invariant.
Step ==
    /\ Ordinary /\ child' \in ChildType /\ ChildSide'
    /\ pc # "header" \/ SinkPhase' # None \/ sink'.poisoned

Forward ==
    /\ pc' \in Pcs
    /\ pc' \in Before => pc \in Before
    /\ pc' \in After => pc \in Before \cup After

LEMMA ChildKept ==
    ASSUME TypeOK, ChildSide, child' = child, phase' = phase, pc' \notin ChildPcs
    PROVE  child' \in ChildType /\ ChildSide'
BY Typed DEF ChildSide, ChildPcs

\* A step that neither writes nor touches the sink or the child.
LEMMA Stands ==
    ASSUME TypeOK, ChildSide, CoroutineTyped, Forward, pc # "header",
           UNCHANGED <<log, sink, sampler, path, phase, child>>,
           pc' \notin ChildPcs \cup {"finalised", "returned"}
    PROVE  Step
<1>1. Recorded /\ SinkKept
    BY Typed DEF Recorded, SinkKept
<1> QED BY <1>1, ChildKept DEF Step, Ordinary, Forward

\* A step that only moves the coroutine.
LEMMA StandingSteps ==
    ASSUME IInv,
           FreezeReturns \/ AdmitReturns \/ Checkpoint \/ SessionCall \/ InBudget \/ Sleeps
    PROVE  Step
<1>0. TypeOK /\ ChildSide
    BY DEF IInv
<1>1. CASE FreezeReturns
    <2>1. /\ pc \in {"freezing"} /\ pc' \in {"admitting", "checked_identity", "teardown"}
          /\ failed' \in BOOLEAN /\ (Fault \/ faults' = faults)
          /\ UNCHANGED <<log, sink, sampler, path, phase, child, mode, finalised, check,
                         outcome, cancels, ending>>
        BY <1>0, <1>1, Typed DEF FreezeReturns, Passes, verdict
    <2>2. Forward /\ pc # "header" /\ pc' \notin ChildPcs \cup {"finalised", "returned"}
        BY <2>1 DEF Forward, Before, After, Pcs, Awaits, AfterCheckpoint, ChildPcs
    <2>3. CoroutineTyped
        BY <1>0, <2>1, <2>2, Typed, FaultTyped DEF CoroutineTyped, Forward
    <2> QED BY <1>0, <2>1, <2>2, <2>3, Stands
<1>2. CASE AdmitReturns
    <2>1. /\ pc \in {"admitting"} /\ pc' \in {"open", "checked_admission", "teardown"}
          /\ failed' \in BOOLEAN /\ (Fault \/ faults' = faults)
          /\ UNCHANGED <<log, sink, sampler, path, phase, child, mode, finalised, check,
                         outcome, cancels, ending>>
        BY <1>0, <1>2, Typed DEF AdmitReturns, Passes, verdict
    <2>2. Forward /\ pc # "header" /\ pc' \notin ChildPcs \cup {"finalised", "returned"}
        BY <2>1 DEF Forward, Before, After, Pcs, Awaits, AfterCheckpoint, ChildPcs
    <2>3. CoroutineTyped
        BY <1>0, <2>1, <2>2, Typed, FaultTyped DEF CoroutineTyped, Forward
    <2> QED BY <1>0, <2>1, <2>2, <2>3, Stands
<1>3. CASE SessionCall
    <2>1. /\ pc \in {"session", "activating"} /\ pc' \in {"activating", "activated", "abort"}
          /\ failed' \in BOOLEAN /\ (Fault \/ faults' = faults)
          /\ ending' \in {ending, "aborted"}
          /\ UNCHANGED <<log, sink, sampler, path, phase, child, mode, finalised, check,
                         outcome, cancels>>
        BY <1>0, <1>3, Typed DEF SessionCall, WindowEnds, verdict
    <2>2. Forward /\ pc # "header" /\ pc' \notin ChildPcs \cup {"finalised", "returned"}
        BY <2>1 DEF Forward, Before, After, Pcs, Awaits, AfterCheckpoint, ChildPcs
    <2>3. CoroutineTyped
        BY <1>0, <2>1, <2>2, Typed, FaultTyped DEF CoroutineTyped, Forward
    <2> QED BY <1>0, <2>1, <2>2, <2>3, Stands
<1>4. CASE InBudget
    <2>1. /\ pc \in {"in_budget"} /\ pc' \in {"advise", "settle"}
          /\ failed' \in BOOLEAN /\ (Fault \/ faults' = faults)
          /\ ending' \in {ending, "refused"}
          /\ UNCHANGED <<log, sink, sampler, path, phase, child, mode, finalised, check,
                         outcome, cancels>>
        BY <1>0, <1>4, Typed DEF InBudget, WindowEnds, verdict
    <2>2. Forward /\ pc # "header" /\ pc' \notin ChildPcs \cup {"finalised", "returned"}
        BY <2>1 DEF Forward, Before, After, Pcs, Awaits, AfterCheckpoint, ChildPcs
    <2>3. CoroutineTyped
        BY <1>0, <2>1, <2>2, Typed, FaultTyped DEF CoroutineTyped, Forward
    <2> QED BY <1>0, <2>1, <2>2, <2>3, Stands
<1>5. CASE Sleeps
    <2>1. /\ pc \in {"sleeping"} /\ pc' \in {"reading", "settle", "abort"}
          /\ Fault \/ faults' = faults
          /\ ending' \in {ending, "elapsed", "aborted"}
          /\ UNCHANGED <<log, sink, sampler, path, phase, child, mode, finalised, check,
                         outcome, cancels>>
        BY <1>5 DEF Sleeps, WindowEnds, verdict
    <2>2. failed' \in BOOLEAN
        BY <1>0, <1>5, Typed DEF Sleeps
    <2>3. Forward /\ pc # "header" /\ pc' \notin ChildPcs \cup {"finalised", "returned"}
        BY <2>1 DEF Forward, Before, After, Pcs, Awaits, AfterCheckpoint, ChildPcs
    <2>4. CoroutineTyped
        BY <1>0, <2>1, <2>2, <2>3, Typed, FaultTyped DEF CoroutineTyped, Forward
    <2> QED BY <1>0, <2>1, <2>3, <2>4, Stands
<1>6. CASE Checkpoint
    <2>1. /\ failed' \in BOOLEAN /\ (Fault \/ faults' = faults)
          /\ UNCHANGED <<log, sink, sampler, path, phase, child, mode, finalised, check,
                         outcome, cancels, ending>>
        BY <1>0, <1>6, Typed DEF Checkpoint, verdict
    <2>2. CoroutineTyped /\ Forward /\ pc # "header" /\ pc' \notin {"finalised", "returned"}
        <3>1. pc \in DOMAIN AfterCheckpoint /\ pc' \in {AfterCheckpoint[pc], "teardown"}
            BY <1>6 DEF Checkpoint
        <3>2. Forward /\ pc # "header" /\ pc' \notin {"finalised", "returned"}
            BY <3>1 DEF Forward, Before, After, Pcs, Awaits, AfterCheckpoint
        <3> QED BY <1>0, <2>1, <3>2, Typed, FaultTyped DEF CoroutineTyped, Forward
    <2>3. ChildSide' /\ child' \in ChildType
        <3>1. pc' \notin ChildPcs \/ (pc = "checked_stop" /\ pc' = "advance")
            BY <1>6 DEF Checkpoint, AfterCheckpoint, ChildPcs
        <3>2. CASE pc = "checked_stop" /\ pc' = "advance"
            BY <1>0, <2>1, <3>2, Typed DEF ChildSide
        <3> QED BY <1>0, <2>1, <3>1, <3>2, ChildKept
    <2>4. Recorded /\ SinkKept
        BY <1>0, <2>1, <2>2, Typed DEF Recorded, SinkKept
    <2> QED BY <2>1, <2>2, <2>3, <2>4 DEF Step, Ordinary, Forward
<1> QED BY <1>1, <1>2, <1>3, <1>4, <1>5, <1>6

\* The other moves without a record.
LEMMA MovingSteps ==
    ASSUME IInv, FinaliseReturns \/ OpenEvidence \/ Teardown \/ Reload \/ Contain
    PROVE  Step
<1>0. TypeOK /\ ChildSide
    BY DEF IInv
<1>1. CASE FinaliseReturns
    <2>1. /\ pc = "finalising" /\ pc' \in {"finalised", "returned", "teardown"}
          /\ pc' \in {"finalised", "returned"} => finalised' \in {"clean", "not_clean", "no_result"}
          /\ finalised' \in {"clean", "not_clean", "no_result", finalised}
          /\ failed' \in BOOLEAN /\ (Fault \/ faults' = faults)
          /\ UNCHANGED <<log, sink, sampler, path, phase, child, mode, check,
                         outcome, cancels, ending>>
        BY <1>0, <1>1, Typed DEF FinaliseReturns, verdict
    <2>2. Forward /\ pc' \notin ChildPcs
        BY <2>1 DEF Forward, Before, After, Pcs, Awaits, ChildPcs
    <2>3. CoroutineTyped
        BY <1>0, <2>1, <2>2, Typed, FaultTyped DEF CoroutineTyped, Forward
    <2>4. Recorded /\ SinkKept
        BY <1>0, <2>1, Typed DEF Recorded, SinkKept
    <2> QED BY <1>0, <2>1, <2>2, <2>3, <2>4, ChildKept DEF Step, Ordinary, Forward
<1>2. CASE OpenEvidence
    <2>1. /\ pc = "open" /\ pc' \in {"header", "teardown"}
          /\ sink' = [sink EXCEPT !.open = (pc' = "header")]
          /\ failed' \in BOOLEAN /\ (Fault \/ faults' = faults)
          /\ UNCHANGED <<log, sampler, path, phase, child, mode, finalised, check,
                         outcome, cancels, ending>>
        BY <1>0, <1>2, Typed DEF OpenEvidence, Passes, verdict
    <2>2. Forward /\ pc' \notin ChildPcs \cup {"finalised", "returned"}
        BY <2>1 DEF Forward, Before, After, Pcs, Awaits, ChildPcs
    <2>3. CoroutineTyped
        BY <1>0, <2>1, <2>2, Typed, FaultTyped DEF CoroutineTyped, Forward
    <2>4. Recorded /\ SinkKept
        BY <1>0, <2>1, Typed DEF Recorded, SinkKept, SinkType
    <2> QED BY <1>0, <2>1, <2>2, <2>3, <2>4, ChildKept DEF Step, Ordinary, Forward
<1>3. CASE Teardown
    <2>1. /\ pc = "teardown" /\ pc' \in {"stopping", "terminal", "ended"}
          /\ mode' \in {mode, "teardown"}
          /\ outcome' \in {outcome, "refused"}
          /\ pc' # "stopping" => ~NeedsStop
          /\ UNCHANGED <<log, sink, sampler, path, phase, child, finalised, check, failed, faults,
                         cancels, ending>>
        BY <1>3 DEF Teardown, Ends
    <2>2. Forward /\ pc' \notin {"configure", "starting", "checked_stop", "advance",
                                 "finalised", "returned", "header"}
        BY <2>1 DEF Forward, Before, After, Pcs, Awaits
    <2>3. CoroutineTyped
        BY <1>0, <2>1, <2>2, Typed DEF CoroutineTyped, Forward
    <2>4. Recorded /\ SinkKept
        BY <1>0, <2>1, <2>2, Typed DEF Recorded, SinkKept
    <2>5. child' \in ChildType /\ ChildSide'
        BY <1>0, <2>1, <2>2, Typed DEF ChildSide, NeedsStop
    <2> QED BY <1>0, <2>1, <2>2, <2>3, <2>4, <2>5 DEF Step, Ordinary, Forward
<1>4. CASE Reload
    <2>1. /\ pc = "reload" /\ pc' = "ended"
          /\ outcome' \in {"conformant", "not_conformant"}
          /\ Fault \/ faults' = faults
          /\ UNCHANGED <<log, sink, sampler, path, phase, child, mode, finalised, check, failed,
                         cancels, ending>>
        <3> HIDE DEF Conformant
        <3> QED BY <1>4 DEF Reload, Ends
    <2>2. Forward
        BY <2>1 DEF Forward, Before, After, Pcs
    <2>3. CoroutineTyped
        BY <1>0, <2>1, <2>2, Typed, FaultTyped DEF CoroutineTyped, Forward
    <2>4. Recorded /\ SinkKept
        BY <1>0, <2>1, <2>2, Typed DEF Recorded, SinkKept
    <2>5. child' \in ChildType /\ ChildSide'
        BY <1>0, <2>1, Typed DEF ChildSide, NeedsStop
    <2> QED BY <1>0, <2>1, <2>2, <2>3, <2>4, <2>5 DEF Step, Ordinary, Forward
<1>5. CASE Contain
    <2>1. /\ pc = "contain" /\ pc' = "cleanup" /\ failed' = TRUE
          /\ sink' = [sink EXCEPT !.poisoned = TRUE]
          /\ UNCHANGED <<log, sampler, path, phase, child, mode, finalised, check, outcome, faults,
                         cancels, ending>>
        BY <1>5 DEF Contain, verdict
    <2>2. Forward /\ pc' \notin ChildPcs
        BY <2>1 DEF Forward, Before, After, Pcs, Awaits, ChildPcs
    <2>3. CoroutineTyped
        BY <1>0, <2>1, <2>2, Typed DEF CoroutineTyped, Forward
    <2>4. Recorded /\ SinkKept
        BY <1>0, <2>1, SinkPoisoned DEF Recorded, SinkKept
    <2> QED BY <1>0, <2>1, <2>2, <2>3, <2>4, ChildKept DEF Step, Ordinary, Forward
<1> QED BY <1>1, <1>2, <1>3, <1>4, <1>5

\* A step that records at most one thing and leaves the child alone.
LEMMA Recording ==
    ASSUME TypeOK, ChildSide, Recorded, SinkKept, CoroutineTyped, Forward,
           UNCHANGED <<sampler, path, phase, child>>, pc' \notin ChildPcs,
           pc' \in {"finalised", "returned"} =>
               finalised' \in {"clean", "not_clean", "no_result", "not_retained"},
           pc # "header" \/ SinkPhase' # None \/ sink'.poisoned
    PROVE  Step
BY ChildKept DEF Step, Ordinary, Forward

\* The records of the phase.
LEMMA RecordSteps ==
    ASSUME IInv,
           AppendHeader \/ Candidate \/ ReadReturns \/ HostReturns \/ RecordAbort
           \/ FinalisationRecord
    PROVE  Step
<1>0. TypeOK /\ ChildSide /\ Headed /\ phase \in Phases
    BY Typed DEF IInv
<1>1. {"header", "candidate", "tick", "host", "abort", "finalisation"} \subseteq Plain
    BY DEF Plain, Kinds, Answers, Lifecycles, Terminals
<1>2. CASE AppendHeader
    <2>1. /\ pc = "header" /\ pc' \in {"session", "settle"}
          /\ Writes(phase, "header") \/ Refuses(phase, "header")
          /\ ending' \in {ending, "unexpected"}
          /\ UNCHANGED <<sampler, path, phase, child, mode, finalised, check, failed, outcome,
                         cancels>>
        BY <1>2 DEF AppendHeader, WindowEnds, verdict
    <2>2. Recorded /\ SinkKept /\ faults' \in 0..MaxFaults
        BY <1>0, <1>1, <2>1, RecordFacts
    <2>3. Forward /\ pc' \notin ChildPcs
        BY <2>1 DEF Forward, Before, After, Pcs, Awaits, ChildPcs
    <2>4. CoroutineTyped
        BY <1>0, <2>1, <2>2, <2>3, Typed DEF CoroutineTyped, Forward
    <2>5. SinkPhase' # None \/ sink'.poisoned
        <3>1. CASE Writes(phase, "header")
            <4>1. PICK q \in Phases : log' = Append(log, <<q, "header">>)
                BY <1>0, <3>1 DEF Writes
            <4>2. Has(q, "header")'
                <5>1. "header" \in Kinds
                    BY DEF Kinds
                <5> QED BY <1>0, <4>1, <5>1, Typed, HasAppend
            <4>3. Has("off", "header")' \/ Has("on", "header")'
                BY <4>2 DEF Phases
            <4> QED BY <4>3, NoneAssumption DEF SinkPhase
        <3>2. CASE Refuses(phase, "header")
            BY <1>0, <3>2, SinkPoisoned DEF Refuses
        <3> QED BY <2>1, <3>1, <3>2
    <2> QED BY <1>0, <2>1, <2>2, <2>3, <2>4, <2>5, Recording
<1>3. CASE Candidate
    <2>1. /\ pc = "candidate" /\ pc' \in {"advise", "transition", "abort"}
          /\ Writes(phase, "candidate") \/ Refuses(phase, "candidate")
          /\ ending' \in {ending, "unexpected"}
          /\ UNCHANGED <<sampler, path, phase, child, mode, finalised, check, failed, outcome,
                         cancels>>
        BY <1>3 DEF Candidate, WindowEnds, verdict
    <2>2. Recorded /\ SinkKept /\ faults' \in 0..MaxFaults
        BY <1>0, <1>1, <2>1, RecordFacts
    <2>3. Forward /\ pc' \notin ChildPcs
        BY <2>1 DEF Forward, Before, After, Pcs, Awaits, ChildPcs
    <2>4. CoroutineTyped
        BY <1>0, <2>1, <2>2, <2>3, Typed DEF CoroutineTyped, Forward
    <2> QED BY <1>0, <2>1, <2>2, <2>3, <2>4, Recording
<1>4. CASE ReadReturns
    <2>1. /\ pc = "reading" /\ pc' \in {"hosting", "settle", "abort"}
          /\ ending' \in {ending, "unexpected", "aborted"}
          /\ failed' \in {failed, TRUE}
          /\ \/ Writes(phase, "tick")
             \/ Refuses(phase, "tick")
             \/ Fault /\ log' = log /\ sink' = sink
             \/ Fault /\ Usable /\ log' = Append(log, <<phase, "tick">>) /\ sink' = sink
          /\ UNCHANGED <<sampler, path, phase, child, mode, finalised, check, outcome, cancels>>
        BY <1>4 DEF ReadReturns, WindowEnds, verdict, Admits
    <2>2. Recorded /\ SinkKept /\ faults' \in 0..MaxFaults
        <3>1. CASE Writes(phase, "tick") \/ Refuses(phase, "tick")
            BY <1>0, <1>1, <3>1, RecordFacts
        <3>2. CASE Fault /\ log' = log /\ sink' = sink
            BY <1>0, <3>2, Typed, FaultTyped DEF Recorded, SinkKept
        <3>3. CASE Fault /\ Usable /\ log' = Append(log, <<phase, "tick">>) /\ sink' = sink
            BY <1>0, <1>1, <3>3, Typed, FaultTyped DEF Recorded, SinkKept, Usable
        <3> QED BY <2>1, <3>1, <3>2, <3>3
    <2>3. Forward /\ pc' \notin ChildPcs
        BY <2>1 DEF Forward, Before, After, Pcs, Awaits, ChildPcs
    <2>4. CoroutineTyped
        <3>1. failed' \in BOOLEAN
            BY <1>0, <2>1, Typed
        <3>2. /\ pc' \in Pcs /\ mode' \in {"running", "teardown", "recovering", "unwinding"}
              /\ ending' \in {None, "elapsed", "aborted", "unexpected", "refused", "cancelled"}
            BY <1>0, <2>1, <2>3, Typed DEF Forward
        <3> QED BY <1>0, <2>1, <2>2, <3>1, <3>2, Typed DEF CoroutineTyped
    <2> QED BY <1>0, <2>1, <2>2, <2>3, <2>4, Recording
<1>5. CASE HostReturns
    <2>1. /\ pc = "hosting" /\ pc' \in {"sleeping", "settle", "abort"}
          /\ ending' \in {ending, "unexpected", "aborted"}
          /\ \/ Writes(phase, "host")
             \/ Refuses(phase, "host")
             \/ Fault /\ log' = log /\ sink' = sink
          /\ UNCHANGED <<sampler, path, phase, child, mode, finalised, check, failed, outcome,
                         cancels>>
        BY <1>5 DEF HostReturns, WindowEnds, verdict
    <2>2. Recorded /\ SinkKept /\ faults' \in 0..MaxFaults
        <3>1. CASE Writes(phase, "host") \/ Refuses(phase, "host")
            BY <1>0, <1>1, <3>1, RecordFacts
        <3>2. CASE Fault /\ log' = log /\ sink' = sink
            BY <1>0, <3>2, Typed, FaultTyped DEF Recorded, SinkKept
        <3> QED BY <2>1, <3>1, <3>2
    <2>3. Forward /\ pc' \notin ChildPcs
        BY <2>1 DEF Forward, Before, After, Pcs, Awaits, ChildPcs
    <2>4. CoroutineTyped
        BY <1>0, <2>1, <2>2, <2>3, Typed DEF CoroutineTyped, Forward
    <2> QED BY <1>0, <2>1, <2>2, <2>3, <2>4, Recording
<1>6. CASE RecordAbort
    <2>1. /\ pc = "abort" /\ pc' \in {"unwind", "settle"}
          /\ \/ Writes(phase, "abort")
             \/ Refuses(phase, "abort")
             \/ Fault /\ log' = log /\ sink' = sink
          /\ UNCHANGED <<sampler, path, phase, child, mode, ending, finalised, check, failed,
                         outcome, cancels>>
        BY <1>6 DEF RecordAbort, verdict
    <2>2. Recorded /\ SinkKept /\ faults' \in 0..MaxFaults
        <3>1. CASE Writes(phase, "abort") \/ Refuses(phase, "abort")
            BY <1>0, <1>1, <3>1, RecordFacts
        <3>2. CASE Fault /\ log' = log /\ sink' = sink
            BY <1>0, <3>2, Typed, FaultTyped DEF Recorded, SinkKept
        <3> QED BY <2>1, <3>1, <3>2
    <2>3. Forward /\ pc' \notin ChildPcs
        BY <2>1 DEF Forward, Before, After, Pcs, Awaits, ChildPcs
    <2>4. CoroutineTyped
        BY <1>0, <2>1, <2>2, <2>3, Typed DEF CoroutineTyped, Forward
    <2> QED BY <1>0, <2>1, <2>2, <2>3, <2>4, Recording
<1>7. CASE FinalisationRecord
    <2>1. /\ pc = "finalised" /\ pc' = "returned"
          /\ failed' \in {failed, TRUE} /\ finalised' \in {finalised, "not_retained"}
          /\ \/ Writes(phase, "finalisation")
             \/ Refuses(phase, "finalisation")
             \/ Fault /\ log' = log /\ sink' = sink
          /\ UNCHANGED <<sampler, path, phase, child, mode, ending, check, outcome, cancels>>
        BY <1>7 DEF FinalisationRecord, verdict
    <2>2. Recorded /\ SinkKept /\ faults' \in 0..MaxFaults
        <3>1. CASE Writes(phase, "finalisation") \/ Refuses(phase, "finalisation")
            BY <1>0, <1>1, <3>1, RecordFacts
        <3>2. CASE Fault /\ log' = log /\ sink' = sink
            BY <1>0, <3>2, Typed, FaultTyped DEF Recorded, SinkKept
        <3> QED BY <2>1, <3>1, <3>2
    <2>3. Forward /\ pc' \notin ChildPcs
        BY <2>1 DEF Forward, Before, After, Pcs, Awaits, ChildPcs
    <2>4. finalised' \in {"clean", "not_clean", "no_result", "not_retained"}
        BY <1>0, <2>1 DEF Headed
    <2>5. CoroutineTyped
        <3>1. failed' \in BOOLEAN
            BY <1>0, <2>1, Typed
        <3>2. /\ pc' \in Pcs /\ mode' \in {"running", "teardown", "recovering", "unwinding"}
              /\ ending' \in {None, "elapsed", "aborted", "unexpected", "refused", "cancelled"}
            BY <1>0, <2>1, <2>3, Typed DEF Forward
        <3> QED BY <1>0, <2>1, <2>2, <2>4, <3>1, <3>2, Typed DEF CoroutineTyped
    <2> QED BY <1>0, <2>1, <2>2, <2>3, <2>4, <2>5, Recording
<1> QED BY <1>2, <1>3, <1>4, <1>5, <1>6, <1>7

\* A lifecycle record but the terminal one, written or not.
LEMMA LifecycleRecord ==
    ASSUME TypeOK, Headed, pc # "header", NEW k \in Lifecycles \ Terminals,
           NEW w, NEW m, NEW r, Lifecycle(k, w, m, r)
    PROVE  /\ Recorded /\ SinkKept
           /\ pc' \in {w, m, r} /\ failed' \in BOOLEAN /\ faults' \in 0..MaxFaults
<1>1. k \in Plain /\ k \in Kinds
    BY DEF Plain, Kinds, Lifecycles, Answers, Terminals
<1>2. /\ pc' \in {w, m, r} /\ sink' \in SinkType
      /\ sink'.sealed = sink.sealed /\ sink'.open = sink.open
      /\ sink.poisoned => sink'.poisoned
      /\ \/ log' = log
         \/ Usable /\ SinkPhase \in Phases /\ log' = Append(log, <<SinkPhase, k>>)
      /\ failed' \in BOOLEAN /\ faults' \in 0..MaxFaults
    BY <1>1, LifecycleFacts
<1>3. Recorded
    BY <1>1, <1>2 DEF Recorded
<1>4. SinkKept
    <2>1. sink.poisoned \in BOOLEAN /\ sink'.poisoned \in BOOLEAN
        BY <1>2, Typed DEF SinkType
    <2> QED BY <1>2, <2>1 DEF SinkKept
<1> QED BY <1>2, <1>3, <1>4

LEMMA LifecycleSteps ==
    ASSUME IInv,
           ChildStarted \/ Activated \/ Transition \/ Elapsed \/ NotFinalised
           \/ FinalisationReturned \/ ChildStopped
    PROVE  Step
<1>0. TypeOK /\ ChildSide /\ Headed /\ phase \in Phases
    BY Typed DEF IInv
<1>1. Raised \in {"contain", "recover"}
    BY DEF Raised
<1>2. CASE ChildStarted
    <2>1. PICK k \in {"started", "start_failed"}, w \in {"checked_respawn", "teardown"} :
             Lifecycle(k, w, "teardown", Raised)
        BY <1>2 DEF ChildStarted
    <2>2. /\ pc = "child_started"
          /\ UNCHANGED <<sampler, path, phase, child, mode, ending, finalised, check, outcome,
                         cancels>>
        BY <1>2 DEF ChildStarted, verdict
    <2>3. k \in Lifecycles \ Terminals
        BY DEF Lifecycles, Terminals
    <2>4. /\ Recorded /\ SinkKept
          /\ pc' \in {w, "teardown", Raised} /\ failed' \in BOOLEAN /\ faults' \in 0..MaxFaults
        BY <1>0, <2>1, <2>2, <2>3, LifecycleRecord
    <2>5. Forward /\ pc' \notin ChildPcs \cup {"finalised", "returned"}
        BY <1>1, <2>2, <2>4 DEF Forward, Before, After, Pcs, Awaits, AfterCheckpoint, ChildPcs
    <2>6. CoroutineTyped
        BY <1>0, <2>2, <2>4, <2>5, Typed DEF CoroutineTyped, Forward
    <2> QED BY <1>0, <2>2, <2>4, <2>5, <2>6, Recording
<1>3. CASE Activated
    <2>1. /\ Lifecycle("activated", "candidate", "abort", "abort")
          /\ pc = "activated" /\ ending' \in {ending, "unexpected"}
          /\ UNCHANGED <<sampler, path, phase, child, mode, finalised, check, outcome, cancels>>
        BY <1>3 DEF Activated, verdict
    <2>2. "activated" \in Lifecycles \ Terminals
        BY DEF Lifecycles, Terminals
    <2>3. /\ Recorded /\ SinkKept
          /\ pc' \in {"candidate", "abort"} /\ failed' \in BOOLEAN /\ faults' \in 0..MaxFaults
        BY <1>0, <2>1, <2>2, LifecycleRecord
    <2>4. Forward /\ pc' \notin ChildPcs \cup {"finalised", "returned"}
        BY <2>1, <2>3 DEF Forward, Before, After, Pcs, Awaits, ChildPcs
    <2>5. CoroutineTyped
        BY <1>0, <2>1, <2>3, <2>4, Typed DEF CoroutineTyped, Forward
    <2> QED BY <1>0, <2>1, <2>3, <2>4, <2>5, Recording
<1>4. CASE Transition
    <2>1. /\ Lifecycle("transition", "in_budget", "abort", "abort")
          /\ pc = "transition" /\ ending' \in {ending, "unexpected"}
          /\ UNCHANGED <<sampler, path, phase, child, mode, finalised, check, outcome, cancels>>
        BY <1>4 DEF Transition, verdict
    <2>2. "transition" \in Lifecycles \ Terminals
        BY DEF Lifecycles, Terminals
    <2>3. /\ Recorded /\ SinkKept
          /\ pc' \in {"in_budget", "abort"} /\ failed' \in BOOLEAN /\ faults' \in 0..MaxFaults
        BY <1>0, <2>1, <2>2, LifecycleRecord
    <2>4. Forward /\ pc' \notin ChildPcs \cup {"finalised", "returned"}
        BY <2>1, <2>3 DEF Forward, Before, After, Pcs, Awaits, ChildPcs
    <2>5. CoroutineTyped
        BY <1>0, <2>1, <2>3, <2>4, Typed DEF CoroutineTyped, Forward
    <2> QED BY <1>0, <2>1, <2>3, <2>4, <2>5, Recording
<1>5. CASE Elapsed
    <2>1. /\ pc = "elapsed"
          /\ UNCHANGED <<sampler, path, phase, child, mode, ending, finalised, check, outcome,
                         cancels>>
        BY <1>5 DEF Elapsed, verdict
    <2>2. /\ Recorded /\ SinkKept
          /\ pc' \in {"checked_window", "finalising", "teardown", "contain", "recover",
                      "not_finalised"}
          /\ failed' \in BOOLEAN /\ faults' \in 0..MaxFaults
        <3>1. CASE Fault /\ pc' = "not_finalised" /\ UNCHANGED <<failed, log, sink>>
            BY <1>0, <3>1, Typed, FaultTyped DEF Recorded, SinkKept
        <3>2. ASSUME NEW w \in {"checked_window", "finalising"},
                     Lifecycle("elapsed", w, "teardown", Raised)
              PROVE  <2>2
            <4>1. "elapsed" \in Lifecycles \ Terminals
                BY DEF Lifecycles, Terminals
            <4>2. /\ Recorded /\ SinkKept
                  /\ pc' \in {w, "teardown", Raised}
                  /\ failed' \in BOOLEAN /\ faults' \in 0..MaxFaults
                BY <1>0, <2>1, <3>2, <4>1, LifecycleRecord
            <4> QED BY <1>1, <4>2
        <3> QED BY <1>5, <3>1, <3>2 DEF Elapsed
    <2>3. Forward /\ pc' \notin ChildPcs \cup {"finalised", "returned"}
        BY <2>1, <2>2 DEF Forward, Before, After, Pcs, Awaits, AfterCheckpoint, ChildPcs
    <2>4. CoroutineTyped
        BY <1>0, <2>1, <2>2, <2>3, Typed DEF CoroutineTyped, Forward
    <2> QED BY <1>0, <2>1, <2>2, <2>3, <2>4, Recording
<1>6. CASE NotFinalised
    <2>1. /\ pc = "not_finalised"
          /\ UNCHANGED <<sampler, path, phase, child, mode, ending, finalised, check, outcome,
                         cancels>>
        BY <1>6 DEF NotFinalised, verdict
    <2>2. /\ Recorded /\ SinkKept
          /\ pc' \in {"teardown", "contain", "recover", "not_finalised"}
          /\ failed' \in BOOLEAN /\ faults' \in 0..MaxFaults
        <3>1. CASE failed' = TRUE /\ UNCHANGED <<pc, log, sink, faults>>
            BY <1>0, <2>1, <3>1, Typed DEF Recorded, SinkKept
        <3>2. CASE Lifecycle("not_finalised", "teardown", "teardown", Raised)
            <4>1. "not_finalised" \in Lifecycles \ Terminals
                BY DEF Lifecycles, Terminals
            <4>2. /\ Recorded /\ SinkKept
                  /\ pc' \in {"teardown", Raised}
                  /\ failed' \in BOOLEAN /\ faults' \in 0..MaxFaults
                BY <1>0, <2>1, <3>2, <4>1, LifecycleRecord
            <4> QED BY <1>1, <4>2
        <3> QED BY <1>6, <3>1, <3>2 DEF NotFinalised
    <2>3. Forward /\ pc' \notin ChildPcs \cup {"finalised", "returned"}
        BY <2>1, <2>2 DEF Forward, Before, After, Pcs, Awaits, AfterCheckpoint, ChildPcs
    <2>4. CoroutineTyped
        BY <1>0, <2>1, <2>2, <2>3, Typed DEF CoroutineTyped, Forward
    <2> QED BY <1>0, <2>1, <2>2, <2>3, <2>4, Recording
<1>7. CASE FinalisationReturned
    <2>1. PICK w \in {"teardown", "stopping", "checked_finalisation"} :
             Lifecycle(finalised, w, "teardown", Raised)
        BY <1>7 DEF FinalisationReturned
    <2>2. /\ pc = "returned"
          /\ UNCHANGED <<sampler, path, phase, child, mode, ending, finalised, check, outcome,
                         cancels>>
        BY <1>7 DEF FinalisationReturned, verdict
    <2>3. finalised \in Lifecycles \ Terminals
        BY <1>0, <2>2 DEF Headed, Lifecycles, Terminals
    <2>4. /\ Recorded /\ SinkKept
          /\ pc' \in {w, "teardown", Raised} /\ failed' \in BOOLEAN /\ faults' \in 0..MaxFaults
        BY <1>0, <2>1, <2>2, <2>3, LifecycleRecord
    <2>5. Forward /\ pc' \notin ChildPcs \cup {"finalised", "returned"}
        BY <1>1, <2>2, <2>4 DEF Forward, Before, After, Pcs, Awaits, AfterCheckpoint, ChildPcs
    <2>6. CoroutineTyped
        BY <1>0, <2>2, <2>4, <2>5, Typed DEF CoroutineTyped, Forward
    <2> QED BY <1>0, <2>2, <2>4, <2>5, <2>6, Recording
<1>8. CASE ChildStopped
    <2>1. PICK k \in {"stopped", "stop_unconfirmed"}, w \in {"checked_stop", "teardown"} :
             /\ Lifecycle(k, w, "teardown", Raised)
             /\ w = "checked_stop" => child.state = "stopped" /\ phase = "off"
        BY <1>8 DEF ChildStopped
    <2>2. /\ pc = "stopped"
          /\ UNCHANGED <<sampler, path, phase, child, mode, ending, finalised, check, outcome,
                         cancels>>
        BY <1>8 DEF ChildStopped, verdict
    <2>3. k \in Lifecycles \ Terminals
        BY DEF Lifecycles, Terminals
    <2>4. /\ Recorded /\ SinkKept
          /\ pc' \in {w, "teardown", Raised} /\ failed' \in BOOLEAN /\ faults' \in 0..MaxFaults
        BY <1>0, <2>1, <2>2, <2>3, LifecycleRecord
    <2>5. Forward /\ pc' \notin (ChildPcs \ {"checked_stop"}) \cup {"finalised", "returned"}
        BY <1>1, <2>2, <2>4 DEF Forward, Before, After, Pcs, Awaits, AfterCheckpoint, ChildPcs
    <2>6. CoroutineTyped
        BY <1>0, <2>2, <2>4, <2>5, Typed DEF CoroutineTyped, Forward
    <2>7. child' \in ChildType /\ ChildSide'
        <3>1. CASE pc' = "checked_stop"
            <4>1. child.state = "stopped" /\ phase = "off"
                BY <1>1, <2>1, <2>4, <3>1
            <4> QED BY <1>0, <2>2, <3>1, <4>1, Typed DEF ChildSide
        <3>2. CASE pc' # "checked_stop"
            BY <1>0, <2>2, <2>5, <3>2, ChildKept DEF ChildPcs
        <3> QED BY <3>1, <3>2
    <2> QED BY <2>2, <2>4, <2>5, <2>6, <2>7 DEF Step, Ordinary, Forward
<1> QED BY <1>2, <1>3, <1>4, <1>5, <1>6, <1>7, <1>8

\* The steps on the child.
LEMMA StopFacts ==
    ASSUME TypeOK, ChildSide, NeedsStop \/ pc = "stopping", ChildStops
    PROVE  /\ child' \in ChildType /\ faults' \in 0..MaxFaults
           /\ child'.state = "stopped" => ~child'.alive
           /\ child'.state \notin {"none", "starting", "running"}
           /\ child'.state = "interrupted" => child'.cleaned
<1>1. child \in ChildType
    BY Typed
<1>2. CASE /\ faults' = faults
           /\ child' = [StoppedOrNot(child, TRUE) EXCEPT !.alive = FALSE]
    <2>1. CASE child.state = "interrupted"
        BY <1>1, <1>2, <2>1, FaultTyped DEF StoppedOrNot, ChildType
    <2>2. CASE child.state # "interrupted"
        BY <1>1, <1>2, <2>2, FaultTyped DEF StoppedOrNot, ChildType
    <2> QED BY <2>1, <2>2
<1>3. ASSUME Fault, NEW a \in BOOLEAN,
             child' = [StoppedOrNot(child, FALSE) EXCEPT !.alive = (child.alive /\ a)]
      PROVE  /\ child' \in ChildType /\ faults' \in 0..MaxFaults
             /\ child'.state \in {"interrupted", "unconfirmed"}
             /\ child'.state = "interrupted" => child'.cleaned
    <2>0. faults' \in 0..MaxFaults /\ (child.alive /\ a) \in BOOLEAN
        BY <1>3, FaultTyped
    <2>1. CASE child.state = "interrupted"
        BY <1>1, <1>3, <2>0, <2>1 DEF StoppedOrNot, ChildType
    <2>2. CASE child.state # "interrupted"
        BY <1>1, <1>3, <2>0, <2>2 DEF StoppedOrNot, ChildType
    <2> QED BY <2>0, <2>1, <2>2
<1> QED BY <1>2, <1>3 DEF ChildStops

LEMMA CheckedTyped ==
    ASSUME TypeOK PROVE Checked \in BOOLEAN \cup {None}
<1>1. check \in BOOLEAN \cup {None}
    BY Typed
<1>2. Outstanding(sampler[phase]) \in BOOLEAN
    BY DEF Outstanding
<1>3. CASE path = "none" \/ check # None
    BY <1>1, <1>3 DEF Checked
<1>4. CASE ~(path = "none" \/ check # None)
    BY <1>2, <1>4 DEF Checked
<1> QED BY <1>3, <1>4

\* A step that only moves the coroutine and its child.
LEMMA ChildMoves ==
    ASSUME TypeOK, CoroutineTyped, Forward, pc # "header",
           UNCHANGED <<log, sink, sampler, path, phase>>,
           pc' \notin {"finalised", "returned"}, child' \in ChildType, ChildSide'
    PROVE  Step
<1>1. Recorded /\ SinkKept
    BY Typed DEF Recorded, SinkKept
<1> QED BY <1>1 DEF Step, Ordinary, Forward

LEMMA ChildSteps ==
    ASSUME IInv, Configure \/ StartReturns \/ StopReturns \/ CleanupEnds \/ Cancel
    PROVE  Step
<1>0. TypeOK /\ ChildSide /\ Headed /\ child \in ChildType
    BY Typed DEF IInv
<1>1. CASE Configure
    <2>1. /\ pc = "configure"
          /\ \/ pc' = "starting" /\ child' = [child EXCEPT !.state = "starting"]
             \/ pc' = "ended" /\ child' = child
          /\ outcome' \in {outcome, "refused"} /\ (Fault \/ faults' = faults)
          /\ UNCHANGED <<log, sink, sampler, path, phase, mode, ending, finalised, check, failed,
                         cancels>>
        BY <1>1 DEF Configure, Ends
    <2>2. Forward
        BY <2>1 DEF Forward, Before, After, Pcs, Awaits
    <2>3. CoroutineTyped
        BY <1>0, <2>1, <2>2, Typed, FaultTyped DEF CoroutineTyped, Forward
    <2>4. child' \in ChildType /\ ChildSide'
        BY <1>0, <2>1 DEF ChildSide, ChildType, NeedsStop
    <2> QED BY <1>0, <2>1, <2>2, <2>3, <2>4, ChildMoves
<1>2. CASE StartReturns
    <2>1. /\ pc = "starting" /\ pc' \in {"freezing", "child_started", "teardown"}
          /\ Fault \/ faults' = faults
          /\ \/ child' = [child EXCEPT !.state = "running", !.alive = TRUE]
             \/ \E a \in BOOLEAN : child' = [child EXCEPT !.alive = a]
          /\ UNCHANGED <<log, sink, sampler, path, phase, mode, ending, finalised, check, outcome,
                         cancels>>
        BY <1>2 DEF StartReturns, verdict
    <2>2. failed' \in BOOLEAN
        <3>1. failed \in BOOLEAN
            BY <1>0, Typed
        <3> QED BY <1>2, <3>1 DEF StartReturns
    <2>3. Forward
        BY <2>1 DEF Forward, Before, After, Pcs, Awaits
    <2>4. CoroutineTyped
        BY <1>0, <2>1, <2>2, <2>3, Typed, FaultTyped DEF CoroutineTyped, Forward
    <2>5. child' \in ChildType /\ child'.state \in {"starting", "running"}
        BY <1>0, <2>1 DEF ChildSide, ChildType
    <2>6. ChildSide'
        BY <2>1, <2>5 DEF ChildSide
    <2> QED BY <1>0, <2>1, <2>3, <2>4, <2>5, <2>6, ChildMoves
<1>3. CASE StopReturns
    <2>1. /\ pc = "stopping" /\ pc' \in {"stopped", "ended"}
          /\ ChildStops /\ outcome' \in {outcome, "refused"}
          /\ UNCHANGED <<log, sink, sampler, path, phase, mode, ending, finalised, check, cancels>>
        BY <1>3 DEF StopReturns, Ends
    <2>2. failed' \in BOOLEAN
        <3>1. failed \in BOOLEAN
            BY <1>0, Typed
        <3> QED BY <1>3, <3>1 DEF StopReturns
    <2>3. Forward
        BY <2>1 DEF Forward, Before, After, Pcs, Awaits
    <2>4. /\ child' \in ChildType /\ faults' \in 0..MaxFaults
          /\ child'.state = "stopped" => ~child'.alive
          /\ child'.state \notin {"none", "starting", "running"}
          /\ child'.state = "interrupted" => child'.cleaned
        BY <1>0, <2>1, StopFacts
    <2>5. CoroutineTyped
        BY <1>0, <2>1, <2>2, <2>3, <2>4, Typed DEF CoroutineTyped, Forward
    <2>6. ChildSide'
        BY <2>1, <2>4 DEF ChildSide, NeedsStop
    <2> QED BY <1>0, <2>1, <2>3, <2>4, <2>5, <2>6, ChildMoves
<1>4. CASE CleanupEnds
    <2>1. /\ pc = "cleanup" /\ pc' = "ended"
          /\ IF NeedsStop THEN ChildStops ELSE UNCHANGED <<child, faults>>
          /\ outcome' \in {"raised", "not_sealed"}
          /\ check' = check \/ check' = Checked
          /\ UNCHANGED <<log, sink, sampler, path, phase, mode, ending, finalised, failed, cancels>>
        BY <1>4 DEF CleanupEnds, Ends
    <2>2. check' \in BOOLEAN \cup {None}
        BY <1>0, <2>1, CheckedTyped, Typed
    <2>3. Forward
        BY <2>1 DEF Forward, Before, After, Pcs
    <2>4. /\ child' \in ChildType /\ faults' \in 0..MaxFaults
          /\ child'.state = "stopped" => ~child'.alive
          /\ child'.state \notin {"starting", "running"}
          /\ child'.state = "interrupted" => child'.cleaned
        <3>1. CASE NeedsStop
            BY <1>0, <2>1, <3>1, StopFacts
        <3>2. CASE ~NeedsStop
            BY <1>0, <2>1, <3>2, Typed DEF ChildSide, NeedsStop, ChildType
        <3> QED BY <3>1, <3>2
    <2>5. CoroutineTyped
        BY <1>0, <2>1, <2>2, <2>3, <2>4, Typed DEF CoroutineTyped, Forward
    <2>6. ChildSide'
        BY <2>1, <2>4 DEF ChildSide, NeedsStop
    <2> QED BY <1>0, <2>1, <2>3, <2>4, <2>5, <2>6, ChildMoves
<1>5. CASE Cancel
    <2>1. PICK a \in BOOLEAN :
             child' = CASE pc = "starting" -> [child EXCEPT !.alive = a]
                        [] pc = "stopping" -> [child EXCEPT !.state = "interrupted",
                                                            !.alive = (@ /\ a)]
                        [] OTHER -> child
        BY <1>5 DEF Cancel
    <2>2. /\ pc \in Awaits /\ cancels < MaxCancels /\ cancels' = cancels + 1
          /\ pc' = IF pc \in EngineAwaits THEN "abort" ELSE IF pc = "cleanup" THEN pc ELSE "unwind"
          /\ ending' \in {ending, "cancelled"} /\ mode' \in {mode, "unwinding"}
          /\ UNCHANGED <<log, sink, sampler, path, phase, finalised, failed, check, outcome, faults>>
        BY <1>5 DEF Cancel, verdict
    <2>3. Forward /\ pc # "header" /\ pc' \notin ChildPcs \cup {"finalised", "returned"}
        BY <2>2 DEF Forward, Before, After, Pcs, Awaits, ChildPcs
    <2>4. cancels' \in 0..MaxCancels
        BY <1>0, <2>2, ColdRunAssumption, Typed
    <2>5. CoroutineTyped
        BY <1>0, <2>2, <2>3, <2>4, Typed DEF CoroutineTyped, Forward
    <2>6. child' \in ChildType /\ ChildSide'
        <3>1. CASE pc = "starting"
            <4>1. child' = [child EXCEPT !.alive = a]
                BY <2>1, <3>1
            <4> QED BY <1>0, <2>3, <3>1, <4>1 DEF ChildSide, ChildType, ChildPcs
        <3>2. CASE pc = "stopping"
            <4>1. child' = [child EXCEPT !.state = "interrupted", !.alive = (child.alive /\ a)]
                BY <2>1, <3>2
            <4>2. (child.alive /\ a) \in BOOLEAN
                OBVIOUS
            <4> QED BY <1>0, <2>3, <4>1, <4>2 DEF ChildSide, ChildType, ChildPcs
        <3>3. CASE pc \notin {"starting", "stopping"}
            BY <1>0, <2>1, <2>2, <2>3, <3>3, ChildKept
        <3> QED BY <3>1, <3>2, <3>3
    <2> QED BY <1>0, <2>2, <2>3, <2>5, <2>6, ChildMoves
<1> QED BY <1>1, <1>2, <1>3, <1>4, <1>5

-----------------------------------------------------------------------------
(* What an ordinary step leaves of the invariant.                          *)

LEMMA NeutralKeeps ==
    ASSUME TypeOK, NEW p \in Phases,
           \/ log' = log
           \/ \E q \in Phases, k \in Kinds \ ({"intent"} \cup Answers) : log' = Append(log, <<q, k>>)
    PROVE  /\ Count(p, {"intent"})' = Count(p, {"intent"})
           /\ Count(p, Answers)' = Count(p, Answers)
<1>1. CASE log' = log
    BY <1>1 DEF Count
<1>2. ASSUME NEW q \in Phases, NEW k \in Kinds \ ({"intent"} \cup Answers),
             log' = Append(log, <<q, k>>)
      PROVE  /\ Count(p, {"intent"})' = Count(p, {"intent"})
             /\ Count(p, Answers)' = Count(p, Answers)
    <2>1. k \in Kinds /\ k \notin {"intent"} /\ k \notin Answers
        OBVIOUS
    <2>2. /\ Count(p, {"intent"}) \in Nat
          /\ Count(p, {"intent"})' = Count(p, {"intent"}) + 0
        BY <1>2, <2>1, Typed, CountAppend
    <2>3. Count(p, Answers) \in Nat /\ Count(p, Answers)' = Count(p, Answers) + 0
        BY <1>2, <2>1, Typed, CountAppend
    <2> QED BY <2>2, <2>3
<1> QED BY <1>1, <1>2

LEMMA PlainKeeps ==
    ASSUME TypeOK, Recorded, NEW p \in Phases
    PROVE  /\ Count(p, {"intent"})' = Count(p, {"intent"})
           /\ Count(p, Answers)' = Count(p, Answers)
BY NeutralKeeps DEF Recorded, Plain

\* A record that is no terminal leaves the evidence without one.
LEMMA PlainEnds ==
    ASSUME TypeOK, Terminates, sink'.sealed = sink.sealed,
           \/ log' = log
           \/ \E q \in Phases, k \in Kinds \ Terminals :
                 Usable /\ log' = Append(log, <<q, k>>)
    PROVE  Terminates'
<1>1. CASE log' = log
    <2>1. \A p : Count(p, {"intent"})' = Count(p, {"intent"}) /\ Count(p, Answers)' = Count(p, Answers)
        BY <1>1 DEF Count
    <2>2. Terminated' = Terminated /\ Last(log)' = Last(log)
        BY <1>1 DEF Terminated, Last
    <2> QED BY <1>1, <2>1, <2>2 DEF Terminates
<1>2. ASSUME NEW q \in Phases, NEW k \in Kinds \ Terminals, Usable, log' = Append(log, <<q, k>>)
      PROVE  Terminates'
    <2>1. k \in Kinds /\ k \notin Terminals /\ ~Terminated
        BY <1>2 DEF Usable
    <2>2. /\ \A i \in DOMAIN log' : log'[i][2] \in Terminals => i = Len(log')
          /\ ~Terminated'
        BY <1>2, <2>1, Typed, TerminalAppend
    <2>3. ~sink'.sealed
        BY <2>1 DEF Terminates
    <2> QED BY <2>2, <2>3 DEF Terminates
<1> QED BY <1>1, <1>2

LEMMA StepKeeps ==
    ASSUME IInv, Step
    PROVE  IInv'
<1>0. TypeOK /\ Headed /\ ChildSide /\ Attempts /\ Windows /\ Terminates
    BY DEF IInv
<1>1. /\ Recorded /\ SinkKept /\ CoroutineTyped
      /\ sampler' = sampler /\ path' = path /\ phase' = phase
      /\ pc' \in Before => pc \in Before
      /\ pc' \in After => pc \in Before \cup After
      /\ pc' \in {"finalised", "returned"} =>
           finalised' \in {"clean", "not_clean", "no_result", "not_retained"}
      /\ child' \in ChildType /\ ChildSide'
      /\ pc # "header" \/ SinkPhase' # None \/ sink'.poisoned
    BY DEF Step, Ordinary
<1>2. TypeOK'
    <2>1. log' \in Logs /\ sink' \in SinkType
        BY <1>0, <1>1, RecordedTyped DEF SinkKept
    <2> QED BY <1>0, <1>1, <2>1, Typed, TypesFrom
<1>3. Headed'
    <2>1. ASSUME sink'.open, ~sink'.poisoned, pc' # "header"
          PROVE  SinkPhase' # None
        <3>1. CASE pc = "header"
            BY <1>1, <2>1, <3>1
        <3>2. CASE pc # "header"
            <4>1. SinkPhase # None
                BY <1>0, <1>1, <2>1, <3>2 DEF SinkKept, Headed
            <4>2. CASE log' = log
                BY <4>1, <4>2 DEF SinkPhase, Has
            <4>3. ASSUME NEW q \in Phases, NEW k \in Plain, log' = Append(log, <<q, k>>)
                  PROVE  SinkPhase' # None
                <5>1. k \in Kinds
                    BY DEF Plain
                <5> QED BY <1>0, <4>1, <4>3, <5>1, Typed, HasAppend
            <4> QED BY <1>1, <4>2, <4>3 DEF Recorded
        <3> QED BY <3>1, <3>2
    <2> QED BY <1>1, <2>1 DEF Headed
<1>4. Attempts'
    <2>1. \A p \in Phases : /\ Count(p, {"intent"})' = Count(p, {"intent"})
                            /\ Count(p, Answers)' = Count(p, Answers)
        BY <1>0, <1>1, PlainKeeps
    <2> QED BY <1>0, <1>1, <2>1 DEF Attempts, Attempt, Settled
<1>5. Windows'
    BY <1>0, <1>1 DEF Windows, Quiet, Started, Settled
<1>6. Terminates'
    BY <1>0, <1>1, PlainEnds DEF SinkKept, Recorded, Plain
<1> QED BY <1>1, <1>2, <1>3, <1>4, <1>5, <1>6 DEF IInv

-----------------------------------------------------------------------------
(* The steps that settle, advise, advance or end.                          *)

\* The window's sampler starts, or the start of its advice is refused.
LEMMA AdviseKeeps == ASSUME IInv, Advise PROVE IInv'
<1>0. TypeOK /\ Headed /\ ChildSide /\ Attempts /\ Windows /\ Terminates
    BY DEF IInv
<1>1. PICK v \in {"due", "refused"} :
         /\ sampler' = [sampler EXCEPT ![phase].run = v]
         /\ Fault \/ faults' = faults
    BY DEF Advise
<1>2. /\ pc = "advise" /\ pc' = "sleeping"
      /\ UNCHANGED <<mode, phase, ending, finalised, failed, path, check, outcome, log, sink, child,
                     cancels>>
    BY DEF Advise, verdict
<1>3. ~Started(phase) /\ path = "none" /\ phase \in Phases /\ sampler \in [Phases -> SamplerType]
    BY <1>0, <1>2, Typed DEF Windows, Before
<1>4. /\ sampler' \in [Phases -> SamplerType]
      /\ sampler'[phase].run = v /\ sampler'[phase].open = sampler[phase].open
      /\ sampler'[phase].closure = sampler[phase].closure
      /\ \A p \in Phases : p # phase => sampler'[p] = sampler[p]
    BY <1>1, <1>3 DEF SamplerType
<1>5. ~sampler[phase].open /\ ~Settled(phase)
    <2>1. sampler[phase].run = "none"
        BY <1>3 DEF Started
    <2> QED BY <1>0, <1>3, <2>1 DEF Attempts, Attempt
<1>6. TypeOK'
    <2>1. pc' \in Pcs
        BY <1>2 DEF Pcs, Awaits
    <2>2. CoroutineTyped
        BY <1>0, <1>1, <1>2, <2>1, Typed, FaultTyped DEF CoroutineTyped
    <2> QED BY <1>0, <1>2, <1>4, <2>2, Typed, TypesFrom
<1>7. Headed' /\ ChildSide'
    <2>1. SinkPhase' = SinkPhase
        BY <1>2 DEF SinkPhase, Has
    <2> QED BY <1>0, <1>2, <2>1 DEF Headed, ChildSide, NeedsStop
<1>8. ASSUME NEW p \in Phases PROVE Attempt(p)'
    <2>1. /\ Count(p, {"intent"})' = Count(p, {"intent"})
          /\ Count(p, Answers)' = Count(p, Answers)
        BY <1>2 DEF Count
    <2>2. CASE p = phase
        BY <1>0, <1>1, <1>4, <1>5, <2>1, <2>2 DEF Attempts, Attempt, Settled
    <2>3. CASE p # phase
        BY <1>0, <1>2, <1>4, <2>1, <2>3 DEF Attempts, Attempt, Settled
    <2> QED BY <2>2, <2>3
<1>9. Windows'
    <2>1. \A p \in Phases : /\ Settled(p)' = Settled(p)
                            /\ p # phase => Started(p)' = Started(p)
        BY <1>4 DEF Settled, Started
    <2>2. pc' \notin Before \cup After
        BY <1>2 DEF Before, After
    <2> QED BY <1>0, <1>2, <1>3, <2>1, <2>2 DEF Windows, Phases, Quiet
<1>10. Terminates'
    BY <1>0, <1>2, PlainEnds
<1> QED BY <1>6, <1>7, <1>8, <1>9, <1>10 DEF IInv, Attempts

\* The sequence goes on to recording-on, or to the teardown.
LEMMA AdvanceKeeps == ASSUME IInv, Advance PROVE IInv'
<1>0. TypeOK /\ Headed /\ ChildSide /\ Attempts /\ Windows /\ Terminates
    BY DEF IInv
<1>1. /\ pc = "advance" /\ phase = "off" /\ (Fault \/ faults' = faults)
      /\ UNCHANGED <<mode, ending, finalised, path, check, outcome, log, sink, sampler, cancels>>
    BY <1>0 DEF Advance, verdict, ChildSide
<1>2. \/ /\ Settled("off") /\ path = "none"
         /\ phase' = "on" /\ pc' \in {"starting", "child_started"}
      \/ phase' = phase /\ pc' = "teardown"
    BY NoneAssumption DEF Advance, Settled
<1>3. \/ pc' = "starting" /\ child' = [child EXCEPT !.state = "starting"]
      \/ pc' # "starting" /\ child' = child
    BY DEF Advance
<1>4. failed' \in BOOLEAN
    BY <1>0, Typed DEF Advance
<1>5. phase' \in Phases /\ pc' \in Pcs
    BY <1>0, <1>2, Typed DEF Phases, Pcs, Awaits
<1>6. child' \in ChildType /\ ChildSide'
    <2>1. child.state = "stopped" /\ ~child.alive
        BY <1>0, <1>1 DEF ChildSide
    <2>2. CASE pc' = "starting"
        BY <1>0, <1>3, <2>1, <2>2, Typed DEF ChildSide, ChildType
    <2>3. CASE pc' # "starting"
        BY <1>0, <1>2, <1>3, <2>1, <2>3, Typed DEF ChildSide
    <2> QED BY <2>2, <2>3
<1>7. TypeOK'
    <2>1. CoroutineTyped
        BY <1>0, <1>1, <1>4, <1>5, Typed, FaultTyped DEF CoroutineTyped
    <2> QED BY <1>0, <1>1, <1>5, <1>6, <2>1, Typed, TypesFrom
<1>8. Headed'
    <2>1. SinkPhase' = SinkPhase
        BY <1>1 DEF SinkPhase, Has
    <2> QED BY <1>0, <1>1, <1>2, <2>1 DEF Headed
<1>9. Attempts'
    <2>1. \A p \in Phases : /\ Count(p, {"intent"})' = Count(p, {"intent"})
                            /\ Count(p, Answers)' = Count(p, Answers)
        BY <1>1 DEF Count
    <2> QED BY <1>0, <1>1, <2>1 DEF Attempts, Attempt, Settled
<1>10. Windows'
    <2>1. \A p : Settled(p)' = Settled(p) /\ Started(p)' = Started(p)
        BY <1>1 DEF Settled, Started
    <2>2. Quiet(phase)
        BY <1>0, <1>1 DEF Windows, After
    <2>3. CASE phase' = phase /\ pc' = "teardown"
        <3>1. pc' \notin Before
            BY <2>3 DEF Before
        <3> QED BY <1>0, <1>1, <2>1, <2>2, <2>3, <3>1 DEF Windows, Quiet
    <2>4. CASE /\ Settled("off") /\ path = "none"
               /\ phase' = "on" /\ pc' \in {"starting", "child_started"}
        BY <1>0, <1>1, <2>1, <2>4 DEF Windows, Quiet, After
    <2> QED BY <1>2, <2>3, <2>4
<1>11. Terminates'
    BY <1>0, <1>1, PlainEnds
<1> QED BY <1>6, <1>7, <1>8, <1>9, <1>10, <1>11 DEF IInv

-----------------------------------------------------------------------------
(* The settlement.                                                         *)

LEMMA SettledAsFacts ==
    ASSUME TypeOK, path = "none", NEW q \in Phases, NEW o \in BOOLEAN,
           NEW c \in {"no_open_attempt", "completed", "terminal"}, SettledAs(q, c, o)
    PROVE  /\ sampler' \in [Phases -> SamplerType]
           /\ sampler'[q].run = "cancelled" /\ sampler'[q].open = o /\ sampler'[q].closure = c
           /\ \A p \in Phases : p # q => sampler'[p] = sampler[p]
           /\ failed' \in BOOLEAN /\ path' \in {"none", "failed_run", "outstanding"}
           /\ c = "terminal" => path' = "failed_run"
<1> DEFINE s == sampler[q]
           r == [s EXCEPT !.closure = c, !.run = "cancelled", !.open = o,
                          !.cancel = (s.cancel \/ Outstanding(s))]
<1>1. s \in SamplerType /\ sampler \in [Phases -> SamplerType]
    BY Typed
<1>2. (s.cancel \/ Outstanding(s)) \in BOOLEAN
    OBVIOUS
<1>3. r \in SamplerType /\ r.run = "cancelled" /\ r.open = o /\ r.closure = c
    <2> HIDE DEF s
    <2> QED BY <1>1, <1>2 DEF SamplerType
<1>4. sampler' = [sampler EXCEPT ![q] = r]
    BY DEF SettledAs
<1>5. /\ sampler' \in [Phases -> SamplerType] /\ sampler'[q] = r
      /\ \A p \in Phases : p # q => sampler'[p] = sampler[p]
    <2> HIDE DEF r
    <2> QED BY <1>1, <1>3, <1>4
<1>6. failed' \in BOOLEAN
    <2>1. failed \in BOOLEAN
        BY Typed
    <2> QED BY <2>1 DEF SettledAs
<1>7. /\ path' \in {"none", "failed_run", "outstanding"}
      /\ c = "terminal" => path' = "failed_run"
    BY DEF SettledAs, Triggers
<1> QED BY <1>3, <1>5, <1>6, <1>7

\* The settlement of a phase that is due: its attempt is resolved, or the run
\* has the path of a terminal closure.
Due(q) ==
    \/ /\ sampler[q].run = "refused"
       /\ sampler' = [sampler EXCEPT ![q].closure = "refused"]
       /\ UNCHANGED <<path, log, sink>>
    \/ \E c \in {"no_open_attempt", "completed", "terminal"} :
          \/ /\ c = "terminal" /\ sampler[q].open /\ SettledAs(q, c, TRUE)
             /\ log' = log /\ sink' \in {sink, [sink EXCEPT !.poisoned = TRUE]}
          \/ /\ ~sampler[q].open /\ SettledAs(q, c, FALSE)
             /\ log' = log /\ sink' = sink
          \/ /\ sampler[q].open /\ SettledAs(q, c, FALSE)
             /\ \E k \in Answers : Usable /\ log' = Append(log, <<q, k>>)
             /\ sink' = sink

LEMMA SettleDue ==
    ASSUME TypeOK, NEW q \in Phases, Settle(q), Started(q), ~Settled(q)
    PROVE  Due(q) /\ (Fault \/ faults' = faults)
<1>1. sampler[q].open \in BOOLEAN
    BY Typed DEF SamplerType
<1>2. CASE sampler[q].run = "refused"
    BY <1>2 DEF Settle, Due
<1>3. CASE sampler[q].run # "refused"
    <2>1. PICK c \in Closes(q) :
             \/ /\ c[1] = None
                /\ SettledAs(q, c[2], sampler[q].open)
                /\ UNCHANGED <<log, sink, faults>>
             \/ /\ c[1] # None
                /\ \/ Writes(q, c[1]) /\ SettledAs(q, c[2], FALSE)
                   \/ Refuses(q, c[1]) /\ SettledAs(q, "terminal", TRUE)
                   \/ Fault /\ UNCHANGED <<log, sink>> /\ SettledAs(q, "terminal", TRUE)
        BY <1>3 DEF Settle
    <2>2. \/ ~sampler[q].open /\ c[1] = None /\ c[2] = "no_open_attempt"
          \/ sampler[q].open /\ c[1] = None /\ c[2] = "terminal"
          \/ sampler[q].open /\ c[1] \in Answers /\ c[2] \in {"completed", "terminal"}
        BY <1>1 DEF Closes, Answers
    <2>3. None \notin Answers
        BY NoneAssumption DEF Answers
    <2>4. CASE ~sampler[q].open /\ c[1] = None /\ c[2] = "no_open_attempt"
        <3>1. sampler[q].open = FALSE
            BY <1>1, <2>4
        <3>2. /\ SettledAs(q, "no_open_attempt", FALSE)
              /\ log' = log /\ sink' = sink /\ faults' = faults
            BY <2>1, <2>4, <3>1
        <3> QED BY <2>4, <3>2 DEF Due
    <2>5. CASE sampler[q].open /\ c[1] = None /\ c[2] = "terminal"
        <3>1. sampler[q].open = TRUE
            BY <1>1, <2>5
        <3>2. /\ SettledAs(q, "terminal", TRUE)
              /\ log' = log /\ sink' = sink /\ faults' = faults
            BY <2>1, <2>5, <3>1
        <3> QED BY <2>5, <3>2 DEF Due
    <2>6. CASE sampler[q].open /\ c[1] \in Answers /\ c[2] \in {"completed", "terminal"}
        <3>1. CASE Writes(q, c[1]) /\ SettledAs(q, c[2], FALSE)
            <4>1. Usable /\ log' = Append(log, <<q, c[1]>>) /\ sink' = sink /\ faults' = faults
                BY <3>1 DEF Writes, Admits
            <4> QED BY <2>6, <3>1, <4>1 DEF Due
        <3>2. CASE Refuses(q, c[1]) /\ SettledAs(q, "terminal", TRUE)
            <4>1. /\ log' = log /\ sink' = [sink EXCEPT !.poisoned = TRUE]
                  /\ Fault \/ faults' = faults
                BY <3>2 DEF Refuses
            <4> QED BY <2>6, <3>2, <4>1 DEF Due
        <3>3. CASE Fault /\ UNCHANGED <<log, sink>> /\ SettledAs(q, "terminal", TRUE)
            BY <2>6, <3>3 DEF Due
        <3> QED BY <2>1, <2>3, <2>6, <3>1, <3>2, <3>3
    <2> QED BY <2>2, <2>4, <2>5, <2>6
<1> QED BY <1>2, <1>3

\* What the settlement does to its phase, to the other one and to the counts.
SettledWell(q) ==
    /\ sampler' \in [Phases -> SamplerType] /\ log' \in Logs /\ sink' \in SinkType
    /\ path' \in {"none", "failed_run", "outstanding"}
    /\ \A p \in Phases : p # q => sampler'[p] = sampler[p]
    /\ sampler'[q].run \in {"cancelled", "refused"} /\ sampler'[q].closure # None
    /\ \/ log' = log
       \/ \E k \in Answers : Usable /\ log' = Append(log, <<q, k>>)
    /\ sink'.sealed = sink.sealed /\ sink'.open = sink.open
    /\ sink.poisoned => sink'.poisoned
    /\ Attempt(q)'

LEMMA DueFacts ==
    ASSUME IInv, NEW q \in Phases, Due(q), Started(q), ~Settled(q), path = "none"
    PROVE  SettledWell(q)
<1>0. /\ TypeOK /\ sampler \in [Phases -> SamplerType] /\ log \in Logs /\ sink \in SinkType
      /\ Attempt(q)
    BY Typed DEF IInv, Attempts
<1>1. /\ [sink EXCEPT !.poisoned = TRUE] \in SinkType
      /\ [sink EXCEPT !.poisoned = TRUE].sealed = sink.sealed
      /\ [sink EXCEPT !.poisoned = TRUE].open = sink.open
      /\ [sink EXCEPT !.poisoned = TRUE].poisoned
    BY <1>0, SinkPoisoned
<1>2. log' = log => /\ Count(q, {"intent"})' = Count(q, {"intent"})
                    /\ Count(q, Answers)' = Count(q, Answers)
    BY <1>0, NeutralKeeps
<1>3. CASE /\ sampler[q].run = "refused"
           /\ sampler' = [sampler EXCEPT ![q].closure = "refused"]
           /\ UNCHANGED <<path, log, sink>>
    <2>1. /\ sampler' \in [Phases -> SamplerType]
          /\ sampler'[q].run = "refused" /\ sampler'[q].closure = "refused"
          /\ sampler'[q].open = sampler[q].open
          /\ \A p \in Phases : p # q => sampler'[p] = sampler[p]
        BY <1>0, <1>3 DEF SamplerType
    <2>2. ~sampler[q].open
        BY <1>0, <1>3 DEF Attempt
    <2>3. Attempt(q)'
        BY <1>0, <1>2, <1>3, <2>1, <2>2 DEF Attempt, Settled
    <2> QED BY <1>0, <1>3, <2>1, <2>3, Typed, NoneAssumption DEF SettledWell
<1>4. ASSUME NEW c \in {"no_open_attempt", "completed", "terminal"}, c = "terminal",
             sampler[q].open, SettledAs(q, c, TRUE),
             log' = log, sink' \in {sink, [sink EXCEPT !.poisoned = TRUE]}
      PROVE  SettledWell(q)
    <2>1. /\ sampler' \in [Phases -> SamplerType]
          /\ sampler'[q].run = "cancelled" /\ sampler'[q].open = TRUE
          /\ sampler'[q].closure = "terminal"
          /\ \A p \in Phases : p # q => sampler'[p] = sampler[p]
          /\ path' = "failed_run"
        BY <1>0, <1>4, SettledAsFacts
    <2>2. Attempt(q)'
        BY <1>0, <1>2, <1>4, <2>1, NoneAssumption DEF Attempt, Settled
    <2>3. /\ sink' \in SinkType /\ sink'.sealed = sink.sealed /\ sink'.open = sink.open
          /\ sink.poisoned => sink'.poisoned
        BY <1>0, <1>1, <1>4
    <2> QED BY <1>0, <1>4, <2>1, <2>2, <2>3, NoneAssumption DEF SettledWell
<1>5. ASSUME NEW c \in {"no_open_attempt", "completed", "terminal"},
             ~sampler[q].open, SettledAs(q, c, FALSE), log' = log, sink' = sink
      PROVE  SettledWell(q)
    <2>1. /\ sampler' \in [Phases -> SamplerType]
          /\ sampler'[q].run = "cancelled" /\ sampler'[q].open = FALSE
          /\ sampler'[q].closure = c
          /\ \A p \in Phases : p # q => sampler'[p] = sampler[p]
          /\ path' \in {"none", "failed_run", "outstanding"}
        BY <1>0, <1>5, SettledAsFacts
    <2>2. Attempt(q)'
        BY <1>0, <1>2, <1>5, <2>1, NoneAssumption DEF Attempt, Settled
    <2> QED BY <1>0, <1>5, <2>1, <2>2, NoneAssumption DEF SettledWell
<1>6. ASSUME NEW c \in {"no_open_attempt", "completed", "terminal"},
             sampler[q].open, SettledAs(q, c, FALSE), sink' = sink,
             NEW k \in Answers, Usable, log' = Append(log, <<q, k>>)
      PROVE  SettledWell(q)
    <2>1. /\ sampler' \in [Phases -> SamplerType]
          /\ sampler'[q].run = "cancelled" /\ sampler'[q].open = FALSE
          /\ sampler'[q].closure = c
          /\ \A p \in Phases : p # q => sampler'[p] = sampler[p]
          /\ path' \in {"none", "failed_run", "outstanding"}
        BY <1>0, <1>6, SettledAsFacts
    <2>2. k \in Kinds /\ k \notin {"intent"}
        BY <1>6 DEF Kinds, Answers
    <2>3. /\ Count(q, {"intent"})' = Count(q, {"intent"}) + 0
          /\ Count(q, Answers)' = Count(q, Answers) + 1
          /\ Count(q, {"intent"}) \in Nat /\ Count(q, Answers) \in Nat
        BY <1>0, <1>6, <2>2, CountAppend
    <2>4. Attempt(q)'
        BY <1>0, <1>6, <2>1, <2>3, NoneAssumption DEF Attempt, Settled
    <2>5. log' \in Logs
        BY <1>0, <1>6, <2>2, AppendFacts DEF Logs
    <2> QED BY <1>0, <1>6, <2>1, <2>4, <2>5, NoneAssumption DEF SettledWell
<1> QED BY <1>3, <1>4, <1>5, <1>6 DEF Due

\* A step that settles its phase, or finds it settled.
LEMMA SettleKeeps ==
    ASSUME IInv, CoroutineTyped, NEW q \in Phases, q = phase, Settle(q),
           UNCHANGED <<phase, child>>, pc # "header",
           pc' \notin Before \cup ChildPcs \cup {"finalised", "returned"}
    PROVE  IInv'
<1>0. TypeOK /\ Headed /\ ChildSide /\ Attempts /\ Windows /\ Terminates
    BY DEF IInv
<1>1. child' \in ChildType /\ ChildSide'
    BY <1>0, ChildKept
<1>2. CASE ~Started(q) \/ Settled(q)
    <2>1. UNCHANGED <<sampler, failed, path, log, sink, faults>>
        BY <1>2 DEF Settle
    <2>2. TypeOK'
        BY <1>0, <1>1, <2>1, Typed, TypesFrom
    <2>3. SinkPhase' = SinkPhase /\ \A p, kinds : Count(p, kinds)' = Count(p, kinds)
        BY <2>1 DEF SinkPhase, Has, Count
    <2>4. Headed' /\ Attempts'
        BY <1>0, <2>1, <2>3 DEF Headed, Attempts, Attempt, Settled
    <2>5. Windows'
        BY <1>0, <1>2, <2>1 DEF Windows, Quiet, Settled, Started
    <2>6. Terminates'
        BY <1>0, <2>1, PlainEnds
    <2> QED BY <1>1, <2>2, <2>4, <2>5, <2>6 DEF IInv
<1>3. CASE Started(q) /\ ~Settled(q)
    <2>1. path = "none"
        BY <1>0, <1>3 DEF Windows, Quiet, Phases
    <2>2. SettledWell(q)
        BY <1>0, <1>3, <2>1, SettleDue, DueFacts
    <2>3. TypeOK'
        BY <1>0, <1>1, <2>2, Typed, TypesFrom DEF SettledWell
    <2>4. Headed'
        <3>1. SinkPhase # None => SinkPhase' # None
            <4>1. CASE log' = log
                BY <4>1 DEF SinkPhase, Has
            <4>2. ASSUME NEW k \in Answers, log' = Append(log, <<q, k>>)
                  PROVE  SinkPhase # None => SinkPhase' # None
                <5>1. k \in Kinds
                    BY DEF Kinds
                <5> QED BY <1>0, <4>2, <5>1, Typed, HasAppend
            <4> QED BY <2>2, <4>1, <4>2 DEF SettledWell
        <3> QED BY <1>0, <2>2, <3>1 DEF Headed, SettledWell
    <2>5. ASSUME NEW p \in Phases PROVE Attempt(p)'
        <3>1. CASE p = q
            BY <2>2, <3>1 DEF SettledWell
        <3>2. CASE p # q
            <4>1. /\ Count(p, {"intent"})' = Count(p, {"intent"})
                  /\ Count(p, Answers)' = Count(p, Answers)
                <5>1. CASE log' = log
                    BY <5>1 DEF Count
                <5>2. ASSUME NEW k \in Answers, log' = Append(log, <<q, k>>)
                      PROVE  <4>1
                    <6>1. k \in Kinds
                        BY DEF Kinds
                    <6>2. /\ Count(p, {"intent"})' = Count(p, {"intent"}) + 0
                          /\ Count(p, {"intent"}) \in Nat
                        BY <1>0, <3>2, <5>2, <6>1, Typed, CountAppend
                    <6>3. /\ Count(p, Answers)' = Count(p, Answers) + 0
                          /\ Count(p, Answers) \in Nat
                        BY <1>0, <3>2, <5>2, <6>1, Typed, CountAppend
                    <6> QED BY <6>2, <6>3
                <5> QED BY <2>2, <5>1, <5>2 DEF SettledWell
            <4>2. sampler'[p] = sampler[p]
                BY <2>2, <3>2 DEF SettledWell
            <4> QED BY <1>0, <2>1, <4>1, <4>2 DEF Attempts, Attempt, Settled
        <3> QED BY <3>1, <3>2
    <2>6. Windows'
        <3>1. Settled(q)' /\ Started(q)'
            BY <2>2 DEF SettledWell, Settled, Started
        <3>2. \A p \in Phases : p # q => /\ Settled(p)' = Settled(p)
                                        /\ Started(p)' = Started(p)
            BY <2>2 DEF SettledWell, Settled, Started
        <3>3. (q = "off" => ~Started("on")) /\ (q = "on" => Settled("off"))
            BY <1>0 DEF Windows
        <3>4. (q = "off" => ~Started("on")') /\ (q = "on" => Settled("off")')
            BY <3>2, <3>3 DEF Phases
        <3>5. Quiet("off")' /\ Quiet("on")'
            BY <3>1, <3>4 DEF Phases, Quiet
        <3>6. phase' = q /\ Quiet(q)'
            BY <3>1 DEF Quiet
        <3>7. pc' \in After => Quiet(phase)'
            BY <3>5, <3>6 DEF Phases, Quiet
        <3> QED BY <3>4, <3>5, <3>6, <3>7 DEF Windows
    <2>7. Terminates'
        <3>1. Answers \subseteq Kinds \ Terminals
            BY DEF Kinds, Answers, Terminals
        <3> QED BY <1>0, <2>2, <3>1, PlainEnds DEF SettledWell
    <2> QED BY <1>1, <2>3, <2>4, <2>5, <2>6, <2>7 DEF IInv, Attempts
<1> QED BY <1>2, <1>3

LEMMA SettleSteps == ASSUME IInv, SettleWindow \/ Recover \/ Unwind PROVE IInv'
<1>0. TypeOK /\ ChildSide
    BY DEF IInv
<1>1. PICK q \in Phases : q = phase
    BY <1>0, Typed
<1>2. failed \in BOOLEAN /\ sink \in SinkType
    BY <1>0, Typed
<1>3. ASSUME Settle(q) PROVE failed' \in BOOLEAN /\ faults' \in 0..MaxFaults
    <2>1. CASE ~Started(q) \/ Settled(q)
        BY <1>0, <1>2, <1>3, <2>1, FaultTyped DEF Settle
    <2>2. CASE Started(q) /\ ~Settled(q)
        <3>1. Due(q) /\ (Fault \/ faults' = faults)
            BY <1>0, <1>3, <2>2, SettleDue
        <3>2. ASSUME NEW c, NEW o, SettledAs(q, c, o) PROVE failed' \in BOOLEAN
            BY <1>2, <3>2 DEF SettledAs
        <3>3. failed' \in BOOLEAN
            <4>1. CASE sampler[q].run = "refused"
                BY <1>3, <2>2, <4>1 DEF Settle
            <4>2. CASE sampler[q].run # "refused"
                BY <1>3, <2>2, <3>2, <4>2 DEF Settle
            <4> QED BY <4>1, <4>2
        <3> QED BY <1>0, <3>1, <3>3, FaultTyped
    <2> QED BY <2>1, <2>2
<1>4. CASE SettleWindow
    <2>1. /\ pc = "settle" /\ Settle(q) /\ pc' \in {"elapsed", "not_finalised"}
          /\ UNCHANGED <<mode, phase, ending, finalised, check, outcome, child, cancels>>
        BY <1>1, <1>4 DEF SettleWindow
    <2>2. pc' \in Pcs /\ pc' \notin Before \cup ChildPcs \cup {"finalised", "returned"}
        BY <2>1 DEF Pcs, Before, ChildPcs
    <2>3. CoroutineTyped
        BY <1>0, <1>3, <2>1, <2>2, Typed DEF CoroutineTyped
    <2> QED BY <1>1, <2>1, <2>2, <2>3, SettleKeeps
<1>5. CASE Recover /\ failed
    <2>1. /\ pc = "recover" /\ Settle(q) /\ pc' \in {"contain", "teardown"}
          /\ mode' = "recovering"
          /\ UNCHANGED <<phase, ending, finalised, check, outcome, child, cancels>>
        BY <1>1, <1>5 DEF Recover
    <2>2. pc' \in Pcs /\ pc' \notin Before \cup ChildPcs \cup {"finalised", "returned"}
        BY <2>1 DEF Pcs, Before, ChildPcs
    <2>3. CoroutineTyped
        BY <1>0, <1>3, <2>1, <2>2, Typed DEF CoroutineTyped
    <2> QED BY <1>1, <2>1, <2>2, <2>3, SettleKeeps
<1>6. CASE Recover /\ ~failed
    <2>1. /\ pc = "recover" /\ pc' = "recover" /\ mode' = "recovering" /\ failed' = TRUE
          /\ UNCHANGED <<sampler, path, log, sink, faults>>
          /\ UNCHANGED <<phase, ending, finalised, check, outcome, child, cancels>>
        BY <1>6 DEF Recover
    <2>2. Forward /\ pc' \notin ChildPcs \cup {"finalised", "returned"}
        BY <2>1 DEF Forward, Before, After, Pcs, ChildPcs
    <2>3. CoroutineTyped
        BY <1>0, <2>1, <2>2, Typed DEF CoroutineTyped, Forward
    <2> QED BY <1>0, <2>1, <2>2, <2>3, Stands, StepKeeps
<1>7. CASE Unwind /\ ~(sink.open /\ ~sink.poisoned)
    <2>1. /\ pc = "unwind" /\ Settle(q) /\ pc' = "cleanup" /\ mode' = "unwinding"
          /\ UNCHANGED <<phase, ending, finalised, check, outcome, child, cancels>>
        BY <1>1, <1>7 DEF Unwind
    <2>2. pc' \in Pcs /\ pc' \notin Before \cup ChildPcs \cup {"finalised", "returned"}
        BY <2>1 DEF Pcs, Before, ChildPcs, Awaits
    <2>3. CoroutineTyped
        BY <1>0, <1>3, <2>1, <2>2, Typed DEF CoroutineTyped
    <2> QED BY <1>1, <2>1, <2>2, <2>3, SettleKeeps
<1>8. CASE Unwind /\ sink.open /\ ~sink.poisoned
    <2>1. /\ pc = "unwind" /\ pc' = "unwind" /\ sink' = [sink EXCEPT !.poisoned = TRUE]
          /\ UNCHANGED <<sampler, failed, path, log, faults, mode>>
          /\ UNCHANGED <<phase, ending, finalised, check, outcome, child, cancels>>
        BY <1>8 DEF Unwind
    <2>2. Forward /\ pc' \notin ChildPcs \cup {"finalised", "returned"}
        BY <2>1 DEF Forward, Before, After, Pcs, ChildPcs
    <2>3. CoroutineTyped
        BY <1>0, <2>1, <2>2, Typed DEF CoroutineTyped, Forward
    <2>4. Recorded /\ SinkKept
        BY <1>0, <2>1, SinkPoisoned DEF Recorded, SinkKept
    <2> QED BY <1>0, <2>1, <2>2, <2>3, <2>4, Recording, StepKeeps
<1> QED BY <1>2, <1>4, <1>5, <1>6, <1>7, <1>8

-----------------------------------------------------------------------------
(* The end of the run.                                                     *)

\* No attempt is open when the run is about to end without a terminal closure.
LEMMA NoneOpen ==
    ASSUME IInv, pc \in After, path # "failed_run", NEW p \in Phases
    PROVE  Count(p, {"intent"}) = Count(p, Answers)
<1>1. phase \in Phases /\ log \in Logs
    BY Typed DEF IInv
<1>2. Quiet(p)
    BY <1>1 DEF IInv, Windows, Quiet, Phases
<1>3. ~sampler[p].open
    BY <1>2 DEF IInv, Attempts, Attempt, Quiet, Started
<1>4. Count(p, Answers) \in Nat
    BY <1>1, CountType
<1> QED BY <1>3, <1>4 DEF IInv, Attempts, Attempt

\* A terminal record that accounts for what it must.
LEMMA TerminalKeeps == ASSUME IInv, Terminal PROVE IInv'
<1>0. TypeOK /\ Headed /\ ChildSide /\ Attempts /\ Windows /\ Terminates
    BY DEF IInv
<1>1. /\ pc = "terminal"
      /\ UNCHANGED <<mode, phase, ending, finalised, path, check, outcome, child, sampler, cancels>>
    BY DEF Terminal, verdict
<1>2. /\ pc' \in {"seal", "contain", "recover"} /\ failed' \in BOOLEAN /\ faults' \in 0..MaxFaults
      /\ sink' \in SinkType /\ sink'.sealed = sink.sealed /\ sink'.open = sink.open
      /\ sink.poisoned => sink'.poisoned
      /\ \/ log' = log
         \/ \E q \in Phases, k \in Terminals :
               /\ Usable /\ log' = Append(log, <<q, k>>)
               /\ path = "failed_run" => k = "failed_run"
    <2>1. CASE path = "failed_run"
        <3>1. pc' = "seal" /\ failed' = failed
            BY <2>1 DEF Terminal
        <3>2. failed \in BOOLEAN /\ sink \in SinkType
            BY <1>0, Typed
        <3>3. CASE /\ Usable /\ SinkPhase # None
                   /\ log' = Append(log, <<SinkPhase, "failed_run">>)
                   /\ UNCHANGED <<sink, faults>>
            <4>1. SinkPhase \in Phases
                BY <3>3 DEF SinkPhase, Phases
            <4>2. "failed_run" \in Terminals
                BY DEF Terminals
            <4> QED BY <1>0, <3>1, <3>2, <3>3, <4>1, <4>2, FaultTyped
        <3>4. CASE UNCHANGED <<log, sink, faults>>
            BY <1>0, <3>1, <3>2, <3>4, FaultTyped
        <3>5. ASSUME Usable, Fault, log' = log, NEW p \in BOOLEAN,
                     sink' = [sink EXCEPT !.poisoned = p]
              PROVE  <1>2
            <4>1. /\ sink' \in SinkType /\ sink'.sealed = sink.sealed /\ sink'.open = sink.open
                BY <3>2, <3>5 DEF SinkType
            <4>2. ~sink.poisoned
                BY <3>5 DEF Usable
            <4> QED BY <1>0, <3>1, <3>2, <3>5, <4>1, <4>2, FaultTyped
        <3> QED BY <2>1, <3>3, <3>4, <3>5 DEF Terminal
    <2>2. CASE path # "failed_run"
        <3>1. PICK k \in {"failed", "completed"} : Lifecycle(k, "seal", "seal", Raised)
            BY <2>2 DEF Terminal
        <3>2. k \in Kinds /\ k \in Terminals
            BY <3>1 DEF Kinds, Terminals
        <3>3. Raised \in {"contain", "recover"}
            BY DEF Raised
        <3>4. /\ pc' \in {"seal", Raised} /\ sink' \in SinkType
              /\ sink'.sealed = sink.sealed /\ sink'.open = sink.open
              /\ sink.poisoned => sink'.poisoned
              /\ log' = log \/ (Usable /\ SinkPhase \in Phases /\ log' = Append(log, <<SinkPhase, k>>))
              /\ failed' \in BOOLEAN /\ faults' \in 0..MaxFaults
            BY <1>0, <1>1, <3>1, <3>2, LifecycleFacts
        <3> QED BY <2>2, <3>2, <3>3, <3>4
    <2> QED BY <2>1, <2>2
<1>3. Terminals \subseteq Kinds \ ({"intent"} \cup Answers)
    BY DEF Terminals, Kinds, Answers
<1>4. pc' \in Pcs /\ pc' \notin Before \cup {"configure", "starting", "checked_stop", "advance",
                                             "header", "finalised", "returned", "ended", "reload"}
    BY <1>2 DEF Pcs, Before
<1>5. TypeOK'
    <2>1. CoroutineTyped
        BY <1>0, <1>1, <1>2, <1>4, Typed DEF CoroutineTyped
    <2>2. log' \in Logs
        <3>1. ASSUME NEW q \in Phases, NEW k \in Terminals, log' = Append(log, <<q, k>>)
              PROVE  log' \in Logs
            BY <1>0, <1>3, <3>1, Typed, AppendFacts DEF Logs
        <3> QED BY <1>0, <1>2, <3>1, Typed
    <2> QED BY <1>0, <1>1, <1>2, <2>1, <2>2, Typed, TypesFrom
<1>6. Headed'
    <2>1. SinkPhase # None => SinkPhase' # None
        <3>1. CASE log' = log
            BY <3>1 DEF SinkPhase, Has
        <3>2. ASSUME NEW q \in Phases, NEW k \in Terminals, log' = Append(log, <<q, k>>)
              PROVE  SinkPhase # None => SinkPhase' # None
            BY <1>0, <1>3, <3>2, Typed, HasAppend
        <3> QED BY <1>2, <3>1, <3>2
    <2> QED BY <1>0, <1>1, <1>2, <1>4, <2>1 DEF Headed
<1>7. ChildSide'
    BY <1>0, <1>1, <1>4 DEF ChildSide, NeedsStop
<1>8. \A p \in Phases : /\ Count(p, {"intent"})' = Count(p, {"intent"})
                        /\ Count(p, Answers)' = Count(p, Answers)
    BY <1>0, <1>2, <1>3, NeutralKeeps
<1>9. Attempts'
    BY <1>0, <1>1, <1>8 DEF Attempts, Attempt, Settled
<1>10. Windows'
    <2>1. \A p : Quiet(p)' = Quiet(p)
        BY <1>1 DEF Quiet, Started, Settled
    <2>2. pc \in After
        BY <1>1 DEF After
    <2> QED BY <1>0, <1>1, <1>4, <2>1, <2>2 DEF Windows, Quiet, Started, Settled
<1>11. Terminates'
    <2>1. CASE log' = log
        BY <1>0, <1>2, <2>1, PlainEnds
    <2>2. ASSUME NEW q \in Phases, NEW k \in Terminals, Usable, log' = Append(log, <<q, k>>),
                 path = "failed_run" => k = "failed_run"
          PROVE  Terminates'
        <3>1. ~Terminated
            BY <2>2 DEF Usable
        <3>2. /\ \A i \in DOMAIN log' : log'[i][2] \in Terminals => i = Len(log')
              /\ Last(log)'[2] = k
            BY <1>0, <1>3, <2>2, <3>1, Typed, TerminalAppend
        <3>3. ~sink'.sealed
            BY <1>0, <1>2, <3>1 DEF Terminates
        <3>4. k # "failed_run" => \A p \in Phases : Count(p, {"intent"})' = Count(p, Answers)'
            <4>1. pc \in After
                BY <1>1 DEF After
            <4> QED BY <1>8, <2>2, <4>1, NoneOpen
        <3> QED BY <3>2, <3>3, <3>4 DEF Terminates
    <2> QED BY <1>2, <2>1, <2>2
<1> QED BY <1>5, <1>6, <1>7, <1>9, <1>10, <1>11 DEF IInv

LEMMA SealKeeps == ASSUME IInv, Seal PROVE IInv'
<1>0. TypeOK /\ Headed /\ ChildSide /\ Attempts /\ Windows /\ Terminates
    BY DEF IInv
<1>1. /\ pc = "seal" /\ pc' \in {"reload", "ended"} /\ check' = Checked
      /\ outcome' \in {outcome, "not_sealed"} /\ (Fault \/ faults' = faults)
      /\ UNCHANGED <<mode, phase, ending, finalised, failed, path, log, child, sampler, cancels>>
      /\ \/ Terminated /\ sink' = [sink EXCEPT !.sealed = TRUE]
         \/ sink' = [sink EXCEPT !.poisoned = TRUE]
    BY DEF Seal, Ends
<1>2. /\ sink' \in SinkType
      /\ sink'.sealed => sink.sealed \/ Terminated
    BY <1>0, <1>1, Typed DEF SinkType
<1>3. sink'.open /\ ~sink'.poisoned => sink.open /\ ~sink.poisoned
    BY <1>0, <1>1, Typed DEF SinkType
<1>4. pc' \in Pcs /\ pc' \notin Before \cup {"configure", "starting", "checked_stop", "advance",
                                             "header", "finalised", "returned"}
    BY <1>1 DEF Pcs, Before
<1>5. TypeOK'
    <2>1. CoroutineTyped
        BY <1>0, <1>1, <1>4, Typed, FaultTyped, CheckedTyped DEF CoroutineTyped
    <2> QED BY <1>0, <1>1, <1>2, <2>1, Typed, TypesFrom
<1>6. /\ SinkPhase' = SinkPhase /\ Terminated' = Terminated /\ Last(log)' = Last(log)
      /\ \A p, kinds : Count(p, kinds)' = Count(p, kinds)
    BY <1>1 DEF SinkPhase, Has, Count, Terminated, Last
<1>7. Headed' /\ ChildSide'
    BY <1>0, <1>1, <1>3, <1>4, <1>6 DEF Headed, ChildSide, NeedsStop
<1>8. Attempts'
    BY <1>0, <1>1, <1>6 DEF Attempts, Attempt, Settled
<1>9. Windows'
    BY <1>0, <1>1, <1>4 DEF Windows, Quiet, Started, Settled, After
<1>10. Terminates'
    BY <1>0, <1>1, <1>2, <1>6 DEF Terminates
<1> QED BY <1>5, <1>7, <1>8, <1>9, <1>10 DEF IInv

-----------------------------------------------------------------------------
(* The samplers.                                                           *)

\* A step of one sampler or of its provider task.
SamplerMoves(q) ==
    /\ sampler' \in [Phases -> SamplerType]
    /\ \A p \in Phases : p # q => sampler'[p] = sampler[p]
    /\ sampler'[q].closure = sampler[q].closure
    /\ sampler'[q].run = "none" <=> sampler[q].run = "none"
    /\ \/ log' = log
       \/ \E k \in {"intent"} \cup Answers : Usable /\ log' = Append(log, <<q, k>>)
    /\ sink' \in {sink, [sink EXCEPT !.poisoned = TRUE]}
    /\ Fault \/ faults' = faults
    /\ Attempt(q)'

LEMMA SamplerKeeps ==
    ASSUME IInv, NEW q \in Phases, SamplerMoves(q),
           UNCHANGED <<pc, mode, phase, ending, finalised, failed, path, check, outcome, child,
                       cancels>>
    PROVE  IInv'
<1>0. TypeOK /\ Headed /\ ChildSide /\ Attempts /\ Windows /\ Terminates
    BY DEF IInv
<1>1. /\ sink' \in SinkType /\ sink'.sealed = sink.sealed
      /\ sink'.open /\ ~sink'.poisoned => sink.open /\ ~sink.poisoned
    <2>1. CASE sink' = sink
        BY <1>0, <2>1, Typed
    <2>2. CASE sink' = [sink EXCEPT !.poisoned = TRUE]
        BY <1>0, <2>2, SinkPoisoned
    <2> QED BY <2>1, <2>2 DEF SamplerMoves
<1>2. {"intent"} \cup Answers \subseteq Kinds \ Terminals
    BY DEF Kinds, Answers, Terminals
<1>3. log' \in Logs
    <2>1. ASSUME NEW k \in {"intent"} \cup Answers, log' = Append(log, <<q, k>>)
          PROVE  log' \in Logs
        BY <1>0, <1>2, <2>1, Typed, AppendFacts DEF Logs
    <2> QED BY <1>0, <2>1, Typed DEF SamplerMoves
<1>4. TypeOK'
    <2>1. CoroutineTyped
        BY <1>0, Typed, FaultTyped DEF CoroutineTyped, SamplerMoves
    <2> QED BY <1>0, <1>1, <1>3, <2>1, Typed, TypesFrom DEF SamplerMoves
<1>5. Headed'
    <2>1. SinkPhase # None => SinkPhase' # None
        <3>1. CASE log' = log
            BY <3>1 DEF SinkPhase, Has
        <3>2. ASSUME NEW k \in {"intent"} \cup Answers, log' = Append(log, <<q, k>>)
              PROVE  SinkPhase # None => SinkPhase' # None
            BY <1>0, <1>2, <3>2, Typed, HasAppend
        <3> QED BY <3>1, <3>2 DEF SamplerMoves
    <2> QED BY <1>0, <1>1, <2>1 DEF Headed
<1>6. ChildSide'
    BY <1>0 DEF ChildSide, NeedsStop
<1>7. ASSUME NEW p \in Phases PROVE Attempt(p)'
    <2>1. CASE p = q
        BY <2>1 DEF SamplerMoves
    <2>2. CASE p # q
        <3>1. /\ Count(p, {"intent"})' = Count(p, {"intent"})
              /\ Count(p, Answers)' = Count(p, Answers)
            <4>1. CASE log' = log
                BY <4>1 DEF Count
            <4>2. ASSUME NEW k \in {"intent"} \cup Answers, log' = Append(log, <<q, k>>)
                  PROVE  <3>1
                <5>1. k \in Kinds
                    BY <1>2
                <5>2. /\ Count(p, {"intent"})' = Count(p, {"intent"}) + 0
                      /\ Count(p, {"intent"}) \in Nat
                    BY <1>0, <2>2, <4>2, <5>1, Typed, CountAppend
                <5>3. /\ Count(p, Answers)' = Count(p, Answers) + 0
                      /\ Count(p, Answers) \in Nat
                    BY <1>0, <2>2, <4>2, <5>1, Typed, CountAppend
                <5> QED BY <5>2, <5>3
            <4> QED BY <4>1, <4>2 DEF SamplerMoves
        <3>2. sampler'[p] = sampler[p] /\ path' = path
            BY <2>2 DEF SamplerMoves
        <3> QED BY <1>0, <3>1, <3>2 DEF Attempts, Attempt, Settled
    <2> QED BY <2>1, <2>2
<1>8. Windows'
    <2>1. \A p \in Phases : Started(p)' = Started(p) /\ Settled(p)' = Settled(p)
        <3> TAKE p \in Phases
        <3>1. CASE p = q
            BY <3>1 DEF SamplerMoves, Started, Settled
        <3>2. CASE p # q
            BY <3>2 DEF SamplerMoves, Started, Settled
        <3> QED BY <3>1, <3>2
    <2>2. phase \in Phases
        BY <1>0, Typed
    <2>3. \A p \in Phases : Quiet(p)' = Quiet(p)
        BY <2>1 DEF Quiet
    <2>4. /\ Started("on")' = Started("on") /\ Settled("off")' = Settled("off")
          /\ Quiet("on")' = Quiet("on") /\ Quiet("off")' = Quiet("off")
        BY <2>1, <2>3 DEF Phases
    <2>5. (~Started(phase))' = ~Started(phase) /\ Quiet(phase)' = Quiet(phase)
        <3>1. phase' = phase
            OBVIOUS
        <3>2. CASE phase = "on"
            BY <2>1, <2>4, <3>1, <3>2 DEF Phases, Started, Quiet, Settled
        <3>3. CASE phase = "off"
            BY <2>1, <2>4, <3>1, <3>3 DEF Phases, Started, Quiet, Settled
        <3> QED BY <2>2, <3>2, <3>3 DEF Phases
    <2> QED BY <1>0, <2>4, <2>5 DEF Windows
<1>9. Terminates'
    BY <1>0, <1>1, <1>2, PlainEnds DEF SamplerMoves
<1> QED BY <1>4, <1>5, <1>6, <1>7, <1>8, <1>9 DEF IInv, Attempts

\* The fields of one sampler.
LEMMA Fields ==
    ASSUME TypeOK, NEW q \in Phases
    PROVE  /\ sampler \in [Phases -> SamplerType] /\ sampler[q] \in SamplerType
           /\ DOMAIN sampler = Phases /\ log \in Logs
BY Typed

\* How the attempts of a phase are counted when it records one of its own.
LEMMA OwnCounts ==
    ASSUME TypeOK, NEW q \in Phases
    PROVE  /\ Count(q, {"intent"}) \in Nat /\ Count(q, Answers) \in Nat
           /\ log' = log =>
                /\ Count(q, {"intent"})' = Count(q, {"intent"})
                /\ Count(q, Answers)' = Count(q, Answers)
           /\ log' = Append(log, <<q, "intent">>) =>
                /\ Count(q, {"intent"})' = Count(q, {"intent"}) + 1
                /\ Count(q, Answers)' = Count(q, Answers)
           /\ \A k \in Answers : log' = Append(log, <<q, k>>) =>
                /\ Count(q, {"intent"})' = Count(q, {"intent"})
                /\ Count(q, Answers)' = Count(q, Answers) + 1
<1>1. Count(q, {"intent"}) \in Nat /\ Count(q, Answers) \in Nat
    BY Typed, CountType
<1>2. ASSUME log' = log
      PROVE  /\ Count(q, {"intent"})' = Count(q, {"intent"})
             /\ Count(q, Answers)' = Count(q, Answers)
    BY <1>2 DEF Count
<1>3. ASSUME log' = Append(log, <<q, "intent">>)
      PROVE  /\ Count(q, {"intent"})' = Count(q, {"intent"}) + 1
             /\ Count(q, Answers)' = Count(q, Answers)
    <2>1. "intent" \in Kinds /\ "intent" \notin Answers
        BY DEF Kinds, Answers
    <2>2. Count(q, {"intent"})' = Count(q, {"intent"}) + 1
        BY <1>3, <2>1, Typed, CountAppend
    <2>3. Count(q, Answers)' = Count(q, Answers) + 0
        BY <1>3, <2>1, Typed, CountAppend
    <2> QED BY <1>1, <2>2, <2>3
<1>4. ASSUME NEW k \in Answers, log' = Append(log, <<q, k>>)
      PROVE  /\ Count(q, {"intent"})' = Count(q, {"intent"})
             /\ Count(q, Answers)' = Count(q, Answers) + 1
    <2>1. k \in Kinds /\ k \notin {"intent"}
        BY DEF Kinds, Answers
    <2>2. Count(q, {"intent"})' = Count(q, {"intent"}) + 0
        BY <1>4, <2>1, Typed, CountAppend
    <2>3. Count(q, Answers)' = Count(q, Answers) + 1
        BY <1>4, <2>1, Typed, CountAppend
    <2> QED BY <1>1, <2>2, <2>3
<1> QED BY <1>1, <1>2, <1>3, <1>4

\* The sampler of the phase stands at a run, with its attempt open or not.
Becomes(q, r, o) ==
    /\ sampler' \in [Phases -> SamplerType]
    /\ sampler'[q].run = r /\ sampler'[q].open = o
    /\ sampler'[q].closure = sampler[q].closure
    /\ \A p \in Phases : p # q => sampler'[p] = sampler[p]

\* The run stops, or the provider's task goes on beside it.
LEMMA StillMoves ==
    ASSUME IInv, NEW q \in Phases, NEW r, Becomes(q, r, sampler[q].open),
           r = sampler[q].run \/ (r = "stopped" /\ sampler[q].run \in {"due", "called"}),
           log' = log, path' = path, sink' \in {sink, [sink EXCEPT !.poisoned = TRUE]},
           Fault \/ faults' = faults
    PROVE  SamplerMoves(q)
<1>0. TypeOK /\ Attempt(q)
    BY DEF IInv, Attempts
<1>1. Attempt(q)'
    BY <1>0, OwnCounts DEF Attempt, Settled, Becomes
<1> QED BY <1>1 DEF SamplerMoves, Becomes

\* An answer of the open attempt is recorded.
LEMMA AnswerMoves ==
    ASSUME IInv, NEW q \in Phases, sampler[q].run = "called", NEW k \in Answers,
           NEW r \in {"due", "stopped"}, Becomes(q, r, FALSE),
           Usable, log' = Append(log, <<q, k>>), path' = path, sink' = sink, faults' = faults
    PROVE  SamplerMoves(q)
<1>0. TypeOK /\ Attempt(q)
    BY DEF IInv, Attempts
<1>1. /\ Count(q, {"intent"}) \in Nat /\ Count(q, Answers) \in Nat
      /\ Count(q, {"intent"})' = Count(q, {"intent"})
      /\ Count(q, Answers)' = Count(q, Answers) + 1
    BY <1>0, OwnCounts
<1>2. sampler[q].open /\ ~Settled(q)
    BY <1>0 DEF Attempt
<1>3. Attempt(q)'
    BY <1>0, <1>1, <1>2 DEF Attempt, Settled, Becomes
<1> QED BY <1>3 DEF SamplerMoves, Becomes

\* An attempt is opened.
LEMMA IntentMoves ==
    ASSUME IInv, NEW q \in Phases, sampler[q].run = "due", Becomes(q, "called", TRUE),
           Usable, log' = Append(log, <<q, "intent">>), path' = path, sink' = sink,
           faults' = faults
    PROVE  SamplerMoves(q)
<1>0. TypeOK /\ Attempt(q)
    BY DEF IInv, Attempts
<1>1. Attempt(q)'
    BY <1>0, OwnCounts DEF Attempt, Settled, Becomes
<1> QED BY <1>1 DEF SamplerMoves, Becomes

LEMMA AbandonUpdate ==
    ASSUME TypeOK, NEW q \in Phases,
           sampler' = [sampler EXCEPT ![q] = [@ EXCEPT !.cancel = TRUE, !.run = "stopped",
                                                       !.open = FALSE]]
    PROVE  Becomes(q, "stopped", FALSE)
<1> DEFINE s == sampler[q]
           r == [s EXCEPT !.cancel = TRUE, !.run = "stopped", !.open = FALSE]
<1>1. sampler \in [Phases -> SamplerType] /\ s \in SamplerType
    BY Fields
<1>2. r \in SamplerType /\ r.run = "stopped" /\ r.open = FALSE /\ r.closure = s.closure
    <2> HIDE DEF s
    <2> QED BY <1>1 DEF SamplerType
<1>3. sampler' = [sampler EXCEPT ![q] = r]
    OBVIOUS
<1> HIDE DEF r
<1> QED BY <1>1, <1>2, <1>3 DEF Becomes

LEMMA OpenUpdate ==
    ASSUME TypeOK, NEW q \in Phases,
           sampler' = [sampler EXCEPT ![q] = [@ EXCEPT !.open = TRUE, !.task = "created",
                                                       !.answer = "none", !.run = "called"]]
    PROVE  Becomes(q, "called", TRUE)
<1> DEFINE s == sampler[q]
           r == [s EXCEPT !.open = TRUE, !.task = "created", !.answer = "none", !.run = "called"]
<1>1. sampler \in [Phases -> SamplerType] /\ s \in SamplerType
    BY Fields
<1>2. r \in SamplerType /\ r.run = "called" /\ r.open = TRUE /\ r.closure = s.closure
    <2> HIDE DEF s
    <2> QED BY <1>1 DEF SamplerType
<1>3. sampler' = [sampler EXCEPT ![q] = r]
    OBVIOUS
<1> HIDE DEF r
<1> QED BY <1>1, <1>2, <1>3 DEF Becomes

LEMMA ProviderAnswer ==
    ASSUME NEW q \in Phases, sampler[q] \in SamplerType, ProviderAnswers(q)
    PROVE  \E a \in {"none", "refused", "decision", "failure", "untimed"} :
              sampler' = [sampler EXCEPT ![q].task = "done", ![q].answer = a]
<1> DEFINE A == {"none", "refused", "decision", "failure", "untimed"}
<1>1. sampler[q].answer \in A
    BY DEF SamplerType
<1>2. CASE Settled(q) /\ sampler' = [sampler EXCEPT ![q].task = "done", ![q].answer = @]
    BY <1>1, <1>2
<1>3. CASE sampler' = [sampler EXCEPT ![q].task = "done", ![q].answer = "decision"]
    BY <1>3
<1>4. CASE \E a \in {"failure", "untimed"} :
              sampler' = [sampler EXCEPT ![q].task = "done", ![q].answer = a]
    BY <1>4
<1>5. \/ sampler' = [sampler EXCEPT ![q].task = "done", ![q].answer = IF Settled(q) THEN @ ELSE "decision"]
      \/ \E a \in {"failure", "untimed"} :
              sampler' = [sampler EXCEPT ![q].task = "done", ![q].answer = a]
    BY DEF ProviderAnswers
<1> QED BY <1>2, <1>3, <1>4, <1>5

LEMMA SamplerStepMoves ==
    ASSUME IInv, SamplerStep
    PROVE  \E q \in Phases : SamplerMoves(q)
<1>0. TypeOK
    BY DEF IInv
<1>1. PICK q \in Phases :
         \/ SamplerOpens(q) \/ SamplerOver(q) \/ SamplerConsumes(q)
         \/ SamplerAbandons(q) \/ SamplerClockFails(q)
         \/ ProviderStarts(q) \/ ProviderAnswers(q) \/ ProviderEnds(q)
    BY DEF SamplerStep
<1>2. path' = path
    BY DEF SamplerStep, verdict
<1>3. sampler \in [Phases -> SamplerType] /\ sampler[q] \in SamplerType /\ DOMAIN sampler = Phases
    BY <1>0, Fields
<1>4. ASSUME sampler' = [sampler EXCEPT ![q].run = "stopped"],
             sampler[q].run \in {"due", "called"},
             log' = log, sink' \in {sink, [sink EXCEPT !.poisoned = TRUE]},
             Fault \/ faults' = faults
      PROVE  SamplerMoves(q)
    <2>1. Becomes(q, "stopped", sampler[q].open)
        BY <1>3, <1>4 DEF Becomes, SamplerType
    <2> QED BY <1>2, <1>4, <2>1, StillMoves
<1>5. ASSUME NEW k, Refuses(q, k)
      PROVE  /\ log' = log /\ sink' \in {sink, [sink EXCEPT !.poisoned = TRUE]}
             /\ Fault \/ faults' = faults
    BY <1>5 DEF Refuses
<1>6. ASSUME NEW k, Writes(q, k)
      PROVE  /\ Usable /\ log' = Append(log, <<q, k>>) /\ sink' = sink /\ faults' = faults
    BY <1>6 DEF Writes, Admits
<1>7. CASE SamplerOpens(q)
    <2>1. sampler[q].run = "due"
        BY <1>7 DEF SamplerOpens
    <2>2. CASE /\ Writes(q, "intent")
               /\ sampler' = [sampler EXCEPT ![q] = [@ EXCEPT !.open = TRUE, !.task = "created",
                                                              !.answer = "none", !.run = "called"]]
        <3>1. Becomes(q, "called", TRUE)
            BY <1>0, <2>2, OpenUpdate
        <3>2. /\ Usable /\ log' = Append(log, <<q, "intent">>) /\ sink' = sink
              /\ faults' = faults
            BY <1>6, <2>2
        <3> QED BY <1>2, <2>1, <3>1, <3>2, IntentMoves
    <2>3. CASE /\ Refuses(q, "intent")
               /\ sampler' = [sampler EXCEPT ![q].run = "stopped"]
        BY <1>4, <1>5, <2>1, <2>3
    <2> QED BY <1>7, <2>2, <2>3 DEF SamplerOpens
<1>8. CASE SamplerOver(q)
    BY <1>4, <1>8 DEF SamplerOver
<1>9. CASE SamplerConsumes(q)
    <2>1. sampler[q].run = "called"
        BY <1>9 DEF SamplerConsumes
    <2>2. CASE /\ sampler[q].answer \in {"decision", "failure"} /\ Writes(q, sampler[q].answer)
               /\ sampler' = [sampler EXCEPT ![q].open = FALSE, ![q].run = "due"]
        <3>1. Becomes(q, "due", FALSE)
            BY <1>3, <2>2 DEF Becomes, SamplerType
        <3>2. PICK k \in {"decision", "failure"} : k = sampler[q].answer
            BY <2>2
        <3>3. k \in Answers
            BY DEF Answers
        <3>4. /\ Usable /\ log' = Append(log, <<q, k>>) /\ sink' = sink /\ faults' = faults
            BY <1>6, <2>2, <3>2
        <3> QED BY <1>2, <2>1, <3>1, <3>3, <3>4, AnswerMoves
    <2>3. CASE /\ \/ Refuses(q, sampler[q].answer)
                  \/ UNCHANGED <<log, sink, faults>>
               /\ sampler' = [sampler EXCEPT ![q].run = "stopped"]
        BY <1>4, <1>5, <2>1, <2>3
    <2> QED BY <1>9, <2>2, <2>3 DEF SamplerConsumes
<1>10. CASE SamplerAbandons(q)
    <2>1. sampler[q].run = "called"
        BY <1>10 DEF SamplerAbandons
    <2>2. CASE /\ Writes(q, "abandoned")
               /\ sampler' = [sampler EXCEPT ![q] = [@ EXCEPT !.cancel = TRUE, !.run = "stopped",
                                                              !.open = FALSE]]
        <3>1. Becomes(q, "stopped", FALSE)
            BY <1>0, <2>2, AbandonUpdate
        <3>2. "abandoned" \in Answers
            BY DEF Answers
        <3>3. /\ Usable /\ log' = Append(log, <<q, "abandoned">>) /\ sink' = sink
              /\ faults' = faults
            BY <1>6, <2>2
        <3> QED BY <1>2, <2>1, <3>1, <3>2, <3>3, AnswerMoves
    <2>3. CASE /\ Refuses(q, "abandoned")
               /\ sampler' = [sampler EXCEPT ![q].cancel = TRUE, ![q].run = "stopped"]
        <3>1. Becomes(q, "stopped", sampler[q].open)
            BY <1>3, <2>3 DEF Becomes, SamplerType
        <3> QED BY <1>2, <1>5, <2>1, <2>3, <3>1, StillMoves
    <2> QED BY <1>10, <2>2, <2>3 DEF SamplerAbandons
<1>11. CASE SamplerClockFails(q)
    BY <1>4, <1>11 DEF SamplerClockFails
<1>12. ASSUME Becomes(q, sampler[q].run, sampler[q].open), UNCHANGED <<log, sink>>,
              Fault \/ faults' = faults
       PROVE  SamplerMoves(q)
    BY <1>2, <1>12, StillMoves
<1>13. CASE ProviderStarts(q)
    <2>1. CASE sampler' = [sampler EXCEPT ![q].task = "invoked"]
        <3>1. Becomes(q, sampler[q].run, sampler[q].open)
            BY <1>3, <2>1 DEF Becomes, SamplerType
        <3> QED BY <1>12, <1>13, <3>1 DEF ProviderStarts
    <2>2. CASE sampler' = [sampler EXCEPT ![q].task = "done", ![q].answer = "refused"]
        <3>1. Becomes(q, sampler[q].run, sampler[q].open)
            BY <1>3, <2>2 DEF Becomes, SamplerType
        <3> QED BY <1>12, <1>13, <3>1 DEF ProviderStarts
    <2> QED BY <1>13, <2>1, <2>2 DEF ProviderStarts
<1>14. CASE ProviderAnswers(q)
    <2>1. PICK a \in {"none", "refused", "decision", "failure", "untimed"} :
             sampler' = [sampler EXCEPT ![q].task = "done", ![q].answer = a]
        BY <1>3, <1>14, ProviderAnswer
    <2>2. Becomes(q, sampler[q].run, sampler[q].open)
        BY <1>3, <2>1 DEF Becomes, SamplerType
    <2> QED BY <1>12, <1>14, <2>2 DEF ProviderAnswers
<1>15. CASE ProviderEnds(q)
    <2>1. sampler' = [sampler EXCEPT ![q].task = "done"]
        BY <1>15 DEF ProviderEnds
    <2>2. Becomes(q, sampler[q].run, sampler[q].open)
        BY <1>3, <2>1 DEF Becomes, SamplerType
    <2> QED BY <1>12, <1>15, <2>2 DEF ProviderEnds
<1> QED BY <1>1, <1>7, <1>8, <1>9, <1>10, <1>11, <1>13, <1>14, <1>15

LEMMA SamplerStepKeeps == ASSUME IInv, SamplerStep PROVE IInv'
<1>1. UNCHANGED <<pc, mode, phase, ending, finalised, failed, path, check, outcome, child, cancels>>
    BY DEF SamplerStep, coroutine, verdict
<1> QED BY <1>1, SamplerStepMoves, SamplerKeeps

-----------------------------------------------------------------------------
(* The theorems.                                                           *)

LEMMA InitEstablishes == Init => IInv
<1> SUFFICES ASSUME Init PROVE IInv
    OBVIOUS
<1> USE DEF Init
<1>1. TypeOK
    <2>1. 0 \in 0..MaxFaults /\ 0 \in 0..MaxCancels
        BY ColdRunAssumption
    <2>2. sampler \in [Phases -> SamplerType]
        BY DEF SamplerType
    <2>3. sink \in SinkType /\ child \in ChildType
        BY DEF SinkType, ChildType
    <2>4. log \in Logs
        BY DEF Logs
    <2> QED BY <2>1, <2>2, <2>3, <2>4 DEF TypeOK, Phases, SamplerType, SinkType, ChildType, Logs
<1>2. \A p, kinds : Count(p, kinds) = 0
    BY FS_EmptySet DEF Count
<1>3. \A p \in Phases : /\ sampler[p].run = "none" /\ ~sampler[p].open
                        /\ sampler[p].closure = None
    OBVIOUS
<1>4. Headed /\ ChildSide
    BY DEF Headed, ChildSide, NeedsStop
<1>5. Attempts
    BY <1>2, <1>3 DEF Attempts, Attempt, Settled
<1>6. Windows
    BY <1>3 DEF Windows, Quiet, Started, Settled, Phases
<1>7. Terminates
    BY DEF Terminates, Terminated
<1> QED BY <1>1, <1>4, <1>5, <1>6, <1>7 DEF IInv

LEMMA StutterKeeps == ASSUME IInv, UNCHANGED vars PROVE IInv'
<1>0. TypeOK /\ Headed /\ ChildSide /\ Attempts /\ Windows /\ Terminates
    BY DEF IInv
<1>1. UNCHANGED <<pc, mode, phase, ending, finalised, failed, path, check, outcome, log, sink,
                  child, sampler, faults, cancels>>
    BY DEF vars, coroutine, verdict
<1>2. /\ SinkPhase' = SinkPhase /\ Terminated' = Terminated /\ Last(log)' = Last(log)
      /\ \A p, kinds : Count(p, kinds)' = Count(p, kinds)
    BY <1>1 DEF SinkPhase, Has, Count, Terminated, Last
<1>3. TypeOK' /\ Headed' /\ ChildSide'
    BY <1>0, <1>1, <1>2 DEF TypeOK, Headed, ChildSide, NeedsStop
<1>4. Attempts' /\ Windows' /\ Terminates'
    BY <1>0, <1>1, <1>2 DEF Attempts, Attempt, Windows, Terminates, Quiet, Started, Settled
<1> QED BY <1>3, <1>4 DEF IInv

LEMMA NextKeeps == ASSUME IInv, [Next]_vars PROVE IInv'
<1>1. CASE Configure \/ StartReturns \/ StopReturns \/ CleanupEnds \/ Cancel
    BY <1>1, ChildSteps, StepKeeps
<1>2. CASE FreezeReturns \/ AdmitReturns \/ Checkpoint \/ SessionCall \/ InBudget \/ Sleeps
    BY <1>2, StandingSteps, StepKeeps
<1>3. CASE FinaliseReturns \/ OpenEvidence \/ Teardown \/ Reload \/ Contain
    BY <1>3, MovingSteps, StepKeeps
<1>4. CASE \/ AppendHeader \/ Candidate \/ ReadReturns \/ HostReturns \/ RecordAbort
           \/ FinalisationRecord
    BY <1>4, RecordSteps, StepKeeps
<1>5. CASE \/ ChildStarted \/ Activated \/ Transition \/ Elapsed \/ NotFinalised
           \/ FinalisationReturned \/ ChildStopped
    BY <1>5, LifecycleSteps, StepKeeps
<1>6. CASE SettleWindow \/ Recover \/ Unwind
    BY <1>6, SettleSteps
<1>7. CASE Advise
    BY <1>7, AdviseKeeps
<1>8. CASE Advance
    BY <1>8, AdvanceKeeps
<1>9. CASE Terminal
    BY <1>9, TerminalKeeps
<1>10. CASE Seal
    BY <1>10, SealKeeps
<1>11. CASE SamplerStep
    BY <1>11, SamplerStepKeeps
<1>12. CASE UNCHANGED vars
    BY <1>12, StutterKeeps
<1> QED BY <1>1, <1>2, <1>3, <1>4, <1>5, <1>6, <1>7, <1>8, <1>9, <1>10, <1>11, <1>12
        DEF Next, MainStep

\* The inductive invariant holds in every reachable state.
THEOREM Invariant == Spec => []IInv
<1>1. IInv /\ [Next]_vars => IInv'
    BY NextKeeps
<1> QED BY InitEstablishes, <1>1, PTL DEF Spec

\* The coroutine, the evidence, the sink, the child and the samplers keep their
\* types (two_phase.py, advisory_sampler.py), and the counters their bounds.
THEOREM TypeCorrect == Spec => []TypeOK
<1>1. IInv => TypeOK
    BY DEF IInv
<1> QED BY Invariant, <1>1, PTL

\* However the run ends, a stop was tried on the child it last started, a child
\* it calls stopped is dead, and none is started while one is alive
\* (_respawn, _advance_permitted, _teardown, shielded_cleanup).
THEOREM ChildNeverLost == Spec => []ChildOwned
<1>1. IInv => ChildOwned
    <2> SUFFICES ASSUME IInv PROVE ChildOwned
        OBVIOUS
    <2>1. ChildSide /\ child.cleaned \in BOOLEAN
        BY Typed DEF IInv, ChildType
    <2> QED BY <2>1 DEF ChildSide, ChildOwned, NeedsStop
<1> QED BY Invariant, <1>1, PTL

\* A sealed run ends in its one terminal record, and but for the failed-run
\* terminal every attempt in it has its resolution, whatever the settlement
\* could write (_settle, _append_failed_run_terminal, _end).
THEOREM SealAccounts == Spec => []SealedIsAccounted
<1>1. IInv => SealedIsAccounted
    <2> SUFFICES ASSUME IInv, sink.sealed PROVE SealedIsAccounted
        BY DEF SealedIsAccounted
    <2>1. Terminates /\ log \in Logs
        BY Typed DEF IInv
    <2>2. Terminated
        BY <2>1 DEF Terminates
    <2>3. PICK i \in DOMAIN log : log[i][2] \in Terminals
        BY <2>2 DEF Terminated
    <2>4. log[Len(log)][2] \in Terminals
        BY <2>1, <2>3 DEF Terminates
    <2>5. \A j \in DOMAIN log : log[j][2] \in Terminals <=> j = Len(log)
        BY <2>1, <2>4 DEF Terminates
    <2> QED BY <2>1, <2>2, <2>5 DEF Terminates, SealedIsAccounted
<1> QED BY Invariant, <1>1, PTL
=============================================================================
