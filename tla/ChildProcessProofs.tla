------------------------ MODULE ChildProcessProofs ------------------------
(***************************************************************************)
(* For any set of callers and any number of spawns: the safety properties  *)
(* of ChildProcess, from one inductive invariant.                          *)
(***************************************************************************)
EXTENDS ChildProcess, TLAPS

\* A pending call names a generation, and the kill hook is the current one's.
CallsAndHook ==
    /\ \A c \in Callers : call[c].pc # "idle" => call[c].gen # 0
    /\ ownerTask # 0 => hook \in {0, ownerTask}
    /\ hook # 0 => owner[hook] \notin {"none", "entering"}

\* A generation that has not spawned has no child.
NoChildBeforeSpawn ==
    \A g \in Gens : owner[g] \in {"none", "entering"} => child[g] = "none"

\* Behind a verdict no owner comes to life, and who acknowledges it saw that
\* no child is left.
VerdictFreezes ==
    unconfirmed =>
        /\ \A g \in Gens : owner[g] \in Body => g \in cancelled
        /\ incident \in acks => \A g \in Gens : child[g] # "up"

\* A generation raises one incident at most, and a verdict has one.
OneIncident ==
    /\ ownerTask # 0 /\ ~unconfirmed => incident < gen
    /\ unconfirmed => incident # 0

IInv ==
    /\ TypeOK
    /\ NoChildForgotten
    /\ OneChild
    /\ SessionIsOwned
    /\ NoStaleSignal
    /\ CallsAndHook
    /\ NoChildBeforeSpawn
    /\ VerdictFreezes
    /\ OneIncident

-----------------------------------------------------------------------------
(* What the helpers of the model establish.                                *)

\* Only the current generation may have an owner that is not done.
LEMMA LiveOwnerIsCurrent ==
    ASSUME IInv, NEW g \in Gens, owner[g] \notin {"none", "done"}
    PROVE  g \in 1..gen /\ g = ownerTask
BY MaxGenAssumption DEF IInv, TypeOK, SessionIsOwned, Gens

\* Failing closed behind an owner that is not done raises the verdict, under
\* an identity nobody has verified, signals no stale group and revives nothing.
LEMMA FailClosedFacts ==
    ASSUME IInv, NEW g \in Gens, owner[g] \notin {"none", "done"}, FailClosedFor(g)
    PROVE  /\ unconfirmed' = TRUE
           /\ incident' \in incident..gen /\ incident' # 0
           /\ incident' \in acks => \A h \in Gens : child[h] # "up"
           /\ signalled' \in [gen : 0..gen, late : BOOLEAN]
           /\ ~signalled'.late
           /\ child' \in [Gens -> {"none", "up", "gone"}]
           /\ \A h \in Gens :
                \/ child'[h] = child[h]
                \/ child'[h] = "gone" /\ owner[h] \notin {"none", "entering"}
<1>1. g \in 1..gen /\ g = ownerTask
  BY LiveOwnerIsCurrent
<1>2. CASE unconfirmed
  BY <1>1, <1>2 DEF FailClosedFor, NotFailing, IInv, TypeOK, NoStaleSignal, VerdictFreezes,
    OneIncident
<1>3. CASE ~unconfirmed
  <2>1. FailClosed
    BY <1>1, <1>3 DEF FailClosedFor
  <2>2. unconfirmed' = TRUE /\ incident' = incident + 1
    BY <2>1, <1>3 DEF FailClosed
  <2>3. incident < gen
    BY <1>1, <1>3 DEF IInv, OneIncident
  <2>4. incident' \in incident..gen /\ incident' # 0 /\ incident' \notin acks
    BY <2>2, <2>3 DEF IInv, TypeOK
  <2>5. /\ signalled' \in [gen : 0..gen, late : BOOLEAN]
        /\ ~signalled'.late
    <3>1. CASE hook = 0
      BY <2>1, <3>1 DEF FailClosed, IInv, TypeOK, NoStaleSignal
    <3>2. CASE hook # 0
      <4>1. hook = g
        BY <1>1, <3>2 DEF IInv, CallsAndHook
      <4>2. signalled' = [gen |-> g, late |-> FALSE]
        BY <2>1, <1>1, <3>2, <4>1 DEF FailClosed
      <4> QED
        BY <1>1, <4>2
    <3> QED
      BY <3>1, <3>2
  <2>6. /\ child' \in [Gens -> {"none", "up", "gone"}]
        /\ \A h \in Gens :
             \/ child'[h] = child[h]
             \/ child'[h] = "gone" /\ owner[h] \notin {"none", "entering"}
    BY <2>1 DEF FailClosed, IInv, TypeOK, CallsAndHook
  <2> QED
    BY <2>2, <2>4, <2>5, <2>6
<1> QED
  BY <1>2, <1>3

-----------------------------------------------------------------------------
(* The steps of an owner, of a caller and of the operator.                 *)

LEMMA SpawnedInv == ASSUME IInv, NEW g \in Gens, Spawned(g) PROVE IInv'
<1>1. TypeOK'
  BY MaxGenAssumption DEF IInv, TypeOK, Gens, Spawned, Undisturbed, OwnerAt, verdict, Body
<1>2. NoChildForgotten' /\ OneChild'
  BY LiveOwnerIsCurrent, MaxGenAssumption DEF IInv, TypeOK, NoChildForgotten, OneChild,
     SessionIsOwned, VerdictFreezes, NoChildBeforeSpawn, Gens, Spawned, Undisturbed,
     OwnerAt, verdict, Body
<1>3. SessionIsOwned'
  BY LiveOwnerIsCurrent, MaxGenAssumption DEF IInv, TypeOK, SessionIsOwned, Gens,
     Spawned, Undisturbed, OwnerAt, verdict, Body
<1>4. NoStaleSignal' /\ VerdictFreezes'
  BY MaxGenAssumption DEF IInv, TypeOK, NoStaleSignal, VerdictFreezes, Gens, Spawned,
     Undisturbed, OwnerAt, verdict, Body
<1>5. CallsAndHook' /\ NoChildBeforeSpawn' /\ OneIncident'
  BY LiveOwnerIsCurrent, MaxGenAssumption DEF IInv, TypeOK, CallsAndHook,
     NoChildBeforeSpawn, OneIncident, Gens, Spawned, Undisturbed, OwnerAt, verdict, Body
<1> QED
  BY <1>1, <1>2, <1>3, <1>4, <1>5 DEF IInv

LEMMA SpawnFailedInv == ASSUME IInv, NEW g \in Gens, SpawnFailed(g) PROVE IInv'
<1>1. TypeOK'
  BY MaxGenAssumption DEF IInv, TypeOK, Gens, SpawnFailed, Undisturbed, OwnerAt, Ready,
     verdict, Body
<1>2. NoChildForgotten' /\ OneChild'
  BY LiveOwnerIsCurrent, MaxGenAssumption DEF IInv, TypeOK, NoChildForgotten, OneChild,
     SessionIsOwned, VerdictFreezes, NoChildBeforeSpawn, Gens, SpawnFailed, Undisturbed,
     OwnerAt, Ready, verdict, Body
<1>3. SessionIsOwned'
  BY LiveOwnerIsCurrent, MaxGenAssumption DEF IInv, TypeOK, SessionIsOwned, Gens,
     SpawnFailed, Undisturbed, OwnerAt, Ready, verdict, Body
<1>4. NoStaleSignal' /\ VerdictFreezes'
  BY MaxGenAssumption DEF IInv, TypeOK, NoStaleSignal, VerdictFreezes, Gens,
     SpawnFailed, Undisturbed, OwnerAt, Ready, verdict, Body
<1>5. CallsAndHook' /\ NoChildBeforeSpawn' /\ OneIncident'
  BY LiveOwnerIsCurrent, MaxGenAssumption DEF IInv, TypeOK, CallsAndHook,
     NoChildBeforeSpawn, OneIncident, Gens, SpawnFailed, Undisturbed, OwnerAt, Ready,
     verdict, Body
<1> QED
  BY <1>1, <1>2, <1>3, <1>4, <1>5 DEF IInv

LEMMA InitializedInv == ASSUME IInv, NEW g \in Gens, Initialized(g) PROVE IInv'
<1>1. TypeOK'
  BY MaxGenAssumption DEF IInv, TypeOK, Gens, Initialized, Undisturbed, OwnerAt,
     verdict, Body
<1>2. NoChildForgotten' /\ OneChild'
  BY LiveOwnerIsCurrent, MaxGenAssumption DEF IInv, TypeOK, NoChildForgotten, OneChild,
     SessionIsOwned, VerdictFreezes, NoChildBeforeSpawn, Gens, Initialized, Undisturbed,
     OwnerAt, verdict, Body
<1>3. SessionIsOwned'
  BY LiveOwnerIsCurrent, MaxGenAssumption DEF IInv, TypeOK, SessionIsOwned, Gens,
     Initialized, Undisturbed, OwnerAt, verdict, Body
<1>4. NoStaleSignal' /\ VerdictFreezes'
  BY MaxGenAssumption DEF IInv, TypeOK, NoStaleSignal, VerdictFreezes, Gens,
     Initialized, Undisturbed, OwnerAt, verdict, Body
<1>5. CallsAndHook' /\ NoChildBeforeSpawn' /\ OneIncident'
  BY LiveOwnerIsCurrent, MaxGenAssumption DEF IInv, TypeOK, CallsAndHook,
     NoChildBeforeSpawn, OneIncident, Gens, Initialized, Undisturbed, OwnerAt, verdict,
     Body
<1> QED
  BY <1>1, <1>2, <1>3, <1>4, <1>5 DEF IInv

LEMMA HealthCheckedInv == ASSUME IInv, NEW g \in Gens, HealthChecked(g) PROVE IInv'
<1>1. TypeOK'
  BY MaxGenAssumption DEF IInv, TypeOK, Gens, HealthChecked, Undisturbed, OwnerAt,
     Ready, verdict, Body
<1>2. NoChildForgotten' /\ OneChild'
  BY LiveOwnerIsCurrent, MaxGenAssumption DEF IInv, TypeOK, NoChildForgotten, OneChild,
     SessionIsOwned, VerdictFreezes, NoChildBeforeSpawn, Gens, HealthChecked,
     Undisturbed, OwnerAt, Ready, verdict, Body
<1>3. SessionIsOwned'
  BY LiveOwnerIsCurrent, MaxGenAssumption DEF IInv, TypeOK, SessionIsOwned, Gens,
     HealthChecked, Undisturbed, OwnerAt, Ready, verdict, Body
<1>4. NoStaleSignal' /\ VerdictFreezes'
  BY MaxGenAssumption DEF IInv, TypeOK, NoStaleSignal, VerdictFreezes, Gens,
     HealthChecked, Undisturbed, OwnerAt, Ready, verdict, Body
<1>5. CallsAndHook' /\ NoChildBeforeSpawn' /\ OneIncident'
  BY LiveOwnerIsCurrent, MaxGenAssumption DEF IInv, TypeOK, CallsAndHook,
     NoChildBeforeSpawn, OneIncident, Gens, HealthChecked, Undisturbed, OwnerAt, Ready,
     verdict, Body
<1> QED
  BY <1>1, <1>2, <1>3, <1>4, <1>5 DEF IInv

LEMMA StartupFailedInv == ASSUME IInv, NEW g \in Gens, StartupFailed(g) PROVE IInv'
<1>1. TypeOK'
  BY MaxGenAssumption DEF IInv, TypeOK, Gens, StartupFailed, Undisturbed, OwnerAt,
     Ready, verdict, Body
<1>2. NoChildForgotten' /\ OneChild'
  BY LiveOwnerIsCurrent, MaxGenAssumption DEF IInv, TypeOK, NoChildForgotten, OneChild,
     SessionIsOwned, VerdictFreezes, NoChildBeforeSpawn, Gens, StartupFailed,
     Undisturbed, OwnerAt, Ready, verdict, Body
<1>3. SessionIsOwned'
  BY LiveOwnerIsCurrent, MaxGenAssumption DEF IInv, TypeOK, SessionIsOwned, Gens,
     StartupFailed, Undisturbed, OwnerAt, Ready, verdict, Body
<1>4. NoStaleSignal' /\ VerdictFreezes'
  BY MaxGenAssumption DEF IInv, TypeOK, NoStaleSignal, VerdictFreezes, Gens,
     StartupFailed, Undisturbed, OwnerAt, Ready, verdict, Body
<1>5. CallsAndHook' /\ NoChildBeforeSpawn' /\ OneIncident'
  BY LiveOwnerIsCurrent, MaxGenAssumption DEF IInv, TypeOK, CallsAndHook,
     NoChildBeforeSpawn, OneIncident, Gens, StartupFailed, Undisturbed, OwnerAt, Ready,
     verdict, Body
<1> QED
  BY <1>1, <1>2, <1>3, <1>4, <1>5 DEF IInv

LEMMA StopHeardInv == ASSUME IInv, NEW g \in Gens, StopHeard(g) PROVE IInv'
<1>1. TypeOK'
  BY MaxGenAssumption DEF IInv, TypeOK, Gens, StopHeard, Undisturbed, OwnerAt, verdict, Body
<1>2. NoChildForgotten' /\ OneChild'
  BY LiveOwnerIsCurrent, MaxGenAssumption DEF IInv, TypeOK, NoChildForgotten, OneChild,
     SessionIsOwned, VerdictFreezes, NoChildBeforeSpawn, Gens, StopHeard, Undisturbed,
     OwnerAt, verdict, Body
<1>3. SessionIsOwned'
  BY LiveOwnerIsCurrent, MaxGenAssumption DEF IInv, TypeOK, SessionIsOwned, Gens,
     StopHeard, Undisturbed, OwnerAt, verdict, Body
<1>4. NoStaleSignal' /\ VerdictFreezes'
  BY MaxGenAssumption DEF IInv, TypeOK, NoStaleSignal, VerdictFreezes, Gens, StopHeard,
     Undisturbed, OwnerAt, verdict, Body
<1>5. CallsAndHook' /\ NoChildBeforeSpawn' /\ OneIncident'
  BY LiveOwnerIsCurrent, MaxGenAssumption DEF IInv, TypeOK, CallsAndHook,
     NoChildBeforeSpawn, OneIncident, Gens, StopHeard, Undisturbed, OwnerAt, verdict,
     Body
<1> QED
  BY <1>1, <1>2, <1>3, <1>4, <1>5 DEF IInv

LEMMA ChildExitsInv == ASSUME IInv, NEW g \in Gens, ChildExits(g) PROVE IInv'
<1>1. TypeOK'
  BY MaxGenAssumption DEF IInv, TypeOK, Gens, ChildExits, owners, verdict
<1>2. NoChildForgotten' /\ OneChild'
  BY LiveOwnerIsCurrent, MaxGenAssumption DEF IInv, TypeOK, NoChildForgotten, OneChild,
     SessionIsOwned, VerdictFreezes, NoChildBeforeSpawn, Gens, ChildExits, owners,
     verdict
<1>3. SessionIsOwned'
  BY LiveOwnerIsCurrent, MaxGenAssumption DEF IInv, TypeOK, SessionIsOwned, Gens,
     ChildExits, owners, verdict
<1>4. NoStaleSignal' /\ VerdictFreezes'
  BY MaxGenAssumption DEF IInv, TypeOK, NoStaleSignal, VerdictFreezes, Gens, ChildExits,
     owners, verdict
<1>5. CallsAndHook' /\ NoChildBeforeSpawn' /\ OneIncident'
  BY LiveOwnerIsCurrent, MaxGenAssumption DEF IInv, TypeOK, CallsAndHook,
     NoChildBeforeSpawn, OneIncident, Gens, ChildExits, owners, verdict
<1> QED
  BY <1>1, <1>2, <1>3, <1>4, <1>5 DEF IInv

LEMMA StartInv == ASSUME IInv, NEW c \in Callers, Start(c) PROVE IInv'
<1>1. TypeOK'
  BY MaxGenAssumption DEF IInv, TypeOK, Gens, Start, Spawn, OwnerAt, verdict, Idle,
     CallPcs, Body, Attached
<1>2. NoChildForgotten' /\ OneChild'
  BY LiveOwnerIsCurrent, MaxGenAssumption DEF IInv, TypeOK, NoChildForgotten, OneChild,
     SessionIsOwned, VerdictFreezes, NoChildBeforeSpawn, Gens, Start, Spawn, OwnerAt,
     verdict, Idle, CallPcs, Body, Attached
<1>3. SessionIsOwned'
  BY LiveOwnerIsCurrent, MaxGenAssumption DEF IInv, TypeOK, SessionIsOwned, Gens, Start,
     Spawn, OwnerAt, verdict, Idle, CallPcs, Body, Attached
<1>4. NoStaleSignal' /\ VerdictFreezes'
  BY MaxGenAssumption DEF IInv, TypeOK, NoStaleSignal, VerdictFreezes, Gens, Start,
     Spawn, OwnerAt, verdict, Idle, CallPcs, Body, Attached
<1>5. CallsAndHook' /\ NoChildBeforeSpawn' /\ OneIncident'
  BY LiveOwnerIsCurrent, MaxGenAssumption DEF IInv, TypeOK, CallsAndHook,
     NoChildBeforeSpawn, OneIncident, Gens, Start, Spawn, OwnerAt, verdict, Idle,
     CallPcs, Body, Attached
<1> QED
  BY <1>1, <1>2, <1>3, <1>4, <1>5 DEF IInv

LEMMA StartReturnsInv == ASSUME IInv, NEW c \in Callers, StartReturns(c) PROVE IInv'
<1>1. TypeOK'
  BY MaxGenAssumption DEF IInv, TypeOK, Gens, StartReturns, Returns, Idle, CallPcs,
     owners, verdict
<1>2. NoChildForgotten' /\ OneChild'
  BY LiveOwnerIsCurrent, MaxGenAssumption DEF IInv, TypeOK, NoChildForgotten, OneChild,
     SessionIsOwned, VerdictFreezes, NoChildBeforeSpawn, Gens, StartReturns, Returns,
     Idle, CallPcs, owners, verdict
<1>3. SessionIsOwned'
  BY LiveOwnerIsCurrent, MaxGenAssumption DEF IInv, TypeOK, SessionIsOwned, Gens,
     StartReturns, Returns, Idle, CallPcs, owners, verdict
<1>4. NoStaleSignal' /\ VerdictFreezes'
  BY MaxGenAssumption DEF IInv, TypeOK, NoStaleSignal, VerdictFreezes, Gens,
     StartReturns, Returns, Idle, CallPcs, owners, verdict
<1>5. CallsAndHook' /\ NoChildBeforeSpawn' /\ OneIncident'
  BY LiveOwnerIsCurrent, MaxGenAssumption DEF IInv, TypeOK, CallsAndHook,
     NoChildBeforeSpawn, OneIncident, Gens, StartReturns, Returns, Idle, CallPcs,
     owners, verdict
<1> QED
  BY <1>1, <1>2, <1>3, <1>4, <1>5 DEF IInv

LEMMA StartFailsInv == ASSUME IInv, NEW c \in Callers, StartFails(c) PROVE IInv'
<1>1. TypeOK'
  BY MaxGenAssumption DEF IInv, TypeOK, Gens, StartFails, CallAt, CallPcs, owners, verdict
<1>2. NoChildForgotten' /\ OneChild'
  BY LiveOwnerIsCurrent, MaxGenAssumption DEF IInv, TypeOK, NoChildForgotten, OneChild,
     SessionIsOwned, VerdictFreezes, NoChildBeforeSpawn, Gens, StartFails, CallAt,
     CallPcs, owners, verdict
<1>3. SessionIsOwned'
  BY LiveOwnerIsCurrent, MaxGenAssumption DEF IInv, TypeOK, SessionIsOwned, Gens,
     StartFails, CallAt, CallPcs, owners, verdict
<1>4. NoStaleSignal' /\ VerdictFreezes'
  BY MaxGenAssumption DEF IInv, TypeOK, NoStaleSignal, VerdictFreezes, Gens, StartFails,
     CallAt, CallPcs, owners, verdict
<1>5. CallsAndHook' /\ NoChildBeforeSpawn' /\ OneIncident'
  BY LiveOwnerIsCurrent, MaxGenAssumption DEF IInv, TypeOK, CallsAndHook,
     NoChildBeforeSpawn, OneIncident, Gens, StartFails, CallAt, CallPcs, owners, verdict
<1> QED
  BY <1>1, <1>2, <1>3, <1>4, <1>5 DEF IInv

LEMMA UnwindCancelledInv == ASSUME IInv, NEW c \in Callers, UnwindCancelled(c) PROVE IInv'
<1>1. TypeOK'
  BY MaxGenAssumption DEF IInv, TypeOK, Gens, UnwindCancelled, Returns, Idle, CallPcs,
     owners, verdict
<1>2. NoChildForgotten' /\ OneChild'
  BY LiveOwnerIsCurrent, MaxGenAssumption DEF IInv, TypeOK, NoChildForgotten, OneChild,
     SessionIsOwned, VerdictFreezes, NoChildBeforeSpawn, Gens, UnwindCancelled, Returns,
     Idle, CallPcs, owners, verdict
<1>3. SessionIsOwned'
  BY LiveOwnerIsCurrent, MaxGenAssumption DEF IInv, TypeOK, SessionIsOwned, Gens,
     UnwindCancelled, Returns, Idle, CallPcs, owners, verdict
<1>4. NoStaleSignal' /\ VerdictFreezes'
  BY MaxGenAssumption DEF IInv, TypeOK, NoStaleSignal, VerdictFreezes, Gens,
     UnwindCancelled, Returns, Idle, CallPcs, owners, verdict
<1>5. CallsAndHook' /\ NoChildBeforeSpawn' /\ OneIncident'
  BY LiveOwnerIsCurrent, MaxGenAssumption DEF IInv, TypeOK, CallsAndHook,
     NoChildBeforeSpawn, OneIncident, Gens, UnwindCancelled, Returns, Idle, CallPcs,
     owners, verdict
<1> QED
  BY <1>1, <1>2, <1>3, <1>4, <1>5 DEF IInv

LEMMA UnwindEndsInv == ASSUME IInv, NEW c \in Callers, UnwindEnds(c) PROVE IInv'
<1>1. TypeOK'
  BY MaxGenAssumption DEF IInv, TypeOK, Gens, UnwindEnds, Returns, Idle, CallPcs, verdict
<1>2. NoChildForgotten' /\ OneChild'
  BY LiveOwnerIsCurrent, MaxGenAssumption DEF IInv, TypeOK, NoChildForgotten, OneChild,
     SessionIsOwned, VerdictFreezes, NoChildBeforeSpawn, Gens, UnwindEnds, Returns,
     Idle, CallPcs, verdict
<1>3. SessionIsOwned'
  BY LiveOwnerIsCurrent, MaxGenAssumption DEF IInv, TypeOK, SessionIsOwned, Gens,
     UnwindEnds, Returns, Idle, CallPcs, verdict
<1>4. NoStaleSignal' /\ VerdictFreezes'
  BY MaxGenAssumption DEF IInv, TypeOK, NoStaleSignal, VerdictFreezes, Gens, UnwindEnds,
     Returns, Idle, CallPcs, verdict
<1>5. CallsAndHook' /\ NoChildBeforeSpawn' /\ OneIncident'
  BY LiveOwnerIsCurrent, MaxGenAssumption DEF IInv, TypeOK, CallsAndHook,
     NoChildBeforeSpawn, OneIncident, Gens, UnwindEnds, Returns, Idle, CallPcs, verdict
<1> QED
  BY <1>1, <1>2, <1>3, <1>4, <1>5 DEF IInv

LEMMA StopEndsInv == ASSUME IInv, NEW c \in Callers, StopEnds(c) PROVE IInv'
<1>1. TypeOK'
  BY MaxGenAssumption DEF IInv, TypeOK, Gens, StopEnds, Returns, Idle, CallPcs, verdict
<1>2. NoChildForgotten' /\ OneChild'
  BY LiveOwnerIsCurrent, MaxGenAssumption DEF IInv, TypeOK, NoChildForgotten, OneChild,
     SessionIsOwned, VerdictFreezes, NoChildBeforeSpawn, Gens, StopEnds, Returns, Idle,
     CallPcs, verdict
<1>3. SessionIsOwned'
  BY LiveOwnerIsCurrent, MaxGenAssumption DEF IInv, TypeOK, SessionIsOwned, Gens,
     StopEnds, Returns, Idle, CallPcs, verdict
<1>4. NoStaleSignal' /\ VerdictFreezes'
  BY MaxGenAssumption DEF IInv, TypeOK, NoStaleSignal, VerdictFreezes, Gens, StopEnds,
     Returns, Idle, CallPcs, verdict
<1>5. CallsAndHook' /\ NoChildBeforeSpawn' /\ OneIncident'
  BY LiveOwnerIsCurrent, MaxGenAssumption DEF IInv, TypeOK, CallsAndHook,
     NoChildBeforeSpawn, OneIncident, Gens, StopEnds, Returns, Idle, CallPcs, verdict
<1> QED
  BY <1>1, <1>2, <1>3, <1>4, <1>5 DEF IInv

LEMMA StopInv == ASSUME IInv, NEW c \in Callers, Stop(c) PROVE IInv'
<1>1. TypeOK'
  BY MaxGenAssumption DEF IInv, TypeOK, Gens, Stop, Idle, CallPcs, verdict
<1>2. NoChildForgotten' /\ OneChild'
  BY LiveOwnerIsCurrent, MaxGenAssumption DEF IInv, TypeOK, NoChildForgotten, OneChild,
     SessionIsOwned, VerdictFreezes, NoChildBeforeSpawn, Gens, Stop, Idle, CallPcs,
     verdict
<1>3. SessionIsOwned'
  BY LiveOwnerIsCurrent, MaxGenAssumption DEF IInv, TypeOK, SessionIsOwned, Gens, Stop,
     Idle, CallPcs, verdict
<1>4. NoStaleSignal' /\ VerdictFreezes'
  BY MaxGenAssumption DEF IInv, TypeOK, NoStaleSignal, VerdictFreezes, Gens, Stop, Idle,
     CallPcs, verdict
<1>5. CallsAndHook' /\ NoChildBeforeSpawn' /\ OneIncident'
  BY LiveOwnerIsCurrent, MaxGenAssumption DEF IInv, TypeOK, CallsAndHook,
     NoChildBeforeSpawn, OneIncident, Gens, Stop, Idle, CallPcs, verdict
<1> QED
  BY <1>1, <1>2, <1>3, <1>4, <1>5 DEF IInv


LEMMA BodyAbortedInv == ASSUME IInv, NEW g0 \in Gens, BodyAborted(g0) PROVE IInv'
<1> DEFINE g == g0
<1>1. g \in Gens /\ owner[g] \notin {"none", "done"} /\ FailClosedFor(g)
  BY MaxGenAssumption DEF IInv, TypeOK, CallsAndHook, Gens, Body, BodyAborted
<1>2. g \in 1..gen /\ g = ownerTask
  BY <1>1, LiveOwnerIsCurrent
<1> HIDE DEF g
<1>3. /\ unconfirmed' = TRUE
      /\ incident' \in incident..gen /\ incident' # 0
      /\ incident' \in acks => \A h \in Gens : child[h] # "up"
      /\ signalled' \in [gen : 0..gen, late : BOOLEAN]
      /\ ~signalled'.late
      /\ child' \in [Gens -> {"none", "up", "gone"}]
      /\ \A h \in Gens :
           \/ child'[h] = child[h]
           \/ child'[h] = "gone" /\ owner[h] \notin {"none", "entering"}
  BY <1>1, FailClosedFacts
<1>4. /\ owner' = [owner EXCEPT ![g] = "unwinding"]
      /\ cancelled' = cancelled \ {g}
      /\ UNCHANGED <<gen, ownerTask, ready, stopEvents, session, hook, call, acks>>
  BY <1>1, <1>2, MaxGenAssumption DEF g, BodyAborted, OwnerAt
<1>5. TypeOK'
  BY <1>2, <1>3, <1>4, MaxGenAssumption DEF IInv, TypeOK, Gens, Body, CallPcs
<1>6. NoChildForgotten' /\ OneChild' /\ NoStaleSignal' /\ OneIncident'
  BY <1>3, <1>4 DEF IInv, NoChildForgotten, OneChild, NoStaleSignal, OneIncident
<1>7. SessionIsOwned'
  BY <1>2, <1>4, MaxGenAssumption DEF IInv, TypeOK, SessionIsOwned, Gens
<1>8. CallsAndHook' /\ NoChildBeforeSpawn'
  BY <1>1, <1>2, <1>3, <1>4, MaxGenAssumption DEF IInv, TypeOK, CallsAndHook,
     NoChildBeforeSpawn, Gens
<1>9. VerdictFreezes'
  BY <1>1, <1>2, <1>3, <1>4, LiveOwnerIsCurrent, MaxGenAssumption DEF IInv, TypeOK,
     VerdictFreezes, Gens, Body
<1> QED
  BY <1>5, <1>6, <1>7, <1>8, <1>9 DEF IInv

LEMMA UnwindTimesOutInv == ASSUME IInv, NEW c \in Callers, UnwindTimesOut(c) PROVE IInv'
<1> DEFINE g == call[c].gen
<1>1. g \in Gens /\ owner[g] \notin {"none", "done"} /\ FailClosedFor(g)
  BY MaxGenAssumption DEF IInv, TypeOK, CallsAndHook, Gens, Body, UnwindTimesOut,
     FailClosedAndCancel
<1>2. g \in 1..gen /\ g = ownerTask
  BY <1>1, LiveOwnerIsCurrent
<1> HIDE DEF g
<1>3. /\ unconfirmed' = TRUE
      /\ incident' \in incident..gen /\ incident' # 0
      /\ incident' \in acks => \A h \in Gens : child[h] # "up"
      /\ signalled' \in [gen : 0..gen, late : BOOLEAN]
      /\ ~signalled'.late
      /\ child' \in [Gens -> {"none", "up", "gone"}]
      /\ \A h \in Gens :
           \/ child'[h] = child[h]
           \/ child'[h] = "gone" /\ owner[h] \notin {"none", "entering"}
  BY <1>1, FailClosedFacts
<1>4. /\ cancelled' = IF ~unconfirmed THEN cancelled \cup {g} ELSE cancelled
      /\ call' = [call EXCEPT ![c].pc = "unwindCancelled"]
      /\ call[c].gen = g
      /\ UNCHANGED <<gen, ownerTask, owner, ready, stopEvents, session, hook, acks>>
  BY <1>1, <1>2, MaxGenAssumption DEF g, UnwindTimesOut, FailClosedAndCancel,
     FailClosedFor, CallAt
<1>5. TypeOK'
  BY <1>2, <1>3, <1>4, MaxGenAssumption DEF IInv, TypeOK, Gens, Body, CallPcs
<1>6. NoChildForgotten' /\ OneChild' /\ NoStaleSignal' /\ OneIncident'
  BY <1>3, <1>4 DEF IInv, NoChildForgotten, OneChild, NoStaleSignal, OneIncident
<1>7. SessionIsOwned'
  BY <1>2, <1>4, MaxGenAssumption DEF IInv, TypeOK, SessionIsOwned, Gens
<1>8. CallsAndHook' /\ NoChildBeforeSpawn'
  BY <1>1, <1>2, <1>3, <1>4, MaxGenAssumption DEF IInv, TypeOK, CallsAndHook,
     NoChildBeforeSpawn, Gens
<1>9. VerdictFreezes'
  BY <1>1, <1>2, <1>3, <1>4, LiveOwnerIsCurrent, MaxGenAssumption, SMTT(30) DEF IInv, TypeOK,
     VerdictFreezes, Gens, Body
<1> QED
  BY <1>5, <1>6, <1>7, <1>8, <1>9 DEF IInv

LEMMA StopTimesOutInv == ASSUME IInv, NEW c \in Callers, StopTimesOut(c) PROVE IInv'
<1> DEFINE g == call[c].gen
<1>1. g \in Gens /\ owner[g] \notin {"none", "done"} /\ FailClosedFor(g)
  BY MaxGenAssumption DEF IInv, TypeOK, CallsAndHook, Gens, Body, StopTimesOut,
     FailClosedAndCancel
<1>2. g \in 1..gen /\ g = ownerTask
  BY <1>1, LiveOwnerIsCurrent
<1> HIDE DEF g
<1>3. /\ unconfirmed' = TRUE
      /\ incident' \in incident..gen /\ incident' # 0
      /\ incident' \in acks => \A h \in Gens : child[h] # "up"
      /\ signalled' \in [gen : 0..gen, late : BOOLEAN]
      /\ ~signalled'.late
      /\ child' \in [Gens -> {"none", "up", "gone"}]
      /\ \A h \in Gens :
           \/ child'[h] = child[h]
           \/ child'[h] = "gone" /\ owner[h] \notin {"none", "entering"}
  BY <1>1, FailClosedFacts
<1>4. /\ cancelled' = IF ~unconfirmed THEN cancelled \cup {g} ELSE cancelled
      /\ call' = [call EXCEPT ![c].pc = "reaping"]
      /\ call[c].gen = g
      /\ UNCHANGED <<gen, ownerTask, owner, ready, stopEvents, session, hook, acks>>
  BY <1>1, <1>2, MaxGenAssumption DEF g, StopTimesOut, FailClosedAndCancel,
     FailClosedFor, CallAt
<1>5. TypeOK'
  BY <1>2, <1>3, <1>4, MaxGenAssumption DEF IInv, TypeOK, Gens, Body, CallPcs
<1>6. NoChildForgotten' /\ OneChild' /\ NoStaleSignal' /\ OneIncident'
  BY <1>3, <1>4 DEF IInv, NoChildForgotten, OneChild, NoStaleSignal, OneIncident
<1>7. SessionIsOwned'
  BY <1>2, <1>4, MaxGenAssumption DEF IInv, TypeOK, SessionIsOwned, Gens
<1>8. CallsAndHook' /\ NoChildBeforeSpawn'
  BY <1>1, <1>2, <1>3, <1>4, MaxGenAssumption DEF IInv, TypeOK, CallsAndHook,
     NoChildBeforeSpawn, Gens
<1>9. VerdictFreezes'
  BY <1>1, <1>2, <1>3, <1>4, LiveOwnerIsCurrent, MaxGenAssumption, SMTT(30) DEF IInv, TypeOK,
     VerdictFreezes, Gens, Body
<1> QED
  BY <1>5, <1>6, <1>7, <1>8, <1>9 DEF IInv

\* The end of the context: clean, the child is gone; otherwise a verdict.
LEMMA UnwoundInv == ASSUME IInv, NEW g \in Gens, Unwound(g) PROVE IInv'
<1>1. owner[g] \notin {"none", "done"} /\ g \in 1..gen /\ g = ownerTask
  BY LiveOwnerIsCurrent DEF Unwound
<1>2. /\ owner' = [owner EXCEPT ![g] = "done"]
      /\ ready' \in [Gens -> {"pending", "ok", "failed"}]
      /\ session' = 0 /\ cancelled' = cancelled \ {g}
      /\ UNCHANGED <<gen, ownerTask, stopEvents, hook, call, acks>>
  BY DEF Unwound, OwnerAt, Ready, IInv, TypeOK
<1>3. /\ unconfirmed' \in BOOLEAN /\ (unconfirmed => unconfirmed')
      /\ child'[g] = "up" => unconfirmed'
      /\ incident' \in incident..gen /\ (unconfirmed' => incident' # 0)
      /\ unconfirmed' /\ incident' \in acks => \A h \in Gens : child[h] # "up"
      /\ signalled' \in [gen : 0..gen, late : BOOLEAN]
      /\ ~signalled'.late
      /\ child' \in [Gens -> {"none", "up", "gone"}]
      /\ \A h \in Gens :
           \/ child'[h] = child[h]
           \/ child'[h] = "gone" /\ owner[h] \notin {"none", "entering"}
      /\ ~unconfirmed' => incident' = incident
  <2>1. CASE FailClosedFor(g)
    BY <1>1, <2>1, FailClosedFacts
  <2>2. CASE /\ child' = [child EXCEPT ![g] = IF @ = "up" THEN "gone" ELSE @]
             /\ UNCHANGED verdict
    BY <1>1, <2>2 DEF verdict, Unwound, IInv, TypeOK, NoStaleSignal, VerdictFreezes,
      OneIncident
  <2> QED
    BY <2>1, <2>2 DEF Unwound
<1>4. TypeOK'
  BY <1>1, <1>2, <1>3, MaxGenAssumption DEF IInv, TypeOK, Gens
<1>5. NoChildForgotten' /\ OneChild' /\ NoStaleSignal'
  BY <1>1, <1>2, <1>3 DEF IInv, TypeOK, NoChildForgotten, OneChild, NoStaleSignal
<1>6. SessionIsOwned' /\ OneIncident'
  BY <1>1, <1>2, <1>3, MaxGenAssumption DEF IInv, TypeOK, SessionIsOwned, OneIncident, Gens
<1>7. CallsAndHook' /\ NoChildBeforeSpawn'
  BY <1>1, <1>2, <1>3, MaxGenAssumption DEF IInv, TypeOK, CallsAndHook,
     NoChildBeforeSpawn, Gens
<1>8. VerdictFreezes'
  BY <1>1, <1>2, <1>3, LiveOwnerIsCurrent, MaxGenAssumption DEF IInv, TypeOK,
     VerdictFreezes, Gens, Body
<1> QED
  BY <1>4, <1>5, <1>6, <1>7, <1>8 DEF IInv

LEMMA OperatorVerifiesInv == ASSUME IInv, OperatorVerifies PROVE IInv'
<1>1. TypeOK'
  BY MaxGenAssumption DEF IInv, TypeOK, OperatorVerifies, OneIncident, owners, verdict
<1>2. VerdictFreezes'
  BY DEF IInv, VerdictFreezes, OperatorVerifies, owners, verdict
<1>3. /\ NoChildForgotten' /\ OneChild' /\ SessionIsOwned' /\ NoStaleSignal'
      /\ CallsAndHook' /\ NoChildBeforeSpawn' /\ OneIncident'
  BY DEF IInv, NoChildForgotten, OneChild, SessionIsOwned, NoStaleSignal, CallsAndHook,
         NoChildBeforeSpawn, OneIncident, OperatorVerifies, owners, verdict
<1> QED
  BY <1>1, <1>2, <1>3 DEF IInv

\* The identity is the current one's: no child is left when the verdict falls.
LEMMA AcknowledgeInv == ASSUME IInv, NEW i \in acks, Acknowledge(i) PROVE IInv'
<1>1. \A g \in Gens : child[g] # "up"
  BY DEF Acknowledge, IInv, VerdictFreezes
<1>2. TypeOK'
  BY DEF IInv, TypeOK, Acknowledge
<1>3. NoChildForgotten' /\ OneChild' /\ NoStaleSignal' /\ VerdictFreezes' /\ OneIncident'
  BY <1>1 DEF IInv, NoStaleSignal, NoChildForgotten, OneChild, VerdictFreezes,
     OneIncident, Acknowledge
<1>4. SessionIsOwned' /\ CallsAndHook' /\ NoChildBeforeSpawn'
  BY DEF IInv, SessionIsOwned, CallsAndHook, NoChildBeforeSpawn, Acknowledge
<1> QED
  BY <1>2, <1>3, <1>4 DEF IInv

-----------------------------------------------------------------------------
(* The invariant of the specification.                                     *)

LEMMA InitInv == ASSUME Init PROVE IInv
<1>1. TypeOK
  <2>1. /\ owner \in [Gens -> Body \cup {"none", "unwinding", "done"}]
        /\ \A g \in Gens : owner[g] = "none" <=> g > gen
    BY MaxGenAssumption DEF Init, Gens
  <2>2. call \in [Callers -> [pc : CallPcs, gen : 0..gen]]
    BY DEF Init, Idle, CallPcs
  <2>3. signalled \in [gen : 0..gen, late : BOOLEAN]
    BY DEF Init
  <2>4. /\ gen \in 0..MaxGen /\ ownerTask \in 0..gen
        /\ session \in 0..gen /\ hook \in 0..gen
        /\ incident \in 0..gen
    BY MaxGenAssumption DEF Init
  <2>5. stopEvents \subseteq 1..gen /\ cancelled \subseteq 1..gen /\ acks \subseteq 1..incident
    BY DEF Init
  <2>6. unconfirmed \in BOOLEAN
    BY Zenon DEF Init
  <2>7. /\ ready \in [Gens -> {"pending", "ok", "failed"}]
        /\ child \in [Gens -> {"none", "up", "gone"}]
    BY DEF Init
  <2> QED
    BY <2>1, <2>2, <2>3, <2>4, <2>5, <2>6, <2>7 DEF TypeOK
<1>2. NoChildForgotten /\ OneChild /\ NoStaleSignal /\ VerdictFreezes /\ OneIncident
  BY DEF Init, NoChildForgotten, OneChild, NoStaleSignal, VerdictFreezes, OneIncident
<1>3. SessionIsOwned /\ CallsAndHook /\ NoChildBeforeSpawn
  BY DEF Init, Idle, SessionIsOwned, CallsAndHook, NoChildBeforeSpawn
<1> QED
  BY <1>1, <1>2, <1>3 DEF IInv

LEMMA NextInv == ASSUME IInv, [Next]_vars PROVE IInv'
<1>1. CASE UNCHANGED vars
  BY <1>1 DEF vars, owners, verdict, IInv, TypeOK, NoChildForgotten, OneChild,
     SessionIsOwned,
     NoStaleSignal, CallsAndHook, NoChildBeforeSpawn, VerdictFreezes, OneIncident
<1>2. CASE \E c \in Callers : Start(c) \/ Stop(c) \/ UnwindCancelled(c) \/ CallerStep(c)
  BY <1>2, StartInv, StopInv, UnwindCancelledInv, StartReturnsInv, StartFailsInv,
     UnwindTimesOutInv, UnwindEndsInv, StopTimesOutInv, StopEndsInv DEF CallerStep
<1>3. CASE \E g \in Gens : OwnerStep(g) \/ ChildExits(g)
  BY <1>3, SpawnedInv, SpawnFailedInv, InitializedInv, HealthCheckedInv, StartupFailedInv,
     StopHeardInv, BodyAbortedInv, UnwoundInv, ChildExitsInv DEF OwnerStep
<1>4. CASE OperatorVerifies
  BY <1>4, OperatorVerifiesInv
<1>5. CASE \E i \in acks : Acknowledge(i)
  BY <1>5, AcknowledgeInv
<1> QED
  BY <1>1, <1>2, <1>3, <1>4, <1>5 DEF Next

THEOREM Inductive == Spec => []IInv
<1>1. Init => IInv
  BY InitInv
<1>2. IInv /\ [Next]_vars => IInv'
  BY NextInv
<1> QED
  BY <1>1, <1>2, PTL DEF Spec

\* Every variable keeps its type, an operator's acknowledgement never names an
\* incident to come, and the generations bound the incidents.
THEOREM TypeCorrect == Spec => []TypeOK
BY Inductive, PTL DEF IInv

\* stop() and start(): a child that may be alive has its owner in place or a
\* verdict against it, for any number of tasks, spawns, timeouts and cancellations.
THEOREM UncertainIsNeverClean == Spec => []NoChildForgotten
BY Inductive, PTL DEF IInv

\* start() refuses a second child: two process groups never hold the serial port.
THEOREM SerialPortExclusive == Spec => []OneChild
BY Inductive, PTL DEF IInv

\* _run_session's finally may detach the session unseen: it is its own.
THEOREM SessionOfCurrentOwner == Spec => []SessionIsOwned
BY Inductive, PTL DEF IInv

\* Once a new spawn has begun, _force_terminate signals no process group of an
\* earlier generation, nor ever one whose owner task has ended. The leader of the
\* group it signals may have exited by itself.
THEOREM SignalsOwnGroup == Spec => []NoStaleSignal
BY Inductive, PTL DEF IInv
=============================================================================
