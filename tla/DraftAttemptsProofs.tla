------------------------ MODULE DraftAttemptsProofs ------------------------
(***************************************************************************)
(* For any requests, processes and saves: a roast leaves no sourcing work  *)
(* of its process running, and a draft makes at most one profile; and for  *)
(* one trouble of clock or store, a living owner keeps its attempt.        *)
(***************************************************************************)
EXTENDS DraftAttempts, TLAPS

Rows == [outcome : {"none", "in_progress"} \cup Terminal,
         owner : Procs \cup {None}, lease : 0..Lease,
         seen : (0..Confirm) \cup {None}, snapshot : BOOLEAN,
         claim : 0..ClaimLife, saved : Values \cup {None}]

Requests == [pc : {"idle", "admitting", "waiting", "recheck", "ending", "done"},
             kind : Kinds, proc : Procs \cup {None}, gone : BOOLEAN,
             outcome : {"none"} \cup Terminal]

Tasks == [is : {"none", "running", "stopping", "ok", "error", "cancelled"},
          stage : {"context", "provider"}, preempted : BOOLEAN]

SaveRequests == [pc : {"idle", "claiming", "done"}, of : Attempts \cup {None},
                 value : Values \cup {None},
                 answer : {"none", "saved", "conflict", "refused"}]

\* A row's snapshot is the one of a successful draft, and its profile the one
\* that was saved from it.
RowsTruthful ==
    \A a \in Attempts :
        /\ row[a].snapshot => req[a].kind = "draft" /\ row[a].outcome = "success"
                                                    /\ row[a].saved = None
        /\ row[a].saved # None => row[a].outcome = "success"

\* A request that is not admitted has neither a row nor a task, and nobody
\* else's process.
NotAdmitted ==
    \A a \in Attempts :
        /\ req[a].pc = "idle" => req[a].proc = None
        /\ req[a].pc # "idle" => req[a].proc \in Procs
        /\ req[a].pc \in {"idle", "admitting"} =>
               row[a].outcome = "none" /\ task[a].is = "none"

\* The transaction that holds the database claims a draft nobody saved.
OneClaim ==
    \A s \in Saves :
        /\ save[s].pc = "claiming" <=> writer = s
        /\ save[s].pc = "claiming" =>
               /\ save[s].of \in Attempts /\ save[s].value \in Values
               /\ save[s].answer = "none"
               /\ row[save[s].of].outcome = "success" /\ row[save[s].of].saved = None
        /\ save[s].answer = "saved" => save[s].of \in Attempts /\ save[s].value \in Values

\* The start lock belongs to the admission or to the start that is under way.
LockOwned ==
    /\ roast = "starting" => lock[Main] = "roast"
    /\ \A a \in Attempts : req[a].pc = "admitting" => lock[req[a].proc] = a

\* From the moment a roast starts, its process admits and runs no sourcing work.
StartPreempts ==
    roast # "none" =>
        \A a \in Attempts : req[a].proc = Main =>
            task[a].is # "running" /\ req[a].pc # "admitting"

IInv ==
    /\ TypeOK
    /\ RowsTruthful
    /\ NotAdmitted
    /\ OneClaim
    /\ OneProfilePerDraft
    /\ LockOwned
    /\ StartPreempts

-----------------------------------------------------------------------------
(* What the passes over the rows keep.                                     *)

\* A pass may end a row in progress and drop a snapshot, and no more.
Kept(r, q) ==
    /\ q \in Rows
    /\ q.saved = r.saved
    /\ q.snapshot => r.snapshot
    /\ \/ q.outcome = r.outcome
       \/ r.outcome = "in_progress" /\ q.outcome = "reconciled"

RowsKept ==
    /\ row' \in [Attempts -> Rows]
    /\ \A a \in Attempts : Kept(row[a], row'[a])

LEMMA NoneFacts ==
    /\ None \notin Nat /\ None \notin Procs /\ None \notin Values /\ None \notin Saves
    /\ Main \in Procs
BY DraftAssumption

LEMMA BoundFacts ==
    /\ Lease \in Nat /\ Confirm \in Nat /\ ClaimLife \in Nat /\ MaxTrouble \in Nat
    /\ Lease \in 0..Lease /\ Confirm \in 0..Confirm
    /\ 0 \in 0..Lease /\ 0 \in 0..Confirm /\ 0 \in 0..ClaimLife
BY DraftAssumption

LEMMA LockNames == ASSUME NEW a \in Attempts PROVE a # "free" /\ a # "roast"
BY DraftAssumption

LEMMA KeptTransitive ==
    ASSUME NEW r \in Rows, NEW q, NEW t, Kept(r, q), Kept(q, t)
    PROVE  Kept(r, t)
BY DEF Kept

LEMMA KeptPasses ==
    ASSUME NEW r \in Rows
    PROVE  Kept(r, Expired(r)) /\ Kept(r, Observed(r)) /\ Kept(r, Reconciled(r))
                               /\ Kept(r, Renewed(r))
<1>1. Kept(r, Expired(r))
  BY DEF Kept, Rows, Terminal, Expired
<1>2. Kept(r, Renewed(r))
  BY BoundFacts DEF Kept, Rows, Terminal, Renewed
<1>3. Kept(r, Observed(r))
  BY BoundFacts DEF Kept, Rows, Terminal, Observed, Lapsed
<1>4. Kept(r, [r EXCEPT !.outcome = "reconciled"]) \/ ~Lapsed(r)
  BY DEF Kept, Rows, Terminal, Lapsed
<1>5. Kept(r, Reconciled(r))
  BY <1>3, <1>4 DEF Reconciled
<1> QED
  BY <1>1, <1>2, <1>3, <1>5

LEMMA KeptSweep ==
    ASSUME NEW r \in Rows
    PROVE  Kept(r, Expired(Reconciled(r)))
<1>1. Kept(r, Reconciled(r)) /\ Reconciled(r) \in Rows
  BY KeptPasses DEF Kept
<1>2. Kept(Reconciled(r), Expired(Reconciled(r)))
  BY <1>1, KeptPasses
<1> QED
  BY <1>1, <1>2, KeptTransitive

LEMMA RowsTyped ==
    ASSUME IInv
    PROVE  /\ row \in [Attempts -> Rows] /\ req \in [Attempts -> Requests]
           /\ task \in [Attempts -> Tasks] /\ save \in [Saves -> SaveRequests]
BY DEF IInv, TypeOK, Rows, Requests, Tasks, SaveRequests

\* Types once more, over the sets named here.
LEMMA TypeParts ==
    ASSUME row' \in [Attempts -> Rows], RowsTruthful', req' \in [Attempts -> Requests],
           task' \in [Attempts -> Tasks], heart' \in [Attempts -> {0, 1, None}],
           up' \subseteq Procs, Main \in up',
           lock' \in [Procs -> {"free", "roast"} \cup Attempts],
           roast' \in {"none", "starting", "active"}, save' \in [Saves -> SaveRequests],
           writer' \in Saves \cup {None}, profiles' \in [Attempts -> 0..2],
           trouble' \in 0..MaxTrouble
    PROVE  TypeOK'
BY DEF TypeOK, RowsTruthful, Rows, Requests, Tasks, SaveRequests

-----------------------------------------------------------------------------
(* Steps that age the rows, and leave requests and saves alone.            *)

LEMMA RowsAge ==
    ASSUME IInv, RowsKept, UNCHANGED <<req, task, lock, roast, saving>>,
           heart' \in [Attempts -> {0, 1, None}],
           up' \subseteq Procs, Main \in up', trouble' \in 0..MaxTrouble
    PROVE  IInv'
<1>1. RowsTruthful'
  BY SMTT(30) DEF IInv, RowsTruthful, TypeOK, RowsKept, Kept, saving
<1>2. TypeOK'
  BY <1>1, RowsTyped, TypeParts DEF IInv, TypeOK, RowsKept, saving
<1>3. NotAdmitted' /\ LockOwned' /\ StartPreempts'
  BY DEF IInv, NotAdmitted, LockOwned, StartPreempts, RowsKept, Kept
<1>4. OneClaim' /\ OneProfilePerDraft'
  BY RowsTyped DEF IInv, OneClaim, OneProfilePerDraft, RowsKept, Kept, saving, SaveRequests
<1> QED
  BY <1>1, <1>2, <1>3, <1>4 DEF IInv

LEMMA SweepInv == ASSUME IInv, Sweep PROVE IInv'
<1>1. RowsKept
  BY RowsTyped, KeptSweep DEF RowsKept, Sweep, Kept
<1> QED
  BY <1>1, RowsAge DEF Sweep, IInv, TypeOK, saving

LEMMA HeartbeatInv == ASSUME IInv, NEW a \in Attempts, Heartbeat(a) PROVE IInv'
<1>1. RowsKept
  <2>1. Kept(row[a], Renewed(row[a])) /\ \A b \in Attempts : Kept(row[b], row[b])
    BY RowsTyped, KeptPasses DEF Kept
  <2> QED
    BY <2>1, RowsTyped DEF RowsKept, Heartbeat, Kept
<1>2. heart' \in [Attempts -> {0, 1, None}]
  BY DEF Heartbeat, IInv, TypeOK
<1> QED
  BY <1>1, <1>2, RowsAge DEF Heartbeat, IInv, TypeOK, saving

LEMMA HeartbeatFailsInv == ASSUME IInv, NEW a \in Attempts, HeartbeatFails(a) PROVE IInv'
<1>1. RowsKept
  BY RowsTyped DEF RowsKept, HeartbeatFails, Kept
<1>2. heart' \in [Attempts -> {0, 1, None}] /\ trouble' \in 0..MaxTrouble
  BY NoneFacts, BoundFacts DEF HeartbeatFails, IInv, TypeOK
<1> QED
  BY <1>1, <1>2, RowsAge DEF HeartbeatFails, IInv, TypeOK, saving

LEMMA TickInv == ASSUME IInv, Tick PROVE IInv'
<1>1. RowsKept
  <2>1. ASSUME NEW r \in Rows
        PROVE  Kept(r, [r EXCEPT !.lease = Dec(@), !.claim = Dec(@), !.seen = Inc(@, Confirm)])
    <3>1. Dec(r.lease) \in 0..Lease /\ Dec(r.claim) \in 0..ClaimLife
      BY NoneFacts, BoundFacts DEF Rows, Dec
    <3>2. Inc(r.seen, Confirm) \in (0..Confirm) \cup {None}
      BY NoneFacts, BoundFacts DEF Rows, Inc
    <3> QED
      BY <3>1, <3>2 DEF Kept, Rows
  <2> QED
    BY <2>1, RowsTyped DEF RowsKept, Tick, Kept
<1>2. heart' \in [Attempts -> {0, 1, None}]
  <2>1. \A n \in {0, 1, None} : Dec(n) \in {0, 1, None}
    BY NoneFacts DEF Dec
  <2> QED
    BY <2>1 DEF Tick, IInv, TypeOK
<1> QED
  BY <1>1, <1>2, RowsAge DEF Tick, IInv, TypeOK, saving

LEMMA ClockJumpsInv == ASSUME IInv, ClockJumps PROVE IInv'
<1>1. RowsKept
  <2>1. ASSUME NEW r \in Rows
        PROVE  Kept(r, Jumped(r))
    <3> DEFINE seen == IF r.seen = None THEN None ELSE Confirm
    <3>1. seen \in (0..Confirm) \cup {None}
      BY BoundFacts
    <3> HIDE DEF seen
    <3>2. Kept(r, [r EXCEPT !.lease = 0, !.claim = 0, !.seen = seen])
      BY <3>1, BoundFacts DEF Kept, Rows
    <3> QED
      BY <3>2 DEF seen, Jumped
  <2> QED
    BY <2>1, RowsTyped DEF RowsKept, ClockJumps, Kept
<1>2. trouble' \in 0..MaxTrouble
  BY NoneFacts, BoundFacts DEF ClockJumps, IInv, TypeOK
<1> QED
  BY <1>1, <1>2, RowsAge DEF ClockJumps, IInv, TypeOK, saving

LEMMA ShutdownInv == ASSUME IInv, NEW p \in Procs, Shutdown(p) PROVE IInv'
<1>1. RowsKept
  <2>1. ASSUME NEW r \in Rows
        PROVE  Kept(r, r) /\ Kept(r, [r EXCEPT !.snapshot = FALSE, !.owner = None])
    BY DEF Kept, Rows
  <2> QED
    BY <2>1, RowsTyped DEF RowsKept, Shutdown, Kept
<1> QED
  BY <1>1, RowsAge DEF Shutdown, IInv, TypeOK, saving

-----------------------------------------------------------------------------
(* Steps of requests and roasts that leave the rows alone.                 *)

LEMMA VerdictTerminal == ASSUME NEW a \in Attempts PROVE Verdict(a) \in Terminal
BY DEF Verdict, Terminal

\* An admitted request goes on, and its task starts only where no roast is.
LEMMA RequestGoesOn ==
    ASSUME IInv, NEW a \in Attempts,
           req[a].pc \notin {"idle", "admitting"},
           req' \in [Attempts -> Requests], task' \in [Attempts -> Tasks],
           \A b \in Attempts : b # a => req'[b] = req[b] /\ task'[b] = task[b],
           req'[a].pc \notin {"idle", "admitting"},
           req'[a].kind = req[a].kind, req'[a].proc = req[a].proc,
           \/ task'[a].is # "running" \/ task[a].is = "running"
           \/ req[a].proc = Main => roast = "none",
           UNCHANGED <<row, heart, up, lock, roast, saving, trouble>>
    PROVE  IInv'
<1>1. RowsTruthful'
  BY DEF IInv, RowsTruthful
<1>2. TypeOK'
  BY <1>1, RowsTyped, TypeParts DEF IInv, TypeOK, saving
<1>3. NotAdmitted'
  BY DEF IInv, NotAdmitted
<1>4. OneClaim' /\ OneProfilePerDraft'
  BY DEF IInv, OneClaim, OneProfilePerDraft, saving
<1>5. LockOwned' /\ StartPreempts'
  BY DEF IInv, LockOwned, StartPreempts
<1> QED
  BY <1>1, <1>2, <1>3, <1>4, <1>5 DEF IInv

LEMMA TaskReturnedInv == ASSUME IInv, NEW a \in Attempts, TaskReturned(a) PROVE IInv'
<1>1. \E pc \in {"recheck", "ending"}, o \in {"none"} \cup Terminal :
          req' = [req EXCEPT ![a] = [req[a] EXCEPT !.pc = pc, !.outcome = o]]
  <2>1. CASE ReqAt(a, "recheck")
    <3>1. req[a].outcome \in {"none"} \cup Terminal
      BY RowsTyped DEF Requests
    <3>2. req' = [req EXCEPT ![a] = [req[a] EXCEPT !.pc = "recheck", !.outcome = req[a].outcome]]
      BY <2>1, RowsTyped DEF ReqAt, Requests
    <3> QED
      BY <3>1, <3>2
  <2>2. CASE Ends(a, Verdict(a))
    BY <2>2, VerdictTerminal DEF Ends
  <2> QED
    BY <2>1, <2>2 DEF TaskReturned
<1>2. PICK pc \in {"recheck", "ending"}, o \in {"none"} \cup Terminal :
          req' = [req EXCEPT ![a] = [req[a] EXCEPT !.pc = pc, !.outcome = o]]
  BY <1>1
<1>3. \E r \in Requests :
          /\ req' = [req EXCEPT ![a] = r]
          /\ r.pc = pc /\ r.kind = req[a].kind /\ r.proc = req[a].proc
  <2>1. [req[a] EXCEPT !.pc = pc, !.outcome = o] \in Requests
    BY RowsTyped DEF Requests
  <2> QED
    BY <1>2, <2>1, RowsTyped DEF Requests
<1>4. /\ req' \in [Attempts -> Requests]
      /\ \A b \in Attempts : b # a => req'[b] = req[b]
      /\ req'[a].pc \notin {"idle", "admitting"}
      /\ req'[a].kind = req[a].kind /\ req'[a].proc = req[a].proc
  BY <1>3, RowsTyped
<1> QED
  BY <1>4, RequestGoesOn, RowsTyped DEF TaskReturned

LEMMA RecheckInv == ASSUME IInv, NEW a \in Attempts, Recheck(a) PROVE IInv'
<1>1. CASE roast = "active"
  <2>1. /\ req' \in [Attempts -> Requests]
        /\ \A b \in Attempts : b # a => req'[b] = req[b]
        /\ req'[a].pc \notin {"idle", "admitting"}
        /\ req'[a].kind = req[a].kind /\ req'[a].proc = req[a].proc
    <3>1. req' = [req EXCEPT ![a].pc = "ending", ![a].outcome = "preempted"]
      BY <1>1 DEF Recheck, Ends
    <3> QED
      BY <3>1, RowsTyped DEF Requests, Terminal
  <2> QED
    BY <1>1, <2>1, RequestGoesOn, RowsTyped DEF Recheck
<1>2. CASE roast # "active"
  <2>1. /\ req' \in [Attempts -> Requests]
        /\ \A b \in Attempts : b # a => req'[b] = req[b]
        /\ req'[a].pc \notin {"idle", "admitting"}
        /\ req'[a].kind = req[a].kind /\ req'[a].proc = req[a].proc
    BY <1>2, RowsTyped DEF Recheck, ReqAt, Requests
  <2>2. /\ task' \in [Attempts -> Tasks]
        /\ \A b \in Attempts : b # a => task'[b] = task[b]
    <3> DEFINE t == [is |-> "running", stage |-> "provider", preempted |-> FALSE]
    <3>1. task' = [task EXCEPT ![a] = t]
      BY <1>2 DEF Recheck
    <3>2. t \in Tasks
      BY Zenon DEF Tasks
    <3> HIDE DEF t
    <3> QED
      BY <3>1, <3>2, RowsTyped
  <2>3. req[a].proc = Main => roast = "none"
    BY <1>2 DEF Recheck, IInv, TypeOK, LockOwned
  <2> QED
    BY <2>1, <2>2, <2>3, RequestGoesOn DEF Recheck
<1> QED
  BY <1>1, <1>2

LEMMA RecheckCancelledInv ==
    ASSUME IInv, NEW a \in Attempts, RecheckCancelled(a) PROVE IInv'
<1>1. /\ req' \in [Attempts -> Requests]
      /\ \A b \in Attempts : b # a => req'[b] = req[b]
      /\ req'[a].pc \notin {"idle", "admitting"}
      /\ req'[a].kind = req[a].kind /\ req'[a].proc = req[a].proc
  BY RowsTyped, ZenonT(60) DEF RecheckCancelled, Ends, Requests, Terminal
<1> QED
  BY <1>1, RequestGoesOn, RowsTyped DEF RecheckCancelled

\* A task ends or is asked to; its request stays where it is.
LEMMA TaskQuiets ==
    ASSUME IInv, task' \in [Attempts -> Tasks], req' \in [Attempts -> Requests],
           \A a \in Attempts :
               /\ req'[a].pc = req[a].pc /\ req'[a].kind = req[a].kind
               /\ req'[a].proc = req[a].proc
               /\ task[a].is = "none" => task'[a].is = "none"
               /\ task'[a].is = "running" => task[a].is = "running",
           UNCHANGED <<row, heart, up, lock, roast, saving, trouble>>
    PROVE  IInv'
<1>1. RowsTruthful'
  BY DEF IInv, RowsTruthful
<1>2. TypeOK'
  BY <1>1, RowsTyped, TypeParts DEF IInv, TypeOK, saving
<1>3. NotAdmitted'
  BY DEF IInv, NotAdmitted
<1>4. OneClaim' /\ OneProfilePerDraft'
  BY DEF IInv, OneClaim, OneProfilePerDraft, saving
<1>5. LockOwned' /\ StartPreempts'
  BY DEF IInv, LockOwned, StartPreempts
<1> QED
  BY <1>1, <1>2, <1>3, <1>4, <1>5 DEF IInv

LEMMA ClientLeavesInv == ASSUME IInv, NEW a \in Attempts, ClientLeaves(a) PROVE IInv'
<1>1. /\ req' \in [Attempts -> Requests]
      /\ \A b \in Attempts : /\ req'[b].pc = req[b].pc /\ req'[b].kind = req[b].kind
                             /\ req'[b].proc = req[b].proc
  BY RowsTyped DEF ClientLeaves, Requests
<1>2. /\ task' \in [Attempts -> Tasks]
      /\ \A b \in Attempts : /\ task[b].is = "none" => task'[b].is = "none"
                             /\ task'[b].is = "running" => task[b].is = "running"
  BY RowsTyped DEF ClientLeaves, Tasks
<1> QED
  BY <1>1, <1>2, TaskQuiets DEF ClientLeaves

LEMMA TaskEndsInv == ASSUME IInv, NEW a \in Attempts, TaskEnds(a) PROVE IInv'
<1>1. PICK end \in {"ok", "error", "cancelled"} : task' = [task EXCEPT ![a].is = end]
  BY DEF TaskEnds
<1>2. /\ task' \in [Attempts -> Tasks]
      /\ \A b \in Attempts : /\ task[b].is = "none" => task'[b].is = "none"
                             /\ task'[b].is = "running" => task[b].is = "running"
  BY <1>1, RowsTyped DEF TaskEnds, Tasks
<1> QED
  BY <1>2, TaskQuiets, RowsTyped DEF TaskEnds

LEMMA BeginInv == ASSUME IInv, NEW a \in Attempts, NEW p \in Procs, Begin(a, p) PROVE IInv'
<1>1. PICK k \in Kinds :
          req' = [req EXCEPT ![a].pc = "admitting", ![a].kind = k, ![a].proc = p]
  BY DEF Begin
<1>2. /\ req' \in [Attempts -> Requests]
      /\ \A b \in Attempts : b # a => req'[b] = req[b]
      /\ req'[a].pc = "admitting" /\ req'[a].proc = p
  <2> DEFINE r == [req[a] EXCEPT !.pc = "admitting", !.kind = k, !.proc = p]
  <2>1. r \in Requests /\ r.pc = "admitting" /\ r.proc = p
    BY RowsTyped DEF Requests
  <2>2. req' = [req EXCEPT ![a] = r]
    BY <1>1, RowsTyped
  <2> HIDE DEF r
  <2> QED
    BY <2>1, <2>2, RowsTyped
<1>3. /\ lock' \in [Procs -> {"free", "roast"} \cup Attempts]
      /\ \A q \in Procs : q # p => lock'[q] = lock[q]
      /\ lock[p] = "free" /\ lock'[p] = a
  BY DEF Begin, IInv, TypeOK
<1>4. RowsTruthful'
  BY <1>2 DEF Begin, IInv, RowsTruthful, NotAdmitted
<1>5. TypeOK'
  BY <1>2, <1>3, <1>4, RowsTyped, TypeParts DEF Begin, IInv, TypeOK, saving
<1>6. NotAdmitted'
  BY <1>2 DEF Begin, IInv, NotAdmitted
<1>7. OneClaim' /\ OneProfilePerDraft'
  BY DEF Begin, IInv, OneClaim, OneProfilePerDraft, saving
<1>8. LockOwned'
  BY <1>2, <1>3, LockNames, NoneFacts DEF Begin, IInv, LockOwned, NotAdmitted
<1>9. StartPreempts'
  BY <1>2, <1>3, NoneFacts DEF Begin, IInv, TypeOK, LockOwned, NotAdmitted, StartPreempts
<1> QED
  BY <1>4, <1>5, <1>6, <1>7, <1>8, <1>9 DEF IInv

LEMMA StartRoastInv == ASSUME IInv, StartRoast PROVE IInv'
<1>1. /\ task' \in [Attempts -> Tasks]
      /\ \A a \in Attempts : /\ task[a].is = "none" => task'[a].is = "none"
                             /\ req[a].proc = Main => task'[a].is # "running"
  BY RowsTyped DEF StartRoast, Tasks
<1>2. /\ lock' \in [Procs -> {"free", "roast"} \cup Attempts]
      /\ \A q \in Procs : q # Main => lock'[q] = lock[q]
      /\ lock[Main] = "free" /\ lock'[Main] = "roast"
  BY NoneFacts DEF StartRoast, IInv, TypeOK
<1>3. RowsTruthful' /\ roast' = "starting"
  BY DEF StartRoast, IInv, RowsTruthful
<1>4. TypeOK'
  BY <1>1, <1>2, <1>3, RowsTyped, TypeParts DEF StartRoast, IInv, TypeOK, saving
<1>5. NotAdmitted'
  BY <1>1 DEF StartRoast, IInv, NotAdmitted
<1>6. OneClaim' /\ OneProfilePerDraft'
  BY DEF StartRoast, IInv, OneClaim, OneProfilePerDraft, saving
<1>7. \A a \in Attempts : req[a].pc = "admitting" => req[a].proc # Main
  BY <1>2, LockNames DEF IInv, LockOwned
<1>8. LockOwned' /\ StartPreempts'
  BY <1>1, <1>2, <1>3, <1>7 DEF StartRoast, IInv, LockOwned, NotAdmitted, StartPreempts
<1> QED
  BY <1>3, <1>4, <1>5, <1>6, <1>8 DEF IInv

LEMMA RoastPersistedInv == ASSUME IInv, RoastPersisted PROVE IInv'
<1>1. /\ lock' \in [Procs -> {"free", "roast"} \cup Attempts]
      /\ \A q \in Procs : q # Main => lock'[q] = lock[q]
  BY DEF RoastPersisted, Free, IInv, TypeOK
<1>2. RowsTruthful' /\ roast = "starting" /\ roast' \in {"active", "none"}
  BY DEF RoastPersisted, IInv, RowsTruthful
<1>3. TypeOK'
  BY <1>1, <1>2, RowsTyped, TypeParts DEF RoastPersisted, IInv, TypeOK, saving
<1>4. NotAdmitted' /\ OneClaim' /\ OneProfilePerDraft'
  BY DEF RoastPersisted, IInv, NotAdmitted, OneClaim, OneProfilePerDraft, saving
<1>5. LockOwned' /\ StartPreempts'
  BY <1>1, <1>2 DEF RoastPersisted, IInv, LockOwned, NotAdmitted, StartPreempts
<1> QED
  BY <1>2, <1>3, <1>4, <1>5 DEF IInv

LEMMA RoastEndsInv == ASSUME IInv, RoastEnds PROVE IInv'
<1>1. RowsTruthful'
  BY DEF RoastEnds, IInv, RowsTruthful
<1>2. TypeOK'
  BY <1>1, RowsTyped, TypeParts DEF RoastEnds, IInv, TypeOK, saving
<1>3. NotAdmitted' /\ OneClaim' /\ OneProfilePerDraft'
  BY DEF RoastEnds, IInv, NotAdmitted, OneClaim, OneProfilePerDraft, saving
<1>4. LockOwned' /\ StartPreempts'
  BY DEF RoastEnds, IInv, LockOwned, StartPreempts
<1> QED
  BY <1>1, <1>2, <1>3, <1>4 DEF IInv

-----------------------------------------------------------------------------
(* Admission, the end of a request, and the crash of a process.            *)

\* The insertion sweeps the other rows.
LEMMA InsertedRows ==
    ASSUME IInv, NEW a \in Attempts, Inserted(a), req[a].proc \in Procs
    PROVE  /\ row' \in [Attempts -> Rows]
           /\ row'[a].outcome = "in_progress" /\ row'[a].saved = None /\ ~row'[a].snapshot
           /\ \A b \in Attempts : b # a => Kept(row[b], row'[b])
<1> DEFINE new == [NoRow EXCEPT !.outcome = "in_progress", !.owner = req[a].proc, !.lease = Lease]
<1>1. NoRow \in Rows /\ NoRow.saved = None /\ ~NoRow.snapshot
  <2>1. 0 \in 0..Lease /\ 0 \in 0..ClaimLife
    BY BoundFacts
  <2>2. NoRow \in Rows
    BY <2>1, Zenon DEF NoRow, Rows
  <2> QED
    BY <2>2 DEF NoRow
<1>2. /\ new \in Rows
      /\ new.outcome = "in_progress" /\ new.saved = None /\ ~new.snapshot
  BY <1>1, BoundFacts DEF Rows
<1>3. row' = [b \in Attempts |-> IF b = a THEN new ELSE Expired(Reconciled(row[b]))]
  BY DEF Inserted
<1> HIDE DEF new
<1>4. \A b \in Attempts : Kept(row[b], Expired(Reconciled(row[b])))
  BY RowsTyped, KeptSweep
<1>5. \A b \in Attempts : Expired(Reconciled(row[b])) \in Rows
  BY <1>4 DEF Kept
<1> QED
  BY <1>2, <1>3, <1>4, <1>5

\* What any insertion for an admitting request does to the saves and profiles.
LEMMA InsertedSaves ==
    ASSUME IInv, NEW a \in Attempts, Inserted(a), req[a].pc = "admitting",
           UNCHANGED saving
    PROVE  OneClaim' /\ OneProfilePerDraft'
<1>1. /\ req[a].proc \in Procs
      /\ row[a].outcome = "none" /\ row[a].saved = None
  BY DEF IInv, NotAdmitted, RowsTruthful
<1>2. OneClaim'
  BY <1>1, InsertedRows, RowsTyped DEF IInv, OneClaim, RowsTruthful, Kept, saving,
     SaveRequests
<1>3. OneProfilePerDraft'
  BY <1>1, InsertedRows, NoneFacts DEF IInv, OneClaim, OneProfilePerDraft, Kept, saving
<1> QED
  BY <1>2, <1>3

LEMMA AdmittedInv == ASSUME IInv, NEW a \in Attempts, Admitted(a) PROVE IInv'
<1>1. /\ req[a].proc \in Procs /\ row[a].outcome = "none"
      /\ req[a].pc = "admitting" /\ Inserted(a)
      /\ UNCHANGED saving
  BY DEF Admitted, IInv, NotAdmitted
<1>2. /\ row' \in [Attempts -> Rows]
      /\ row'[a].outcome = "in_progress" /\ row'[a].saved = None /\ ~row'[a].snapshot
      /\ \A b \in Attempts : b # a => Kept(row[b], row'[b])
  BY <1>1, InsertedRows
<1>3. OneClaim' /\ OneProfilePerDraft'
  BY <1>1, InsertedSaves
<1>4. /\ req' \in [Attempts -> Requests]
      /\ \A b \in Attempts : b # a => req'[b] = req[b]
      /\ req'[a].pc = "waiting" /\ req'[a].proc = req[a].proc /\ req'[a].kind = req[a].kind
  BY RowsTyped DEF Admitted, ReqAt, Requests
<1>5. /\ task' \in [Attempts -> Tasks]
      /\ \A b \in Attempts : b # a => task'[b] = task[b]
  <2>1. \E st \in {"context", "provider"} :
            task' = [task EXCEPT ![a].is = "running", ![a].stage = st]
    BY DEF Admitted
  <2>2. PICK st \in {"context", "provider"} :
            task' = [task EXCEPT ![a].is = "running", ![a].stage = st]
    BY <2>1
  <2> QED
    BY <2>2, RowsTyped DEF Tasks
<1>6. /\ lock' \in [Procs -> {"free", "roast"} \cup Attempts]
      /\ \A q \in Procs : q # req[a].proc => lock'[q] = lock[q]
      /\ lock[req[a].proc] = a
  BY <1>1 DEF Admitted, Free, IInv, TypeOK, LockOwned
<1>7. heart' \in [Attempts -> {0, 1, None}]
  BY DEF Admitted, IInv, TypeOK
<1>8. RowsTruthful'
  BY <1>2, <1>4 DEF IInv, RowsTruthful, Kept
<1>9. TypeOK'
  BY <1>2, <1>4, <1>5, <1>6, <1>7, <1>8, RowsTyped, TypeParts DEF Admitted, IInv,
     TypeOK, saving
<1>10. NotAdmitted'
  BY <1>1, <1>2, <1>4, <1>5 DEF IInv, NotAdmitted, Kept
<1>11. LockOwned'
  <2>1. roast' = "starting" => lock'[Main] = "roast"
    BY <1>1, <1>6, LockNames, NoneFacts DEF Admitted, IInv, LockOwned
  <2>2. ASSUME NEW b \in Attempts, req'[b].pc = "admitting"
        PROVE  lock'[req'[b].proc] = b
    <3>1. b # a /\ req'[b] = req[b] /\ req[b].proc \in Procs
      BY <1>4, <2>2 DEF IInv, NotAdmitted
    <3>2. lock[req[b].proc] = b
      BY <2>2, <3>1 DEF IInv, LockOwned
    <3> QED
      BY <1>6, <3>1, <3>2
  <2> QED
    BY <2>1, <2>2 DEF LockOwned
<1>12. StartPreempts'
  BY <1>1, <1>4, <1>5 DEF Admitted, IInv, StartPreempts
<1> QED
  BY <1>3, <1>8, <1>9, <1>10, <1>11, <1>12 DEF IInv

LEMMA AdmittedForNobodyInv ==
    ASSUME IInv, NEW a \in Attempts, AdmittedForNobody(a) PROVE IInv'
<1>1. /\ req[a].proc \in Procs /\ row[a].outcome = "none"
      /\ req[a].pc = "admitting" /\ Inserted(a)
      /\ UNCHANGED saving
  BY DEF AdmittedForNobody, IInv, NotAdmitted
<1>2. /\ row' \in [Attempts -> Rows]
      /\ row'[a].outcome = "in_progress" /\ row'[a].saved = None /\ ~row'[a].snapshot
      /\ \A b \in Attempts : b # a => Kept(row[b], row'[b])
  BY <1>1, InsertedRows
<1>3. OneClaim' /\ OneProfilePerDraft'
  BY <1>1, InsertedSaves
<1>4. /\ req' \in [Attempts -> Requests]
      /\ \A b \in Attempts : b # a => req'[b] = req[b]
      /\ req'[a].pc = "ending" /\ req'[a].proc = req[a].proc /\ req'[a].kind = req[a].kind
  BY RowsTyped, ZenonT(60) DEF AdmittedForNobody, Ends, Requests, Terminal
<1>5. RowsTruthful'
  BY <1>2, <1>4 DEF IInv, RowsTruthful, Kept
<1>6. TypeOK'
  BY <1>2, <1>4, <1>5, RowsTyped, TypeParts DEF AdmittedForNobody, IInv, TypeOK, saving
<1>7. NotAdmitted'
  BY <1>1, <1>2, <1>4 DEF AdmittedForNobody, IInv, NotAdmitted, Kept
<1>8. LockOwned' /\ StartPreempts'
  BY <1>1, <1>4 DEF AdmittedForNobody, IInv, LockOwned, StartPreempts
<1> QED
  BY <1>3, <1>5, <1>6, <1>7, <1>8 DEF IInv

LEMMA AdmissionFailsInv == ASSUME IInv, NEW a \in Attempts, AdmissionFails(a) PROVE IInv'
<1>1. /\ req[a].proc \in Procs /\ row[a].outcome = "none" /\ row[a].saved = None
      /\ req[a].pc = "admitting" /\ ~row[a].snapshot
      /\ UNCHANGED saving
  BY DEF AdmissionFails, IInv, NotAdmitted, RowsTruthful
<1>2. /\ row' \in [Attempts -> Rows]
      /\ row'[a].saved = None /\ ~row'[a].snapshot
      /\ \A b \in Attempts : b # a => Kept(row[b], row'[b])
  <2>1. CASE Inserted(a)
    BY <1>1, <2>1, InsertedRows
  <2>2. CASE UNCHANGED row
    BY <1>1, <2>2, RowsTyped DEF Kept
  <2> QED
    BY <2>1, <2>2 DEF AdmissionFails
<1>3. OneClaim' /\ OneProfilePerDraft'
  <2>1. CASE Inserted(a)
    BY <1>1, <2>1, InsertedSaves
  <2>2. CASE UNCHANGED row
    BY <1>1, <2>2 DEF IInv, OneClaim, OneProfilePerDraft, saving
  <2> QED
    BY <2>1, <2>2 DEF AdmissionFails
<1>4. /\ req' \in [Attempts -> Requests]
      /\ \A b \in Attempts : b # a => req'[b] = req[b]
      /\ req'[a].pc = "done" /\ req'[a].proc = req[a].proc /\ req'[a].kind = req[a].kind
  BY RowsTyped DEF AdmissionFails, ReqAt, Requests
<1>5. /\ lock' \in [Procs -> {"free", "roast"} \cup Attempts]
      /\ \A q \in Procs : q # req[a].proc => lock'[q] = lock[q]
      /\ lock[req[a].proc] = a
  BY <1>1 DEF AdmissionFails, Free, IInv, TypeOK, LockOwned
<1>6. RowsTruthful'
  BY <1>2, <1>4 DEF IInv, RowsTruthful, Kept
<1>7. TypeOK'
  BY <1>2, <1>4, <1>5, <1>6, RowsTyped, TypeParts DEF AdmissionFails, IInv, TypeOK, saving
<1>8. NotAdmitted'
  BY <1>1, <1>2, <1>4 DEF AdmissionFails, IInv, NotAdmitted, Kept
<1>9. LockOwned'
  <2>1. roast' = "starting" => lock'[Main] = "roast"
    BY <1>1, <1>5, LockNames, NoneFacts DEF AdmissionFails, IInv, LockOwned
  <2>2. ASSUME NEW b \in Attempts, req'[b].pc = "admitting"
        PROVE  lock'[req'[b].proc] = b
    <3>1. b # a /\ req'[b] = req[b] /\ req[b].proc \in Procs
      BY <1>4, <2>2 DEF IInv, NotAdmitted
    <3>2. lock[req[b].proc] = b
      BY <2>2, <3>1 DEF IInv, LockOwned
    <3> QED
      BY <1>5, <3>1, <3>2
  <2> QED
    BY <2>1, <2>2 DEF LockOwned
<1>10. StartPreempts'
  BY <1>1, <1>4 DEF AdmissionFails, IInv, StartPreempts
<1> QED
  BY <1>3, <1>6, <1>7, <1>8, <1>9, <1>10 DEF IInv

LEMMA FinishInv == ASSUME IInv, NEW a \in Attempts, Finish(a) PROVE IInv'
<1>1. /\ req[a].pc = "ending" /\ writer = None
      /\ UNCHANGED saving
  BY DEF Finish, Database
<1>2. /\ row' \in [Attempts -> Rows]
      /\ \A b \in Attempts : b # a => row'[b] = row[b]
      /\ row'[a].saved = row[a].saved
      /\ row'[a] = row[a]
         \/ /\ row[a].outcome = "in_progress"
            /\ row'[a].snapshot => req[a].kind = "draft" /\ row'[a].outcome = "success"
  <2>1. CASE UNCHANGED row \/ row[a].outcome # "in_progress"
    BY <2>1, RowsTyped DEF Finish, Committed
  <2>2. CASE row' = [row EXCEPT ![a] = Committed(a)] /\ row[a].outcome = "in_progress"
    <3> DEFINE claimable == req[a].kind = "draft" /\ req[a].outcome = "success"
               q == [row[a] EXCEPT !.outcome = req[a].outcome, !.snapshot = claimable,
                                   !.claim = IF claimable THEN ClaimLife ELSE 0]
    <3>1. row' = [row EXCEPT ![a] = q]
      BY <2>2 DEF Committed
    <3>2. q \in Rows /\ q.saved = row[a].saved /\ q.outcome = req[a].outcome
                     /\ q.snapshot = claimable
      <4>1. req[a].outcome \in {"none", "in_progress"} \cup Terminal
        BY RowsTyped DEF Requests
      <4>2. ClaimLife \in 0..ClaimLife /\ 0 \in 0..ClaimLife
        BY BoundFacts
      <4>3. CASE claimable
        <5>1. q = [row[a] EXCEPT !.outcome = req[a].outcome, !.snapshot = TRUE,
                                 !.claim = ClaimLife]
          BY <4>3
        <5> HIDE DEF q
        <5> QED
          BY <4>1, <4>2, <4>3, <5>1, RowsTyped DEF Rows
      <4>4. CASE ~claimable
        <5>1. q = [row[a] EXCEPT !.outcome = req[a].outcome, !.snapshot = FALSE,
                                 !.claim = 0]
          BY <4>4
        <5> HIDE DEF q
        <5> QED
          BY <4>1, <4>2, <4>4, <5>1, RowsTyped DEF Rows
      <4> QED
        BY <4>3, <4>4
    <3> HIDE DEF q
    <3> QED
      BY <2>2, <3>1, <3>2, RowsTyped
  <2> QED
    BY <2>1, <2>2 DEF Finish
<1>3. /\ req' \in [Attempts -> Requests]
      /\ \A b \in Attempts : b # a => req'[b] = req[b]
      /\ req'[a].pc = "done" /\ req'[a].proc = req[a].proc /\ req'[a].kind = req[a].kind
  BY RowsTyped DEF Finish, ReqAt, Requests
<1>4. /\ lock' \in [Procs -> {"free", "roast"} \cup Attempts]
      /\ \A q \in Procs : lock[q] # a => lock'[q] = lock[q]
  BY DEF Finish, IInv, TypeOK
<1>5. heart' \in [Attempts -> {0, 1, None}]
  BY DEF Finish, IInv, TypeOK
<1>6. RowsTruthful'
  BY <1>1, <1>2, <1>3 DEF IInv, RowsTruthful
<1>7. TypeOK'
  BY <1>2, <1>3, <1>4, <1>5, <1>6, RowsTyped, TypeParts DEF Finish, IInv, TypeOK, saving
<1>8. NotAdmitted'
  BY <1>1, <1>2, <1>3 DEF Finish, IInv, NotAdmitted
<1>9. OneClaim' /\ OneProfilePerDraft'
  BY <1>1, <1>2 DEF IInv, OneClaim, OneProfilePerDraft, saving
<1>10. LockOwned'
  BY <1>1, <1>3, <1>4, LockNames, NoneFacts DEF Finish, IInv, LockOwned, NotAdmitted
<1>11. StartPreempts'
  BY <1>1, <1>3 DEF Finish, IInv, StartPreempts
<1> QED
  BY <1>6, <1>7, <1>8, <1>9, <1>10, <1>11 DEF IInv

LEMMA CrashInv == ASSUME IInv, NEW p \in Procs, Crash(p) PROVE IInv'
<1>1. RowsKept
  <2>1. ASSUME NEW r \in Rows
        PROVE  Kept(r, r) /\ Kept(r, [r EXCEPT !.owner = None])
    BY DEF Kept, Rows
  <2> QED
    BY <2>1, RowsTyped DEF RowsKept, Crash, Orphaned, Kept
<1>2. /\ req' \in [Attempts -> Requests]
      /\ \A b \in Attempts : /\ req'[b].kind = req[b].kind /\ req'[b].proc = req[b].proc
                             /\ req[b].proc # p => req'[b] = req[b]
                             /\ req[b].proc = p => req'[b].pc = "done"
  BY RowsTyped DEF Crash, Requests
<1>3. /\ task' \in [Attempts -> Tasks]
      /\ \A b \in Attempts : task'[b].is \in {"none", task[b].is}
  BY RowsTyped DEF Crash, Tasks
<1>4. heart' \in [Attempts -> {0, 1, None}]
  BY DEF Crash, IInv, TypeOK
<1>5. /\ lock' \in [Procs -> {"free", "roast"} \cup Attempts]
      /\ \A q \in Procs : q # p => lock'[q] = lock[q]
  BY DEF Crash, Free, IInv, TypeOK
<1>6. /\ p # Main /\ Main \in up' /\ up' \subseteq Procs
      /\ UNCHANGED <<roast, save, writer, profiles, trouble>>
  BY DEF Crash, IInv, TypeOK, saving
<1>7. RowsTruthful'
  BY <1>1, <1>2 DEF IInv, RowsTruthful, RowsKept, Kept
<1>8. TypeOK'
  BY <1>1, <1>2, <1>3, <1>4, <1>5, <1>6, <1>7, RowsTyped, TypeParts DEF IInv, TypeOK,
     RowsKept
<1>9. NotAdmitted'
  BY <1>1, <1>2, <1>3, NoneFacts DEF IInv, NotAdmitted, RowsKept, Kept
<1>10. OneClaim' /\ OneProfilePerDraft'
  BY <1>1, <1>6 DEF IInv, OneClaim, OneProfilePerDraft, RowsKept, Kept
<1>11. LockOwned' /\ StartPreempts'
  BY <1>2, <1>3, <1>5, <1>6, NoneFacts DEF IInv, NotAdmitted, LockOwned, StartPreempts
<1> QED
  BY <1>7, <1>8, <1>9, <1>10, <1>11 DEF IInv

-----------------------------------------------------------------------------
(* Saves.                                                                  *)

\* What every save step leaves alone.
LEMMA SaveParts ==
    ASSUME IInv, RowsKept \/ row' \in [Attempts -> Rows],
           \A a \in Attempts : /\ row'[a].outcome = row[a].outcome
                               /\ row'[a].snapshot => row[a].snapshot /\ row'[a].saved = None
                               /\ row'[a].saved # None => row[a].outcome = "success",
           UNCHANGED <<req, task, heart, up, lock, roast, trouble>>,
           save' \in [Saves -> SaveRequests], writer' \in Saves \cup {None},
           profiles' \in [Attempts -> 0..2]
    PROVE  RowsTruthful' /\ TypeOK' /\ NotAdmitted' /\ LockOwned' /\ StartPreempts'
<1>1. RowsTruthful'
  BY DEF IInv, RowsTruthful
<1>2. TypeOK'
  BY <1>1, RowsTyped, TypeParts DEF IInv, TypeOK, RowsKept
<1>3. NotAdmitted' /\ LockOwned' /\ StartPreempts'
  BY DEF IInv, NotAdmitted, LockOwned, StartPreempts
<1> QED
  BY <1>1, <1>2, <1>3

LEMMA SaveBeginsInv ==
    ASSUME IInv, NEW s \in Saves, NEW a \in Attempts, NEW v \in Values, SaveBegins(s, a, v)
    PROVE  IInv'
<1>1. /\ save[s].pc # "claiming" /\ writer = None
      /\ row' = [b \in Attempts |-> Expired(row[b])]
      /\ UNCHANGED <<req, task, heart, up, lock, roast, profiles, trouble>>
  BY DEF SaveBegins, SaveReads, Database
<1>2. /\ RowsKept
      /\ \A b \in Attempts : row'[b].outcome = row[b].outcome
  <2>1. ASSUME NEW r \in Rows PROVE Expired(r).outcome = r.outcome
    BY DEF Expired, Rows
  <2>2. \A b \in Attempts : Kept(row[b], Expired(row[b]))
    BY RowsTyped, KeptPasses
  <2>3. \A b \in Attempts : Expired(row[b]) \in Rows
    BY <2>2 DEF Kept
  <2>4. RowsKept
    BY <1>1, <2>2, <2>3 DEF RowsKept
  <2> QED
    BY <1>1, <2>1, <2>4, RowsTyped
<1>3. \/ /\ Claimable(row'[a]) /\ writer' = s
         /\ \E r \in SaveRequests : /\ save' = [save EXCEPT ![s] = r]
                                    /\ r.pc = "claiming" /\ r.of = a /\ r.value = v
                                    /\ r.answer = "none"
      \/ /\ UNCHANGED writer
         /\ \E r \in SaveRequests : /\ save' = [save EXCEPT ![s] = r]
                                    /\ r.pc = "done" /\ r.of = a /\ r.value = v
                                    /\ r.answer = "saved" => row'[a].saved = v
  <2>1. CASE Claimable(row'[a])
    <3> DEFINE r == [pc |-> "claiming", of |-> a, value |-> v, answer |-> "none"]
    <3>1. r \in SaveRequests
      BY DEF SaveRequests
    <3>2. writer' = s /\ save' = [save EXCEPT ![s] = r]
      BY <2>1 DEF SaveBegins, SaveReads
    <3> QED
      BY <2>1, <3>1, <3>2
  <2>2. CASE ~Claimable(row'[a])
    <3> DEFINE ans == IF row'[a].saved = None THEN "refused"
                      ELSE IF row'[a].saved = v THEN "saved" ELSE "conflict"
               r == [pc |-> "done", of |-> a, value |-> v, answer |-> ans]
    <3>1. ans \in {"none", "saved", "conflict", "refused"}
          /\ (ans = "saved" => row'[a].saved = v)
      OBVIOUS
    <3>2. UNCHANGED writer /\ save' = [save EXCEPT ![s] = r]
      BY <2>2 DEF SaveBegins, SaveReads
    <3> HIDE DEF ans
    <3>3. r \in SaveRequests
      BY <3>1 DEF SaveRequests
    <3> QED
      BY <3>1, <3>2, <3>3
  <2> QED
    BY <2>1, <2>2
<1>4. /\ save' \in [Saves -> SaveRequests] /\ writer' \in Saves \cup {None}
      /\ \A t \in Saves : t # s => save'[t] = save[t]
      /\ save'[s].of = a /\ save'[s].value = v
      /\ save'[s].answer = "saved" => row'[a].saved = v
      /\ \/ writer' = s /\ save'[s].pc = "claiming" /\ save'[s].answer = "none"
                        /\ Claimable(row'[a])
         \/ writer' = None /\ save'[s].pc = "done"
  BY <1>1, <1>3, RowsTyped
<1>5. RowsTruthful' /\ TypeOK' /\ NotAdmitted' /\ LockOwned' /\ StartPreempts'
  <2>1. \A b \in Attempts : /\ row'[b].snapshot => row[b].snapshot /\ row'[b].saved = None
                            /\ row'[b].saved # None => row[b].outcome = "success"
    BY <1>2 DEF IInv, RowsTruthful, RowsKept, Kept
  <2> QED
    BY <1>1, <1>2, <1>4, <2>1, SaveParts DEF IInv, TypeOK
<1>6. Claimable(row'[a]) => row'[a].outcome = "success" /\ row'[a].saved = None
  BY <1>5 DEF Claimable, RowsTruthful
<1>7. OneClaim'
  BY <1>1, <1>2, <1>4, <1>6, NoneFacts DEF IInv, OneClaim, RowsKept, Kept
<1>8. OneProfilePerDraft'
  BY <1>1, <1>2, <1>4 DEF IInv, OneClaim, OneProfilePerDraft, RowsKept, Kept
<1> QED
  BY <1>5, <1>7, <1>8 DEF IInv

LEMMA SaveCommitsInv == ASSUME IInv, NEW s \in Saves, SaveCommits(s) PROVE IInv'
<1> DEFINE a == save[s].of
<1>1. /\ a \in Attempts /\ save[s].value \in Values /\ writer = s
      /\ row[a].outcome = "success" /\ row[a].saved = None
      /\ \A t \in Saves : t # s => save[t].pc # "claiming"
  BY DEF SaveCommits, IInv, OneClaim
<1>2. row' = [row EXCEPT ![a].saved = save[s].value, ![a].snapshot = FALSE]
      /\ UNCHANGED <<req, task, heart, up, lock, roast, trouble>>
  BY DEF SaveCommits
<1>3. /\ save' \in [Saves -> SaveRequests] /\ writer' = None
      /\ \A t \in Saves : t # s => save'[t] = save[t]
      /\ save'[s].pc = "done" /\ save'[s].of = a /\ save'[s].value = save[s].value
      /\ save'[s].answer = "saved"
  BY RowsTyped DEF SaveCommits, SaveRequests
<1>4. /\ profiles' \in [Attempts -> 0..2]
      /\ \A b \in Attempts : b # a => profiles'[b] = profiles[b]
      /\ profiles[a] = 0 /\ profiles'[a] = 1
  <2>1. profiles[a] = 0
    BY <1>1 DEF IInv, OneProfilePerDraft
  <2>2. profiles' = [profiles EXCEPT ![a] = @ + 1]
    BY DEF SaveCommits
  <2> HIDE DEF a
  <2> QED
    BY <1>1, <2>1, <2>2 DEF IInv, TypeOK
<1> HIDE DEF a
<1>5. /\ row' \in [Attempts -> Rows]
      /\ \A b \in Attempts : b # a => row'[b] = row[b]
      /\ row'[a].outcome = row[a].outcome /\ row'[a].saved = save[s].value
      /\ ~row'[a].snapshot
  <2> DEFINE q == [row[a] EXCEPT !.saved = save[s].value, !.snapshot = FALSE]
  <2>1. /\ q \in Rows /\ q.outcome = row[a].outcome /\ q.saved = save[s].value
        /\ ~q.snapshot
    <3>1. ASSUME NEW r \in Rows, NEW v \in Values \cup {None}
          PROVE  LET d == [r EXCEPT !.saved = v, !.snapshot = FALSE]
                 IN  d \in Rows /\ d.outcome = r.outcome /\ d.saved = v /\ ~d.snapshot
      BY DEF Rows
    <3>2. save[s].value \in Values \cup {None} /\ row[a] \in Rows
      BY <1>1, RowsTyped
    <3> QED
      BY <3>1, <3>2
  <2>2. row' = [row EXCEPT ![a] = q]
    BY <1>1, <1>2, RowsTyped
  <2> HIDE DEF q
  <2> QED
    BY <1>1, <2>1, <2>2, RowsTyped
<1>6. RowsTruthful' /\ TypeOK' /\ NotAdmitted' /\ LockOwned' /\ StartPreempts'
  <2>1. \A b \in Attempts : /\ row'[b].outcome = row[b].outcome
                            /\ row'[b].snapshot => row[b].snapshot /\ row'[b].saved = None
                            /\ row'[b].saved # None => row[b].outcome = "success"
    BY <1>1, <1>5 DEF IInv, RowsTruthful
  <2> QED
    BY <1>2, <1>3, <1>4, <1>5, <2>1, SaveParts
<1>7. OneClaim'
  BY <1>1, <1>3, <1>5, NoneFacts DEF IInv, OneClaim
<1>8. OneProfilePerDraft'
  <2>1. \A b \in Attempts : profiles'[b] = (IF row'[b].saved = None THEN 0 ELSE 1)
    BY <1>1, <1>4, <1>5, NoneFacts DEF IInv, OneProfilePerDraft
  <2>2. \A t \in Saves : save'[t].answer = "saved" => row'[save'[t].of].saved = save'[t].value
    BY <1>1, <1>3, <1>5, NoneFacts DEF IInv, OneClaim, OneProfilePerDraft
  <2> QED
    BY <2>1, <2>2 DEF OneProfilePerDraft
<1> QED
  BY <1>6, <1>7, <1>8 DEF IInv

LEMMA SaveRollsBackInv == ASSUME IInv, NEW s \in Saves, SaveRollsBack(s) PROVE IInv'
<1>1. /\ save[s].pc = "claiming" /\ writer = s /\ writer' = None
      /\ \A t \in Saves : t # s => save[t].pc # "claiming"
      /\ UNCHANGED <<row, req, task, heart, up, lock, roast, profiles, trouble>>
  BY DEF SaveRollsBack, IInv, OneClaim
<1>2. /\ save' \in [Saves -> SaveRequests]
      /\ \A t \in Saves : t # s => save'[t] = save[t]
      /\ save'[s].pc = "idle" /\ save'[s].of = save[s].of
      /\ save'[s].value = save[s].value /\ save'[s].answer = save[s].answer
  BY RowsTyped DEF SaveRollsBack, SaveRequests
<1>3. RowsTruthful' /\ TypeOK' /\ NotAdmitted' /\ LockOwned' /\ StartPreempts'
  <2>1. row' \in [Attempts -> Rows] /\ profiles' \in [Attempts -> 0..2]
    BY <1>1, RowsTyped DEF IInv, TypeOK
  <2>2. \A b \in Attempts : /\ row'[b].outcome = row[b].outcome
                            /\ row'[b].snapshot => row[b].snapshot /\ row'[b].saved = None
                            /\ row'[b].saved # None => row[b].outcome = "success"
    BY <1>1 DEF IInv, RowsTruthful
  <2> QED
    BY <1>1, <1>2, <2>1, <2>2, SaveParts
<1>4. OneClaim' /\ OneProfilePerDraft'
  BY <1>1, <1>2, NoneFacts DEF IInv, OneClaim, OneProfilePerDraft
<1> QED
  BY <1>3, <1>4 DEF IInv

-----------------------------------------------------------------------------
(* The invariant of the specification.                                     *)

LEMMA InitInv == ASSUME Init PROVE IInv
<1>1. row \in [Attempts -> Rows] /\ \A a \in Attempts : row[a] = NoRow
  <2>1. 0 \in 0..Lease /\ 0 \in 0..ClaimLife
    BY BoundFacts
  <2>2. NoRow \in Rows
    BY <2>1, Zenon DEF NoRow, Rows
  <2> QED
    BY <2>2 DEF Init
<1>2. req \in [Attempts -> Requests]
  <2> DEFINE r == [pc |-> "idle", kind |-> "draft", proc |-> None,
                   gone |-> FALSE, outcome |-> "none"]
  <2>1. r \in Requests
    BY Zenon DEF Requests, Kinds
  <2>2. req = [a \in Attempts |-> r]
    BY DEF Init
  <2> HIDE DEF r
  <2> QED
    BY <2>1, <2>2
<1>3. task \in [Attempts -> Tasks]
  <2> DEFINE t == [is |-> "none", stage |-> "context", preempted |-> FALSE]
  <2>1. t \in Tasks
    BY Zenon DEF Tasks
  <2>2. task = [a \in Attempts |-> t]
    BY DEF Init
  <2> HIDE DEF t
  <2> QED
    BY <2>1, <2>2
<1>4. save \in [Saves -> SaveRequests]
  BY DEF Init, SaveRequests
<1>5. RowsTruthful
  <2>1. NoRow.saved = None /\ ~NoRow.snapshot
    BY DEF NoRow
  <2> QED
    BY <1>1, <2>1 DEF RowsTruthful
<1>6. /\ heart \in [Attempts -> {0, 1, None}]
      /\ up \subseteq Procs /\ Main \in up
      /\ lock \in [Procs -> {"free", "roast"} \cup Attempts]
      /\ roast \in {"none", "starting", "active"}
      /\ writer \in Saves \cup {None} /\ profiles \in [Attempts -> 0..2]
      /\ trouble \in 0..MaxTrouble
  BY NoneFacts, BoundFacts DEF Init
<1>7. TypeOK
  BY <1>1, <1>2, <1>3, <1>4, <1>5, <1>6 DEF TypeOK, RowsTruthful, Rows, Requests, Tasks,
     SaveRequests
<1>8. NotAdmitted /\ LockOwned /\ StartPreempts
  BY <1>1 DEF Init, NoRow, NotAdmitted, LockOwned, StartPreempts
<1>9. OneClaim /\ OneProfilePerDraft
  BY <1>1, NoneFacts DEF Init, NoRow, OneClaim, OneProfilePerDraft
<1> QED
  BY <1>5, <1>7, <1>8, <1>9 DEF IInv

LEMMA NextInv == ASSUME IInv, [Next]_vars PROVE IInv'
<1>1. CASE UNCHANGED vars
  <2>1. RowsKept
    BY <1>1, RowsTyped DEF vars, RowsKept, Kept
  <2> QED
    BY <1>1, <2>1, RowsAge DEF vars, IInv, TypeOK, saving
<1>2. CASE \E a \in Attempts : \/ \E p \in Procs : Begin(a, p)
                               \/ RequestStep(a) \/ ClientLeaves(a)
                               \/ Heartbeat(a) \/ HeartbeatFails(a)
  BY <1>2, BeginInv, AdmittedInv, AdmittedForNobodyInv, AdmissionFailsInv, TaskEndsInv,
     TaskReturnedInv, RecheckInv, RecheckCancelledInv, FinishInv, ClientLeavesInv,
     HeartbeatInv, HeartbeatFailsInv DEF RequestStep
<1>3. CASE Sweep \/ Tick \/ ClockJumps
  BY <1>3, SweepInv, TickInv, ClockJumpsInv
<1>4. CASE \E p \in Procs : Crash(p) \/ Shutdown(p)
  BY <1>4, CrashInv, ShutdownInv
<1>5. CASE StartRoast \/ RoastPersisted \/ RoastEnds
  BY <1>5, StartRoastInv, RoastPersistedInv, RoastEndsInv
<1>6. CASE \E s \in Saves : \/ \E a \in Attempts, v \in Values : SaveBegins(s, a, v)
                            \/ SaveCommits(s) \/ SaveRollsBack(s)
  BY <1>6, SaveBeginsInv, SaveCommitsInv, SaveRollsBackInv
<1> QED
  BY <1>1, <1>2, <1>3, <1>4, <1>5, <1>6 DEF Next

\* The strengthening the theorems below are read off.
THEOREM Inductive == Spec => []IInv
<1>1. Init => IInv
  BY InitInv
<1>2. IInv /\ [Next]_vars => IInv'
  BY NextInv
<1> QED
  BY <1>1, <1>2, PTL DEF Spec

\* Rows, requests, tasks and saves keep their types.
THEOREM TypeCorrect == Spec => []TypeOK
BY Inductive, PTL DEF IInv

\* start_roast: whatever requests are being admitted, rechecked or cancelled in
\* any process, none of the roasting process is left to run on.
THEOREM RoastLeavesNoDraft == Spec => []NoDraftBesideRoast
<1>1. IInv => NoDraftBesideRoast
  BY DEF IInv, StartPreempts, NoDraftBesideRoast
<1> QED
  BY <1>1, Inductive, PTL

\* create_bean_profile: any number of saves, in any processes, make one profile
\* of a draft, and every "saved" answer names it.
THEOREM DraftSavedOnce == Spec => []OneProfilePerDraft
BY Inductive, PTL DEF IInv
-----------------------------------------------------------------------------
(* One trouble spares a live owner.  The proof measures what a row in      *)
(* progress still has before its next renewal: the lease that is left, or, *)
(* behind a jump of the clock, how long it has been seen lapsed.           *)

\* The periods of the code, and the one trouble it promises to survive.
OneTrouble == MaxTrouble <= 1 /\ Confirm >= 2 /\ Lease >= 3

\* The row r of an owner whose next heartbeat is due in h ticks, t troubles in.
Alive(r, h, t) ==
    h # None /\ r.outcome = "in_progress" =>
        \/ r.seen = None /\ r.lease + t >= Lease - 1 + h
        \/ t > 0 /\ (r.seen # None => r.seen + h <= 1)

LiveRows == \A a \in Attempts : Alive(row[a], heart[a], trouble)

\* A heartbeat is that of an admitted request, whose answer is its own.
Beating ==
    \A a \in Attempts :
        /\ req[a].pc \in {"idle", "admitting"} => heart[a] = None
        /\ req[a].outcome # "reconciled"

LInv == IInv /\ LiveRows /\ Beating

\* No row of a live owner is reconciled in this step.
Spared ==
    \A a \in Attempts :
        row[a].outcome = "in_progress" /\ row'[a].outcome = "reconciled" => heart[a] = None

Ages == {0, 1, None}

\* A sweep observes such a row at most.
LEMMA AliveSwept ==
    ASSUME OneTrouble, NEW r \in Rows, NEW h \in Ages, NEW t \in 0..MaxTrouble, Alive(r, h, t)
    PROVE  /\ Alive(Expired(Reconciled(r)), h, t)
           /\ h # None /\ r.outcome = "in_progress" =>
                 Expired(Reconciled(r)).outcome = "in_progress"
<1>1. CASE h = None \/ r.outcome # "in_progress"
  <2>1. r.outcome # "in_progress" => Expired(Reconciled(r)).outcome # "in_progress"
    BY DEF Reconciled, Observed, Lapsed, Expired, Rows
  <2> QED
    BY <1>1, <2>1 DEF Alive
<1>2. CASE h # None /\ r.outcome = "in_progress" /\ r.lease # 0
  <2>1. Reconciled(r) = r
    BY <1>2 DEF Reconciled, Observed, Lapsed
  <2>2. Expired(r).outcome = r.outcome /\ Expired(r).seen = r.seen /\ Expired(r).lease = r.lease
    BY DEF Expired, Rows
  <2> QED
    BY <1>2, <2>1, <2>2 DEF Alive
<1>3. CASE h # None /\ r.outcome = "in_progress" /\ r.lease = 0
  <2>1. t > 0 /\ (r.seen # None => r.seen + h <= 1) /\ h \in {0, 1}
    BY <1>3, BoundFacts DEF Alive, OneTrouble, Ages
  <2>2. r.seen # Confirm
    BY <1>3, <2>1, NoneFacts, BoundFacts DEF OneTrouble
  <2>3. Reconciled(r) = Observed(r)
    BY <2>2 DEF Reconciled
  <2>4. /\ Observed(r) \in Rows /\ Observed(r).outcome = "in_progress"
        /\ Observed(r).seen = IF r.seen = None THEN 0 ELSE r.seen
    <3>1. Observed(r) \in Rows
      BY KeptPasses DEF Kept
    <3> QED
      BY <1>3, <3>1 DEF Observed, Lapsed, Rows
  <2>5. /\ Expired(Observed(r)).outcome = "in_progress"
        /\ Expired(Observed(r)).seen = Observed(r).seen
    BY <2>4 DEF Expired, Rows
  <2> QED
    BY <2>1, <2>3, <2>4, <2>5, NoneFacts DEF Alive
<1> QED
  BY <1>1, <1>2, <1>3

\* A tick passes half of the time between two heartbeats.
LEMMA AliveTicked ==
    ASSUME OneTrouble, NEW r \in Rows, NEW h \in Ages \ {0}, NEW t \in 0..MaxTrouble,
           Alive(r, h, t)
    PROVE  Alive([r EXCEPT !.lease = Dec(@), !.claim = Dec(@), !.seen = Inc(@, Confirm)],
                 Dec(h), t)
<1> DEFINE q == [r EXCEPT !.lease = Dec(@), !.claim = Dec(@), !.seen = Inc(@, Confirm)]
<1>1. /\ q.outcome = r.outcome /\ q.lease = Dec(r.lease) /\ q.seen = Inc(r.seen, Confirm)
  BY DEF Rows
<1> HIDE DEF q
<1>2. CASE h = None
  <2>1. Dec(h) = None
    BY <1>2, NoneFacts DEF Dec
  <2> QED
    BY <2>1 DEF Alive, q
<1>3. CASE h = 1 /\ r.outcome = "in_progress"
  <2>1. Dec(h) = 0 /\ t \in Nat /\ r.lease \in Nat /\ Lease \in Nat
    BY <1>3, BoundFacts DEF Dec, Rows
  <2>2. CASE r.seen = None /\ r.lease + t >= Lease - 1 + h
    <3>1. q.seen = None
      BY <1>1, <2>2 DEF Inc
    <3>2. r.lease > 0 /\ Dec(r.lease) = r.lease - 1
      BY <1>3, <2>1, <2>2, BoundFacts DEF OneTrouble, Dec
    <3>3. q.lease + t >= Lease - 1 + 0
      BY <1>1, <1>3, <2>1, <2>2, <3>2
    <3> QED
      BY <2>1, <3>1, <3>3 DEF Alive, q
  <2>3. CASE t > 0 /\ (r.seen # None => r.seen + h <= 1)
    <3>1. q.seen # None => q.seen + 0 <= 1
      BY <1>1, <1>3, <2>3, NoneFacts, BoundFacts DEF Inc, Rows, OneTrouble
    <3> QED
      BY <2>1, <2>3, <3>1 DEF Alive, q
  <2> QED
    BY <1>3, <2>2, <2>3, NoneFacts DEF Alive
<1>4. CASE r.outcome # "in_progress"
  BY <1>1, <1>4 DEF Alive, q
<1> QED
  BY <1>2, <1>3, <1>4 DEF Ages

\* Steps without the clock: rows in progress are left as they are, and
\* heartbeats go on or stop.
Unaged(r, q) ==
    /\ q.outcome = "in_progress" =>
           r.outcome = "in_progress" /\ q.lease = r.lease /\ q.seen = r.seen
    /\ q.outcome = "reconciled" => r.outcome # "in_progress"

LEMMA Rests ==
    ASSUME LInv, \A a \in Attempts : Unaged(row[a], row'[a]),
           \A a \in Attempts : heart'[a] \in {heart[a], None}, trouble' = trouble
    PROVE  LiveRows' /\ Spared
BY DEF LInv, LiveRows, Spared, Alive, Unaged

\* A pass over the other rows, as an admission makes one.
LEMMA InsertedLives ==
    ASSUME OneTrouble, LInv, NEW a \in Attempts, Inserted(a), row[a].outcome = "none",
           heart'[a] \in {1, None}, \A b \in Attempts : b # a => heart'[b] = heart[b],
           trouble' = trouble
    PROVE  LiveRows' /\ Spared
<1> DEFINE new == [NoRow EXCEPT !.outcome = "in_progress", !.owner = req[a].proc, !.lease = Lease]
<1>1. /\ row'[a] = new
      /\ \A b \in Attempts : b # a => row'[b] = Expired(Reconciled(row[b]))
  BY DEF Inserted
<1>2. new.lease = Lease /\ new.seen = None /\ new.outcome = "in_progress"
  BY DEF NoRow
<1> HIDE DEF new
<1>3. trouble \in 0..MaxTrouble /\ Lease \in Nat /\ MaxTrouble \in Nat
  BY BoundFacts DEF LInv, IInv, TypeOK
<1>4. Alive(new, heart'[a], trouble)
  BY <1>2, <1>3 DEF Alive
<1>5. \A b \in Attempts : row[b] \in Rows /\ heart[b] \in Ages /\ Alive(row[b], heart[b], trouble)
  BY RowsTyped DEF LInv, LiveRows, IInv, TypeOK, Ages
<1>6. ASSUME NEW b \in Attempts, b # a
      PROVE  /\ Alive(row'[b], heart'[b], trouble)
             /\ heart[b] # None /\ row[b].outcome = "in_progress" => row'[b].outcome = "in_progress"
  BY <1>1, <1>3, <1>5, <1>6, AliveSwept
<1> QED
  BY <1>1, <1>2, <1>4, <1>6 DEF LiveRows, Spared

LEMMA SweepLives == ASSUME OneTrouble, LInv, Sweep PROVE LiveRows' /\ Spared
<1>1. \A b \in Attempts : row[b] \in Rows /\ heart[b] \in Ages /\ Alive(row[b], heart[b], trouble)
  BY RowsTyped DEF LInv, LiveRows, IInv, TypeOK, Ages
<1>2. trouble \in 0..MaxTrouble
  BY DEF LInv, IInv, TypeOK
<1>3. \A b \in Attempts : row'[b] = Expired(Reconciled(row[b]))
  BY DEF Sweep
<1>4. ASSUME NEW b \in Attempts
      PROVE  /\ Alive(row'[b], heart[b], trouble)
             /\ heart[b] # None /\ row[b].outcome = "in_progress" => row'[b].outcome = "in_progress"
  BY <1>1, <1>2, <1>3, AliveSwept
<1> QED
  BY <1>4 DEF LiveRows, Spared, Sweep

LEMMA TickLives == ASSUME OneTrouble, LInv, Tick PROVE LiveRows' /\ Spared
<1>1. \A b \in Attempts : /\ row[b] \in Rows /\ heart[b] \in Ages \ {0}
                          /\ Alive(row[b], heart[b], trouble)
  BY RowsTyped DEF LInv, LiveRows, IInv, TypeOK, Ages, Tick
<1>2. trouble \in 0..MaxTrouble
  BY DEF LInv, IInv, TypeOK
<1>3. ASSUME NEW b \in Attempts
      PROVE  /\ row'[b] = [row[b] EXCEPT !.lease = Dec(@), !.claim = Dec(@),
                                         !.seen = Inc(@, Confirm)]
             /\ heart'[b] = Dec(heart[b]) /\ row'[b].outcome = row[b].outcome
  <2>1. heart'[b] = Dec(heart[b]) /\ row[b] \in Rows
    BY RowsTyped DEF Tick, LInv
  <2>2. row'[b] = [row[b] EXCEPT !.lease = Dec(@), !.claim = Dec(@), !.seen = Inc(@, Confirm)]
    BY DEF Tick
  <2> QED
    BY <2>1, <2>2 DEF Rows
<1>4. ASSUME NEW b \in Attempts PROVE Alive(row'[b], heart'[b], trouble)
  <2>1. Alive([row[b] EXCEPT !.lease = Dec(@), !.claim = Dec(@), !.seen = Inc(@, Confirm)],
              Dec(heart[b]), trouble)
    BY <1>1, <1>2, AliveTicked
  <2> QED
    BY <1>3, <2>1
<1> QED
  BY <1>3, <1>4 DEF LiveRows, Spared, Tick

\* The clock jumps once: no row in progress was seen lapsed before.
LEMMA ClockJumpsLives == ASSUME OneTrouble, LInv, ClockJumps PROVE LiveRows' /\ Spared
<1>1. trouble = 0 /\ trouble' = 1
  BY BoundFacts DEF OneTrouble, LInv, IInv, TypeOK, ClockJumps
<1>2. ASSUME NEW b \in Attempts
      PROVE  /\ row'[b].outcome = row[b].outcome
             /\ row'[b].seen = IF row[b].seen = None THEN None ELSE Confirm
  BY RowsTyped DEF LInv, ClockJumps, Jumped, Rows
<1>3. ASSUME NEW b \in Attempts, heart[b] # None, row[b].outcome = "in_progress"
      PROVE  row[b].seen = None
  BY <1>1, <1>3 DEF LInv, LiveRows, Alive
<1>4. \A b \in Attempts : Alive(row'[b], heart[b], 1)
  BY <1>2, <1>3 DEF Alive
<1> QED
  BY <1>1, <1>2, <1>4 DEF LiveRows, Spared, ClockJumps

LEMMA HeartbeatLives ==
    ASSUME OneTrouble, LInv, NEW a \in Attempts, Heartbeat(a) PROVE LiveRows' /\ Spared
<1>1. /\ \A b \in Attempts : b # a => row'[b] = row[b] /\ heart'[b] = heart[b]
      /\ row'[a] = Renewed(row[a]) /\ heart'[a] \in {1, None} /\ trouble' = trouble
  BY RowsTyped DEF LInv, IInv, TypeOK, Heartbeat
<1>2. /\ row'[a].outcome = row[a].outcome
      /\ row'[a].outcome = "in_progress" => row'[a].lease = Lease /\ row'[a].seen = None
  BY <1>1, RowsTyped DEF LInv, Renewed, Rows
<1>3. trouble \in Nat /\ Lease \in Nat
  BY BoundFacts DEF LInv, IInv, TypeOK
<1>4. Alive(row'[a], heart'[a], trouble)
  BY <1>1, <1>2, <1>3 DEF Alive
<1> QED
  BY <1>1, <1>2, <1>4 DEF LInv, LiveRows, Spared

LEMMA HeartbeatFailsLives ==
    ASSUME OneTrouble, LInv, NEW a \in Attempts, HeartbeatFails(a) PROVE LiveRows' /\ Spared
<1>1. trouble = 0 /\ trouble' = 1 /\ Lease \in Nat
  BY BoundFacts DEF OneTrouble, LInv, IInv, TypeOK, HeartbeatFails
<1>2. /\ \A b \in Attempts : b # a => heart'[b] = heart[b]
      /\ heart[a] = 0 /\ heart'[a] = 1 /\ row' = row
  BY DEF LInv, IInv, TypeOK, HeartbeatFails
<1>3. \A b \in Attempts : row[b] \in Rows /\ heart[b] \in Ages /\ Alive(row[b], heart[b], 0)
  BY <1>1, RowsTyped DEF LInv, LiveRows, IInv, TypeOK, Ages
<1>4. ASSUME NEW b \in Attempts, b # a PROVE Alive(row'[b], heart'[b], 1)
  <2>1. row[b].lease \in Nat
    BY <1>3, BoundFacts DEF Rows
  <2> QED
    BY <1>1, <1>2, <1>3, <1>4, <2>1, NoneFacts DEF Alive, Ages
<1>5. Alive(row'[a], heart'[a], 1)
  <2>1. row[a].lease \in Nat
    BY <1>3, BoundFacts DEF Rows
  <2> QED
    BY <1>1, <1>2, <1>3, <2>1, NoneFacts DEF Alive
<1> QED
  BY <1>1, <1>2, <1>4, <1>5 DEF LiveRows, Spared

\* Requests, processes, roasts and saves leave the clock of the rows alone.
LEMMA RequestLives ==
    ASSUME OneTrouble, LInv, NEW a \in Attempts,
           (\E p \in Procs : Begin(a, p)) \/ RequestStep(a) \/ ClientLeaves(a)
    PROVE  LiveRows' /\ Spared
<1>0. row \in [Attempts -> Rows] /\ heart \in [Attempts -> Ages] /\ NotAdmitted
  BY RowsTyped DEF LInv, IInv, TypeOK, Ages
<1>1. CASE UNCHANGED <<row, heart, trouble>>
  BY <1>1, Rests DEF Unaged
<1>2. CASE Admitted(a)
  <2>1. heart' = [heart EXCEPT ![a] = 1] /\ row[a].outcome = "none" /\ trouble' = trouble
    BY <1>0, <1>2 DEF Admitted, NotAdmitted
  <2> QED
    BY <1>0, <1>2, <2>1, InsertedLives DEF Admitted
<1>3. CASE AdmittedForNobody(a) \/ (AdmissionFails(a) /\ Inserted(a))
  <2>1. /\ heart' = heart /\ heart[a] = None /\ row[a].outcome = "none"
        /\ trouble' = trouble /\ Inserted(a)
    BY <1>0, <1>3 DEF AdmittedForNobody, AdmissionFails, NotAdmitted, LInv, Beating
  <2> QED
    BY <2>1, InsertedLives
<1>4. CASE Finish(a)
  <2>1. \A b \in Attempts : heart'[b] \in {heart[b], None}
    BY <1>0, <1>4 DEF Finish
  <2>2. \A b \in Attempts : b # a => row'[b] = row[b]
    BY <1>0, <1>4 DEF Finish
  <2>3. Unaged(row[a], Committed(a))
    <3>1. CASE row[a].outcome # "in_progress"
      BY <3>1 DEF Committed, Unaged
    <3>2. CASE row[a].outcome = "in_progress"
      <4>1. Committed(a).outcome = req[a].outcome
        BY <1>0, <3>2 DEF Committed, Rows
      <4>2. req[a].outcome # "reconciled" /\ req[a].outcome # "in_progress"
        BY RowsTyped DEF LInv, Beating, Requests, Terminal
      <4> QED
        BY <4>1, <4>2 DEF Unaged
    <3> QED
      BY <3>1, <3>2
  <2>4. Unaged(row[a], row'[a])
    BY <1>0, <1>4, <2>3 DEF Finish, Unaged
  <2>5. \A b \in Attempts : Unaged(row[b], row'[b])
    BY <2>2, <2>4 DEF Unaged
  <2> QED
    BY <1>4, <2>1, <2>5, Rests DEF Finish
<1>5. \/ UNCHANGED <<row, heart, trouble>>
      \/ Admitted(a)
      \/ AdmittedForNobody(a) \/ (AdmissionFails(a) /\ Inserted(a))
      \/ Finish(a)
  BY DEF RequestStep, Begin, AdmissionFails, TaskEnds, TaskReturned, Recheck, RecheckCancelled,
     ClientLeaves
<1> QED
  BY <1>1, <1>2, <1>3, <1>4, <1>5

LEMMA ProcessLives ==
    ASSUME LInv, NEW p \in Procs, Crash(p) \/ Shutdown(p) PROVE LiveRows' /\ Spared
<1>0. row \in [Attempts -> Rows] /\ heart \in [Attempts -> Ages]
  BY RowsTyped DEF LInv, IInv, TypeOK, Ages
<1>1. ASSUME NEW r \in Rows
      PROVE  /\ Unaged(r, r) /\ Unaged(r, [r EXCEPT !.owner = None])
             /\ Unaged(r, [r EXCEPT !.snapshot = FALSE, !.owner = None])
  BY DEF Rows, Unaged
<1>2. \A b \in Attempts : Unaged(row[b], row'[b])
  <2>1. CASE Crash(p)
    <3>1. \A b \in Attempts : row'[b] = IF row[b].owner = p THEN [row[b] EXCEPT !.owner = None]
                                        ELSE row[b]
      BY <2>1 DEF Crash, Orphaned
    <3> QED
      BY <1>0, <1>1, <3>1
  <2>2. CASE Shutdown(p)
    <3>1. \A b \in Attempts :
              row'[b] = IF row[b].owner = p THEN [row[b] EXCEPT !.snapshot = FALSE, !.owner = None]
                        ELSE row[b]
      BY <2>2 DEF Shutdown
    <3> QED
      BY <1>0, <1>1, <3>1
  <2> QED
    BY <2>1, <2>2
<1>3. \A b \in Attempts : heart'[b] \in {heart[b], None}
  BY <1>0 DEF Crash, Shutdown
<1> QED
  BY <1>2, <1>3, Rests DEF Crash, Shutdown

LEMMA SaveLives ==
    ASSUME LInv, NEW s \in Saves,
           \/ \E a \in Attempts, v \in Values : SaveBegins(s, a, v)
           \/ SaveCommits(s) \/ SaveRollsBack(s)
    PROVE  LiveRows' /\ Spared
<1>0. row \in [Attempts -> Rows]
  BY RowsTyped DEF LInv
<1>1. \A r \in Rows : Unaged(r, r) /\ Unaged(r, Expired(r))
  BY DEF Rows, Unaged, Expired
<1>2. \A b \in Attempts : Unaged(row[b], row'[b])
  <2>1. CASE SaveCommits(s)
    <3> DEFINE a == save[s].of
               r == [row[a] EXCEPT !.saved = save[s].value, !.snapshot = FALSE]
    <3>1. row' = [row EXCEPT ![a] = r]
      BY <1>0, <2>1 DEF SaveCommits
    <3>2. a \in Attempts => Unaged(row[a], r)
      BY <1>0 DEF Rows, Unaged
    <3> HIDE DEF a, r
    <3> QED
      BY <1>0, <1>1, <3>1, <3>2
  <2>2. CASE \E a \in Attempts, v \in Values : SaveBegins(s, a, v)
    BY <1>0, <1>1, <2>2 DEF SaveBegins, SaveReads
  <2>3. CASE SaveRollsBack(s)
    BY <1>0, <1>1, <2>3 DEF SaveRollsBack
  <2> QED
    BY <2>1, <2>2, <2>3
<1>3. heart' = heart /\ trouble' = trouble
  BY DEF SaveBegins, SaveReads, SaveCommits, SaveRollsBack
<1> QED
  BY <1>2, <1>3, Rests

LEMMA NextLives == ASSUME OneTrouble, LInv, [Next]_vars PROVE LiveRows' /\ Spared
<1>1. CASE UNCHANGED vars \/ StartRoast \/ RoastPersisted \/ RoastEnds
  <2>1. UNCHANGED <<row, heart, trouble>>
    BY <1>1 DEF vars, StartRoast, RoastPersisted, RoastEnds
  <2> QED
    BY <2>1, Rests DEF Unaged
<1> QED
  BY <1>1, RequestLives, HeartbeatLives, HeartbeatFailsLives, SweepLives, TickLives,
     ClockJumpsLives, ProcessLives, SaveLives DEF Next

\* Only an admission starts a heartbeat, and no request ends as reconciled.
LEMMA NextBeats == ASSUME LInv, [Next]_vars PROVE Beating'
<1>0. /\ req \in [Attempts -> Requests] /\ heart \in [Attempts -> Ages]
      /\ \A a \in Attempts : /\ req[a].pc \in {"idle", "admitting"} => heart[a] = None
                             /\ req[a].outcome # "reconciled"
  BY RowsTyped DEF LInv, IInv, TypeOK, Ages, Beating
<1>1. ASSUME NEW a \in Attempts, \E p \in Procs : Begin(a, p) PROVE Beating'
  BY <1>0, <1>1 DEF Begin, Beating, Requests
<1>2. ASSUME NEW a \in Attempts, Admitted(a) PROVE Beating'
  BY <1>0, <1>2 DEF Admitted, ReqAt, Beating, Requests
<1>3. ASSUME NEW a \in Attempts, AdmittedForNobody(a) \/ RecheckCancelled(a) PROVE Beating'
  BY <1>0, <1>3 DEF AdmittedForNobody, RecheckCancelled, Ends, Beating, Requests
<1>4. ASSUME NEW a \in Attempts, AdmissionFails(a) \/ Finish(a) PROVE Beating'
  BY <1>0, <1>4 DEF AdmissionFails, Finish, ReqAt, Beating, Requests
<1>5. ASSUME NEW a \in Attempts, TaskReturned(a) PROVE Beating'
  <2>1. Verdict(a) # "reconciled"
    BY DEF Verdict
  <2> QED
    BY <1>0, <1>5, <2>1 DEF TaskReturned, Ends, ReqAt, Beating, Requests
<1>6. ASSUME NEW a \in Attempts, Recheck(a) PROVE Beating'
  BY <1>0, <1>6 DEF Recheck, Ends, ReqAt, Beating, Requests
<1>7. ASSUME NEW a \in Attempts, ClientLeaves(a) PROVE Beating'
  BY <1>0, <1>7 DEF ClientLeaves, Beating, Requests
<1>8. ASSUME NEW a \in Attempts, Heartbeat(a) \/ HeartbeatFails(a) PROVE Beating'
  BY <1>0, <1>8, NoneFacts DEF Heartbeat, HeartbeatFails, Beating
<1>9. CASE Tick
  BY <1>0, <1>9, NoneFacts DEF Tick, Dec, Beating
<1>10. ASSUME NEW p \in Procs, Crash(p) PROVE Beating'
  BY <1>0, <1>10 DEF Crash, Beating, Requests
<1>11. CASE UNCHANGED <<req, heart>>
  BY <1>11 DEF LInv, Beating
<1>12. ASSUME NEW a \in Attempts, TaskEnds(a) PROVE Beating'
  BY <1>11, <1>12 DEF TaskEnds
<1>13. CASE \/ UNCHANGED vars \/ Sweep \/ ClockJumps \/ StartRoast \/ RoastPersisted \/ RoastEnds
            \/ \E p \in Procs : Shutdown(p)
            \/ \E s \in Saves : \/ \E a \in Attempts, v \in Values : SaveBegins(s, a, v)
                                \/ SaveCommits(s) \/ SaveRollsBack(s)
  BY <1>11, <1>13 DEF vars, Sweep, ClockJumps, StartRoast, RoastPersisted, RoastEnds, Shutdown,
     SaveBegins, SaveReads, SaveCommits, SaveRollsBack
<1> QED
  BY <1>1, <1>2, <1>3, <1>4, <1>5, <1>6, <1>7, <1>8, <1>9, <1>10, <1>12, <1>13
     DEF Next, RequestStep

LEMMA InitLives == ASSUME Init PROVE LiveRows /\ Beating
BY NoneFacts DEF Init, LiveRows, Alive, Beating, NoRow

\* _renew_bean_attempt_lease, _reconcile_bean_attempts: in the periods of the
\* code one jump of the clock, or one renewal that failed, ends no attempt
\* whose owner lives, of any number of attempts, in any process.
THEOREM LiveOwnersKeepAttempts ==
    ASSUME OneTrouble PROVE Spec => LiveOwnerKeepsAttempt
<1>1. Init => LInv
  BY InitInv, InitLives DEF LInv
<1>2. LInv /\ [Next]_vars => LInv' /\ Spared
  BY NextInv, NextLives, NextBeats DEF LInv
<1>3. LInv /\ [Next]_vars
      => [\A a \in Attempts : row[a].outcome = "in_progress" /\ row'[a].outcome = "reconciled"
                              => heart[a] = None]_vars
  BY <1>2 DEF Spared
<1> QED
  BY <1>1, <1>2, <1>3, PTL DEF Spec, LiveOwnerKeepsAttempt
=============================================================================
