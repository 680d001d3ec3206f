--------------------------- MODULE DraftAttempts ---------------------------
(***************************************************************************)
(* Bean-sourcing attempts (store.py, api.py): draft_bean_from_url and      *)
(* recommend_beans_from_catalogue admit a leased row before their remote   *)
(* work and end it once; processes sharing one SQLite database reconcile   *)
(* the rows of owners that are gone; a roast's start preempts the work of  *)
(* its own process; a saved profile claims its draft at most once.         *)
(*                                                                         *)
(* One tick is a heartbeat interval.  Rows hold the time left, not dates.  *)
(***************************************************************************)
EXTENDS Integers

CONSTANTS
    Attempts,    \* sourcing requests
    Procs, Main, \* the service instances; Main runs the roasts and stays up
    Saves,       \* requests that save a profile from a draft
    Values,      \* the field values of a profile
    None,
    Lease, Confirm, ClaimLife,  \* _BEAN_SOURCING_LEASE_*, 24 hours
    MaxTrouble   \* bounds clock jumps and failed renewals, together

ASSUME DraftAssumption ==
    /\ Main \in Procs /\ None \notin Procs \cup Saves \cup Values \cup Nat
    /\ Attempts \cap {"free", "roast"} = {}
    /\ {Lease, Confirm, ClaimLife} \subseteq Nat \ {0} /\ MaxTrouble \in Nat

VARIABLES
    row,      \* bean_sourcing_attempts
    req,      \* each request: its step, the outcome it will commit, its client
    task,     \* the request's current task, and whether a start preempted it
    heart,    \* ticks to the next heartbeat, None without one
    up,       \* the processes that run
    lock,     \* _start_lock of each process: free, or who holds it
    roast,    \* the run of Main: none, starting or active
    save,     \* each save request
    writer,   \* the save whose transaction holds the database
    profiles, \* profiles created from each attempt
    trouble

vars == <<row, req, task, heart, up, lock, roast, save, writer, profiles, trouble>>
saving == <<save, writer, profiles>>

\* A draft leaves something to claim; a catalogue has two stages and does not.
Kinds == {"draft", "catalogue"}
Terminal == {"success", "error", "preempted", "cancelled", "reconciled"}
NoRow == [outcome |-> "none", owner |-> None, lease |-> 0, seen |-> None,
          snapshot |-> FALSE, claim |-> 0, saved |-> None]

TypeOK ==
    /\ row \in [Attempts -> [outcome : {"none", "in_progress"} \cup Terminal,
                             owner : Procs \cup {None}, lease : 0..Lease,
                             seen : (0..Confirm) \cup {None}, snapshot : BOOLEAN,
                             claim : 0..ClaimLife, saved : Values \cup {None}]]
    /\ \A a \in Attempts : row[a].snapshot =>
          req[a].kind = "draft" /\ row[a].outcome = "success" /\ row[a].saved = None
    /\ req \in [Attempts -> [pc : {"idle", "admitting", "waiting", "recheck", "ending", "done"},
                             kind : Kinds, proc : Procs \cup {None}, gone : BOOLEAN,
                             outcome : {"none"} \cup Terminal]]
    /\ task \in [Attempts -> [is : {"none", "running", "stopping", "ok", "error", "cancelled"},
                              stage : {"context", "provider"}, preempted : BOOLEAN]]
    /\ heart \in [Attempts -> {0, 1, None}]
    /\ up \subseteq Procs /\ Main \in up
    /\ lock \in [Procs -> {"free", "roast"} \cup Attempts]
    /\ roast \in {"none", "starting", "active"}
    /\ save \in [Saves -> [pc : {"idle", "claiming", "done"}, of : Attempts \cup {None},
                           value : Values \cup {None},
                           answer : {"none", "saved", "conflict", "refused"}]]
    /\ writer \in Saves \cup {None}
    /\ profiles \in [Attempts -> 0..2]
    /\ trouble \in 0..MaxTrouble

Init ==
    /\ row = [a \in Attempts |-> NoRow]
    /\ req = [a \in Attempts |-> [pc |-> "idle", kind |-> "draft", proc |-> None,
                                  gone |-> FALSE, outcome |-> "none"]]
    /\ task = [a \in Attempts |-> [is |-> "none", stage |-> "context", preempted |-> FALSE]]
    /\ heart = [a \in Attempts |-> None]
    /\ up = Procs
    /\ lock = [p \in Procs |-> "free"]
    /\ roast = "none"
    /\ save = [s \in Saves |-> [pc |-> "idle", of |-> None, value |-> None, answer |-> "none"]]
    /\ writer = None
    /\ profiles = [a \in Attempts |-> 0]
    /\ trouble = 0

Database == writer = None     \* BEGIN IMMEDIATE and its busy timeout
Dec(n) == IF n \in Nat \ {0} THEN n - 1 ELSE n
Inc(n, top) == IF n # None /\ n < top THEN n + 1 ELSE n

-----------------------------------------------------------------------------
(* The passes over all rows.                                               *)

Lapsed(r) == r.outcome = "in_progress" /\ r.lease = 0
Observed(r) == IF Lapsed(r) /\ r.seen = None THEN [r EXCEPT !.seen = 0] ELSE r

\* Mutants of Reconciled: at the first sight of a lapsed lease; never.
ReconciledAtOnce(r) ==
    IF Lapsed(r) THEN [r EXCEPT !.outcome = "reconciled"] ELSE r
ReconciledNever(r) == Observed(r)

\* Ended when it was seen lapsed long enough ago, and observed otherwise.
Reconciled(r) ==
    IF Lapsed(r) /\ r.seen = Confirm
    THEN [r EXCEPT !.outcome = "reconciled"] ELSE Observed(r)

Expired(r) ==
    IF r.snapshot /\ r.claim = 0 THEN [r EXCEPT !.snapshot = FALSE] ELSE r

\* The expiry task and the startup of any process.
Sweep ==
    /\ Database
    /\ row' = [a \in Attempts |-> Expired(Reconciled(row[a]))]
    /\ UNCHANGED <<req, task, heart, up, lock, roast, saving, trouble>>

-----------------------------------------------------------------------------
(* A request.                                                              *)

ReqAt(a, pc) == req' = [req EXCEPT ![a].pc = pc]
Free(p) == lock' = [lock EXCEPT ![p] = "free"]
Ends(a, outcome) == req' = [req EXCEPT ![a].pc = "ending", ![a].outcome = outcome]

\* Under the start lock: no active run, then the admission of the attempt.
Begin(a, p) ==
    /\ req[a].pc = "idle" /\ p \in up
    /\ lock[p] = "free" /\ roast # "active"
    /\ lock' = [lock EXCEPT ![p] = a]
    /\ \E k \in Kinds :
          req' = [req EXCEPT ![a].pc = "admitting", ![a].kind = k, ![a].proc = p]
    /\ UNCHANGED <<row, task, heart, up, roast, saving, trouble>>

Inserted(a) ==
    row' = [b \in Attempts |->
              IF b = a
              THEN [NoRow EXCEPT !.outcome = "in_progress", !.owner = req[a].proc, !.lease = Lease]
              ELSE Expired(Reconciled(row[b]))]

\* The row is committed; the heartbeat and the registered task start.
Admitted(a) ==
    /\ req[a].pc = "admitting" /\ ~req[a].gone /\ Database
    /\ Inserted(a)
    /\ heart' = [heart EXCEPT ![a] = 1]
    /\ task' = [task EXCEPT ![a].is = "running",
                            ![a].stage = IF req[a].kind = "draft" THEN "provider" ELSE "context"]
    /\ ReqAt(a, "waiting")
    /\ Free(req[a].proc)
    /\ UNCHANGED <<up, roast, saving, trouble>>

\* A client that left during the admission: the row is ended under the lock.
AdmittedForNobody(a) ==
    /\ req[a].pc = "admitting" /\ req[a].gone /\ Database
    /\ Inserted(a)
    /\ Ends(a, "cancelled")
    /\ UNCHANGED <<task, heart, up, lock, roast, saving, trouble>>

\* It timed out: rolled back, or committed without anyone to end it.
AdmissionFails(a) ==
    /\ req[a].pc = "admitting"
    /\ Inserted(a) \/ UNCHANGED row
    /\ ReqAt(a, "done")
    /\ Free(req[a].proc)
    /\ UNCHANGED <<task, heart, up, roast, saving, trouble>>

\* The client's cancellation cancels the task it waits for.
ClientLeaves(a) ==
    /\ req[a].pc \in {"admitting", "waiting", "recheck"} /\ ~req[a].gone
    /\ req' = [req EXCEPT ![a].gone = TRUE]
    /\ task' = [task EXCEPT ![a].is = IF @ = "running" THEN "stopping" ELSE @]
    /\ UNCHANGED <<row, heart, up, lock, roast, saving, trouble>>

\* A cancelled task may still end with its answer.
TaskEnds(a) ==
    /\ task[a].is \in {"running", "stopping"}
    /\ \E end \in {"ok", "error"} \cup (IF task[a].is = "stopping" THEN {"cancelled"} ELSE {}) :
          task' = [task EXCEPT ![a].is = end]
    /\ UNCHANGED <<row, req, heart, up, lock, roast, saving, trouble>>

Verdict(a) ==
    LET t == task[a]
        preempted == t.preempted /\ (t.stage = "context" => ~req[a].gone)
    IN  IF t.is = "cancelled"
        THEN IF preempted THEN "preempted" ELSE "cancelled"
        ELSE IF req[a].gone THEN "cancelled"
        ELSE IF t.preempted THEN "preempted"
        ELSE IF t.is = "ok" THEN "success" ELSE "error"

TaskReturned(a) ==
    /\ req[a].pc = "waiting" /\ task[a].is \in {"ok", "error", "cancelled"}
    /\ IF task[a].stage = "context" /\ Verdict(a) = "success"
       THEN ReqAt(a, "recheck")
       ELSE Ends(a, Verdict(a))
    /\ UNCHANGED <<row, task, heart, up, lock, roast, saving, trouble>>

\* Mutant of Recheck: no second look at the active run.
RecheckSkipped(a) ==
    /\ req[a].pc = "recheck" /\ ~req[a].gone /\ lock[req[a].proc] = "free"
    /\ task' = [task EXCEPT ![a] = [is |-> "running", stage |-> "provider", preempted |-> FALSE]]
    /\ ReqAt(a, "waiting")
    /\ UNCHANGED <<row, heart, up, lock, roast, saving, trouble>>

\* A catalogue's second stage: the start lock and the active run again.
Recheck(a) ==
    /\ req[a].pc = "recheck" /\ ~req[a].gone /\ lock[req[a].proc] = "free"
    /\ IF roast = "active"
       THEN Ends(a, "preempted") /\ UNCHANGED task
       ELSE /\ task' = [task EXCEPT ![a] = [is |-> "running", stage |-> "provider",
                                            preempted |-> FALSE]]
            /\ ReqAt(a, "waiting")
    /\ UNCHANGED <<row, heart, up, lock, roast, saving, trouble>>

RecheckCancelled(a) ==
    /\ req[a].pc = "recheck" /\ req[a].gone
    /\ Ends(a, "cancelled")
    /\ UNCHANGED <<row, task, heart, up, lock, roast, saving, trouble>>

\* Mutant of Committed: claimable_draft is left at its default.
CommittedClaimable(a) ==
    LET claimable == req[a].outcome = "success"
    IN  IF row[a].outcome # "in_progress" THEN row[a]
        ELSE [row[a] EXCEPT !.outcome = req[a].outcome, !.snapshot = claimable,
                            !.claim = IF claimable THEN ClaimLife ELSE 0]

\* A finish that meets an ended row raises and changes nothing.
Committed(a) ==
    LET claimable == req[a].kind = "draft" /\ req[a].outcome = "success"
    IN  IF row[a].outcome # "in_progress" THEN row[a]
        ELSE [row[a] EXCEPT !.outcome = req[a].outcome, !.snapshot = claimable,
                            !.claim = IF claimable THEN ClaimLife ELSE 0]

\* The finish commits, or times out; the request is over and its heartbeat.
Finish(a) ==
    /\ req[a].pc = "ending" /\ Database
    /\ row' = [row EXCEPT ![a] = Committed(a)] \/ UNCHANGED row
    /\ ReqAt(a, "done")
    /\ heart' = [heart EXCEPT ![a] = None]
    /\ lock' = [p \in Procs |-> IF lock[p] = a THEN "free" ELSE lock[p]]
    /\ UNCHANGED <<task, up, roast, saving, trouble>>

Renewed(r) ==
    IF r.outcome = "in_progress" THEN [r EXCEPT !.lease = Lease, !.seen = None] ELSE r

\* _renew_bean_attempt_lease: it ends when the row is no longer in progress.
Heartbeat(a) ==
    /\ heart[a] = 0 /\ Database
    /\ row' = [row EXCEPT ![a] = Renewed(row[a])]
    /\ heart' = [heart EXCEPT ![a] = IF row[a].outcome = "in_progress" THEN 1 ELSE None]
    /\ UNCHANGED <<req, task, up, lock, roast, saving, trouble>>

HeartbeatFails(a) ==
    /\ heart[a] = 0 /\ trouble < MaxTrouble
    /\ heart' = [heart EXCEPT ![a] = 1]
    /\ trouble' = trouble + 1
    /\ UNCHANGED <<row, req, task, up, lock, roast, saving>>

-----------------------------------------------------------------------------
(* Time, processes and roasts.                                             *)

\* A running process renews in time: no tick passes a heartbeat that is due.
Tick ==
    /\ \A a \in Attempts : heart[a] # 0
    /\ row' = [a \in Attempts |-> [row[a] EXCEPT !.lease = Dec(@), !.claim = Dec(@),
                                                 !.seen = Inc(@, Confirm)]]
    /\ heart' = [a \in Attempts |-> Dec(heart[a])]
    /\ UNCHANGED <<req, task, up, lock, roast, saving, trouble>>

Jumped(r) ==
    [r EXCEPT !.lease = 0, !.claim = 0, !.seen = IF @ = None THEN None ELSE Confirm]

\* The wall clock jumps, as over a suspended host: every lease lapses at once.
ClockJumps ==
    /\ trouble < MaxTrouble
    /\ row' = [a \in Attempts |-> Jumped(row[a])]
    /\ trouble' = trouble + 1
    /\ UNCHANGED <<req, task, heart, up, lock, roast, saving>>

Orphaned(p) == [a \in Attempts |-> IF row[a].owner = p THEN [row[a] EXCEPT !.owner = None] ELSE row[a]]

\* Nobody has the instance id of a process that died.
Crash(p) ==
    /\ p \in up \ {Main}
    /\ up' = up \ {p}
    /\ row' = Orphaned(p)
    /\ req' = [a \in Attempts |-> IF req[a].proc = p THEN [req[a] EXCEPT !.pc = "done"] ELSE req[a]]
    /\ task' = [a \in Attempts |-> IF req[a].proc = p THEN [task[a] EXCEPT !.is = "none"] ELSE task[a]]
    /\ heart' = [a \in Attempts |-> IF req[a].proc = p THEN None ELSE heart[a]]
    /\ Free(p)
    /\ UNCHANGED <<roast, saving, trouble>>

\* An orderly shutdown, after its requests, clears the drafts of its own.
Shutdown(p) ==
    /\ p \in up \ {Main} /\ Database
    /\ \A a \in Attempts : req[a].proc = p => req[a].pc = "done"
    /\ up' = up \ {p}
    /\ row' = [a \in Attempts |-> IF row[a].owner = p
                                  THEN [row[a] EXCEPT !.snapshot = FALSE, !.owner = None]
                                  ELSE row[a]]
    /\ UNCHANGED <<req, task, heart, lock, roast, saving, trouble>>

\* start_roast: its lock, no active run, and the drafts of its process.
StartRoast ==
    /\ roast = "none" /\ lock[Main] = "free"
    /\ roast' = "starting" /\ lock' = [lock EXCEPT ![Main] = "roast"]
    /\ task' = [a \in Attempts |->
                  IF req[a].proc = Main /\ task[a].is \in {"running", "stopping"}
                  THEN [task[a] EXCEPT !.preempted = TRUE, !.is = "stopping"] ELSE task[a]]
    /\ UNCHANGED <<row, req, heart, up, saving, trouble>>

\* After the grace the run is persisted, whatever tasks still pend; or not.
RoastPersisted ==
    /\ roast = "starting"
    /\ roast' \in {"active", "none"} /\ Free(Main)
    /\ UNCHANGED <<row, req, task, heart, up, saving, trouble>>

RoastEnds ==
    /\ roast = "active" /\ roast' = "none"
    /\ UNCHANGED <<row, req, task, heart, up, lock, saving, trouble>>

-----------------------------------------------------------------------------
(* Saving a profile from a draft, create_bean_profile.                     *)

Claimable(r) == r.outcome = "success" /\ r.snapshot /\ r.claim > 0

\* What the transaction reads of the attempt.
SaveReads(s, a, v) ==
    /\ row' = [b \in Attempts |-> Expired(row[b])]
    /\ LET r == row'[a] IN
         IF Claimable(r)
         THEN /\ writer' = s
              /\ save' = [save EXCEPT ![s] = [pc |-> "claiming", of |-> a, value |-> v,
                                              answer |-> "none"]]
         ELSE /\ UNCHANGED writer
              /\ save' = [save EXCEPT ![s] =
                    [pc |-> "done", of |-> a, value |-> v,
                     answer |-> IF r.saved = None THEN "refused"
                                ELSE IF r.saved = v THEN "saved" ELSE "conflict"]]
    /\ UNCHANGED <<req, task, heart, up, lock, roast, profiles, trouble>>

\* Mutant of SaveBegins: a transaction that does not exclude the others.
SaveBeginsDeferred(s, a, v) == save[s].pc # "claiming" /\ SaveReads(s, a, v)

\* A request may come again, with the same values or with others.
SaveBegins(s, a, v) == save[s].pc # "claiming" /\ Database /\ SaveReads(s, a, v)

SaveCommits(s) ==
    LET a == save[s].of IN
    /\ save[s].pc = "claiming"
    /\ row' = [row EXCEPT ![a].saved = save[s].value, ![a].snapshot = FALSE]
    /\ profiles' = [profiles EXCEPT ![a] = @ + 1]
    /\ save' = [save EXCEPT ![s].pc = "done", ![s].answer = "saved"]
    /\ writer' = None
    /\ UNCHANGED <<req, task, heart, up, lock, roast, trouble>>

SaveRollsBack(s) ==
    /\ save[s].pc = "claiming"
    /\ save' = [save EXCEPT ![s].pc = "idle"]
    /\ writer' = None
    /\ UNCHANGED <<row, req, task, heart, up, lock, roast, profiles, trouble>>

-----------------------------------------------------------------------------
RequestStep(a) ==
    \/ Admitted(a) \/ AdmittedForNobody(a) \/ AdmissionFails(a) \/ TaskEnds(a)
    \/ TaskReturned(a) \/ Recheck(a) \/ RecheckCancelled(a) \/ Finish(a)

Next ==
    \/ \E a \in Attempts : \/ \E p \in Procs : Begin(a, p)
                           \/ RequestStep(a) \/ ClientLeaves(a)
                           \/ Heartbeat(a) \/ HeartbeatFails(a)
    \/ Sweep \/ Tick \/ ClockJumps
    \/ \E p \in Procs : Crash(p) \/ Shutdown(p)
    \/ StartRoast \/ RoastPersisted \/ RoastEnds
    \/ \E s \in Saves : \/ \E a \in Attempts, v \in Values : SaveBegins(s, a, v)
                        \/ SaveCommits(s) \/ SaveRollsBack(s)

Spec == Init /\ [][Next]_vars

\* Time passes; tasks, heartbeats and the expiry task of Main run; a
\* provider call has its own timeout; a transaction ends.
FairSpec ==
    /\ Spec
    /\ WF_vars(Tick) /\ WF_vars(RoastPersisted)
    /\ SF_vars(Sweep)
    /\ \A a \in Attempts : SF_vars(RequestStep(a)) /\ SF_vars(Heartbeat(a))
    /\ \A s \in Saves : WF_vars(SaveCommits(s) \/ SaveRollsBack(s))

-----------------------------------------------------------------------------
(* Properties.                                                             *)

\* _renew_bean_attempt_lease, test_v14_clock_jump_candidate_is_cleared_by_
\* live_renewal: "one jumped-clock expiry observation cannot cancel a live
\* owner"; neither can one renewal that failed.
LiveOwnerKeepsAttempt ==
    [][\A a \in Attempts :
          row[a].outcome = "in_progress" /\ row'[a].outcome = "reconciled" => heart[a] = None]_vars

\* draft_bean_from_url: "a draft cannot pass the check while a roast is being
\* created".  While Main roasts, no sourcing task of Main is left to run on:
\* each is over or was cancelled, the second stage of a catalogue included.
NoDraftBesideRoast ==
    roast = "active" =>
        \A a \in Attempts : req[a].proc = Main => task[a].is # "running"

\* create_bean_profile: concurrent, repeated and rolled-back saves in several
\* processes make one profile of a draft, and a save that was answered
\* "saved" is the one the attempt refers to.
OneProfilePerDraft ==
    /\ \A a \in Attempts : profiles[a] = (IF row[a].saved = None THEN 0 ELSE 1)
    /\ \A s \in Saves : save[s].answer = "saved" => row[save[s].of].saved = save[s].value

\* Every admitted attempt reaches a terminal outcome, whether its owner ends
\* it, dies, fails to end it, or was never told of its admission.
AttemptsResolved ==
    \A a \in Attempts : row[a].outcome = "in_progress" ~> row[a].outcome \in Terminal

=============================================================================
