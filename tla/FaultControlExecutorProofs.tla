--------------------- MODULE FaultControlExecutorProofs ---------------------
(***************************************************************************)
(* What FaultControlExecutor keeps true for any number of controls,        *)
(* closers and emergency stops: its types, that at most one roaster call   *)
(* is begun ahead of an admitted stop, that the recorded outcome tells     *)
(* what the write did, and that no control requested before a stop is      *)
(* written behind it.                                                      *)
(*                                                                         *)
(* Two facts carry the argument. A stop that a call was begun ahead of has *)
(* reached the queue when the worker is next between two calls (Punctual), *)
(* because its task was ready before the call ended. And the stops are     *)
(* served in the order of their admission (OlderFirst), so the newest one  *)
(* has none outstanding when it is dispatched.                             *)
(***************************************************************************)
EXTENDS FaultControlExecutor, SequenceTheorems, TLAPS

\* The worker's awaits that are calls of the roaster.
RoasterCalls == {"reading", "readingLatest", "writing", "readingBack",
                 "stopping", "readingBackStop"}

\* The await of the worker tells the kind of its item and how far its write is.
ShapeFits(w) ==
    /\ w.pc \in {"none", "starting"} <=> w.item = None
    /\ w.pc \in {"proofWait", "readingLatest"} => w.item \in Closers
    /\ w.pc \in {"reading", "writeWait", "writing", "readingBack"} => w.item \in Requests
    /\ w.pc \in {"stopWait", "stopping", "readingBackStop"} => w.item \in Stops
    /\ w.wrote = IF w.pc \in {"writing", "stopping"} THEN "entered"
                 ELSE IF w.pc \in {"readingBack", "readingBackStop"} THEN "returned" ELSE "no"
WorkerShape == ShapeFits(worker)

\* What is marked as working is the worker's item.
ItemIsWorking ==
    /\ \A r \in Requests : req[r].pc = "working" <=> worker.item = r
    /\ \A s \in Stops : stop[s] = "working" <=> worker.item = s

\* Nothing is queued twice, and a queued stop is in its queue.
QueuesServe ==
    /\ \A i, j \in DOMAIN stopQueue : stopQueue[i] = stopQueue[j] => i = j
    /\ \A i, j \in DOMAIN routineQueue : routineQueue[i] = routineQueue[j] => i = j
    /\ \A s \in Stops : stop[s] = "queued" => \E i \in DOMAIN stopQueue : stopQueue[i] = s

\* The gate's admissions are the stops on their way to their dispatch.
AdmissionsTravel ==
    \A s \in Stops :
        s \in admitted <=> \/ stop[s] \in {"admitted", "queued"}
                           \/ worker.item = s /\ worker.pc = "stopWait"

ClaimAlone == reserved => admitted = {}

\* A write whose lease is still its own began before any stop outstanding.
LeaseOfWrite ==
    worker.pc \in {"writing", "readingBack"} /\ req[worker.item].lease => admitted = {}

\* A request made before a stop has lost its lease, and never gets another.
OlderOutdated ==
    \A s \in Stops : \A r \in older[s] \cap Requests : req[r].pc # "idle" /\ ~req[r].lease

\* The stops are queued and served in the order of their admission.
OlderFirst ==
    \A s \in Stops :
        /\ stop[s] = "idle" => older[s] = {}
        /\ lease.newest = s => \A t \in Stops \ {s} : stop[t] = "idle" \/ t \in older[s]
        /\ \A t \in older[s] \cap Stops :
             /\ stop[t] # "idle"
             /\ stop[s] \in {"queued", "working", "done"} => stop[t] # "admitted"
             /\ stop[s] \in {"working", "done"} => stop[t] = "done"
             /\ stop[t] = "queued" =>
                  \A j \in DOMAIN stopQueue :
                      stopQueue[j] = s => \E i \in 1 .. j - 1 : stopQueue[i] = t

\* Between two calls of the worker, a stop that a call was begun ahead of is
\* in the queue or past it.
Punctual ==
    /\ worker.pc \notin RoasterCalls => TasksRan
    /\ \A s \in Stops : stop[s] = "idle" => begun[s] = 0

IInv ==
    /\ TypeOK
    /\ WorkerShape /\ ItemIsWorking
    /\ QueuesServe
    /\ AdmissionsTravel /\ ClaimAlone
    /\ LeaseOfWrite
    /\ OlderOutdated /\ OlderFirst
    /\ Punctual
    /\ OneCallAheadOfStop
    /\ TraceIsHonest

-----------------------------------------------------------------------------
(* Sequences and names.                                                    *)

LEMMA Names ==
    /\ \A r \in Requests : r \notin Stops /\ r # None /\ r # Live
    /\ \A s \in Stops : s # None /\ s # Live
    /\ Closers \subseteq Requests /\ Controls \subseteq Requests
BY RequestsDisjoint DEF Requests

LEMMA TailFacts ==
    ASSUME NEW S, NEW q \in Seq(S), q # <<>>
    PROVE  /\ Tail(q) \in Seq(S) /\ Len(q) \in Nat \ {0}
           /\ Head(q) = q[1] /\ 1 \in DOMAIN q /\ q[1] \in S
           /\ DOMAIN q = 1 .. Len(q) /\ DOMAIN Tail(q) = 1 .. Len(q) - 1
           /\ \A j \in DOMAIN Tail(q) : j + 1 \in DOMAIN q /\ Tail(q)[j] = q[j + 1]
OBVIOUS

LEMMA AppendFacts ==
    ASSUME NEW S, NEW q \in Seq(S), NEW e \in S
    PROVE  /\ Append(q, e) \in Seq(S) /\ Len(q) \in Nat
           /\ DOMAIN q = 1 .. Len(q) /\ DOMAIN Append(q, e) = 1 .. Len(q) + 1
           /\ \A j \in DOMAIN q : Append(q, e)[j] = q[j]
           /\ Append(q, e)[Len(q) + 1] = e
BY SMTT(30)

LEMMA RemoveAtFacts ==
    ASSUME NEW S, NEW q \in Seq(S), NEW i \in DOMAIN q
    PROVE  /\ RemoveAt(q, i) \in Seq(S)
           /\ DOMAIN q = 1 .. Len(q) /\ DOMAIN RemoveAt(q, i) = 1 .. Len(q) - 1
           /\ \A j \in DOMAIN RemoveAt(q, i) :
                  /\ j < i => RemoveAt(q, i)[j] = q[j]
                  /\ j >= i => RemoveAt(q, i)[j] = q[j + 1]
<1> DEFINE a == SubSeq(q, 1, i - 1)
           b == SubSeq(q, i + 1, Len(q))
<1>1. /\ i \in Nat /\ 1 <= i /\ i <= Len(q) /\ Len(q) \in Nat /\ DOMAIN q = 1 .. Len(q)
    OBVIOUS
<1>2. /\ a \in Seq(S) /\ Len(a) = i - 1 /\ \A j \in 1 .. i - 1 : a[j] = q[j]
    BY <1>1
<1>3. /\ b \in Seq(S) /\ Len(b) = Len(q) - i /\ \A j \in 1 .. Len(q) - i : b[j] = q[i + j]
    <2>1. b \in Seq(S) /\ Len(b) = Len(q) - i
        BY <1>1, SubSeqProperties
    <2>2. \A j \in 1 .. Len(q) - i : b[j] = q[(i + 1) + j - 1]
        BY <1>1, SubSeqProperties
    <2> QED BY <1>1, <2>1, <2>2
<1> HIDE DEF a, b
<1>4. /\ a \o b \in Seq(S) /\ Len(a \o b) = Len(q) - 1
      /\ \A j \in 1 .. Len(q) - 1 :
            (a \o b)[j] = IF j <= i - 1 THEN a[j] ELSE b[j - (i - 1)]
    <2>1. /\ a \o b \in Seq(S) /\ Len(a \o b) = Len(a) + Len(b)
          /\ \A j \in 1 .. Len(a) + Len(b) :
                (a \o b)[j] = IF j <= Len(a) THEN a[j] ELSE b[j - Len(a)]
        BY <1>2, <1>3, ConcatProperties
    <2>2. Len(a) = i - 1 /\ Len(a) + Len(b) = Len(q) - 1
        BY <1>1, <1>2, <1>3
    <2> QED BY <2>1, <2>2
<1>5. RemoveAt(q, i) = a \o b
    BY DEF RemoveAt, a, b
<1>6. \A j \in 1 .. Len(q) - 1 : j < i => (a \o b)[j] = q[j]
    BY <1>1, <1>2, <1>4
<1>7. \A j \in 1 .. Len(q) - 1 : j >= i => (a \o b)[j] = q[j + 1]
    <2> SUFFICES ASSUME NEW j \in 1 .. Len(q) - 1, j >= i PROVE (a \o b)[j] = q[j + 1]
        OBVIOUS
    <2>1. j - (i - 1) \in 1 .. Len(q) - i /\ i + (j - (i - 1)) = j + 1 /\ ~(j <= i - 1)
        BY <1>1
    <2>2. (a \o b)[j] = b[j - (i - 1)]
        BY <1>4, <2>1
    <2>3. b[j - (i - 1)] = q[i + (j - (i - 1))]
        BY <1>3, <2>1
    <2> QED BY <2>1, <2>2, <2>3
<1>8. DOMAIN (a \o b) = 1 .. Len(q) - 1
    BY <1>4, LenProperties
<1> QED BY <1>1, <1>4, <1>5, <1>6, <1>7, <1>8

-----------------------------------------------------------------------------
(* The worker takes its next item.                                         *)

WorkerRecord == [pc : WorkerPcs, item : Requests \cup Stops \cup {None}, wrote : Progress]
RequestRecord == [pc : ReqPcs, lease : BOOLEAN, gen : BOOLEAN, ok : BOOLEAN]
ReportRecord == [item : Requests \cup Stops \cup {None}, wrote : Progress,
                 dispatch : Dispatches \cup {NoTrace}]

LEMMA AtFacts ==
    ASSUME NEW pc \in WorkerPcs, NEW i \in Requests \cup Stops \cup {None}
    PROVE  /\ At(pc, i) \in WorkerRecord
           /\ At(pc, i).pc = pc /\ At(pc, i).item = i /\ At(pc, i).wrote = "no"
BY DEF At, WorkerRecord, Progress

LEMMA BeginsFacts ==
    ASSUME IInv, NEW i, Begins(i)
    PROVE  /\ begun' \in [Stops -> Nat]
           /\ \A s \in Stops : begun'[s] = IF s \in admitted \ {i, worker.item}
                                           THEN begun[s] + 1 ELSE begun[s]
BY DEF Begins, IInv, TypeOK

\* A call begun for a routine control is ahead of the stops whose tasks have
\* not run, and of no other.
LEMMA TakeNextFacts ==
    ASSUME IInv, TasksRan, TakeNext
    PROVE  /\ worker' \in WorkerRecord /\ ShapeFits(worker')
           /\ worker'.pc \in {"none", "stopWait", "proofWait", "reading"}
           /\ worker'.item # worker.item \/ worker'.item = None
           /\ \/ /\ worker'.item \in Stops /\ worker'.pc = "stopWait"
                 /\ stopQueue # <<>> /\ worker'.item = stopQueue[1] /\ stop[worker'.item] = "queued"
                 /\ stopQueue' = Tail(stopQueue) /\ routineQueue' = routineQueue
              \/ /\ worker'.item \in Requests
                 /\ routineQueue # <<>> /\ worker'.item = routineQueue[1]
                 /\ req[worker'.item].pc = "queued"
                 /\ stopQueue' = stopQueue /\ routineQueue' = Tail(routineQueue)
              \/ worker'.item = None /\ stopQueue' = stopQueue /\ routineQueue' = routineQueue
           /\ begun' \in [Stops -> Nat]
           /\ \A s \in Stops : begun'[s] = begun[s] \/ (begun'[s] = 1 /\ stop[s] = "admitted")
           /\ worker'.pc # "reading" => begun' = begun
<1>0. /\ stopQueue \in Seq(Stops) /\ routineQueue \in Seq(Requests) /\ begun \in [Stops -> Nat]
      /\ \A j \in DOMAIN stopQueue : stop[stopQueue[j]] = "queued"
      /\ \A j \in DOMAIN routineQueue : req[routineQueue[j]].pc = "queued"
    BY DEF IInv, TypeOK
<1>1. CASE stopQueue # <<>> /\ worker' = At("stopWait", Head(stopQueue))
           /\ stopQueue' = Tail(stopQueue) /\ UNCHANGED <<routineQueue, begun>>
    <2>1. /\ Head(stopQueue) = stopQueue[1] /\ 1 \in DOMAIN stopQueue /\ stopQueue[1] \in Stops
        BY <1>0, <1>1, TailFacts
    <2>2. /\ worker' \in WorkerRecord /\ worker'.pc = "stopWait" /\ worker'.item = stopQueue[1]
          /\ worker'.wrote = "no"
        BY <1>1, <2>1, AtFacts DEF WorkerPcs
    <2>3. ShapeFits(worker')
        BY <2>1, <2>2, Names DEF ShapeFits
    <2>4. worker'.item # worker.item
        BY <1>0, <2>1, <2>2 DEF IInv, ItemIsWorking
    <2> QED BY <1>0, <1>1, <2>1, <2>2, <2>3, <2>4
<1>2. CASE /\ stopQueue = <<>> /\ routineQueue # <<>> /\ routineQueue' = Tail(routineQueue)
           /\ UNCHANGED stopQueue
           /\ IF Head(routineQueue) \in Closers
              THEN worker' = At("proofWait", Head(routineQueue)) /\ UNCHANGED begun
              ELSE worker' = At("reading", Head(routineQueue)) /\ Begins(Head(routineQueue))
    <2>1. /\ Head(routineQueue) = routineQueue[1] /\ 1 \in DOMAIN routineQueue
          /\ routineQueue[1] \in Requests
        BY <1>0, <1>2, TailFacts
    <2>2. /\ worker' \in WorkerRecord /\ worker'.item = routineQueue[1] /\ worker'.wrote = "no"
          /\ worker'.pc = IF routineQueue[1] \in Closers THEN "proofWait" ELSE "reading"
        BY <1>2, <2>1, AtFacts DEF WorkerPcs
    <2>3. ShapeFits(worker')
        BY <2>1, <2>2, Names DEF ShapeFits
    <2>4. worker'.item # worker.item
        BY <1>0, <2>1, <2>2 DEF IInv, ItemIsWorking
    <2>5. ASSUME NEW s \in Stops, s \in admitted, s # worker.item
          PROVE  stop[s] = "admitted" /\ begun[s] = 0
        BY <1>2, <2>5 DEF IInv, AdmissionsTravel, QueuesServe, TasksRan
    <2>6. /\ begun' \in [Stops -> Nat]
          /\ \A s \in Stops : begun'[s] = begun[s] \/ (begun'[s] = 1 /\ stop[s] = "admitted")
          /\ worker'.pc # "reading" => begun' = begun
        <3>1. CASE routineQueue[1] \in Closers
            BY <1>0, <1>2, <2>1, <2>2, <3>1
        <3>2. CASE routineQueue[1] \notin Closers
            BY <1>2, <2>1, <2>2, <2>5, <3>2, BeginsFacts
        <3> QED BY <3>1, <3>2
    <2> QED BY <1>0, <1>2, <2>1, <2>2, <2>3, <2>4, <2>6
<1>3. CASE worker' = NoWorker /\ UNCHANGED <<queues, begun>>
    BY <1>0, <1>3, Names DEF NoWorker, ShapeFits, WorkerRecord, WorkerPcs, Progress, queues
<1> QED BY <1>1, <1>2, <1>3 DEF TakeNext

\* The item of the worker, if it has one, ends; the next one is at work.
LEMMA NextItemInv ==
    ASSUME IInv, TasksRan, TakeNext,
           req' \in [Requests -> RequestRecord],
           \A r \in Requests :
               /\ req'[r].lease = req[r].lease
               /\ req'[r].pc = IF r = worker.item THEN "answered"
                               ELSE IF r = worker'.item THEN "working" ELSE req[r].pc,
           stop' \in [Stops -> StopPcs],
           \A s \in Stops : stop'[s] = IF s = worker.item THEN "done"
                                       ELSE IF s = worker'.item THEN "working" ELSE stop[s],
           UNCHANGED <<lease, older>>,
           onWire' \subseteq Requests \cup Stops \cup {Live},
           holders' = holders, reserved' = reserved, admitted' = admitted \ {worker.item},
           report' \in ReportRecord, TraceIsHonest'
    PROVE  IInv'
<1> DEFINE n == worker'.item
<1>1. /\ worker' \in WorkerRecord /\ ShapeFits(worker')
      /\ worker'.pc \in {"none", "stopWait", "proofWait", "reading"}
      /\ n # worker.item \/ n = None
      /\ n \in Stops => worker'.pc = "stopWait"
      /\ begun' \in [Stops -> Nat]
      /\ \A s \in Stops : begun'[s] = begun[s] \/ (begun'[s] = 1 /\ stop[s] = "admitted")
      /\ worker'.pc # "reading" => begun' = begun
    BY TakeNextFacts, Names
<1>2. /\ req \in [Requests -> RequestRecord] /\ stop \in [Stops -> StopPcs]
      /\ stopQueue \in Seq(Stops) /\ routineQueue \in Seq(Requests)
      /\ \A j \in DOMAIN stopQueue : stop[stopQueue[j]] = "queued"
      /\ \A j \in DOMAIN routineQueue : req[routineQueue[j]].pc = "queued"
    BY DEF IInv, TypeOK, RequestRecord
<1>3. /\ req' \in [Requests -> RequestRecord]
      /\ \A r \in Requests :
            /\ req'[r].lease = req[r].lease
            /\ req'[r].pc = IF r = worker.item THEN "answered"
                            ELSE IF r = n THEN "working" ELSE req[r].pc
    OBVIOUS
<1>4. /\ stop' \in [Stops -> StopPcs]
      /\ \A s \in Stops : stop'[s] = IF s = worker.item THEN "done"
                                     ELSE IF s = n THEN "working" ELSE stop[s]
    OBVIOUS
<1>5. /\ worker.item \in Stops => stop[worker.item] = "working"
      /\ worker.item \in Requests => req[worker.item].pc = "working"
      /\ n \in Stops => stop[n] = "queued"
      /\ n \in Requests => req[n].pc = "queued"
    BY TakeNextFacts, Names DEF IInv, ItemIsWorking
\* What the queue of stops holds, with its old places.
<1>6. \/ /\ stopQueue' = stopQueue /\ n \notin Stops
      \/ /\ stopQueue # <<>> /\ stopQueue' = Tail(stopQueue) /\ n = stopQueue[1] /\ n \in Stops
    BY TakeNextFacts, Names
<1>7. \/ /\ routineQueue' = routineQueue /\ n \notin Requests
      \/ /\ routineQueue # <<>> /\ routineQueue' = Tail(routineQueue) /\ n = routineQueue[1]
         /\ n \in Requests
    BY TakeNextFacts, Names
<1>8. PICK k \in {0, 1} :
         /\ stopQueue' \in Seq(Stops) /\ Len(stopQueue) \in Nat
         /\ DOMAIN stopQueue = 1 .. Len(stopQueue) /\ DOMAIN stopQueue' = 1 .. Len(stopQueue) - k
         /\ \A j \in DOMAIN stopQueue' : j + k \in DOMAIN stopQueue /\ stopQueue'[j] = stopQueue[j + k]
         /\ k = 0 => n \notin Stops
         /\ k = 1 => 1 \in DOMAIN stopQueue /\ n = stopQueue[1] /\ n \in Stops
    <2>1. CASE stopQueue' = stopQueue /\ n \notin Stops
        BY <1>2, <2>1
    <2>2. CASE stopQueue # <<>> /\ stopQueue' = Tail(stopQueue) /\ n = stopQueue[1] /\ n \in Stops
        BY <1>2, <2>2, TailFacts
    <2> QED BY <1>6, <2>1, <2>2
<1>9. PICK m \in {0, 1} :
         /\ routineQueue' \in Seq(Requests)
         /\ DOMAIN routineQueue = 1 .. Len(routineQueue) /\ Len(routineQueue) \in Nat
         /\ DOMAIN routineQueue' = 1 .. Len(routineQueue) - m
         /\ \A j \in DOMAIN routineQueue' :
                j + m \in DOMAIN routineQueue /\ routineQueue'[j] = routineQueue[j + m]
         /\ m = 0 => n \notin Requests
         /\ m = 1 => 1 \in DOMAIN routineQueue /\ n = routineQueue[1] /\ n \in Requests
    <2>1. CASE routineQueue' = routineQueue /\ n \notin Requests
        BY <1>2, <2>1
    <2>2. CASE routineQueue # <<>> /\ routineQueue' = Tail(routineQueue) /\ n = routineQueue[1]
               /\ n \in Requests
        BY <1>2, <2>2, TailFacts
    <2> QED BY <1>7, <2>1, <2>2
<1> HIDE DEF n
<1>10. \A j \in DOMAIN stopQueue' : stopQueue'[j] \in Stops /\ stop'[stopQueue'[j]] = "queued"
    <2> SUFFICES ASSUME NEW j \in DOMAIN stopQueue'
                 PROVE  stopQueue'[j] \in Stops /\ stop'[stopQueue'[j]] = "queued"
        OBVIOUS
    <2>1. stopQueue'[j] = stopQueue[j + k] /\ j + k \in DOMAIN stopQueue /\ j \in Nat \ {0}
        BY <1>8
    <2>2. stopQueue[j + k] \in Stops /\ stop[stopQueue[j + k]] = "queued"
        BY <1>2, <2>1
    <2>3. stopQueue[j + k] # n
        BY <1>8, <2>1, <2>2 DEF IInv, QueuesServe
    <2> QED BY <1>4, <1>5, <2>1, <2>2, <2>3
<1>11. \A j \in DOMAIN routineQueue' : req'[routineQueue'[j]].pc = "queued"
    <2> SUFFICES ASSUME NEW j \in DOMAIN routineQueue' PROVE req'[routineQueue'[j]].pc = "queued"
        OBVIOUS
    <2>1. routineQueue'[j] = routineQueue[j + m] /\ j + m \in DOMAIN routineQueue /\ j \in Nat \ {0}
        BY <1>9
    <2>2. routineQueue[j + m] \in Requests /\ req[routineQueue[j + m]].pc = "queued"
        BY <1>2, <2>1
    <2>3. routineQueue[j + m] # n
        BY <1>9, <2>1, <2>2 DEF IInv, QueuesServe
    <2> QED BY <1>3, <1>5, <2>1, <2>2, <2>3
<1>12. TypeOK'
    BY <1>1, <1>3, <1>4, <1>8, <1>9, <1>10, <1>11
        DEF IInv, TypeOK, WorkerRecord, RequestRecord, ReportRecord
<1>13. WorkerShape' /\ LeaseOfWrite'
    BY <1>1 DEF WorkerShape, LeaseOfWrite
<1>14. ItemIsWorking'
    BY <1>1, <1>3, <1>4, <1>5, Names DEF IInv, ItemIsWorking, n
<1>15. QueuesServe'
    <2>1. \A a, b \in DOMAIN stopQueue' : stopQueue'[a] = stopQueue'[b] => a = b
        BY <1>8 DEF IInv, QueuesServe
    <2>2. \A a, b \in DOMAIN routineQueue' : routineQueue'[a] = routineQueue'[b] => a = b
        BY <1>9 DEF IInv, QueuesServe
    <2>3. ASSUME NEW s \in Stops, stop'[s] = "queued"
          PROVE  \E a \in DOMAIN stopQueue' : stopQueue'[a] = s
        <3>1. stop[s] = "queued" /\ s # n
            BY <1>4, <2>3
        <3>2. PICK a \in DOMAIN stopQueue : stopQueue[a] = s
            BY <3>1 DEF IInv, QueuesServe
        <3>3. a - k \in DOMAIN stopQueue' /\ (a - k) + k = a
            BY <1>8, <3>1, <3>2
        <3> QED BY <1>8, <3>2, <3>3
    <2> QED BY <2>1, <2>2, <2>3 DEF QueuesServe
<1>16. AdmissionsTravel'
    BY <1>1, <1>4, <1>5, Names DEF IInv, AdmissionsTravel, n
<1>17. ClaimAlone'
    BY DEF IInv, ClaimAlone
<1>18. OlderOutdated'
    BY <1>3 DEF IInv, OlderOutdated
<1>19. OlderFirst'
    <2> SUFFICES ASSUME NEW s \in Stops
                 PROVE  /\ stop'[s] = "idle" => older[s] = {}
                        /\ lease.newest = s =>
                              \A t \in Stops \ {s} : stop'[t] = "idle" \/ t \in older[s]
                        /\ \A t \in older[s] \cap Stops :
                             /\ stop'[t] # "idle"
                             /\ stop'[s] \in {"queued", "working", "done"} => stop'[t] # "admitted"
                             /\ stop'[s] \in {"working", "done"} => stop'[t] = "done"
                             /\ stop'[t] = "queued" =>
                                  \A j \in DOMAIN stopQueue' : stopQueue'[j] = s =>
                                      \E i \in 1 .. j - 1 : stopQueue'[i] = t
        BY DEF OlderFirst
    <2>1. /\ stop'[s] = "idle" => older[s] = {}
          /\ lease.newest = s => \A t \in Stops \ {s} : stop'[t] = "idle" \/ t \in older[s]
        BY <1>4, <1>5 DEF IInv, OlderFirst
    <2>2. ASSUME NEW t \in older[s] \cap Stops
          PROVE  /\ stop'[t] # "idle"
                 /\ stop'[s] \in {"queued", "working", "done"} => stop'[t] # "admitted"
                 /\ stop'[s] \in {"working", "done"} => stop'[t] = "done"
                 /\ stop'[t] = "queued" =>
                      \A j \in DOMAIN stopQueue' : stopQueue'[j] = s =>
                          \E i \in 1 .. j - 1 : stopQueue'[i] = t
        <3>1. /\ stop[t] # "idle"
              /\ stop[s] \in {"queued", "working", "done"} => stop[t] # "admitted"
              /\ stop[s] \in {"working", "done"} => stop[t] = "done"
              /\ stop[t] = "queued" =>
                   \A j \in DOMAIN stopQueue :
                       stopQueue[j] = s => \E i \in 1 .. j - 1 : stopQueue[i] = t
            BY DEF IInv, OlderFirst
        <3>2. stop'[s] \in {"queued", "working", "done"} => stop[s] \in {"queued", "working", "done"}
            BY <1>4, <1>5
        <3>3. s = n => stop[t] # "queued"
            BY <1>8, <3>1
        <3>4. stop[t] = "working" => t = worker.item
            BY DEF IInv, ItemIsWorking
        <3>5. stop'[s] \in {"working", "done"} => stop'[t] = "done"
            <4>1. CASE s = n
                <5>1. stop[t] \in {"working", "done"}
                    BY <1>2, <1>5, <3>1, <3>3, <4>1 DEF StopPcs
                <5> QED BY <1>4, <1>5, <3>4, <5>1
            <4>2. CASE s # n
                <5>1. stop'[s] \in {"working", "done"} => stop[t] = "done"
                    BY <1>4, <1>5, <3>1, <4>2
                <5> QED BY <1>4, <1>5, <5>1
            <4> QED BY <4>1, <4>2
        <3>6. ASSUME stop'[t] = "queued", NEW j \in DOMAIN stopQueue', stopQueue'[j] = s
              PROVE  \E i \in 1 .. j - 1 : stopQueue'[i] = t
            <4>1. stop[t] = "queued" /\ t # n
                BY <1>4, <3>6
            <4>2. j + k \in DOMAIN stopQueue /\ stopQueue[j + k] = s
                BY <1>8, <3>6
            <4>3. PICK i \in 1 .. (j + k) - 1 : stopQueue[i] = t
                BY <3>1, <4>1, <4>2
            <4>4. i - k \in 1 .. j - 1 /\ (i - k) + k = i /\ i - k \in DOMAIN stopQueue'
                BY <1>8, <4>1, <4>2, <4>3
            <4>5. stopQueue'[i - k] = t
                BY <1>8, <4>3, <4>4
            <4> QED BY <4>4, <4>5
        <3> QED BY <1>4, <3>1, <3>2, <3>5, <3>6
    <2> QED BY <2>1, <2>2
<1>20. Punctual'
    <2>1. ASSUME worker'.pc \notin RoasterCalls, NEW s \in Stops, stop'[s] = "admitted"
          PROVE  begun'[s] = 0
        <3>1. begun' = begun /\ stop[s] = "admitted"
            BY <1>1, <1>4, <2>1 DEF RoasterCalls
        <3> QED BY <3>1 DEF TasksRan
    <2>2. ASSUME NEW s \in Stops, stop'[s] = "idle"
          PROVE  begun'[s] = 0
        <3>1. stop[s] = "idle"
            BY <1>4, <2>2
        <3>2. begun[s] = 0 /\ begun'[s] = begun[s]
            BY <1>1, <3>1 DEF IInv, Punctual
        <3> QED BY <3>2
    <2> QED BY <2>1, <2>2 DEF Punctual, TasksRan
<1>21. OneCallAheadOfStop'
    <2> SUFFICES ASSUME NEW s \in Stops PROVE begun'[s] <= 1
        BY DEF OneCallAheadOfStop
    <2>1. begun[s] <= 1
        BY DEF IInv, OneCallAheadOfStop
    <2>2. begun'[s] = begun[s] \/ begun'[s] = 1
        BY <1>1
    <2> QED BY <2>1, <2>2
<1> QED
    BY <1>12, <1>13, <1>14, <1>15, <1>16, <1>17, <1>18, <1>19, <1>20, <1>21 DEF IInv

-----------------------------------------------------------------------------
(* Two shapes of a worker's step: its item ends, or goes on to its next    *)
(* await.                                                                  *)

\* What a recorded outcome says of the write.
Honest(dispatch, wrote) ==
    /\ dispatch = "completed" => wrote = "returned"
    /\ dispatch \in {"not_attempted", "not_required", "not_dispatched", NoTrace} => wrote = "no"
    /\ dispatch = "failed" => wrote = "failed"

Callers == Requests \cup Stops \cup {Live}

LEMMA FinishInv ==
    ASSUME IInv, TasksRan, NEW i \in Requests \cup Stops, worker.item = i,
           NEW outcome \in Dispatches \cup {NoTrace}, NEW ok \in BOOLEAN, NEW progress \in Progress,
           FinishWrote(i, outcome, ok, progress), Honest(outcome, progress),
           onWire' \subseteq Callers, admitted' = admitted \ {i},
           holders' = holders, reserved' = reserved
    PROVE  IInv'
<1>1. /\ req \in [Requests -> [pc : ReqPcs, lease : BOOLEAN, gen : BOOLEAN, ok : BOOLEAN]]
      /\ stop \in [Stops -> StopPcs]
    BY DEF IInv, TypeOK
<1>2. /\ req' \in [Requests -> [pc : ReqPcs, lease : BOOLEAN, gen : BOOLEAN, ok : BOOLEAN]]
      /\ \A r \in Requests :
            /\ req'[r].lease = req[r].lease
            /\ req'[r].pc = IF r = worker.item THEN "answered"
                            ELSE IF r = worker'.item THEN "working" ELSE req[r].pc
    BY <1>1 DEF FinishWrote, ReqPcs
<1>3. /\ stop' \in [Stops -> StopPcs]
      /\ \A s \in Stops : stop'[s] = IF s = worker.item THEN "done"
                                     ELSE IF s = worker'.item THEN "working" ELSE stop[s]
    BY <1>1 DEF FinishWrote, StopPcs
<1>4. TakeNext /\ UNCHANGED <<lease, older>>
      /\ report' = [item |-> i, dispatch |-> outcome, wrote |-> progress]
    BY DEF FinishWrote
<1>5. report' \in ReportRecord /\ TraceIsHonest'
    BY <1>4 DEF ReportRecord, TraceIsHonest, Honest
<1> QED BY <1>2, <1>3, <1>4, <1>5, NextItemInv DEF RequestRecord, Callers

LEMMA AdvanceInv ==
    ASSUME IInv, worker.item # None, worker' \in WorkerRecord, ShapeFits(worker'),
           worker'.item = worker.item, worker'.pc # "stopWait",
           UNCHANGED <<req, stop, queues, report, lease, older>>, begun' = begun,
           onWire' \subseteq Callers, admitted' \subseteq admitted,
           holders' = holders, reserved' = reserved,
           worker.pc = "stopWait" => admitted' = admitted \ {worker.item},
           worker.pc # "stopWait" => admitted' = admitted,
           worker'.pc \in {"writing", "readingBack"} /\ req[worker.item].lease => admitted = {},
           worker'.pc \notin RoasterCalls => TasksRan
    PROVE  IInv'
<1>1. /\ req' = req /\ stop' = stop /\ stopQueue' = stopQueue /\ routineQueue' = routineQueue
      /\ report' = report /\ lease' = lease /\ older' = older
    BY DEF queues
<1>2. TypeOK'
    BY <1>1 DEF IInv, TypeOK, WorkerRecord, Callers
<1>3. WorkerShape' /\ ItemIsWorking' /\ QueuesServe' /\ OlderOutdated' /\ TraceIsHonest'
      /\ OneCallAheadOfStop' /\ OlderFirst' /\ ClaimAlone'
    BY <1>1 DEF IInv, WorkerShape, ItemIsWorking, QueuesServe, OlderOutdated, TraceIsHonest,
        OneCallAheadOfStop, OlderFirst, ClaimAlone
<1>4. AdmissionsTravel'
    <2> SUFFICES ASSUME NEW s \in Stops
                 PROVE  s \in admitted' <=> stop[s] \in {"admitted", "queued"}
        BY <1>1 DEF AdmissionsTravel
    <2>1. s \in admitted <=> \/ stop[s] \in {"admitted", "queued"}
                             \/ worker.item = s /\ worker.pc = "stopWait"
        BY DEF IInv, AdmissionsTravel
    <2>2. worker.item = s => stop[s] = "working"
        BY DEF IInv, ItemIsWorking
    <2> QED BY <2>1, <2>2
<1>5. LeaseOfWrite' /\ Punctual'
    BY <1>1 DEF IInv, LeaseOfWrite, Punctual, TasksRan
<1> QED BY <1>2, <1>3, <1>4, <1>5 DEF IInv

\* No stop is outstanding beside the newest one when it is at work.
LEMMA NewestAlone ==
    ASSUME IInv, NEW s \in Stops, lease.newest = s, worker.item = s
    PROVE  admitted \subseteq {s}
<1> SUFFICES ASSUME NEW t \in admitted, t # s PROVE FALSE
    OBVIOUS
<1>1. t \in Stops /\ stop[s] = "working"
    BY DEF IInv, TypeOK, ItemIsWorking
<1>2. stop[t] \in {"idle", "done"}
    BY <1>1 DEF IInv, OlderFirst
<1>3. stop[t] \in {"admitted", "queued"}
    BY <1>1 DEF IInv, AdmissionsTravel
<1> QED BY <1>2, <1>3

LEMMA BeginsAlone ==
    ASSUME IInv, NEW i, Begins(i), admitted \subseteq {i, worker.item}
    PROVE  begun' = begun
<1>1. begun \in [Stops -> Nat]
    BY DEF IInv, TypeOK
<1> QED BY <1>1 DEF Begins

LEMMA WorkerTypes ==
    ASSUME IInv
    PROVE  worker \in WorkerRecord /\ worker.item \in Requests \cup Stops \cup {None}
           /\ ShapeFits(worker) /\ onWire \subseteq Callers /\ admitted \subseteq Stops
           /\ holders \subseteq Closers /\ reserved \in BOOLEAN
BY DEF IInv, TypeOK, WorkerRecord, WorkerShape, Callers

-----------------------------------------------------------------------------
(* The worker.                                                             *)

LEMMA WorkerStartsInv == ASSUME IInv, WorkerStarts PROVE IInv'
<1>1. worker.pc = "starting" /\ worker.item = None /\ TasksRan
    BY WorkerTypes DEF WorkerStarts, ShapeFits, IInv, Punctual, RoasterCalls
<1>2. /\ req \in [Requests -> [pc : ReqPcs, lease : BOOLEAN, gen : BOOLEAN, ok : BOOLEAN]]
      /\ stop \in [Stops -> StopPcs] /\ report \in ReportRecord
    BY DEF IInv, TypeOK, ReportRecord
<1>3. /\ req' \in [Requests -> [pc : ReqPcs, lease : BOOLEAN, gen : BOOLEAN, ok : BOOLEAN]]
      /\ \A r \in Requests :
            /\ req'[r].lease = req[r].lease
            /\ req'[r].pc = IF r = worker.item THEN "answered"
                            ELSE IF r = worker'.item THEN "working" ELSE req[r].pc
    BY <1>1, <1>2, Names DEF WorkerStarts, ReqPcs
<1>4. /\ stop' \in [Stops -> StopPcs]
      /\ \A s \in Stops : stop'[s] = IF s = worker.item THEN "done"
                                     ELSE IF s = worker'.item THEN "working" ELSE stop[s]
    BY <1>1, <1>2, Names DEF WorkerStarts, StopPcs
<1>5. TakeNext /\ UNCHANGED <<port, lease, report, older>>
    BY DEF WorkerStarts
<1>6. report' \in ReportRecord /\ TraceIsHonest'
    BY <1>2, <1>5 DEF IInv, TraceIsHonest
<1>7. /\ onWire' \subseteq Callers /\ holders' = holders /\ reserved' = reserved
      /\ admitted' = admitted \ {worker.item}
    BY <1>1, <1>5, WorkerTypes, Names DEF port
<1> QED BY <1>1, <1>3, <1>4, <1>5, <1>6, <1>7, NextItemInv DEF RequestRecord, Callers

\* A control that ends outside the gate: the port is as it was.
LEMMA ControlEndsInv ==
    ASSUME IInv, TasksRan, NEW r \in Requests, worker.item = r,
           NEW outcome \in Dispatches \cup {NoTrace}, NEW ok \in BOOLEAN, NEW progress \in Progress,
           FinishWrote(r, outcome, ok, progress), Honest(outcome, progress),
           onWire' \subseteq Callers, admitted' = admitted,
           holders' = holders, reserved' = reserved
    PROVE  IInv'
<1>1. admitted' = admitted \ {r}
    BY WorkerTypes, Names
<1> QED BY <1>1, FinishInv

\* A control that goes on: its next call is ahead of no stop.
LEMMA ControlGoesOnInv ==
    ASSUME IInv, NEW r \in Requests, worker.item = r,
           worker' \in WorkerRecord, ShapeFits(worker'), worker'.item = r,
           UNCHANGED <<req, stop, queues, report, lease, older>>,
           begun' = begun \/ (Begins(r) /\ admitted = {}),
           onWire' \subseteq Callers, admitted' = admitted,
           holders' = holders, reserved' = reserved,
           worker'.pc \in {"writing", "readingBack"} /\ req[r].lease => admitted = {},
           worker'.pc \notin RoasterCalls => TasksRan
    PROVE  IInv'
<1>1. begun' = begun
    BY BeginsAlone
<1>2. worker.item # None /\ worker.pc # "stopWait" /\ worker'.pc # "stopWait"
    BY WorkerTypes, Names DEF ShapeFits
<1> QED BY <1>1, <1>2, AdvanceInv

\* The worker at another await of the same control.
LEMMA WorkerAtFacts ==
    ASSUME IInv, NEW r \in Requests, worker.item = r, worker.wrote = "no",
           NEW pc \in {"reading", "readingLatest", "writeWait"}, WorkerAt(pc),
           pc = "readingLatest" => r \in Closers
    PROVE  /\ worker' \in WorkerRecord /\ ShapeFits(worker')
           /\ worker'.item = r /\ worker'.pc = pc
<1>1. /\ worker' \in WorkerRecord /\ worker'.pc = pc /\ worker'.item = r /\ worker'.wrote = "no"
    BY WorkerTypes DEF WorkerAt, WorkerRecord, WorkerPcs
<1> QED BY <1>1, Names DEF ShapeFits

LEMMA ProofWaitEndsInv == ASSUME IInv, NEW r \in Requests, ProofWaitEnds(r) PROVE IInv'
<1>1. /\ worker.item = r /\ worker.pc = "proofWait" /\ worker.wrote = "no"
      /\ onWire' \subseteq Callers /\ admitted' = admitted
      /\ holders' = holders /\ reserved' = reserved
    BY WorkerTypes DEF ProofWaitEnds, Working, ShapeFits, port
<1>2. TasksRan
    BY <1>1 DEF IInv, Punctual, RoasterCalls
<1>3. CASE /\ onWire = {} /\ Port!Owns(r)
           /\ WorkerAt("reading") /\ Begins(r)
           /\ UNCHANGED <<req, stop, queues, report, lease, older>>
    <2>1. /\ worker' \in WorkerRecord /\ ShapeFits(worker')
          /\ worker'.item = r /\ worker'.pc = "reading"
        BY <1>1, <1>3, WorkerAtFacts
    <2>2. admitted = {}
        BY <1>3 DEF Port!Owns, IInv, ClaimAlone
    <2> QED BY <1>1, <1>2, <1>3, <2>1, <2>2, ControlGoesOnInv DEF RoasterCalls
<1>4. CASE Finish(r, NotCompleted, FALSE)
    BY <1>1, <1>2, <1>4, ControlEndsInv DEF Finish, NotCompleted, Honest, Dispatches, Progress, NoTrace
<1> QED BY <1>3, <1>4 DEF ProofWaitEnds

LEMMA ReadReturnsInv == ASSUME IInv, NEW r \in Requests, ReadReturns(r) PROVE IInv'
<1>1. /\ worker.item = r /\ worker.pc = "reading" /\ worker.wrote = "no"
      /\ onWire' \subseteq Callers /\ holders' = holders /\ reserved' = reserved
      /\ admitted' = admitted /\ TasksRan
    BY WorkerTypes DEF ReadReturns, Working, ShapeFits, port
<1>2. CASE Finish(r, NoTrace, FALSE)
    BY <1>1, <1>2, ControlEndsInv DEF Finish, Honest, Dispatches, Progress, NoTrace
<1>3. CASE Finish(r, "not_attempted", FALSE)
    BY <1>1, <1>3, ControlEndsInv DEF Finish, Honest, Dispatches, Progress, NoTrace
<1>4. CASE Finish(r, NotCompleted, FALSE)
    BY <1>1, <1>4, ControlEndsInv DEF Finish, NotCompleted, Honest, Dispatches, Progress, NoTrace
<1>5. CASE /\ StillCurrent(r) /\ r \in Closers /\ WorkerAt("readingLatest") /\ Begins(r)
           /\ UNCHANGED <<req, stop, queues, report, lease, older>>
    <2>1. /\ worker' \in WorkerRecord /\ ShapeFits(worker')
          /\ worker'.item = r /\ worker'.pc = "readingLatest"
        BY <1>1, <1>5, WorkerAtFacts
    <2>2. admitted = {}
        BY <1>5 DEF StillCurrent, Port!Owns, IInv, ClaimAlone
    <2> QED BY <1>1, <1>5, <2>1, <2>2, ControlGoesOnInv DEF RoasterCalls
<1>6. CASE /\ WorkerAt("writeWait") /\ begun' = begun
           /\ UNCHANGED <<req, stop, queues, report, lease, older>>
    <2>1. /\ worker' \in WorkerRecord /\ ShapeFits(worker')
          /\ worker'.item = r /\ worker'.pc = "writeWait"
        BY <1>1, <1>6, WorkerAtFacts
    <2> QED BY <1>1, <1>6, <2>1, ControlGoesOnInv
<1> QED BY <1>2, <1>3, <1>4, <1>5, <1>6 DEF ReadReturns

LEMMA LatestReturnsInv == ASSUME IInv, NEW r \in Requests, LatestReturns(r) PROVE IInv'
<1>1. /\ worker.item = r /\ worker.pc = "readingLatest" /\ worker.wrote = "no"
      /\ onWire' \subseteq Callers /\ holders' = holders /\ reserved' = reserved
      /\ admitted' = admitted /\ TasksRan
    BY WorkerTypes DEF LatestReturns, Working, ShapeFits, port
<1>2. CASE Finish(r, NoTrace, FALSE)
    BY <1>1, <1>2, ControlEndsInv DEF Finish, Honest, Dispatches, Progress, NoTrace
<1>3. CASE Finish(r, "not_attempted", FALSE)
    BY <1>1, <1>3, ControlEndsInv DEF Finish, Honest, Dispatches, Progress, NoTrace
<1>4. CASE Finish(r, NotCompleted, FALSE)
    BY <1>1, <1>4, ControlEndsInv DEF Finish, NotCompleted, Honest, Dispatches, Progress, NoTrace
<1>5. CASE \E ok \in BOOLEAN : Finish(r, "not_required", ok)
    BY <1>1, <1>5, ControlEndsInv DEF Finish, Honest, Dispatches, Progress, NoTrace
<1>6. CASE /\ WorkerAt("writeWait") /\ begun' = begun
           /\ UNCHANGED <<req, stop, queues, report, lease, older>>
    <2>1. /\ worker' \in WorkerRecord /\ ShapeFits(worker')
          /\ worker'.item = r /\ worker'.pc = "writeWait"
        BY <1>1, <1>6, WorkerAtFacts
    <2> QED BY <1>1, <1>6, <2>1, ControlGoesOnInv
<1> QED BY <1>2, <1>3, <1>4, <1>5, <1>6 DEF LatestReturns

LEMMA WriteWaitEndsInv == ASSUME IInv, NEW r \in Requests, WriteWaitEnds(r) PROVE IInv'
<1>1. /\ worker.item = r /\ worker.pc = "writeWait" /\ worker.wrote = "no"
    BY WorkerTypes DEF WriteWaitEnds, Working, ShapeFits
<1>2. TasksRan
    BY <1>1 DEF IInv, Punctual, RoasterCalls
<1>3. CASE /\ ~Superseded(r) /\ Port!StartRoutine(r) /\ Begins(r)
           /\ worker' = [pc |-> "writing", item |-> r, wrote |-> "entered"]
           /\ UNCHANGED <<req, stop, queues, report, lease, older>>
    <2>1. /\ worker' \in WorkerRecord /\ ShapeFits(worker')
          /\ worker'.item = r /\ worker'.pc = "writing"
        BY <1>3, Names DEF WorkerRecord, WorkerPcs, Progress, ShapeFits
    <2>2. /\ admitted = {} /\ admitted' = admitted /\ onWire' \subseteq Callers
          /\ holders' = holders /\ reserved' = reserved
        BY <1>3 DEF Port!StartRoutine, Callers
    <2> QED BY <1>1, <1>2, <1>3, <2>1, <2>2, ControlGoesOnInv
<1>4. CASE Finish(r, NotCompleted, FALSE) /\ UNCHANGED port
    <2>1. /\ onWire' \subseteq Callers /\ admitted' = admitted
          /\ holders' = holders /\ reserved' = reserved
        BY <1>4, WorkerTypes DEF port
    <2> QED BY <1>1, <1>2, <1>4, <2>1, ControlEndsInv
            DEF Finish, NotCompleted, Honest, Dispatches, Progress, NoTrace
<1> QED BY <1>3, <1>4 DEF WriteWaitEnds

LEMMA WriteReturnsInv == ASSUME IInv, NEW r \in Requests, WriteReturns(r) PROVE IInv'
<1>1. /\ worker.item = r /\ worker.pc = "writing" /\ TasksRan
      /\ onWire' \subseteq Callers /\ admitted' = admitted
      /\ holders' = holders /\ reserved' = reserved
    BY DEF WriteReturns, Working, Port!Finish
<1>2. CASE FinishWrote(r, "failed", FALSE, "failed")
    BY <1>1, <1>2, ControlEndsInv DEF Honest, Dispatches, Progress, NoTrace
<1>3. CASE FinishWrote(r, NotCompleted, FALSE, "returned")
    BY <1>1, <1>3, ControlEndsInv DEF NotCompleted, Honest, Dispatches, Progress, NoTrace
<1>4. CASE /\ StillCurrent(r) /\ Begins(r)
           /\ worker' = [pc |-> "readingBack", item |-> r, wrote |-> "returned"]
           /\ UNCHANGED <<req, stop, queues, report, lease, older>>
    <2>1. /\ worker' \in WorkerRecord /\ ShapeFits(worker')
          /\ worker'.item = r /\ worker'.pc = "readingBack"
        BY <1>4, Names DEF WorkerRecord, WorkerPcs, Progress, ShapeFits
    <2>2. admitted = {}
        BY <1>1, <1>4 DEF StillCurrent, IInv, LeaseOfWrite
    <2> QED BY <1>1, <1>4, <2>1, <2>2, ControlGoesOnInv
<1> QED BY <1>2, <1>3, <1>4 DEF WriteReturns

LEMMA ReadBackReturnsInv == ASSUME IInv, NEW r \in Requests, ReadBackReturns(r) PROVE IInv'
<1>1. /\ worker.item = r /\ worker.wrote = "returned" /\ TasksRan
      /\ onWire' \subseteq Callers /\ admitted' = admitted
      /\ holders' = holders /\ reserved' = reserved
    BY WorkerTypes DEF ReadBackReturns, Working, ShapeFits, port
<1>2. PICK ok \in BOOLEAN : FinishWrote(r, "completed", ok, "returned")
    BY <1>1 DEF ReadBackReturns, Finish
<1> QED BY <1>1, <1>2, ControlEndsInv DEF Honest, Dispatches, Progress, NoTrace

-----------------------------------------------------------------------------
(* Emergency stops in the worker.                                          *)

LEMMA DispatchStopInv == ASSUME IInv, NEW s \in Stops, DispatchStop(s) PROVE IInv'
<1>1. /\ worker.item = s /\ worker.pc = "stopWait" /\ worker.wrote = "no"
    BY WorkerTypes DEF DispatchStop, Working, ShapeFits
<1>2. TasksRan
    BY <1>1 DEF IInv, Punctual, RoasterCalls
<1>3. CASE RefusedStop(s) /\ Finish(s, "not_dispatched", FALSE)
    <2>1. /\ onWire' \subseteq Callers /\ admitted' = admitted \ {s}
          /\ holders' = holders /\ reserved' = reserved
        BY <1>3, WorkerTypes DEF RefusedStop, Port!Withdraw
    <2>2. FinishWrote(s, "not_dispatched", FALSE, "no")
        BY <1>1, <1>3 DEF Finish
    <2> QED BY <1>1, <1>2, <2>1, <2>2, FinishInv DEF Honest, Dispatches, Progress, NoTrace
<1>4. CASE /\ lease.newest = s /\ Port!StartStop(s) /\ Begins(s)
           /\ worker' = [pc |-> "stopping", item |-> s, wrote |-> "entered"]
           /\ UNCHANGED <<req, stop, queues, report, lease, older>>
    <2>1. worker' \in WorkerRecord /\ ShapeFits(worker') /\ worker'.item = s
          /\ worker'.pc = "stopping"
        BY <1>4, Names DEF WorkerRecord, WorkerPcs, Progress, ShapeFits
    <2>2. /\ onWire' \subseteq Callers /\ admitted' = admitted \ {s}
          /\ holders' = holders /\ reserved' = reserved
        BY <1>4 DEF Port!StartStop, Callers
    <2>3. begun' = begun
        BY <1>1, <1>4, NewestAlone, BeginsAlone
    <2>4. s # None /\ admitted' \subseteq admitted
        BY <2>2, Names
    <2> QED BY <1>1, <1>2, <1>4, <2>1, <2>2, <2>3, <2>4, AdvanceInv
<1> QED BY <1>3, <1>4 DEF DispatchStop

\* Beyond its dispatch a stop is not among the admitted.
LEMMA DispatchedIsOut ==
    ASSUME IInv, NEW s \in Stops, worker.item = s, worker.pc # "stopWait"
    PROVE  admitted \ {s} = admitted
BY DEF IInv, AdmissionsTravel, ItemIsWorking

LEMMA StopReturnsInv == ASSUME IInv, NEW s \in Stops, StopReturns(s) PROVE IInv'
<1>1. /\ worker.item = s /\ worker.pc = "stopping" /\ TasksRan
      /\ onWire' \subseteq Callers /\ admitted' = admitted
      /\ holders' = holders /\ reserved' = reserved
    BY DEF StopReturns, Working, Port!Finish
<1>2. admitted' = admitted \ {s} /\ s # None
    BY <1>1, DispatchedIsOut, Names
<1>3. CASE FinishWrote(s, "failed", FALSE, "failed")
    BY <1>1, <1>2, <1>3, FinishInv DEF Honest, Dispatches, Progress, NoTrace
<1>4. CASE FinishWrote(s, "completed", FALSE, "returned")
    BY <1>1, <1>2, <1>4, FinishInv DEF Honest, Dispatches, Progress, NoTrace
<1>5. CASE /\ lease.newest = s /\ Begins(s)
           /\ worker' = [pc |-> "readingBackStop", item |-> s, wrote |-> "returned"]
           /\ UNCHANGED <<req, stop, queues, report, lease, older>>
    <2>1. worker' \in WorkerRecord /\ ShapeFits(worker') /\ worker'.item = s
          /\ worker'.pc = "readingBackStop"
        BY <1>5, Names DEF WorkerRecord, WorkerPcs, Progress, ShapeFits
    <2>2. begun' = begun
        BY <1>1, <1>5, NewestAlone, BeginsAlone
    <2> QED BY <1>1, <1>2, <1>5, <2>1, <2>2, AdvanceInv
<1> QED BY <1>3, <1>4, <1>5 DEF StopReturns

LEMMA StopReadBackInv == ASSUME IInv, NEW s \in Stops, StopReadBack(s) PROVE IInv'
<1>1. /\ worker.item = s /\ worker.pc = "readingBackStop" /\ worker.wrote = "returned" /\ TasksRan
      /\ onWire' \subseteq Callers /\ admitted' = admitted
      /\ holders' = holders /\ reserved' = reserved
    BY WorkerTypes DEF StopReadBack, Working, ShapeFits, port
<1>2. admitted' = admitted \ {s}
    BY <1>1, DispatchedIsOut
<1>3. PICK ok \in BOOLEAN : FinishWrote(s, "completed", ok, "returned")
    BY <1>1 DEF StopReadBack, Finish
<1> QED BY <1>1, <1>2, <1>3, FinishInv DEF Honest, Dispatches, Progress, NoTrace

-----------------------------------------------------------------------------
(* The requests.                                                           *)

LeaseRecord == [newest : Stops \cup {None}, status : {"open", "unknown", "closed"}]

\* A request moves between its route and its queue, or after its answer.
LEMMA RequestMovesInv ==
    ASSUME IInv, NEW r \in Requests,
           req[r].pc \notin {"queued", "working"}, req' \in [Requests -> RequestRecord],
           \A q \in Requests \ {r} : req'[q] = req[q],
           req'[r].pc \notin {"idle", "queued", "working"},
           req'[r].lease => req[r].lease \/ req[r].pc = "idle",
           UNCHANGED <<stop, queues, worker, report, order>>,
           onWire' = onWire, admitted' = admitted,
           holders' \subseteq Closers, reserved' \in BOOLEAN, reserved' => admitted = {},
           lease' \in LeaseRecord, lease'.newest = lease.newest
    PROVE  IInv'
<1>1. /\ stop' = stop /\ stopQueue' = stopQueue /\ routineQueue' = routineQueue
      /\ worker' = worker /\ report' = report /\ begun' = begun /\ older' = older
    BY DEF queues, order
<1>2. TypeOK'
    <2>1. \A i \in DOMAIN routineQueue :
              routineQueue[i] \in Requests /\ req[routineQueue[i]].pc = "queued"
        BY DEF IInv, TypeOK
    <2>2. \A i \in DOMAIN routineQueue : req'[routineQueue[i]].pc = "queued"
        BY <2>1
    <2> QED BY <1>1, <2>2 DEF IInv, TypeOK, RequestRecord, LeaseRecord
<1>3. WorkerShape' /\ QueuesServe' /\ AdmissionsTravel' /\ ClaimAlone' /\ OlderFirst' /\ Punctual'
      /\ OneCallAheadOfStop' /\ TraceIsHonest'
    BY <1>1 DEF IInv, WorkerShape, QueuesServe, AdmissionsTravel, ClaimAlone, OlderFirst, Punctual,
        TasksRan, OneCallAheadOfStop, TraceIsHonest
<1>4. ItemIsWorking' /\ OlderOutdated'
    BY <1>1 DEF IInv, ItemIsWorking, OlderOutdated
<1>5. LeaseOfWrite'
    <2>1. worker.pc \in {"writing", "readingBack"} => worker.item \in Requests /\ worker.item # r
        BY WorkerTypes DEF ShapeFits, IInv, ItemIsWorking
    <2> QED BY <1>1, <2>1 DEF IInv, LeaseOfWrite
<1> QED BY <1>2, <1>3, <1>4, <1>5 DEF IInv

LEMMA RecordTypes ==
    ASSUME IInv
    PROVE  req \in [Requests -> RequestRecord] /\ lease \in LeaseRecord
BY DEF IInv, TypeOK, RequestRecord, LeaseRecord

LEMMA RouteInv == ASSUME IInv, NEW r \in Requests, Route(r) PROVE IInv'
<1>1. /\ onWire' = onWire /\ admitted' = admitted
      /\ holders' \subseteq Closers /\ reserved' \in BOOLEAN /\ (reserved' => admitted = {})
    BY WorkerTypes DEF Route, port, Port!Claim, IInv, ClaimAlone
<1>2. /\ req' \in [Requests -> RequestRecord] /\ req'[r].pc = "routed"
      /\ \A q \in Requests \ {r} : req'[q] = req[q]
    BY RecordTypes DEF Route, RequestRecord, ReqPcs
<1>3. /\ req[r].pc = "idle" /\ UNCHANGED <<stop, queues, worker, lease, report, order>>
    BY DEF Route
<1> QED BY <1>1, <1>2, <1>3, RecordTypes, RequestMovesInv

LEMMA ExecuteInv == ASSUME IInv, NEW r \in Requests, Execute(r) PROVE IInv'
<1>1. /\ onWire' = onWire /\ admitted' = admitted
      /\ holders' \subseteq Closers /\ reserved' \in BOOLEAN /\ (reserved' => admitted = {})
    BY WorkerTypes DEF Execute, port, IInv, ClaimAlone
<1>2. /\ req' \in [Requests -> RequestRecord] /\ req'[r].pc = "evaluating"
      /\ req'[r].lease = req[r].lease
      /\ \A q \in Requests \ {r} : req'[q] = req[q]
    BY RecordTypes DEF Execute, RequestRecord, ReqPcs
<1>3. /\ req[r].pc = "routed" /\ UNCHANGED <<stop, queues, worker, lease, report, order>>
    BY DEF Execute
<1> QED BY <1>1, <1>2, <1>3, RecordTypes, RequestMovesInv

LEMMA ReqAtFacts ==
    ASSUME IInv, NEW r \in Requests, NEW pc \in ReqPcs, ReqAt(r, pc)
    PROVE  /\ req' \in [Requests -> RequestRecord] /\ req'[r].pc = pc
           /\ req'[r].lease = req[r].lease
           /\ \A q \in Requests \ {r} : req'[q] = req[q]
BY RecordTypes DEF ReqAt, RequestRecord

LEMMA EvaluationFailsInv == ASSUME IInv, NEW r \in Requests, EvaluationFails(r) PROVE IInv'
<1>1. /\ onWire' = onWire /\ admitted' = admitted
      /\ holders' \subseteq Closers /\ reserved' \in BOOLEAN /\ (reserved' => admitted = {})
    BY WorkerTypes DEF EvaluationFails, port, IInv, ClaimAlone
<1>2. /\ req' \in [Requests -> RequestRecord] /\ req'[r].pc = "answered"
      /\ req'[r].lease = req[r].lease
      /\ \A q \in Requests \ {r} : req'[q] = req[q]
    BY ReqAtFacts DEF EvaluationFails, ReqPcs
<1>3. /\ req[r].pc = "evaluating" /\ UNCHANGED <<stop, queues, worker, lease, report, order>>
    BY DEF EvaluationFails
<1> QED BY <1>1, <1>2, <1>3, RecordTypes, RequestMovesInv

LEMMA AnswerInv == ASSUME IInv, NEW r \in Requests, Answer(r) PROVE IInv'
<1>1. /\ onWire' = onWire /\ admitted' = admitted
      /\ holders' \subseteq Closers /\ reserved' \in BOOLEAN /\ (reserved' => admitted = {})
    BY WorkerTypes DEF Answer, port, Port!Release, IInv, ClaimAlone
<1>2. /\ req' \in [Requests -> RequestRecord] /\ req'[r].pc = "done"
      /\ req'[r].lease = req[r].lease
      /\ \A q \in Requests \ {r} : req'[q] = req[q]
    BY ReqAtFacts DEF Answer, ReqPcs
<1>3. lease' \in LeaseRecord /\ lease'.newest = lease.newest
    BY RecordTypes DEF Answer, LeaseRecord
<1>4. /\ req[r].pc = "answered" /\ UNCHANGED <<stop, queues, worker, report, order>>
    BY DEF Answer
<1> QED BY <1>1, <1>2, <1>3, <1>4, RequestMovesInv

LEMMA EnsureWorkerFacts ==
    ASSUME IInv, EnsureWorker
    PROVE  /\ worker' \in WorkerRecord /\ ShapeFits(worker') /\ worker'.item = worker.item
           /\ worker'.pc = worker.pc \/ (worker.pc = "none" /\ worker'.pc = "starting")
<1>1. CASE worker = NoWorker
    <2>1. worker' = At("starting", None)
        BY <1>1 DEF EnsureWorker
    <2>2. worker' \in WorkerRecord /\ worker'.pc = "starting" /\ worker'.item = None
          /\ worker'.wrote = "no"
        BY <2>1, AtFacts DEF WorkerPcs
    <2> QED BY <1>1, <2>2 DEF NoWorker, ShapeFits
<1>2. CASE worker # NoWorker
    BY <1>2, WorkerTypes DEF EnsureWorker
<1> QED BY <1>1, <1>2

LEMMA EvaluationRecordedInv == ASSUME IInv, NEW r \in Requests, EvaluationRecorded(r) PROVE IInv'
<1>1. /\ req[r].pc = "evaluating" /\ EnsureWorker /\ routineQueue' = Append(routineQueue, r)
      /\ onWire' = onWire /\ admitted' = admitted /\ holders' = holders /\ reserved' = reserved
      /\ UNCHANGED <<stop, stopQueue, lease, report>> /\ begun' = begun /\ older' = older
    BY DEF EvaluationRecorded, port, order
<1>2. /\ req' \in [Requests -> RequestRecord] /\ req'[r].pc = "queued"
      /\ req'[r].lease = req[r].lease
      /\ \A q \in Requests \ {r} : req'[q] = req[q]
    BY ReqAtFacts DEF EvaluationRecorded, ReqPcs
<1>3. /\ worker' \in WorkerRecord /\ ShapeFits(worker') /\ worker'.item = worker.item
      /\ worker'.pc = worker.pc \/ (worker.pc = "none" /\ worker'.pc = "starting")
    BY <1>1, EnsureWorkerFacts
<1>4. /\ routineQueue \in Seq(Requests)
      /\ \A j \in DOMAIN routineQueue : req[routineQueue[j]].pc = "queued" /\ routineQueue[j] \in Requests
    BY DEF IInv, TypeOK
<1>5. /\ routineQueue' \in Seq(Requests) /\ Len(routineQueue) \in Nat
      /\ DOMAIN routineQueue = 1 .. Len(routineQueue)
      /\ DOMAIN routineQueue' = 1 .. Len(routineQueue) + 1
      /\ \A j \in DOMAIN routineQueue : routineQueue'[j] = routineQueue[j]
      /\ routineQueue'[Len(routineQueue) + 1] = r
    BY <1>1, <1>4, AppendFacts
<1>6. \A j \in DOMAIN routineQueue' : req'[routineQueue'[j]].pc = "queued"
    <2> SUFFICES ASSUME NEW j \in DOMAIN routineQueue' PROVE req'[routineQueue'[j]].pc = "queued"
        OBVIOUS
    <2>1. j \in DOMAIN routineQueue \/ j = Len(routineQueue) + 1
        BY <1>5
    <2> QED BY <1>1, <1>2, <1>4, <1>5, <2>1
<1>7. TypeOK'
    BY <1>1, <1>2, <1>3, <1>5, <1>6 DEF IInv, TypeOK, RequestRecord, WorkerRecord
<1>8. \A a, b \in DOMAIN routineQueue' : routineQueue'[a] = routineQueue'[b] => a = b
    <2>1. \A j \in DOMAIN routineQueue : routineQueue[j] # r
        BY <1>1, <1>4
    <2>2. \A a, b \in DOMAIN routineQueue : routineQueue[a] = routineQueue[b] => a = b
        BY DEF IInv, QueuesServe
    <2>3. \A j \in DOMAIN routineQueue' : j \in DOMAIN routineQueue \/ j = Len(routineQueue) + 1
        BY <1>5
    <2> QED BY <1>5, <2>1, <2>2, <2>3
<1>9. WorkerShape' /\ QueuesServe' /\ ClaimAlone' /\ OlderFirst' /\ OneCallAheadOfStop' /\ TraceIsHonest'
    BY <1>1, <1>3, <1>8 DEF IInv, WorkerShape, QueuesServe, ClaimAlone, OlderFirst,
        OneCallAheadOfStop, TraceIsHonest
<1>10. ItemIsWorking' /\ AdmissionsTravel' /\ OlderOutdated'
    BY <1>1, <1>2, <1>3 DEF IInv, ItemIsWorking, AdmissionsTravel, OlderOutdated
<1>11. LeaseOfWrite'
    <2>1. worker.pc \in {"writing", "readingBack"} => worker.item \in Requests
        BY WorkerTypes DEF ShapeFits
    <2> QED BY <1>1, <1>2, <1>3, <2>1 DEF IInv, LeaseOfWrite
<1>12. Punctual'
    BY <1>1, <1>3 DEF IInv, Punctual, TasksRan, RoasterCalls
<1> QED BY <1>7, <1>9, <1>10, <1>11, <1>12 DEF IInv

LEMMA CancelWaiterInv == ASSUME IInv, NEW r \in Requests, CancelWaiter(r) PROVE IInv'
<1>1. PICK i \in DOMAIN routineQueue :
         routineQueue[i] = r /\ routineQueue' = RemoveAt(routineQueue, i)
    BY DEF CancelWaiter
<1>2. /\ req[r].pc = "queued"
      /\ onWire' = onWire /\ admitted' = admitted /\ holders' = holders /\ reserved' = reserved
      /\ UNCHANGED <<stop, stopQueue, worker, lease, report>> /\ begun' = begun /\ older' = older
    BY DEF CancelWaiter, port, order
<1>3. /\ req' \in [Requests -> RequestRecord] /\ req'[r].pc = "done"
      /\ req'[r].lease = req[r].lease
      /\ \A q \in Requests \ {r} : req'[q] = req[q]
    BY ReqAtFacts DEF CancelWaiter, ReqPcs
<1>4. /\ routineQueue \in Seq(Requests)
      /\ \A j \in DOMAIN routineQueue : req[routineQueue[j]].pc = "queued" /\ routineQueue[j] \in Requests
      /\ \A a, b \in DOMAIN routineQueue : routineQueue[a] = routineQueue[b] => a = b
    BY DEF IInv, TypeOK, QueuesServe
<1>5. /\ routineQueue' \in Seq(Requests) /\ Len(routineQueue) \in Nat /\ i \in Nat \ {0}
      /\ DOMAIN routineQueue = 1 .. Len(routineQueue)
      /\ DOMAIN routineQueue' = 1 .. Len(routineQueue) - 1
      /\ \A j \in DOMAIN routineQueue' :
             /\ j < i => routineQueue'[j] = routineQueue[j]
             /\ j >= i => routineQueue'[j] = routineQueue[j + 1]
    BY <1>1, <1>4, RemoveAtFacts
\* Each remaining place was another one's.
<1>6. \A j \in DOMAIN routineQueue' :
         \E k \in DOMAIN routineQueue \ {i} :
             routineQueue'[j] = routineQueue[k] /\ k = (IF j < i THEN j ELSE j + 1)
    <2> SUFFICES ASSUME NEW j \in DOMAIN routineQueue'
                 PROVE  \E k \in DOMAIN routineQueue \ {i} :
                            routineQueue'[j] = routineQueue[k] /\ k = (IF j < i THEN j ELSE j + 1)
        OBVIOUS
    <2>1. CASE j < i
        <3>1. j \in DOMAIN routineQueue \ {i}
            BY <1>5, <2>1
        <3> QED BY <1>5, <2>1, <3>1
    <2>2. CASE j >= i
        <3>1. j + 1 \in DOMAIN routineQueue \ {i} /\ ~(j < i)
            BY <1>5, <2>2
        <3> QED BY <1>5, <2>2, <3>1
    <2>3. j < i \/ j >= i
        BY <1>5
    <2> QED BY <2>1, <2>2, <2>3
<1>7. \A j \in DOMAIN routineQueue' : req'[routineQueue'[j]].pc = "queued"
    BY <1>1, <1>3, <1>4, <1>6
<1>8. TypeOK'
    BY <1>2, <1>3, <1>5, <1>7 DEF IInv, TypeOK, RequestRecord
<1>9. \A a, b \in DOMAIN routineQueue' : routineQueue'[a] = routineQueue'[b] => a = b
    <2> SUFFICES ASSUME NEW a \in DOMAIN routineQueue', NEW b \in DOMAIN routineQueue',
                        routineQueue'[a] = routineQueue'[b]
                 PROVE  a = b
        OBVIOUS
    <2>1. (IF a < i THEN a ELSE a + 1) = (IF b < i THEN b ELSE b + 1)
        BY <1>4, <1>6
    <2>2. a \in Nat /\ b \in Nat
        BY <1>5
    <2> QED BY <1>5, <2>1, <2>2
<1>10. WorkerShape' /\ QueuesServe' /\ AdmissionsTravel' /\ ClaimAlone' /\ OlderFirst' /\ Punctual'
       /\ OneCallAheadOfStop' /\ TraceIsHonest'
    BY <1>2, <1>9 DEF IInv, WorkerShape, QueuesServe, AdmissionsTravel, ClaimAlone, OlderFirst,
        Punctual, TasksRan, OneCallAheadOfStop, TraceIsHonest
<1>11. ItemIsWorking' /\ OlderOutdated'
    BY <1>2, <1>3 DEF IInv, ItemIsWorking, OlderOutdated
<1>12. LeaseOfWrite'
    <2>1. worker.pc \in {"writing", "readingBack"} => worker.item \in Requests
        BY WorkerTypes DEF ShapeFits
    <2> QED BY <1>2, <1>3, <2>1 DEF IInv, LeaseOfWrite
<1> QED BY <1>8, <1>10, <1>11, <1>12 DEF IInv

-----------------------------------------------------------------------------
(* The stops.                                                              *)

LEMMA StopAtFacts ==
    ASSUME IInv, NEW s \in Stops, NEW pc \in StopPcs, StopAt(s, pc)
    PROVE  /\ stop' \in [Stops -> StopPcs] /\ stop'[s] = pc
           /\ \A t \in Stops \ {s} : stop'[t] = stop[t]
BY DEF StopAt, IInv, TypeOK

\* Every lease captured so far is outdated, and every stop made so far is
\* older than this one.
LEMMA AdmitStopInv == ASSUME IInv, NEW s \in Stops, AdmitStop(s) PROVE IInv'
<1>1. /\ stop[s] = "idle" /\ lease' = [newest |-> s, status |-> "unknown"]
      /\ onWire' = onWire /\ admitted' = admitted \cup {s} /\ holders' = {} /\ reserved' = FALSE
      /\ UNCHANGED <<stopQueue, routineQueue, worker, report, begun>>
    BY DEF AdmitStop, Port!Admit, queues
<1>2. /\ req' \in [Requests -> RequestRecord]
      /\ \A r \in Requests : req'[r].pc = req[r].pc /\ ~req'[r].lease
    <2>1. req' = [r \in Requests |-> [req[r] EXCEPT !.lease = FALSE, !.gen = FALSE]]
        BY DEF AdmitStop, Outdated
    <2>2. req \in [Requests -> [pc : ReqPcs, lease : BOOLEAN, gen : BOOLEAN, ok : BOOLEAN]]
        BY DEF IInv, TypeOK
    <2> QED BY <2>1, <2>2 DEF RequestRecord
<1>3. /\ stop' \in [Stops -> StopPcs] /\ stop'[s] = "admitted"
      /\ \A t \in Stops \ {s} : stop'[t] = stop[t]
    BY StopAtFacts DEF AdmitStop, StopPcs
<1>4. /\ older' \in [Stops -> SUBSET (Requests \cup Stops)]
      /\ older'[s] = {r \in Requests : req[r].pc # "idle"} \cup {t \in Stops : stop[t] # "idle"}
      /\ \A t \in Stops \ {s} : older'[t] = older[t]
    BY DEF AdmitStop, IInv, TypeOK
<1>5. /\ stopQueue \in Seq(Stops) /\ routineQueue \in Seq(Requests)
      /\ \A j \in DOMAIN stopQueue : stopQueue[j] \in Stops /\ stop[stopQueue[j]] = "queued"
      /\ \A j \in DOMAIN routineQueue :
            routineQueue[j] \in Requests /\ req[routineQueue[j]].pc = "queued"
    BY DEF IInv, TypeOK
<1>6. TypeOK'
    <2>1. \A j \in DOMAIN stopQueue : stop'[stopQueue[j]] = "queued"
        BY <1>1, <1>3, <1>5
    <2>2. \A j \in DOMAIN routineQueue : req'[routineQueue[j]].pc = "queued"
        BY <1>2, <1>5
    <2>3. lease' \in LeaseRecord
        BY <1>1 DEF LeaseRecord
    <2> QED BY <1>1, <1>2, <1>3, <1>4, <2>1, <2>2, <2>3 DEF IInv, TypeOK, RequestRecord, LeaseRecord
<1>7. WorkerShape' /\ ClaimAlone' /\ OneCallAheadOfStop' /\ TraceIsHonest'
    BY <1>1 DEF IInv, WorkerShape, ClaimAlone, OneCallAheadOfStop, TraceIsHonest
<1>8. ItemIsWorking'
    BY <1>1, <1>2, <1>3 DEF IInv, ItemIsWorking
<1>9. QueuesServe'
    BY <1>1, <1>3 DEF IInv, QueuesServe
<1>10. AdmissionsTravel'
    BY <1>1, <1>3 DEF IInv, AdmissionsTravel
<1>11. LeaseOfWrite'
    <2>1. worker.pc \in {"writing", "readingBack"} => worker.item \in Requests
        BY WorkerTypes DEF ShapeFits
    <2> QED BY <1>1, <1>2, <2>1 DEF LeaseOfWrite
<1>12. OlderOutdated'
    <2> SUFFICES ASSUME NEW t \in Stops, NEW r \in older'[t] \cap Requests
                 PROVE  req'[r].pc # "idle" /\ ~req'[r].lease
        BY DEF OlderOutdated
    <2>1. req[r].pc # "idle"
        BY <1>4, Names DEF IInv, OlderOutdated
    <2> QED BY <1>2, <2>1
<1>13. OlderFirst'
    <2> SUFFICES ASSUME NEW t \in Stops
                 PROVE  /\ stop'[t] = "idle" => older'[t] = {}
                        /\ lease'.newest = t =>
                              \A u \in Stops \ {t} : stop'[u] = "idle" \/ u \in older'[t]
                        /\ \A u \in older'[t] \cap Stops :
                             /\ stop'[u] # "idle"
                             /\ stop'[t] \in {"queued", "working", "done"} => stop'[u] # "admitted"
                             /\ stop'[t] \in {"working", "done"} => stop'[u] = "done"
                             /\ stop'[u] = "queued" =>
                                  \A j \in DOMAIN stopQueue :
                                      stopQueue[j] = t => \E i \in 1 .. j - 1 : stopQueue[i] = u
        BY <1>1 DEF OlderFirst
    <2>1. CASE t = s
        <3>1. \A u \in older'[s] \cap Stops : u # s /\ stop[u] # "idle" /\ stop'[u] = stop[u]
            BY <1>1, <1>3, <1>4, Names
        <3>2. \A u \in Stops \ {s} : stop'[u] = "idle" \/ u \in older'[s]
            BY <1>3, <1>4
        <3>3. \A j \in DOMAIN stopQueue : stopQueue[j] # s
            BY <1>1, <1>5
        <3> QED BY <1>3, <2>1, <3>1, <3>2, <3>3
    <2>2. CASE t # s
        <3>1. /\ stop[t] = "idle" => older[t] = {}
              /\ \A u \in older[t] \cap Stops :
                   /\ stop[u] # "idle"
                   /\ stop[t] \in {"queued", "working", "done"} => stop[u] # "admitted"
                   /\ stop[t] \in {"working", "done"} => stop[u] = "done"
                   /\ stop[u] = "queued" =>
                        \A j \in DOMAIN stopQueue :
                            stopQueue[j] = t => \E i \in 1 .. j - 1 : stopQueue[i] = u
            BY DEF IInv, OlderFirst
        <3>2. \A u \in older[t] \cap Stops : u # s /\ stop'[u] = stop[u]
            BY <1>1, <1>3, <3>1
        <3>3. lease'.newest # t /\ older'[t] = older[t] /\ stop'[t] = stop[t]
            BY <1>1, <1>3, <1>4, <2>2
        <3> QED BY <3>1, <3>2, <3>3
    <2> QED BY <2>1, <2>2
<1>14. Punctual'
    BY <1>1, <1>3 DEF IInv, Punctual, TasksRan
<1> QED BY <1>6, <1>7, <1>8, <1>9, <1>10, <1>11, <1>12, <1>13, <1>14 DEF IInv

LEMMA QueueStopInv == ASSUME IInv, NEW s \in Stops, QueueStop(s) PROVE IInv'
<1>1. /\ stop[s] = "admitted" /\ EnsureWorker /\ stopQueue' = Append(stopQueue, s)
      /\ \A t \in older[s] \cap Stops : stop[t] # "admitted"
      /\ onWire' = onWire /\ admitted' = admitted /\ holders' = holders /\ reserved' = reserved
      /\ UNCHANGED <<req, routineQueue, lease, report>> /\ begun' = begun /\ older' = older
    BY DEF QueueStop, port, order
<1>2. /\ stop' \in [Stops -> StopPcs] /\ stop'[s] = "queued"
      /\ \A t \in Stops \ {s} : stop'[t] = stop[t]
    BY StopAtFacts DEF QueueStop, StopPcs
<1>3. /\ worker' \in WorkerRecord /\ ShapeFits(worker') /\ worker'.item = worker.item
      /\ worker'.pc = worker.pc \/ (worker.pc = "none" /\ worker'.pc = "starting")
    BY <1>1, EnsureWorkerFacts
<1>4. /\ stopQueue \in Seq(Stops)
      /\ \A j \in DOMAIN stopQueue :
            stop[stopQueue[j]] = "queued" /\ stopQueue[j] \in Stops /\ stopQueue[j] # s
    BY <1>1 DEF IInv, TypeOK
<1>5. /\ stopQueue' \in Seq(Stops) /\ Len(stopQueue) \in Nat
      /\ DOMAIN stopQueue = 1 .. Len(stopQueue)
      /\ DOMAIN stopQueue' = 1 .. Len(stopQueue) + 1
      /\ \A j \in DOMAIN stopQueue : stopQueue'[j] = stopQueue[j]
      /\ stopQueue'[Len(stopQueue) + 1] = s
    BY <1>1, <1>4, AppendFacts
<1>6. \A j \in DOMAIN stopQueue' : j \in DOMAIN stopQueue \/ j = Len(stopQueue) + 1
    BY <1>5
<1>7. \A j \in DOMAIN stopQueue' : stop'[stopQueue'[j]] = "queued"
    BY <1>2, <1>4, <1>5, <1>6
<1>8. TypeOK'
    BY <1>1, <1>2, <1>3, <1>5, <1>7 DEF IInv, TypeOK, WorkerRecord
<1>9. WorkerShape' /\ ClaimAlone' /\ OlderOutdated' /\ OneCallAheadOfStop' /\ TraceIsHonest'
    BY <1>1, <1>3 DEF IInv, WorkerShape, ClaimAlone, OlderOutdated, OneCallAheadOfStop, TraceIsHonest
<1>10. ItemIsWorking'
    BY <1>1, <1>2, <1>3 DEF IInv, ItemIsWorking
<1>11. QueuesServe'
    <2>1. \A a, b \in DOMAIN stopQueue' : stopQueue'[a] = stopQueue'[b] => a = b
        <3>1. \A a, b \in DOMAIN stopQueue : stopQueue[a] = stopQueue[b] => a = b
            BY DEF IInv, QueuesServe
        <3> QED BY <1>4, <1>5, <1>6, <3>1
    <2>2. ASSUME NEW t \in Stops, stop'[t] = "queued"
          PROVE  \E a \in DOMAIN stopQueue' : stopQueue'[a] = t
        <3>1. CASE t = s
            <4>1. Len(stopQueue) + 1 \in DOMAIN stopQueue'
                BY <1>5
            <4> QED BY <1>5, <3>1, <4>1
        <3>2. CASE t # s
            <4>1. PICK a \in DOMAIN stopQueue : stopQueue[a] = t
                BY <1>2, <2>2, <3>2 DEF IInv, QueuesServe
            <4>2. a \in DOMAIN stopQueue'
                BY <1>5
            <4> QED BY <1>5, <4>1, <4>2
        <3> QED BY <3>1, <3>2
    <2> QED BY <1>1, <2>1, <2>2 DEF IInv, QueuesServe
<1>12. AdmissionsTravel'
    BY <1>1, <1>2, <1>3 DEF IInv, AdmissionsTravel, ItemIsWorking
<1>13. LeaseOfWrite'
    BY <1>1, <1>3 DEF IInv, LeaseOfWrite
<1>14. OlderFirst'
    <2> SUFFICES ASSUME NEW t \in Stops
                 PROVE  /\ stop'[t] = "idle" => older[t] = {}
                        /\ lease.newest = t =>
                              \A u \in Stops \ {t} : stop'[u] = "idle" \/ u \in older[t]
                        /\ \A u \in older[t] \cap Stops :
                             /\ stop'[u] # "idle"
                             /\ stop'[t] \in {"queued", "working", "done"} => stop'[u] # "admitted"
                             /\ stop'[t] \in {"working", "done"} => stop'[u] = "done"
                             /\ stop'[u] = "queued" =>
                                  \A j \in DOMAIN stopQueue' : stopQueue'[j] = t =>
                                      \E i \in 1 .. j - 1 : stopQueue'[i] = u
        BY <1>1 DEF OlderFirst
    <2>0. /\ stop[t] = "idle" => older[t] = {}
          /\ lease.newest = t => \A u \in Stops \ {t} : stop[u] = "idle" \/ u \in older[t]
          /\ \A u \in older[t] \cap Stops :
               /\ stop[u] # "idle"
               /\ stop[t] \in {"queued", "working", "done"} => stop[u] # "admitted"
               /\ stop[t] \in {"working", "done"} => stop[u] = "done"
               /\ stop[u] = "queued" =>
                    \A j \in DOMAIN stopQueue :
                        stopQueue[j] = t => \E i \in 1 .. j - 1 : stopQueue[i] = u
        BY DEF IInv, OlderFirst
    <2>1. /\ stop'[t] = "idle" => older[t] = {}
          /\ lease.newest = t => \A u \in Stops \ {t} : stop'[u] = "idle" \/ u \in older[t]
        <3>1. \A u \in Stops : stop'[u] = "idle" <=> stop[u] = "idle"
            BY <1>1, <1>2
        <3> QED BY <2>0, <3>1
    <2>2. ASSUME NEW u \in older[t] \cap Stops
          PROVE  /\ stop'[u] # "idle"
                 /\ stop'[t] \in {"queued", "working", "done"} => stop'[u] # "admitted"
                 /\ stop'[t] \in {"working", "done"} => stop'[u] = "done"
                 /\ stop'[u] = "queued" =>
                      \A j \in DOMAIN stopQueue' : stopQueue'[j] = t =>
                          \E i \in 1 .. j - 1 : stopQueue'[i] = u
        <3>1. stop'[u] # "idle"
            BY <1>1, <1>2, <2>0
        <3>2. stop'[t] \in {"queued", "working", "done"} => stop'[u] # "admitted"
            BY <1>1, <1>2, <2>0
        <3>3. stop'[t] \in {"working", "done"} => stop'[u] = "done"
            BY <1>1, <1>2, <2>0
        <3>4. ASSUME stop'[u] = "queued", NEW j \in DOMAIN stopQueue', stopQueue'[j] = t
              PROVE  \E i \in 1 .. j - 1 : stopQueue'[i] = u
            <4>1. CASE t = s
                <5>1. u # s
                    BY <1>1, <4>1
                <5>2. PICK i \in DOMAIN stopQueue : stopQueue[i] = u
                    BY <1>2, <3>4, <5>1 DEF IInv, QueuesServe
                <5>3. j = Len(stopQueue) + 1
                    BY <1>4, <1>5, <1>6, <3>4, <4>1
                <5>4. i \in 1 .. j - 1 /\ stopQueue'[i] = u
                    BY <1>5, <5>2, <5>3
                <5> QED BY <5>4
            <4>2. CASE t # s
                <5>1. j \in DOMAIN stopQueue /\ stopQueue[j] = t /\ stop[t] = "queued"
                    BY <1>4, <1>5, <1>6, <3>4, <4>2
                <5>2. u # s
                    BY <1>1, <2>0, <5>1
                <5>3. PICK i \in 1 .. j - 1 : stopQueue[i] = u
                    BY <1>2, <2>0, <3>4, <5>1, <5>2
                <5>4. i \in DOMAIN stopQueue
                    BY <1>5, <5>1
                <5> QED BY <1>5, <5>3, <5>4
            <4> QED BY <4>1, <4>2
        <3> QED BY <3>1, <3>2, <3>3, <3>4
    <2> QED BY <2>1, <2>2
<1>15. Punctual'
    BY <1>1, <1>2, <1>3 DEF IInv, Punctual, TasksRan, RoasterCalls
<1> QED BY <1>8, <1>9, <1>10, <1>11, <1>12, <1>13, <1>14, <1>15 DEF IInv

-----------------------------------------------------------------------------
(* The lease and the live runner.                                          *)

\* A step beside the requests, the stops and the worker.
LEMMA BesideInv ==
    ASSUME IInv, onWire' \subseteq Callers, admitted' = admitted,
           holders' \subseteq Closers, reserved' \in BOOLEAN, reserved' => reserved,
           lease' \in LeaseRecord, lease'.newest = lease.newest,
           UNCHANGED <<req, stop, queues, worker, report, order>>
    PROVE  IInv'
<1>1. /\ req' = req /\ stop' = stop /\ stopQueue' = stopQueue /\ routineQueue' = routineQueue
      /\ worker' = worker /\ report' = report /\ begun' = begun /\ older' = older
    BY DEF queues, order
<1>2. TypeOK'
    BY <1>1 DEF IInv, TypeOK, Callers, LeaseRecord
<1>3. WorkerShape' /\ ItemIsWorking' /\ QueuesServe' /\ AdmissionsTravel' /\ ClaimAlone'
      /\ LeaseOfWrite' /\ OlderOutdated' /\ OlderFirst' /\ Punctual'
      /\ OneCallAheadOfStop' /\ TraceIsHonest'
    BY <1>1 DEF IInv, WorkerShape, ItemIsWorking, QueuesServe, AdmissionsTravel, ClaimAlone,
        LeaseOfWrite, OlderOutdated, OlderFirst, Punctual, TasksRan, OneCallAheadOfStop, TraceIsHonest
<1> QED BY <1>2, <1>3 DEF IInv

LEMMA PublishLeaseInv == ASSUME IInv, PublishLease PROVE IInv'
<1>1. /\ onWire' \subseteq Callers /\ admitted' = admitted
      /\ holders' \subseteq Closers /\ reserved' \in BOOLEAN /\ (reserved' => reserved)
      /\ UNCHANGED <<req, stop, queues, worker, report, order>>
    BY WorkerTypes DEF PublishLease, port
<1>2. lease' \in LeaseRecord /\ lease'.newest = lease.newest
    BY RecordTypes DEF PublishLease, LeaseRecord
<1> QED BY <1>1, <1>2, BesideInv

LEMMA LiveInv == ASSUME IInv, LiveWrites \/ LiveReturns \/ LiveAborts PROVE IInv'
<1>1. /\ onWire' \subseteq Callers /\ admitted' = admitted
      /\ holders' \subseteq Closers /\ reserved' \in BOOLEAN /\ (reserved' => reserved)
      /\ UNCHANGED <<req, stop, queues, worker, lease, report, order>>
    <2>1. CASE LiveWrites \/ LiveReturns
        BY <2>1, WorkerTypes DEF LiveWrites, LiveReturns, Port!StartRoutine, Port!Finish, Callers
    <2>2. CASE LiveAborts
        <3>1. reserved' = FALSE /\ reserved' \in BOOLEAN
            BY <2>2 DEF LiveAborts, Port!Abort
        <3> QED BY <2>2, <3>1, WorkerTypes DEF LiveAborts, Port!Abort
    <2> QED BY <2>1, <2>2
<1> QED BY <1>1, RecordTypes, BesideInv

-----------------------------------------------------------------------------
(* The invariant.                                                          *)

LEMMA InitInv == Init => IInv
<1> SUFFICES ASSUME Init PROVE IInv
    OBVIOUS
<1>1. /\ onWire = {} /\ admitted = {} /\ holders = {} /\ reserved = FALSE
      /\ stopQueue = <<>> /\ routineQueue = <<>> /\ stop = [s \in Stops |-> "idle"]
      /\ req = [r \in Requests |-> [pc |-> "idle", lease |-> FALSE, gen |-> FALSE, ok |-> FALSE]]
      /\ begun = [s \in Stops |-> 0] /\ older = [s \in Stops |-> {}]
    BY DEF Init, Port!Init
<1>2. /\ worker = [pc |-> "none", item |-> None, wrote |-> "no"]
      /\ lease = [newest |-> None, status |-> "open"]
      /\ report = [item |-> None, dispatch |-> "none", wrote |-> "no"]
    BY DEF Init, NoWorker, NoReport, NoTrace
<1>3. TypeOK
    <2>1. reserved \in BOOLEAN
        BY <1>1
    <2> QED BY <1>1, <1>2, <2>1 DEF TypeOK, ReqPcs, StopPcs, WorkerPcs, Progress, NoTrace
<1>4. WorkerShape /\ TraceIsHonest
    BY <1>2 DEF WorkerShape, ShapeFits, TraceIsHonest, NoTrace
<1>5. ItemIsWorking /\ QueuesServe /\ AdmissionsTravel /\ ClaimAlone /\ LeaseOfWrite
      /\ OlderOutdated /\ OlderFirst /\ Punctual /\ OneCallAheadOfStop
    BY <1>1, <1>2, Names DEF ItemIsWorking, QueuesServe, AdmissionsTravel, ClaimAlone, LeaseOfWrite,
        OlderOutdated, OlderFirst, Punctual, TasksRan, OneCallAheadOfStop
<1> QED BY <1>3, <1>4, <1>5 DEF IInv

LEMMA StutterInv == ASSUME IInv, UNCHANGED vars PROVE IInv'
<1>1. /\ onWire' \subseteq Callers /\ admitted' = admitted
      /\ holders' \subseteq Closers /\ reserved' \in BOOLEAN /\ (reserved' => reserved)
      /\ UNCHANGED <<req, stop, queues, worker, lease, report, order>>
    BY WorkerTypes DEF vars, port
<1> QED BY <1>1, RecordTypes, BesideInv

LEMMA NextInv == ASSUME IInv, [Next]_vars PROVE IInv'
<1>1. ASSUME WorkerStep PROVE IInv'
    BY <1>1, WorkerStartsInv, ProofWaitEndsInv, ReadReturnsInv, LatestReturnsInv, WriteWaitEndsInv,
        WriteReturnsInv, ReadBackReturnsInv, DispatchStopInv, StopReturnsInv, StopReadBackInv
        DEF WorkerStep, RoutineStep
<1>2. ASSUME NEW r \in Requests,
             Route(r) \/ Execute(r) \/ EvaluationRecorded(r) \/ EvaluationFails(r)
             \/ CancelWaiter(r) \/ Answer(r)
      PROVE  IInv'
    BY <1>2, RouteInv, ExecuteInv, EvaluationRecordedInv, EvaluationFailsInv, CancelWaiterInv,
        AnswerInv
<1>3. ASSUME NEW s \in Stops, AdmitStop(s) \/ QueueStop(s) PROVE IInv'
    BY <1>3, AdmitStopInv, QueueStopInv
<1>4. ASSUME PublishLease \/ LiveWrites \/ LiveReturns \/ LiveAborts PROVE IInv'
    BY <1>4, PublishLeaseInv, LiveInv
<1> QED BY <1>1, <1>2, <1>3, <1>4, StutterInv DEF Next

\* The inductive invariant holds in every state the executor reaches.
THEOREM Invariant == Spec => []IInv
BY InitInv, NextInv, PTL DEF Spec

\* The state of the executor, the gate and the cached lease keeps its types.
THEOREM TypeCorrect == Spec => []TypeOK
<1>1. IInv => TypeOK
    BY DEF IInv
<1> QED BY <1>1, Invariant, PTL

\* Between a stop's admission and its dispatch the worker begins at most one
\* more roaster call (controller.py _drain, _execute_one).
THEOREM OneCallAhead == Spec => []OneCallAheadOfStop
<1>1. IInv => OneCallAheadOfStop
    BY DEF IInv
<1> QED BY <1>1, Invariant, PTL

\* The recorded dispatch outcome tells what became of the write.
THEOREM HonestTrace == Spec => []TraceIsHonest
<1>1. IInv => TraceIsHonest
    BY DEF IInv
<1> QED BY <1>1, Invariant, PTL

\* No control enters the roaster behind a stop it was requested before,
\* because the stop took its lease and no step gives it another.
THEOREM StopOutrunsOlder == Spec => NoWriteBehindStop
<1>1. ASSUME IInv, [Next]_vars, NEW r \in Requests, r \in onWire' \ onWire, NEW s \in Stops
      PROVE  r \notin older[s]
    <2>1. req[r].lease
        <3>1. CASE WorkerStep
            <4>1. ASSUME NEW q \in Requests, RoutineStep(q) PROVE req[r].lease
                <5>1. CASE ProofWaitEnds(q) \/ ReadReturns(q) \/ LatestReturns(q) \/ ReadBackReturns(q)
                    BY <1>1, <5>1 DEF ProofWaitEnds, ReadReturns, LatestReturns, ReadBackReturns, port
                <5>2. CASE WriteReturns(q)
                    BY <1>1, <5>2 DEF WriteReturns, Port!Finish
                <5>3. CASE WriteWaitEnds(q)
                    <6>1. (~Superseded(q) /\ Port!StartRoutine(q)) \/ UNCHANGED port
                        BY <5>3 DEF WriteWaitEnds
                    <6>2. ~Superseded(q) /\ onWire' = {q}
                        BY <1>1, <6>1 DEF Port!StartRoutine, port
                    <6>3. q = r
                        BY <1>1, <6>2
                    <6>4. req[q].lease
                        BY <6>2 DEF Superseded
                    <6> QED BY <6>3, <6>4
                <5> QED BY <4>1, <5>1, <5>2, <5>3 DEF RoutineStep
            <4>2. CASE WorkerStarts
                BY <1>1, <4>2 DEF WorkerStarts, port
            <4>3. ASSUME NEW t \in Stops, DispatchStop(t) \/ StopReturns(t) \/ StopReadBack(t)
                  PROVE  FALSE
                BY <1>1, <4>3, Names DEF DispatchStop, StopReturns, StopReadBack, RefusedStop,
                    Port!Withdraw, Port!StartStop, Port!Finish, port
            <4> QED BY <3>1, <4>1, <4>2, <4>3 DEF WorkerStep
        <3>2. ASSUME NEW q \in Requests,
                     Route(q) \/ Execute(q) \/ EvaluationRecorded(q) \/ EvaluationFails(q)
                     \/ CancelWaiter(q) \/ Answer(q)
              PROVE  FALSE
            BY <1>1, <3>2 DEF Route, Execute, EvaluationRecorded, EvaluationFails, CancelWaiter,
                Answer, Port!Claim, Port!Release, port
        <3>3. ASSUME NEW t \in Stops, AdmitStop(t) \/ QueueStop(t) PROVE FALSE
            BY <1>1, <3>3 DEF AdmitStop, QueueStop, Port!Admit, port
        <3>4. ASSUME PublishLease \/ LiveWrites \/ LiveReturns \/ LiveAborts \/ UNCHANGED vars
              PROVE  FALSE
            BY <1>1, <3>4, Names DEF PublishLease, LiveWrites, LiveReturns, LiveAborts, Port!StartRoutine,
                Port!Finish, Port!Abort, port, vars
        <3> QED BY <1>1, <3>1, <3>2, <3>3, <3>4 DEF Next
    <2> QED BY <1>1, <2>1 DEF IInv, OlderOutdated
<1>2. IInv /\ [Next]_vars =>
         [\A r \in Requests : r \in onWire' \ onWire => \A s \in Stops : r \notin older[s]]_vars
    BY <1>1
<1> QED BY <1>2, Invariant, PTL DEF NoWriteBehindStop, Spec
=============================================================================
