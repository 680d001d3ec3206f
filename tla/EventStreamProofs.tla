-------------------------- MODULE EventStreamProofs --------------------------
(***************************************************************************)
(* What EventStream keeps true for any queue and ring size, any set of     *)
(* flushing tasks and any bounds on frames, connections and restarts: its  *)
(* types, that the pages see each frame once and in order, that no frame   *)
(* is passed over in silence, and what the decision trace keeps.           *)
(*                                                                         *)
(* The ring holds the newest frames of its process without a hole          *)
(* (RingShape), so what a reconnect cannot replay is exactly what the ring *)
(* has evicted. Above it, every id behind the last one the console applied *)
(* is on its way to the console or was lost where a reader can see it      *)
(* (Accounted). The trace is the rows, then what the one flusher that      *)
(* holds the lock has still to write, then the buffer (InOrder).           *)
(***************************************************************************)
EXTENDS EventStream, Integers, SequenceTheorems, TLAPS

ConsoleRecord ==
    [conn : {"waiting", "fetching", "opening", "open"},
     phase : 0 .. MaxPhase, lastEventId : (1 .. MaxFrames) \cup {None},
     lastAppliedId : (1 .. MaxFrames) \cup {None},
     frames : Seq(Frames), refused : SUBSET Frames]

\* TypeOK in two parts, of the stream and of the trace.
StreamTypes ==
    /\ boot \in 0 .. MaxBoot /\ sequence \in 1 .. MaxFrames
    /\ ring \in Seq(Frames) /\ Len(ring) <= ReplayBuffer
    /\ Subscribed => queue \in Seq(Frames) /\ Len(queue) <= MaxQueue
    /\ console \in ConsoleRecord /\ (console.conn = "open" <=> Subscribed)
    /\ drops \in 0 .. MaxDrops /\ lost \subseteq Frames

TraceTypes ==
    /\ phase \in 1 .. MaxPhase /\ stored \in 1 .. phase
    /\ buffer \in Seq(1 .. phase) /\ flushing \in [Flushers -> Seq(1 .. phase)]
    /\ rows \in Seq(1 .. phase) /\ skipped \subseteq 1 .. phase
    /\ loop \in {"records", "retries", "over"}

\* The ring holds the newest frames of its process, without a hole.
RingShape ==
    /\ ring # <<>>
    /\ \A i \in DOMAIN ring : ring[i].boot = boot /\ ring[i].id = sequence - Len(ring) + i

\* What is on its way to the console ascends.
QueueShape ==
    Subscribed =>
      /\ \A i \in DOMAIN queue : queue[i].boot = boot /\ queue[i].id <= sequence
      /\ \A i, j \in DOMAIN queue : i < j => queue[i].id < queue[j].id

\* Every received frame is behind lastAppliedId and before what is on its way.
ReceivedBefore ==
    \A i \in DOMAIN console.frames :
        LET f == console.frames[i]
        IN  /\ f.boot <= boot /\ (f.boot = boot => f.id <= sequence)
            /\ console.lastAppliedId # None /\ f.id <= console.lastAppliedId
            /\ Subscribed /\ f.boot = boot => \A j \in DOMAIN queue : f.id < queue[j].id

FirstBoot == console.frames = <<>> \/ console.frames[1].boot = boot

\* The ids the console is past; a console without a frame starts at its first.
Received(id) ==
    IF console.frames = <<>> THEN \A i \in DOMAIN queue : id <= queue[i].id
    ELSE id <= console.lastAppliedId

OnItsWay(id) == \E i \in DOMAIN queue : queue[i].id = id
Lost(id) == \E h \in lost : h.boot = boot /\ h.id = id

\* Up to the newest, every id of a connected console's first process is past,
\* on its way or lost.
Accounted ==
    /\ console.frames = <<>> <=> console.lastAppliedId = None
    /\ console.frames # <<>> /\ console.frames[1].boot = boot =>
         console.lastAppliedId = console.frames[Len(console.frames)].id
    /\ Subscribed /\ FirstBoot =>
         \A id \in 1 .. sequence : Received(id) \/ OnItsWay(id) \/ Lost(id)

StreamOK ==
    /\ RingShape /\ QueueShape
    /\ ReceivedBefore /\ Accounted
    /\ FramesOnceInOrder /\ NoSilentGap

\* At most one task is writing, the one that holds the lock.
OneFlusher == \A f, g \in Flushers : flushing[f] # <<>> /\ flushing[g] # <<>> => f = g

Ascending(q) == \A j \in DOMAIN q : \A i \in 1 .. j - 1 : q[i] < q[j]
Before(p, q) == \A i \in DOMAIN p : \A j \in DOMAIN q : p[i] < q[j]

\* The rows, what is being written and the buffer are one ascending trace.
InOrder ==
    /\ Ascending(rows) /\ Ascending(buffer) /\ Before(rows, buffer)
    /\ \A f \in Flushers :
         /\ Ascending(flushing[f])
         /\ Before(rows, flushing[f]) /\ Before(flushing[f], buffer)

\* Every phase change emitted is in one of the three, or was skipped.
Covered ==
    \A p \in 1 .. phase :
        \/ p \in skipped
        \/ \E i \in DOMAIN rows : rows[i] = p
        \/ \E i \in DOMAIN buffer : buffer[i] = p
        \/ \E f \in Flushers : \E i \in DOMAIN flushing[f] : flushing[f][i] = p

TraceOK == OneFlusher /\ InOrder /\ Covered

IInv == StreamTypes /\ StreamOK /\ TraceTypes /\ TraceOK

-----------------------------------------------------------------------------
(* Constants and sequences.                                                *)

LEMMA Bounds ==
    /\ MaxQueue \in Nat \ {0} /\ ReplayBuffer \in Nat \ {0} /\ ReplayBuffer <= MaxQueue
    /\ MaxPhase \in Nat \ {0} /\ MaxFrames \in Nat \ {0, 1}
    /\ MaxDrops \in Nat /\ MaxBoot \in Nat
    /\ None \notin Nat /\ None \notin Seq(Frames)
BY StreamAssumption, NoneAssumption

LEMMA FrameFacts ==
    ASSUME NEW f \in Frames
    PROVE  /\ f.boot \in 0 .. MaxBoot /\ f.id \in 1 .. MaxFrames /\ f.phase \in 0 .. MaxPhase
           /\ f.boot \in Nat /\ f.id \in Nat /\ f.kind \in Kinds
BY Bounds DEF Frames

LEMMA NewFrame ==
    ASSUME NEW b \in 0 .. MaxBoot, NEW i \in 1 .. MaxFrames, NEW k \in Kinds, NEW p \in 0 .. MaxPhase
    PROVE  Frame(b, i, k, p) \in Frames /\ Frame(b, i, k, p).boot = b /\ Frame(b, i, k, p).id = i
BY DEF Frame, Frames

LEMMA SeqFacts ==
    ASSUME NEW S, NEW q \in Seq(S)
    PROVE  /\ Len(q) \in Nat /\ DOMAIN q = 1 .. Len(q) /\ \A i \in DOMAIN q : q[i] \in S
           /\ q = <<>> <=> Len(q) = 0
OBVIOUS

LEMMA TailFacts ==
    ASSUME NEW S, NEW q \in Seq(S), q # <<>>
    PROVE  /\ Tail(q) \in Seq(S) /\ Len(q) \in Nat \ {0} /\ Len(Tail(q)) = Len(q) - 1
           /\ Head(q) = q[1] /\ 1 \in DOMAIN q /\ q[1] \in S
           /\ DOMAIN q = 1 .. Len(q) /\ DOMAIN Tail(q) = 1 .. Len(q) - 1
           /\ \A j \in DOMAIN Tail(q) : j + 1 \in DOMAIN q /\ Tail(q)[j] = q[j + 1]
OBVIOUS

LEMMA AppendFacts ==
    ASSUME NEW S, NEW q \in Seq(S), NEW e \in S
    PROVE  /\ Append(q, e) \in Seq(S) /\ Len(q) \in Nat /\ Len(Append(q, e)) = Len(q) + 1
           /\ DOMAIN q = 1 .. Len(q) /\ DOMAIN Append(q, e) = 1 .. Len(q) + 1
           /\ \A j \in DOMAIN q : Append(q, e)[j] = q[j]
           /\ Append(q, e)[Len(q) + 1] = e
OBVIOUS

LEMMA SeqGrows ==
    ASSUME NEW S, NEW T, S \subseteq T, NEW q \in Seq(S)
    PROVE  q \in Seq(T)
OBVIOUS

\* The ring without its oldest frame, if it is full.
LEMMA RetainedFacts ==
    ASSUME NEW S, NEW q \in Seq(S), q # <<>>, Len(q) <= ReplayBuffer + 1
    PROVE  /\ Retained(q) \in Seq(S) /\ Retained(q) # <<>> /\ Len(Retained(q)) <= ReplayBuffer
           /\ \E k \in {0, 1} :
                /\ Len(Retained(q)) = Len(q) - k /\ Len(q) \in Nat
                /\ DOMAIN Retained(q) = 1 .. Len(q) - k
                /\ \A j \in DOMAIN Retained(q) : j + k \in DOMAIN q /\ Retained(q)[j] = q[j + k]
<1>1. CASE Len(q) <= ReplayBuffer
    <2>1. Retained(q) = q /\ Len(q) \in Nat /\ DOMAIN q = 1 .. Len(q)
        BY <1>1 DEF Retained
    <2>2. Len(q) - 0 = Len(q) /\ \A j \in 1 .. Len(q) : j + 0 = j
        BY <2>1
    <2> QED BY <1>1, <2>1, <2>2
<1>2. CASE ~(Len(q) <= ReplayBuffer)
    <2>1. Retained(q) = Tail(q)
        BY <1>2 DEF Retained
    <2>2. /\ Tail(q) \in Seq(S) /\ Len(q) \in Nat /\ Len(Tail(q)) = Len(q) - 1
          /\ DOMAIN Tail(q) = 1 .. Len(q) - 1
          /\ \A j \in DOMAIN Tail(q) : j + 1 \in DOMAIN q /\ Tail(q)[j] = q[j + 1]
        BY TailFacts
    <2>3. Len(Tail(q)) = ReplayBuffer /\ ReplayBuffer # 0
        <3>1. Len(q) \in Nat /\ ReplayBuffer \in Nat \ {0}
            BY SeqFacts, Bounds
        <3>2. Len(q) = ReplayBuffer + 1
            BY <1>2, <3>1
        <3> QED BY <2>2, <3>1, <3>2
    <2>4. Tail(q) # <<>>
        BY <2>2, <2>3, SeqFacts
    <2>5. Retained(q) \in Seq(S) /\ Retained(q) # <<>> /\ Len(Retained(q)) <= ReplayBuffer
        BY <2>1, <2>2, <2>3, <2>4, Bounds
    <2>6. /\ Len(Retained(q)) = Len(q) - 1 /\ Len(q) \in Nat
          /\ DOMAIN Retained(q) = 1 .. Len(q) - 1
          /\ \A j \in DOMAIN Retained(q) : j + 1 \in DOMAIN q /\ Retained(q)[j] = q[j + 1]
        BY <2>1, <2>2
    <2> QED BY <2>5, <2>6
<1> QED BY <1>1, <1>2, SMTT(30)

\* The frames from an id on are an end of the ring, because it has no hole.
LEMMA RingFromFacts ==
    ASSUME StreamTypes, RingShape, NEW id \in Nat
    PROVE  /\ RingFrom(id) \in Seq(Frames) /\ Len(RingFrom(id)) <= ReplayBuffer
           /\ \A j \in DOMAIN RingFrom(id) :
                 \E i \in DOMAIN ring : RingFrom(id)[j] = ring[i] /\ ring[i].id >= id
           /\ \A i, j \in DOMAIN RingFrom(id) : i < j => RingFrom(id)[i].id < RingFrom(id)[j].id
           /\ \A i \in DOMAIN ring :
                 ring[i].id >= id => \E j \in DOMAIN RingFrom(id) : RingFrom(id)[j] = ring[i]
<1> DEFINE P(k) == \A i \in DOMAIN ring : ring[i].id >= id <=> i >= k
           first == CHOOSE k \in 1 .. Len(ring) + 1 : P(k)
           base == sequence - Len(ring)
<1>1. /\ Len(ring) \in Nat /\ DOMAIN ring = 1 .. Len(ring) /\ sequence \in Nat
      /\ ring \in Seq(Frames) /\ base \in Int
      /\ \A i \in DOMAIN ring : ring[i].id = base + i
    BY SeqFacts, Bounds DEF StreamTypes, RingShape
<1> HIDE DEF base
<1>2. \E k \in 1 .. Len(ring) + 1 : P(k)
    <2>1. CASE id - base < 1
        <3>1. P(1)
            BY <1>1, <2>1
        <3> QED BY <1>1, <3>1
    <2>2. CASE id - base > Len(ring) + 1
        <3>1. P(Len(ring) + 1)
            BY <1>1, <2>2
        <3> QED BY <1>1, <3>1
    <2>3. CASE id - base \in 1 .. Len(ring) + 1
        <3>1. P(id - base)
            BY <1>1, <2>3
        <3> QED BY <2>3, <3>1
    <2> QED BY <1>1, <2>1, <2>2, <2>3
<1>3. first \in 1 .. Len(ring) + 1 /\ P(first)
    BY <1>2
<1>4. RingFrom(id) = SubSeq(ring, first, Len(ring))
    BY DEF RingFrom
<1> HIDE DEF first
<1>5. first \in Nat \ {0} /\ first <= Len(ring) + 1
    BY <1>1, <1>3
<1>6. /\ RingFrom(id) \in Seq(Frames) /\ Len(RingFrom(id)) = Len(ring) - first + 1
      /\ \A j \in 1 .. Len(ring) - first + 1 : RingFrom(id)[j] = ring[first + j - 1]
    BY <1>1, <1>4, <1>5, SubSeqProperties
<1>7. DOMAIN RingFrom(id) = 1 .. Len(ring) - first + 1
    BY <1>6, SeqFacts
<1>8. \A j \in DOMAIN RingFrom(id) :
          /\ first + j - 1 \in DOMAIN ring /\ RingFrom(id)[j] = ring[first + j - 1]
          /\ ring[first + j - 1].id = base + (first + j - 1) /\ ring[first + j - 1].id >= id
    <2> SUFFICES ASSUME NEW j \in DOMAIN RingFrom(id)
                 PROVE  /\ first + j - 1 \in DOMAIN ring /\ RingFrom(id)[j] = ring[first + j - 1]
                        /\ ring[first + j - 1].id = base + (first + j - 1)
                        /\ ring[first + j - 1].id >= id
        OBVIOUS
    <2>1. first + j - 1 \in DOMAIN ring /\ first + j - 1 >= first
        BY <1>1, <1>5, <1>7
    <2> QED BY <1>1, <1>3, <1>6, <1>7, <2>1
<1>9. \A i, j \in DOMAIN RingFrom(id) : i < j => RingFrom(id)[i].id < RingFrom(id)[j].id
    <2> SUFFICES ASSUME NEW i \in DOMAIN RingFrom(id), NEW j \in DOMAIN RingFrom(id), i < j
                 PROVE  RingFrom(id)[i].id < RingFrom(id)[j].id
        OBVIOUS
    <2>1. /\ RingFrom(id)[i].id = base + (first + i - 1)
          /\ RingFrom(id)[j].id = base + (first + j - 1)
        BY <1>8
    <2>2. i \in Nat /\ j \in Nat
        BY <1>1, <1>5, <1>7
    <2> QED BY <1>1, <1>5, <2>1, <2>2
<1>10. ASSUME NEW i \in DOMAIN ring, ring[i].id >= id
       PROVE  \E j \in DOMAIN RingFrom(id) : RingFrom(id)[j] = ring[i]
    <2>1. i >= first
        BY <1>3, <1>10
    <2>2. i - first + 1 \in DOMAIN RingFrom(id) /\ first + (i - first + 1) - 1 = i
        BY <1>1, <1>5, <1>7, <2>1
    <2> QED BY <1>8, <2>2
<1>11. Len(RingFrom(id)) <= ReplayBuffer
    <2>1. Len(ring) <= ReplayBuffer
        BY DEF StreamTypes
    <2> QED BY <1>1, <1>5, <1>6, <2>1, Bounds
<1> QED BY <1>6, <1>8, <1>9, <1>10, <1>11

-----------------------------------------------------------------------------
(* The broadcaster publishes.                                              *)

\* Nothing is lost again: a gap that was accounted for stays so.
LEMMA GapsStay ==
    ASSUME NoSilentGap, console'.frames = console.frames, lost \subseteq lost'
    PROVE  NoSilentGap'
BY DEF NoSilentGap

\* The frame that is published is behind all the others.
LEMMA PublishInv ==
    ASSUME StreamTypes, StreamOK, NEW kind \in Kinds, NEW p \in 0 .. MaxPhase,
           Publish(kind, p), UNCHANGED <<boot, console, drops>>
    PROVE  StreamTypes' /\ StreamOK'
<1> DEFINE f == Frame(boot, sequence + 1, kind, p)
           fits == Subscribed /\ Len(queue) < MaxQueue
<1>0. /\ boot \in 0 .. MaxBoot /\ sequence \in 1 .. MaxFrames /\ sequence < MaxFrames
      /\ boot' = boot /\ console' = console /\ drops' = drops
    BY DEF StreamTypes, Publish
<1>1. f \in Frames /\ f.boot = boot /\ f.id = sequence + 1 /\ sequence + 1 \in 1 .. MaxFrames
    BY <1>0, Bounds, NewFrame
<1>2. /\ sequence' = sequence + 1 /\ ring' = Retained(Append(ring, f))
      /\ queue' = IF fits THEN Append(queue, f) ELSE queue
      /\ lost' = IF Subscribed /\ ~fits THEN lost \cup {f} ELSE lost
    BY DEF Publish
<1> HIDE DEF f
<1>3. /\ ring' \in Seq(Frames) /\ Len(ring') <= ReplayBuffer /\ RingShape'
    <2>1. /\ ring \in Seq(Frames) /\ Len(ring) <= ReplayBuffer
          /\ \A i \in DOMAIN ring : ring[i].boot = boot /\ ring[i].id = sequence - Len(ring) + i
        BY DEF StreamTypes, StreamOK, RingShape
    <2> DEFINE q == Append(ring, f)
    <2>2. /\ q \in Seq(Frames) /\ Len(ring) \in Nat /\ Len(q) = Len(ring) + 1
          /\ DOMAIN ring = 1 .. Len(ring) /\ DOMAIN q = 1 .. Len(ring) + 1
          /\ \A j \in DOMAIN ring : q[j] = ring[j]
          /\ q[Len(ring) + 1] = f
        BY <1>1, <2>1, AppendFacts
    <2> HIDE DEF q
    <2>3. q # <<>> /\ Len(q) <= ReplayBuffer + 1
        BY <2>1, <2>2, Bounds, SeqFacts
    <2>4. PICK k \in {0, 1} :
             /\ Len(ring') = Len(q) - k /\ DOMAIN ring' = 1 .. Len(q) - k
             /\ \A j \in DOMAIN ring' : j + k \in DOMAIN q /\ ring'[j] = q[j + k]
        BY <1>2, <2>2, <2>3, RetainedFacts DEF q
    <2>5. ring' \in Seq(Frames) /\ ring' # <<>> /\ Len(ring') <= ReplayBuffer
        BY <1>2, <2>2, <2>3, RetainedFacts DEF q
    <2>6. \A j \in DOMAIN q : q[j].boot = boot /\ q[j].id = sequence - Len(ring) + j
        <3> SUFFICES ASSUME NEW j \in DOMAIN q
                     PROVE  q[j].boot = boot /\ q[j].id = sequence - Len(ring) + j
            OBVIOUS
        <3>1. CASE j \in DOMAIN ring
            BY <2>1, <2>2, <3>1
        <3>2. CASE j = Len(ring) + 1
            BY <1>0, <1>1, <2>2, <3>2
        <3> QED BY <2>2, <3>1, <3>2
    <2>7. \A j \in DOMAIN ring' : ring'[j].boot = boot /\ ring'[j].id = sequence' - Len(ring') + j
        <3> SUFFICES ASSUME NEW j \in DOMAIN ring'
                     PROVE  ring'[j].boot = boot /\ ring'[j].id = sequence' - Len(ring') + j
            OBVIOUS
        <3>1. j + k \in DOMAIN q /\ ring'[j] = q[j + k] /\ j \in Int
            BY <2>2, <2>4
        <3>2. ring'[j].boot = boot /\ ring'[j].id = sequence - Len(ring) + (j + k)
            BY <2>6, <3>1
        <3>3. Len(ring') = Len(ring) + 1 - k
            BY <2>2, <2>4
        <3> QED BY <1>0, <1>2, <2>2, <3>1, <3>2, <3>3
    <2> QED BY <1>0, <2>5, <2>7 DEF RingShape
<1>4. \/ ~Subscribed /\ queue' = queue /\ lost' = lost
      \/ Subscribed /\ fits /\ queue' = Append(queue, f) /\ lost' = lost
      \/ Subscribed /\ queue' = queue /\ lost' = lost \cup {f}
    BY <1>2
<1>5. Subscribed => /\ queue \in Seq(Frames) /\ Len(queue) <= MaxQueue /\ Len(queue) \in Nat
                    /\ DOMAIN queue = 1 .. Len(queue)
                    /\ \A i \in DOMAIN queue : queue[i] \in Frames /\ queue[i].id \in Nat
                                               /\ queue[i].boot = boot /\ queue[i].id <= sequence
                    /\ \A i, j \in DOMAIN queue : i < j => queue[i].id < queue[j].id
    BY SeqFacts, FrameFacts DEF StreamTypes, StreamOK, QueueShape
\* The queue grows by the frame, or not at all.
<1>6. /\ Subscribed' <=> Subscribed
      /\ Subscribed =>
           /\ queue' \in Seq(Frames) /\ Len(queue') <= MaxQueue
           /\ DOMAIN queue \subseteq DOMAIN queue'
           /\ \A i \in DOMAIN queue : queue'[i] = queue[i]
           /\ \A i \in DOMAIN queue' \ DOMAIN queue :
                 queue'[i] = f /\ \A j \in DOMAIN queue' : j <= i
           /\ DOMAIN queue' \subseteq Nat
           /\ f \in lost' \/ \E i \in DOMAIN queue' : queue'[i] = f
           /\ lost' # lost => queue' = queue
    <2>1. CASE ~Subscribed /\ queue' = queue /\ lost' = lost
        BY <2>1 DEF Subscribed
    <2>2. CASE Subscribed /\ fits /\ queue' = Append(queue, f) /\ lost' = lost
        <3>1. /\ queue' \in Seq(Frames) /\ Len(queue') = Len(queue) + 1
              /\ DOMAIN queue' = 1 .. Len(queue) + 1
              /\ \A j \in DOMAIN queue : queue'[j] = queue[j]
              /\ queue'[Len(queue) + 1] = f
            BY <1>1, <1>5, <2>2, AppendFacts
        <3>2. Len(queue) + 1 \in DOMAIN queue' /\ Len(queue') <= MaxQueue
            BY <1>5, <2>2, <3>1, Bounds
        <3>3. \A i \in DOMAIN queue' \ DOMAIN queue : i = Len(queue) + 1
            BY <1>5, <2>2, <3>1
        <3>4. DOMAIN queue \subseteq DOMAIN queue' /\ DOMAIN queue' \subseteq Nat
              /\ \A j \in DOMAIN queue' : j <= Len(queue) + 1
            BY <1>5, <2>2, <3>1
        <3>5. Subscribed'
            BY <3>1, Bounds DEF Subscribed
        <3> QED BY <2>2, <3>1, <3>2, <3>3, <3>4, <3>5
    <2>3. CASE Subscribed /\ queue' = queue /\ lost' = lost \cup {f}
        <3>1. f \in lost' /\ Subscribed'
            BY <2>3 DEF Subscribed
        <3> QED BY <1>5, <2>3, <3>1
    <2> QED BY <1>4, <2>1, <2>2, <2>3
<1>7. lost \subseteq lost' /\ lost' \subseteq Frames
    BY <1>1, <1>4 DEF StreamTypes
<1>8. StreamTypes'
    BY <1>0, <1>1, <1>2, <1>3, <1>6, <1>7 DEF StreamTypes
<1>9. QueueShape'
    <2>1. ASSUME Subscribed, NEW i \in DOMAIN queue'
          PROVE  queue'[i].boot = boot /\ queue'[i].id <= sequence + 1
        <3>1. CASE i \in DOMAIN queue
            BY <1>0, <1>5, <1>6, <2>1, <3>1
        <3>2. CASE i \notin DOMAIN queue
            BY <1>0, <1>1, <1>6, <2>1, <3>2
        <3> QED BY <3>1, <3>2
    <2>2. ASSUME Subscribed, NEW i \in DOMAIN queue', NEW j \in DOMAIN queue', i < j
          PROVE  queue'[i].id < queue'[j].id
        <3>1. i \in DOMAIN queue
            BY <1>6, <2>2
        <3>2. CASE j \in DOMAIN queue
            BY <1>5, <1>6, <2>2, <3>1, <3>2
        <3>3. CASE j \notin DOMAIN queue
            BY <1>0, <1>1, <1>5, <1>6, <2>2, <3>1, <3>3
        <3> QED BY <3>2, <3>3
    <2> QED BY <1>0, <1>2, <1>6, <2>1, <2>2 DEF QueueShape
<1>10. ReceivedBefore'
    <2> SUFFICES ASSUME NEW i \in DOMAIN console.frames
                 PROVE  LET g == console.frames[i]
                        IN  /\ g.boot <= boot /\ (g.boot = boot => g.id <= sequence + 1)
                            /\ console.lastAppliedId # None /\ g.id <= console.lastAppliedId
                            /\ Subscribed /\ g.boot = boot => \A j \in DOMAIN queue' : g.id < queue'[j].id
        BY <1>0, <1>2, <1>6 DEF ReceivedBefore
    <2> DEFINE g == console.frames[i]
    <2>1. /\ g.boot <= boot /\ (g.boot = boot => g.id <= sequence)
          /\ console.lastAppliedId # None /\ g.id <= console.lastAppliedId
          /\ Subscribed /\ g.boot = boot => \A j \in DOMAIN queue : g.id < queue[j].id
        BY DEF StreamOK, ReceivedBefore
    <2>2. g \in Frames /\ g.id \in Nat
        BY SeqFacts, FrameFacts DEF StreamTypes, ConsoleRecord
    <2> HIDE DEF g
    <2>3. ASSUME Subscribed, g.boot = boot, NEW j \in DOMAIN queue' PROVE g.id < queue'[j].id
        <3>1. CASE j \in DOMAIN queue
            BY <1>6, <2>1, <2>3, <3>1
        <3>2. CASE j \notin DOMAIN queue
            BY <1>0, <1>1, <1>6, <2>1, <2>2, <2>3, <3>2
        <3> QED BY <3>1, <3>2
    <2> QED BY <1>0, <2>1, <2>2, <2>3 DEF g
<1>11. Accounted'
    <2>1. ASSUME Subscribed, FirstBoot, NEW id \in 1 .. sequence + 1
          PROVE  Received(id)' \/ OnItsWay(id)' \/ Lost(id)'
        <3>1. CASE id = sequence + 1
            BY <1>0, <1>1, <1>6, <2>1, <3>1 DEF OnItsWay, Lost
        <3>2. CASE id \in 1 .. sequence
            <4>1. Received(id) \/ OnItsWay(id) \/ Lost(id)
                BY <2>1, <3>2 DEF StreamOK, Accounted
            <4>2. CASE Received(id)
                <5>1. CASE console.frames = <<>>
                    <6>1. ASSUME NEW i \in DOMAIN queue' PROVE id <= queue'[i].id
                        <7>1. CASE i \in DOMAIN queue
                            BY <1>6, <2>1, <4>2, <5>1, <7>1 DEF Received
                        <7>2. CASE i \notin DOMAIN queue
                            BY <1>0, <1>1, <1>6, <2>1, <3>2, <7>2
                        <7> QED BY <7>1, <7>2
                    <6> QED BY <1>0, <5>1, <6>1 DEF Received
                <5>2. CASE console.frames # <<>>
                    BY <1>0, <4>2, <5>2 DEF Received
                <5> QED BY <5>1, <5>2
            <4>3. CASE OnItsWay(id)
                BY <1>6, <2>1, <4>3 DEF OnItsWay
            <4>4. CASE Lost(id)
                BY <1>0, <1>7, <4>4 DEF Lost
            <4> QED BY <4>1, <4>2, <4>3, <4>4
        <3> QED BY <1>0, <3>1, <3>2
    <2>2. Subscribed' /\ FirstBoot' => Subscribed /\ FirstBoot
        BY <1>0, <1>6 DEF FirstBoot
    <2>3. (console.frames = <<>> <=> console.lastAppliedId = None)'
        BY <1>0 DEF StreamOK, Accounted
    <2>4. (console.frames # <<>> /\ console.frames[1].boot = boot =>
              console.lastAppliedId = console.frames[Len(console.frames)].id)'
        BY <1>0 DEF StreamOK, Accounted
    <2> QED BY <1>2, <2>1, <2>2, <2>3, <2>4 DEF Accounted
<1>12. FramesOnceInOrder' /\ NoSilentGap'
    BY <1>0, <1>7, GapsStay DEF StreamOK, FramesOnceInOrder, Precedes
<1> QED BY <1>3, <1>8, <1>9, <1>10, <1>11, <1>12 DEF StreamOK

-----------------------------------------------------------------------------
(* The console without a connection: its timer, its snapshot, a lost       *)
(* connection, and the restart of the agent.                               *)

LEMMA CutOffInv ==
    ASSUME StreamTypes, StreamOK, queue' = None, lost' = lost,
           console' \in ConsoleRecord, console'.conn # "open",
           console'.frames = console.frames, console'.lastAppliedId = console.lastAppliedId,
           drops' \in 0 .. MaxDrops, boot' \in 0 .. MaxBoot, sequence' \in 1 .. MaxFrames,
           ring' \in Seq(Frames), Len(ring') <= ReplayBuffer, RingShape',
           (boot' = boot /\ sequence' = sequence) \/ boot' = boot + 1
    PROVE  StreamTypes' /\ StreamOK'
<1>1. ~Subscribed'
    BY DEF Subscribed
<1>2. StreamTypes'
    BY <1>1 DEF StreamTypes
<1>3. /\ console.frames \in Seq(Frames) /\ boot \in Nat
      /\ DOMAIN console.frames = 1 .. Len(console.frames) /\ Len(console.frames) \in Nat
      /\ \A i \in DOMAIN console.frames : console.frames[i] \in Frames /\ console.frames[i].boot \in Nat
      /\ console.frames # <<>> => 1 \in DOMAIN console.frames
    BY SeqFacts, FrameFacts, Bounds DEF StreamTypes, ConsoleRecord
<1>4. QueueShape' /\ FramesOnceInOrder' /\ NoSilentGap'
    BY <1>1, GapsStay DEF QueueShape, StreamOK, FramesOnceInOrder, Precedes
<1>5. ReceivedBefore'
    <2> SUFFICES ASSUME NEW i \in DOMAIN console.frames
                 PROVE  LET f == console.frames[i]
                        IN  /\ f.boot <= boot' /\ (f.boot = boot' => f.id <= sequence')
                            /\ console.lastAppliedId # None /\ f.id <= console.lastAppliedId
        BY <1>1 DEF ReceivedBefore
    <2>1. LET f == console.frames[i]
          IN  /\ f.boot <= boot /\ (f.boot = boot => f.id <= sequence)
              /\ console.lastAppliedId # None /\ f.id <= console.lastAppliedId
        BY DEF StreamOK, ReceivedBefore
    <2> QED BY <1>3, <2>1
<1>6. Accounted'
    <2>1. console.frames # <<>> => console.frames[1].boot <= boot
        BY <1>3 DEF StreamOK, ReceivedBefore
    <2>2. console.frames # <<>> /\ console.frames[1].boot = boot' => boot' = boot
        BY <1>3, <2>1
    <2> QED BY <1>1, <2>2 DEF StreamOK, Accounted
<1> QED BY <1>2, <1>4, <1>5, <1>6 DEF StreamOK

LEMMA ConnectInv ==
    ASSUME StreamTypes, StreamOK, Connect \/ (Hydrate /\ stored \in 0 .. MaxPhase) \/ Disconnect
    PROVE  StreamTypes' /\ StreamOK'
<1>1. /\ boot' = boot /\ sequence' = sequence /\ ring' = ring /\ lost' = lost
    BY DEF Connect, Hydrate, Disconnect, server
<1>2. /\ console \in [conn : {"waiting", "fetching", "opening", "open"},
                      phase : 0 .. MaxPhase, lastEventId : (1 .. MaxFrames) \cup {None},
                      lastAppliedId : (1 .. MaxFrames) \cup {None},
                      frames : Seq(Frames), refused : SUBSET Frames]
      /\ console.conn = "open" <=> Subscribed
    BY DEF StreamTypes, ConsoleRecord
<1>3. /\ console' \in ConsoleRecord /\ console'.conn # "open" /\ console'.frames = console.frames
      /\ console'.lastAppliedId = console.lastAppliedId
    BY <1>2 DEF Connect, Hydrate, Disconnect, ConsoleRecord
<1>4. queue' = None
    BY <1>2 DEF Connect, Hydrate, Disconnect, Subscribed
<1>5. drops' \in 0 .. MaxDrops
    BY Bounds DEF Connect, Hydrate, Disconnect, StreamTypes
<1>6. RingShape'
    BY <1>1 DEF StreamOK, RingShape
<1> QED BY <1>1, <1>3, <1>4, <1>5, <1>6, CutOffInv DEF StreamTypes

LEMMA RestartStream ==
    ASSUME StreamTypes, StreamOK, phase \in Nat, Restart PROVE StreamTypes' /\ StreamOK'
<1> DEFINE f == Frame(boot + 1, 1, "phase_changed", phase + 1)
           g == Frame(boot + 1, 2, "recovery_required", 0)
           q == Append(Retained(<<f>>), g)
<1>1. /\ boot' = boot + 1 /\ boot + 1 \in 0 .. MaxBoot /\ phase + 1 \in 0 .. MaxPhase
      /\ sequence' = 2 /\ queue' = None /\ lost' = lost /\ drops' = drops
    BY Bounds, SMTT(30) DEF Restart, StreamTypes
<1>2. /\ f \in Frames /\ f.boot = boot + 1 /\ f.id = 1
      /\ g \in Frames /\ g.boot = boot + 1 /\ g.id = 2
    BY <1>1, Bounds, NewFrame DEF Kinds
<1>3. ring' = Retained(q)
    BY DEF Restart
<1> HIDE DEF f, g
<1>4. /\ Retained(<<f>>) = <<f>> /\ <<f>> \in Seq(Frames)
      /\ Len(<<f>>) = 1 /\ <<f>>[1] = f /\ DOMAIN <<f>> = {1}
    BY <1>2, Bounds DEF Retained
<1>5. q = Append(<<f>>, g)
    BY <1>4
<1> HIDE DEF q
<1>6. q \in Seq(Frames) /\ Len(q) = 2 /\ q[1] = f /\ q[2] = g /\ q # <<>> /\ DOMAIN q = 1 .. 2
    <2>1. /\ q \in Seq(Frames) /\ Len(q) = 1 + 1 /\ DOMAIN q = 1 .. 1 + 1
          /\ \A j \in {1} : q[j] = <<f>>[j]
          /\ q[1 + 1] = g
        BY <1>2, <1>4, <1>5, AppendFacts
    <2>2. Len(q) = 2 /\ DOMAIN q = 1 .. 2 /\ q[2] = g
        BY <2>1
    <2>3. q[1] = f
        BY <1>4, <2>1
    <2>4. q # <<>>
        BY <2>1, <2>2, SeqFacts
    <2> QED BY <2>1, <2>2, <2>3, <2>4
<1>7. Len(q) <= ReplayBuffer + 1
    BY <1>6, Bounds
<1>8. PICK k \in {0, 1} :
          /\ Len(ring') = 2 - k /\ DOMAIN ring' = 1 .. 2 - k
          /\ \A j \in DOMAIN ring' : j + k \in DOMAIN q /\ ring'[j] = q[j + k]
    <2>1. \E k \in {0, 1} :
             /\ Len(ring') = Len(q) - k /\ DOMAIN ring' = 1 .. Len(q) - k
             /\ \A j \in DOMAIN ring' : j + k \in DOMAIN q /\ ring'[j] = q[j + k]
        BY <1>3, <1>6, <1>7, RetainedFacts
    <2> QED BY <1>6, <2>1
<1>9. ring' \in Seq(Frames) /\ ring' # <<>> /\ Len(ring') <= ReplayBuffer
    BY <1>3, <1>6, <1>7, RetainedFacts
<1>10. RingShape'
    <2>1. \A i \in 1 .. 2 : q[i].boot = boot + 1 /\ q[i].id = i
        BY <1>2, <1>6
    <2>2. \A j \in DOMAIN ring' : ring'[j].boot = boot + 1 /\ ring'[j].id = j + k
        BY <1>6, <1>8, <2>1
    <2>3. \A j \in DOMAIN ring' : j + k = 2 - Len(ring') + j
        BY <1>8
    <2> QED BY <1>1, <1>9, <2>2, <2>3 DEF RingShape
<1>11. /\ console' \in ConsoleRecord /\ console'.conn # "open" /\ console'.frames = console.frames
       /\ console'.lastAppliedId = console.lastAppliedId
    BY DEF Restart, StreamTypes, ConsoleRecord
<1> QED BY <1>1, <1>9, <1>10, <1>11, Bounds, CutOffInv DEF StreamTypes

-----------------------------------------------------------------------------
(* The connected console.                                                  *)

\* The frames of a console's first process are all of that process.
LEMMA FirstBootOnly ==
    ASSUME StreamTypes, StreamOK, console.frames # <<>>, console.frames[1].boot = boot
    PROVE  \A i \in DOMAIN console.frames : console.frames[i].boot = boot
<1>1. /\ DOMAIN console.frames = 1 .. Len(console.frames) /\ Len(console.frames) \in Nat \ {0}
      /\ \A i \in DOMAIN console.frames : console.frames[i].boot \in Nat
      /\ boot \in Nat
    BY SeqFacts, FrameFacts, Bounds DEF StreamTypes, ConsoleRecord
<1> SUFFICES ASSUME NEW i \in DOMAIN console.frames, i # 1 PROVE console.frames[i].boot = boot
    OBVIOUS
<1>2. Precedes(console.frames[1], console.frames[i])
    BY <1>1 DEF StreamOK, FramesOnceInOrder
<1>3. console.frames[i].boot <= boot
    BY DEF StreamOK, ReceivedBefore
<1> QED BY <1>1, <1>2, <1>3 DEF Precedes

LEMMA SubscribeInv == ASSUME StreamTypes, StreamOK, Subscribe PROVE StreamTypes' /\ StreamOK'
<1> DEFINE last == console.lastAppliedId
<1>1. /\ boot' = boot /\ sequence' = sequence /\ ring' = ring /\ drops' = drops
      /\ queue' = Replay(last) /\ lost \subseteq lost'
      /\ lost' = lost \cup
           IF last = None THEN {}
           ELSE {f \in Frames : /\ f.boot = boot /\ last < f.id
                                /\ \A i \in DOMAIN ring : f.id < ring[i].id}
    BY DEF Subscribe, server
<1>2. /\ console' \in ConsoleRecord /\ console'.conn = "open"
      /\ console'.frames = console.frames /\ console'.lastAppliedId = last
    BY DEF Subscribe, StreamTypes, ConsoleRecord
<1>3. /\ console.frames \in Seq(Frames) /\ last \in (1 .. MaxFrames) \cup {None}
      /\ boot \in 0 .. MaxBoot /\ boot \in Nat /\ sequence \in 1 .. MaxFrames /\ sequence \in Nat
      /\ Len(ring) \in Nat /\ DOMAIN ring = 1 .. Len(ring)
      /\ \A i \in DOMAIN ring : /\ ring[i].boot = boot /\ ring[i].id \in Nat
                                /\ ring[i].id = sequence - Len(ring) + i
    BY SeqFacts, FrameFacts, Bounds DEF StreamTypes, ConsoleRecord, StreamOK, RingShape
<1> HIDE DEF last
\* What is replayed is the ring behind the last frame applied.
<1>4. /\ queue' \in Seq(Frames) /\ Len(queue') <= MaxQueue
      /\ last = None => queue' = <<>>
      /\ \A i \in DOMAIN queue' :
            /\ queue'[i].boot = boot /\ queue'[i].id <= sequence
            /\ last # None => last < queue'[i].id
      /\ \A i, j \in DOMAIN queue' : i < j => queue'[i].id < queue'[j].id
      /\ last # None => \A i \in DOMAIN ring : last < ring[i].id =>
                            \E j \in DOMAIN queue' : queue'[j].id = ring[i].id
    <2>1. CASE last = None
        BY <1>1, <2>1, Bounds DEF Replay
    <2>2. CASE last # None
        <3>1. last \in Nat /\ last + 1 \in Nat
            BY <1>3, <2>2, Bounds
        <3>2. queue' = RingFrom(last + 1)
            BY <1>1, <2>2 DEF Replay
        <3>3. /\ queue' \in Seq(Frames) /\ Len(queue') <= ReplayBuffer
              /\ \A j \in DOMAIN queue' :
                    \E i \in DOMAIN ring : queue'[j] = ring[i] /\ ring[i].id >= last + 1
              /\ \A i, j \in DOMAIN queue' : i < j => queue'[i].id < queue'[j].id
              /\ \A i \in DOMAIN ring :
                    ring[i].id >= last + 1 => \E j \in DOMAIN queue' : queue'[j] = ring[i]
            BY <3>1, <3>2, RingFromFacts DEF StreamOK
        <3>4. Len(queue') <= MaxQueue
            BY <3>3, SeqFacts, Bounds
        <3>5. ASSUME NEW j \in DOMAIN queue'
              PROVE  queue'[j].boot = boot /\ queue'[j].id <= sequence /\ last < queue'[j].id
            <4>1. PICK i \in DOMAIN ring : queue'[j] = ring[i] /\ ring[i].id >= last + 1
                BY <3>3
            <4>2. ring[i].id <= sequence
                BY <1>3
            <4> QED BY <1>3, <3>1, <4>1, <4>2
        <3>6. ASSUME NEW i \in DOMAIN ring, last < ring[i].id
              PROVE  \E j \in DOMAIN queue' : queue'[j].id = ring[i].id
            <4>1. ring[i].id >= last + 1
                BY <1>3, <3>1, <3>6
            <4> QED BY <3>3, <4>1
        <3> QED BY <2>2, <3>3, <3>4, <3>5, <3>6
    <2> QED BY <2>1, <2>2
<1>5. Subscribed'
    BY <1>4, Bounds DEF Subscribed
<1>6. StreamTypes'
    BY <1>1, <1>2, <1>4, <1>5 DEF StreamTypes
<1>7. RingShape' /\ QueueShape' /\ FramesOnceInOrder' /\ NoSilentGap'
    BY <1>1, <1>2, <1>4, GapsStay DEF StreamOK, RingShape, QueueShape, FramesOnceInOrder, Precedes
<1>8. ReceivedBefore'
    <2> SUFFICES ASSUME NEW i \in DOMAIN console.frames
                 PROVE  LET f == console.frames[i]
                        IN  /\ f.boot <= boot /\ (f.boot = boot => f.id <= sequence)
                            /\ last # None /\ f.id <= last
                            /\ f.boot = boot => \A j \in DOMAIN queue' : f.id < queue'[j].id
        BY <1>1, <1>2 DEF ReceivedBefore
    <2>1. LET f == console.frames[i]
          IN  /\ f.boot <= boot /\ (f.boot = boot => f.id <= sequence)
              /\ last # None /\ f.id <= last
        BY DEF StreamOK, ReceivedBefore, last
    <2>2. console.frames[i].id \in Nat /\ last \in Nat
        BY <1>3, <2>1, SeqFacts, FrameFacts, Bounds
    <2>3. \A j \in DOMAIN queue' : queue'[j].id \in Nat /\ last < queue'[j].id
        BY <1>4, <2>1, SeqFacts, FrameFacts
    <2>4. \A j \in DOMAIN queue' : console.frames[i].id < queue'[j].id
        BY <2>1, <2>2, <2>3
    <2> QED BY <2>1, <2>4
<1>9. Accounted'
    <2>1. ASSUME FirstBoot, NEW id \in 1 .. sequence
          PROVE  Received(id)' \/ OnItsWay(id)' \/ Lost(id)'
        <3>1. CASE console.frames = <<>>
            <4>1. queue' = <<>>
                BY <1>4, <3>1 DEF StreamOK, Accounted, last
            <4> QED BY <1>2, <3>1, <4>1 DEF Received
        <3>2. CASE console.frames # <<>>
            <4>1. last # None /\ last \in Nat
                BY <1>3, <3>2, Bounds DEF StreamOK, Accounted, last
            <4>2. CASE id <= last
                BY <1>2, <3>2, <4>2 DEF Received
            <4>3. CASE last < id /\ \E i \in DOMAIN ring : ring[i].id = id
                BY <1>4, <4>1, <4>3 DEF OnItsWay
            <4>4. CASE last < id /\ ~\E i \in DOMAIN ring : ring[i].id = id
                <5>1. id < sequence - Len(ring) + 1
                    <6> DEFINE k == id - (sequence - Len(ring))
                    <6>1. k \in Int /\ id = sequence - Len(ring) + k /\ k <= Len(ring)
                        BY <1>3
                    <6> HIDE DEF k
                    <6>2. ~(k \in DOMAIN ring)
                        BY <1>3, <4>4, <6>1
                    <6>3. k < 1
                        BY <1>3, <6>1, <6>2
                    <6> QED BY <1>3, <6>1, <6>3
                <5>2. \A i \in DOMAIN ring : id < ring[i].id
                    BY <1>3, <5>1
                <5> DEFINE h == Frame(boot, id, "telemetry", 0)
                <5>3. id \in 1 .. MaxFrames /\ 0 \in 0 .. MaxPhase
                    BY <1>3, Bounds
                <5>4. h \in Frames /\ h.boot = boot /\ h.id = id
                    BY <1>3, <5>3, NewFrame DEF Kinds
                <5> HIDE DEF h
                <5>5. h \in lost'
                    BY <1>1, <4>1, <4>4, <5>2, <5>4
                <5> QED BY <1>1, <5>4, <5>5 DEF Lost
            <4>5. id <= last \/ last < id
                BY <4>1
            <4> QED BY <4>2, <4>3, <4>4, <4>5
        <3> QED BY <3>1, <3>2
    <2>2. FirstBoot' => FirstBoot
        BY <1>1, <1>2 DEF FirstBoot
    <2>3. /\ (console.frames = <<>> <=> console.lastAppliedId = None)'
          /\ (console.frames # <<>> /\ console.frames[1].boot = boot =>
                 console.lastAppliedId = console.frames[Len(console.frames)].id)'
        BY <1>1, <1>2 DEF StreamOK, Accounted, last
    <2> QED BY <1>1, <2>1, <2>2, <2>3 DEF Accounted
<1> QED BY <1>6, <1>7, <1>8, <1>9 DEF StreamOK

\* What a delivered frame does to the console.
LEMMA DeliverFacts ==
    ASSUME StreamTypes, StreamOK, Deliver
    PROVE  /\ queue \in Seq(Frames) /\ queue # <<>> /\ queue' = Tail(queue) /\ queue[1] \in Frames
           /\ console' \in ConsoleRecord /\ console'.conn = "open"
           /\ console'.frames = Append(console.frames, queue[1])
           /\ console'.lastAppliedId =
                IF console.lastAppliedId = None \/ queue[1].id > console.lastAppliedId
                THEN queue[1].id ELSE console.lastAppliedId
           /\ UNCHANGED <<boot, sequence, ring, drops, lost>>
<1> DEFINE f == queue[1]
           highest == IF console.lastAppliedId = None \/ f.id > console.lastAppliedId
                      THEN f.id ELSE console.lastAppliedId
           c == Applied(console, f)
<1>1. /\ console \in [conn : {"waiting", "fetching", "opening", "open"},
                      phase : 0 .. MaxPhase, lastEventId : (1 .. MaxFrames) \cup {None},
                      lastAppliedId : (1 .. MaxFrames) \cup {None},
                      frames : Seq(Frames), refused : SUBSET Frames]
      /\ console.conn = "open" /\ queue # <<>>
      /\ console.conn = "open" <=> Subscribed
    BY DEF StreamTypes, ConsoleRecord, Deliver
<1>2. queue \in Seq(Frames)
    BY <1>1 DEF StreamTypes
<1>3. Head(queue) = f /\ f \in Frames /\ f.id \in 1 .. MaxFrames /\ f.phase \in 0 .. MaxPhase
    BY <1>1, <1>2, TailFacts, FrameFacts
<1>4. /\ queue' = Tail(queue) /\ UNCHANGED <<boot, sequence, ring, drops, lost>>
      /\ console' = [c EXCEPT !.frames = Append(@, f), !.lastAppliedId = highest]
    BY <1>3 DEF Deliver, server
<1>5. highest \in (1 .. MaxFrames) \cup {None}
    BY <1>1, <1>3
<1> HIDE DEF f, highest
<1>6. /\ c \in [conn : {"waiting", "fetching", "opening", "open"},
                phase : 0 .. MaxPhase, lastEventId : (1 .. MaxFrames) \cup {None},
                lastAppliedId : (1 .. MaxFrames) \cup {None},
                frames : Seq(Frames), refused : SUBSET Frames]
      /\ c.conn = "open" /\ c.frames = console.frames
    BY <1>1, <1>3 DEF Applied
<1> HIDE DEF c
<1>7. Append(c.frames, f) \in Seq(Frames)
    BY <1>3, <1>6, AppendFacts
<1>8. /\ console' \in ConsoleRecord /\ console'.conn = "open"
      /\ console'.frames = Append(console.frames, f) /\ console'.lastAppliedId = highest
    BY <1>4, <1>5, <1>6, <1>7 DEF ConsoleRecord
<1> QED BY <1>1, <1>2, <1>3, <1>4, <1>8 DEF f, highest

\* The frame that arrives is behind all the frames before it, and every id
\* between it and the last one was lost.
LEMMA DeliverInv == ASSUME StreamTypes, StreamOK, Deliver PROVE StreamTypes' /\ StreamOK'
<1> DEFINE f == queue[1]
           frames == console.frames
           n == Len(frames)
           last == console.lastAppliedId
<1>1. /\ boot' = boot /\ sequence' = sequence /\ ring' = ring /\ drops' = drops /\ lost' = lost
      /\ queue \in Seq(Frames) /\ queue # <<>> /\ queue' = Tail(queue)
      /\ console' \in ConsoleRecord /\ console'.conn = "open"
      /\ console'.frames = Append(frames, f)
      /\ console'.lastAppliedId = IF last = None \/ f.id > last THEN f.id ELSE last
    BY DeliverFacts
<1>2. /\ Subscribed /\ boot \in Nat /\ sequence \in Nat
      /\ frames \in Seq(Frames) /\ last \in (1 .. MaxFrames) \cup {None}
    BY <1>1, Bounds DEF Subscribed, StreamTypes, ConsoleRecord
<1>3. /\ n \in Nat /\ DOMAIN frames = 1 .. n
      /\ \A i \in DOMAIN frames : frames[i] \in Frames /\ frames[i].id \in Nat /\ frames[i].boot \in Nat
      /\ frames = <<>> <=> n = 0
    BY <1>2, SeqFacts, FrameFacts
<1>4. /\ f \in Frames /\ f.id \in Nat /\ f.boot = boot /\ f.id <= sequence
      /\ Len(queue) \in Nat \ {0} /\ DOMAIN queue = 1 .. Len(queue) /\ 1 \in DOMAIN queue
      /\ queue' \in Seq(Frames) /\ Len(queue') = Len(queue) - 1
      /\ DOMAIN queue' = 1 .. Len(queue) - 1
      /\ \A j \in DOMAIN queue' : j + 1 \in DOMAIN queue /\ queue'[j] = queue[j + 1]
    BY <1>1, <1>2, TailFacts, FrameFacts DEF StreamOK, QueueShape
<1>5. /\ \A i \in DOMAIN queue : queue[i].boot = boot /\ queue[i].id <= sequence /\ queue[i].id \in Nat
      /\ \A i, j \in DOMAIN queue : i < j => queue[i].id < queue[j].id
    BY <1>1, <1>2, SeqFacts, FrameFacts DEF StreamOK, QueueShape
<1>6. \A j \in DOMAIN queue' : f.id < queue'[j].id /\ queue'[j].id \in Nat
    BY <1>4, <1>5
<1> HIDE DEF f, frames, n, last
<1>7. /\ console'.frames \in Seq(Frames) /\ Len(console'.frames) = n + 1
      /\ DOMAIN console'.frames = 1 .. n + 1
      /\ \A j \in DOMAIN frames : console'.frames[j] = frames[j]
      /\ console'.frames[n + 1] = f
    BY <1>1, <1>2, <1>4, AppendFacts DEF n
<1>8. /\ console'.lastAppliedId \in Nat /\ f.id <= console'.lastAppliedId
      /\ last # None => last \in Nat /\ last <= console'.lastAppliedId
    BY <1>1, <1>2, <1>4, Bounds
<1>9. \A i \in DOMAIN frames :
         /\ frames[i].boot <= boot /\ (frames[i].boot = boot => frames[i].id <= sequence)
         /\ last # None /\ frames[i].id <= last
         /\ frames[i].boot = boot => \A j \in DOMAIN queue : frames[i].id < queue[j].id
    BY <1>2 DEF StreamOK, ReceivedBefore, frames, last
<1>10. StreamTypes'
    <2>1. Len(queue') <= MaxQueue
        BY <1>2, <1>4, Bounds DEF StreamTypes
    <2>2. Subscribed'
        BY <1>4, Bounds DEF Subscribed
    <2> QED BY <1>1, <1>4, <2>1, <2>2 DEF StreamTypes
<1>11. RingShape' /\ QueueShape'
    <2>1. RingShape'
        BY <1>1 DEF StreamOK, RingShape
    <2>2. \A i \in DOMAIN queue' : queue'[i].boot = boot /\ queue'[i].id <= sequence
        BY <1>4, <1>5
    <2>3. ASSUME NEW i \in DOMAIN queue', NEW j \in DOMAIN queue', i < j
          PROVE  queue'[i].id < queue'[j].id
        <3>1. i + 1 \in DOMAIN queue /\ j + 1 \in DOMAIN queue /\ i + 1 < j + 1
            BY <1>4, <2>3
        <3> QED BY <1>4, <1>5, <3>1
    <2> QED BY <1>1, <2>1, <2>2, <2>3 DEF QueueShape
<1>12. ReceivedBefore'
    <2> SUFFICES ASSUME NEW i \in DOMAIN console'.frames
                 PROVE  LET g == console'.frames[i]
                        IN  /\ g.boot <= boot /\ (g.boot = boot => g.id <= sequence)
                            /\ console'.lastAppliedId # None /\ g.id <= console'.lastAppliedId
                            /\ g.boot = boot => \A j \in DOMAIN queue' : g.id < queue'[j].id
        BY <1>1 DEF ReceivedBefore
    <2>1. CASE i \in DOMAIN frames
        <3>1. console'.frames[i] = frames[i] /\ frames[i].id \in Nat
            BY <1>3, <1>7, <2>1
        <3>2. /\ frames[i].boot <= boot /\ (frames[i].boot = boot => frames[i].id <= sequence)
              /\ last # None /\ frames[i].id <= last
              /\ frames[i].boot = boot => \A j \in DOMAIN queue : frames[i].id < queue[j].id
            BY <1>9, <2>1
        <3>3. console'.lastAppliedId # None /\ frames[i].id <= console'.lastAppliedId
            BY <1>8, <3>1, <3>2, Bounds
        <3>4. frames[i].boot = boot => \A j \in DOMAIN queue' : frames[i].id < queue'[j].id
            BY <1>4, <3>2
        <3> QED BY <3>1, <3>2, <3>3, <3>4
    <2>2. CASE i = n + 1
        <3>1. console'.frames[i] = f
            BY <1>7, <2>2
        <3>2. console'.lastAppliedId # None
            BY <1>8, Bounds
        <3>3. f.boot <= boot
            BY <1>2, <1>4
        <3> QED BY <1>4, <1>6, <1>8, <3>1, <3>2, <3>3
    <2> QED BY <1>3, <1>7, <2>1, <2>2
\* In its first process the console's last id is that of its last frame.
<1>13. FirstBoot => /\ \A i \in DOMAIN frames : frames[i].boot = boot
                    /\ frames # <<>> => last = frames[n].id /\ last \in Nat /\ last < f.id
                                        /\ n \in DOMAIN frames
                    /\ console'.lastAppliedId = f.id
    <2> SUFFICES ASSUME FirstBoot
                 PROVE  /\ \A i \in DOMAIN frames : frames[i].boot = boot
                        /\ frames # <<>> => last = frames[n].id /\ last \in Nat /\ last < f.id
                                            /\ n \in DOMAIN frames
                        /\ console'.lastAppliedId = f.id
        OBVIOUS
    <2>1. CASE frames = <<>>
        <3>1. last = None
            BY <2>1 DEF StreamOK, Accounted, frames, last
        <3> QED BY <1>1, <1>3, <2>1, <3>1
    <2>2. CASE frames # <<>>
        <3>1. frames[1].boot = boot
            BY <2>2 DEF FirstBoot, frames
        <3>2. \A i \in DOMAIN frames : frames[i].boot = boot
            BY <2>2, <3>1, FirstBootOnly DEF frames
        <3>3. last = frames[n].id /\ n \in DOMAIN frames
            BY <1>3, <2>2, <3>1 DEF StreamOK, Accounted, frames, last, n
        <3>4. last < f.id /\ last \in Nat
            BY <1>3, <1>4, <1>9, <3>2, <3>3 DEF f
        <3> QED BY <1>1, <1>4, <3>2, <3>3, <3>4, Bounds
    <2> QED BY <2>1, <2>2
<1>14. Accounted'
    <2>1. console'.frames # <<>> /\ console'.lastAppliedId # None
        BY <1>3, <1>7, <1>8, SeqFacts, Bounds
    <2>2. console'.frames[1].boot = boot => FirstBoot
        BY <1>3, <1>7 DEF FirstBoot, frames
    <2>3. console'.frames[1].boot = boot =>
              console'.lastAppliedId = console'.frames[Len(console'.frames)].id
        BY <1>7, <1>13, <2>2
    <2>4. ASSUME FirstBoot, NEW id \in 1 .. sequence
          PROVE  Received(id)' \/ OnItsWay(id)' \/ Lost(id)'
        <3>1. Received(id) \/ OnItsWay(id) \/ Lost(id)
            BY <1>2, <2>4 DEF StreamOK, Accounted
        <3>2. console'.lastAppliedId = f.id
            BY <1>13, <2>4
        <3>3. CASE Received(id)
            <4>1. id <= f.id
                <5>1. CASE frames = <<>>
                    BY <1>4, <3>3, <5>1 DEF Received, f, frames
                <5>2. CASE frames # <<>>
                    BY <1>4, <1>13, <2>4, <3>3, <5>2 DEF Received, frames, last
                <5> QED BY <5>1, <5>2
            <4> QED BY <2>1, <3>2, <4>1 DEF Received
        <3>4. CASE OnItsWay(id)
            <4>1. PICK i \in DOMAIN queue : queue[i].id = id
                BY <3>4 DEF OnItsWay
            <4>2. CASE i = 1
                BY <1>4, <2>1, <3>2, <4>1, <4>2 DEF Received, f
            <4>3. CASE i # 1
                <5>1. i - 1 \in DOMAIN queue' /\ (i - 1) + 1 = i
                    BY <1>4, <4>3
                <5> QED BY <1>4, <4>1, <5>1 DEF OnItsWay
            <4> QED BY <4>2, <4>3
        <3>5. CASE Lost(id)
            BY <1>1, <3>5 DEF Lost
        <3> QED BY <3>1, <3>3, <3>4, <3>5
    <2>5. FirstBoot' => FirstBoot
        BY <1>1, <2>1, <2>2 DEF FirstBoot
    <2> QED BY <1>1, <2>1, <2>3, <2>4, <2>5 DEF Accounted
<1>15. FramesOnceInOrder'
    <2> SUFFICES ASSUME NEW j \in DOMAIN console'.frames, NEW i \in 1 .. j - 1
                 PROVE  Precedes(console'.frames[i], console'.frames[j])
        BY DEF FramesOnceInOrder, Precedes
    <2>1. i \in DOMAIN frames /\ console'.frames[i] = frames[i]
        BY <1>3, <1>7
    <2>2. CASE j \in DOMAIN frames
        BY <1>3, <1>7, <2>1, <2>2 DEF StreamOK, FramesOnceInOrder, frames
    <2>3. CASE j = n + 1
        <3>1. console'.frames[j] = f
            BY <1>7, <2>3
        <3>2. frames[i].boot \in Nat /\ frames[i].boot <= boot
            BY <1>3, <1>9, <2>1
        <3>3. frames[i].boot = boot => frames[i].id < f.id
            BY <1>4, <1>9, <2>1 DEF f
        <3> QED BY <1>2, <1>4, <2>1, <3>1, <3>2, <3>3 DEF Precedes
    <2> QED BY <1>3, <1>7, <2>2, <2>3
<1>16. NoSilentGap'
    <2>0. 1 .. Len(console'.frames) - 1 = 1 .. n
        BY <1>3, <1>7
    <2> SUFFICES ASSUME NEW i \in 1 .. n,
                        console'.frames[i].boot = console'.frames[i + 1].boot,
                        console'.frames[i + 1].boot = console'.frames[1].boot,
                        NEW id \in console'.frames[i].id + 1 .. console'.frames[i + 1].id - 1
                 PROVE  \E h \in lost : h.boot = console'.frames[i].boot /\ h.id = id
        BY <1>1, <2>0 DEF NoSilentGap
    <2>1. /\ i \in DOMAIN frames /\ 1 \in DOMAIN frames
          /\ console'.frames[i] = frames[i] /\ console'.frames[1] = frames[1]
        BY <1>3, <1>7, SMTT(30)
    <2>2. CASE i + 1 \in DOMAIN frames
        <3>0. console'.frames[i + 1] = frames[i + 1]
            BY <1>7, <2>2
        <3>1. console'.frames[i + 1] = frames[i + 1] /\ i \in 1 .. n - 1
            <4>1. i + 1 \in 1 .. n /\ i \in 1 .. n /\ n \in Nat
                BY <1>3, <2>2
            <4> QED BY <3>0, <4>1
        <3>2. /\ frames[i].boot = frames[i + 1].boot /\ frames[i + 1].boot = frames[1].boot
              /\ id \in frames[i].id + 1 .. frames[i + 1].id - 1
            BY <2>1, <3>1
        <3> QED BY <2>1, <3>1, <3>2 DEF StreamOK, NoSilentGap, frames, n
    <2>3. CASE i = n
        <3>1. console'.frames[i + 1] = f
            BY <1>7, <2>3
        <3>2. FirstBoot
            BY <1>4, <2>1, <3>1 DEF FirstBoot, frames
        <3>3. last = frames[n].id /\ last \in Nat /\ frames # <<>> /\ frames[n].boot = boot
            BY <1>3, <1>13, <2>1, <2>3, <3>2
        <3>4. id \in Nat /\ last < id /\ id < f.id /\ id \in 1 .. sequence
            BY <1>2, <1>4, <2>1, <2>3, <3>1, <3>3, SMTT(30)
        <3>5. ~Received(id)
            BY <3>3, <3>4 DEF Received, frames, last
        <3>6. ~OnItsWay(id)
            <4> SUFFICES ASSUME NEW k \in DOMAIN queue, queue[k].id = id PROVE FALSE
                BY DEF OnItsWay
            <4>1. k = 1 \/ 1 < k
                BY <1>4
            <4>2. f.id <= queue[k].id
                BY <1>4, <1>5, <4>1 DEF f
            <4> QED BY <1>4, <3>4, <4>2
        <3>7. Lost(id)
            BY <1>2, <3>2, <3>4, <3>5, <3>6 DEF StreamOK, Accounted
        <3> QED BY <2>1, <2>3, <3>3, <3>7 DEF Lost
    <2> QED BY <1>3, <2>1, <2>2, <2>3
<1> QED BY <1>10, <1>11, <1>12, <1>14, <1>15, <1>16 DEF StreamOK

-----------------------------------------------------------------------------
(* The trace.                                                              *)

LEMMA AscendingAppend ==
    ASSUME NEW q \in Seq(Nat), NEW e \in Nat, Ascending(q), \A i \in DOMAIN q : q[i] < e
    PROVE  Ascending(Append(q, e))
<1>1. /\ Len(q) \in Nat /\ DOMAIN q = 1 .. Len(q) /\ DOMAIN Append(q, e) = 1 .. Len(q) + 1
      /\ \A j \in DOMAIN q : Append(q, e)[j] = q[j]
      /\ Append(q, e)[Len(q) + 1] = e
    BY AppendFacts
<1> SUFFICES ASSUME NEW j \in DOMAIN Append(q, e), NEW i \in 1 .. j - 1
             PROVE  Append(q, e)[i] < Append(q, e)[j]
    BY DEF Ascending
<1>2. i \in DOMAIN q /\ Append(q, e)[i] = q[i]
    BY <1>1
<1>3. CASE j \in DOMAIN q
    BY <1>1, <1>2, <1>3 DEF Ascending
<1>4. CASE j = Len(q) + 1
    BY <1>1, <1>2, <1>4
<1> QED BY <1>1, <1>3, <1>4

LEMMA AscendingTail ==
    ASSUME NEW q \in Seq(Nat), q # <<>>, Ascending(q)
    PROVE  Ascending(Tail(q)) /\ \A j \in DOMAIN Tail(q) : q[1] < Tail(q)[j]
<1>1. /\ Len(q) \in Nat \ {0} /\ DOMAIN q = 1 .. Len(q) /\ DOMAIN Tail(q) = 1 .. Len(q) - 1
      /\ \A j \in DOMAIN Tail(q) : j + 1 \in DOMAIN q /\ Tail(q)[j] = q[j + 1]
    BY TailFacts
<1>2. ASSUME NEW j \in DOMAIN Tail(q), NEW i \in 1 .. j - 1 PROVE Tail(q)[i] < Tail(q)[j]
    <2>1. i \in DOMAIN Tail(q) /\ i + 1 \in 1 .. (j + 1) - 1 /\ j + 1 \in DOMAIN q
        BY <1>1, SMTT(30)
    <2> QED BY <1>1, <2>1 DEF Ascending
<1>3. ASSUME NEW j \in DOMAIN Tail(q) PROVE q[1] < Tail(q)[j]
    <2>1. j + 1 \in DOMAIN q /\ 1 \in 1 .. (j + 1) - 1
        BY <1>1
    <2> QED BY <1>1, <2>1 DEF Ascending
<1> QED BY <1>2, <1>3 DEF Ascending

LEMMA TraceFacts ==
    ASSUME TraceTypes
    PROVE  /\ phase \in Nat \ {0}
           /\ rows \in Seq(Nat) /\ \A i \in DOMAIN rows : rows[i] \in 1 .. phase
           /\ buffer \in Seq(Nat) /\ \A i \in DOMAIN buffer : buffer[i] \in 1 .. phase
           /\ \A f \in Flushers : /\ flushing[f] \in Seq(1 .. phase) /\ flushing[f] \in Seq(Nat)
                                  /\ \A i \in DOMAIN flushing[f] : flushing[f][i] \in 1 .. phase
<1>1. phase \in Nat \ {0} /\ 1 .. phase \subseteq Nat
    BY DEF TraceTypes
<1>2. \A f \in Flushers : flushing[f] \in Seq(1 .. phase)
    BY DEF TraceTypes
<1>3. \A q \in Seq(1 .. phase) : q \in Seq(Nat) /\ \A i \in DOMAIN q : q[i] \in 1 .. phase
    BY <1>1, SeqGrows, SeqFacts
<1> QED BY <1>1, <1>2, <1>3 DEF TraceTypes

\* The phase grows by one: what was recorded is still of a phase.
LEMMA PhaseGrows ==
    ASSUME TraceTypes, phase + 1 <= MaxPhase
    PROVE  /\ phase + 1 \in 1 .. MaxPhase /\ phase + 1 \in 1 .. phase + 1
           /\ 1 .. phase \subseteq 1 .. phase + 1
           /\ rows \in Seq(1 .. phase + 1) /\ buffer \in Seq(1 .. phase + 1)
           /\ flushing \in [Flushers -> Seq(1 .. phase + 1)]
<1>1. phase \in Nat \ {0} /\ phase + 1 \in Nat \ {0} /\ 1 .. phase \subseteq 1 .. phase + 1
    BY DEF TraceTypes
<1>2. \A q \in Seq(1 .. phase) : q \in Seq(1 .. phase + 1)
    BY <1>1, SeqGrows
<1> QED BY <1>1, <1>2, Bounds DEF TraceTypes

LEMMA ChangePhaseTrace == ASSUME TraceTypes, TraceOK, ChangePhase PROVE TraceTypes' /\ TraceOK'
<1>1. /\ phase' = phase + 1 /\ stored' = stored /\ buffer' = Append(buffer, phase + 1)
      /\ flushing' = flushing /\ rows' = rows /\ skipped' = skipped /\ loop' = loop
    BY DEF ChangePhase
<1>2. phase \in Nat \ {0} /\ phase + 1 <= MaxPhase
    BY TraceFacts, Bounds DEF ChangePhase
<1>3. /\ phase + 1 \in 1 .. MaxPhase /\ phase + 1 \in 1 .. phase + 1
      /\ 1 .. phase \subseteq 1 .. phase + 1
      /\ rows \in Seq(1 .. phase + 1) /\ buffer \in Seq(1 .. phase + 1)
      /\ flushing \in [Flushers -> Seq(1 .. phase + 1)]
    BY <1>2, PhaseGrows
<1>4. /\ buffer' \in Seq(1 .. phase + 1) /\ Len(buffer) \in Nat
      /\ DOMAIN buffer = 1 .. Len(buffer) /\ DOMAIN buffer' = 1 .. Len(buffer) + 1
      /\ \A j \in DOMAIN buffer : buffer'[j] = buffer[j]
      /\ buffer'[Len(buffer) + 1] = phase + 1
    BY <1>1, <1>3, AppendFacts
<1>5. TraceTypes'
    BY <1>1, <1>3, <1>4 DEF TraceTypes
<1>6. \A j \in DOMAIN buffer' : j \in DOMAIN buffer \/ j = Len(buffer) + 1
    BY <1>4
<1>7. Ascending(buffer')
    <2>1. \A i \in DOMAIN buffer : buffer[i] < phase + 1
        BY <1>2, TraceFacts
    <2> QED BY <1>1, <1>2, <2>1, TraceFacts, AscendingAppend DEF TraceOK, InOrder
<1>8. Before(rows, buffer')
    <2>1. \A i \in DOMAIN rows : rows[i] < phase + 1
        BY <1>2, TraceFacts
    <2> QED BY <1>4, <1>6, <2>1 DEF TraceOK, InOrder, Before
<1>9. \A f \in Flushers : Before(flushing[f], buffer')
    <2> SUFFICES ASSUME NEW f \in Flushers PROVE Before(flushing[f], buffer')
        OBVIOUS
    <2>1. \A i \in DOMAIN flushing[f] : flushing[f][i] < phase + 1
        BY <1>2, TraceFacts
    <2> QED BY <1>4, <1>6, <2>1 DEF TraceOK, InOrder, Before
<1>10. InOrder'
    BY <1>1, <1>7, <1>8, <1>9 DEF TraceOK, InOrder
<1>11. Covered'
    <2>1. Len(buffer) + 1 \in DOMAIN buffer' /\ DOMAIN buffer \subseteq DOMAIN buffer'
        BY <1>4
    <2>2. \A p \in 1 .. phase + 1 : p \in 1 .. phase \/ p = phase + 1
        BY <1>2
    <2> QED BY <1>1, <1>4, <2>1, <2>2 DEF TraceOK, Covered
<1>12. OneFlusher'
    BY <1>1 DEF TraceOK, OneFlusher
<1> QED BY <1>5, <1>10, <1>11, <1>12 DEF TraceOK

LEMMA PersistPhaseTrace == ASSUME TraceTypes, TraceOK, PersistPhase PROVE TraceTypes' /\ TraceOK'
<1>1. /\ phase' = phase /\ stored' = phase /\ UNCHANGED <<buffer, flushing, rows, loop, skipped>>
      /\ phase \in 1 .. phase
    BY TraceFacts DEF PersistPhase, trace
<1> QED BY <1>1 DEF TraceTypes, TraceOK, OneFlusher, InOrder, Ascending, Before, Covered

\* Only a flusher that finds the lock free takes the buffer.
LEMMA BeginFlushTrace ==
    ASSUME TraceTypes, TraceOK, NEW f \in Flushers, BeginFlush(f)
    PROVE  TraceTypes' /\ TraceOK'
<1>1. /\ phase' = phase /\ stored' = stored /\ buffer' = <<>> /\ rows' = rows /\ skipped' = skipped
      /\ loop' = loop /\ flushing' = [flushing EXCEPT ![f] = buffer]
      /\ \A g \in Flushers : flushing[g] = <<>>
    BY DEF BeginFlush, server, LockFree
<1>2. /\ flushing' \in [Flushers -> Seq(1 .. phase)] /\ flushing'[f] = buffer
      /\ \A g \in Flushers \ {f} : flushing'[g] = <<>>
    BY <1>1 DEF TraceTypes
<1>3. TraceTypes'
    BY <1>1, <1>2 DEF TraceTypes
<1>4. OneFlusher'
    BY <1>2 DEF OneFlusher
<1>5. InOrder'
    <2>1. \A p : Before(p, <<>>) /\ Before(<<>>, p) /\ Ascending(<<>>)
        BY DEF Before, Ascending
    <2>2. \A g \in Flushers : /\ Ascending(flushing'[g])
                              /\ Before(rows, flushing'[g]) /\ Before(flushing'[g], <<>>)
        BY <1>2, <2>1 DEF TraceOK, InOrder
    <2> QED BY <1>1, <2>1, <2>2 DEF TraceOK, InOrder
<1>6. Covered'
    BY <1>1, <1>2 DEF TraceOK, Covered
<1> QED BY <1>3, <1>4, <1>5, <1>6 DEF TraceOK

LEMMA FlushRowTrace ==
    ASSUME TraceTypes, TraceOK, NEW f \in Flushers, FlushRow(f)
    PROVE  TraceTypes' /\ TraceOK'
<1> DEFINE q == flushing[f]
<1>1. /\ phase' = phase /\ stored' = stored /\ buffer' = buffer /\ q # <<>>
      /\ loop' = loop /\ flushing' = [flushing EXCEPT ![f] = Tail(q)]
      /\ \/ rows' = Append(rows, Head(q)) /\ skipped' = skipped
         \/ rows' = rows /\ skipped' = skipped \cup {Head(q)}
    BY DEF FlushRow, server
<1>2. q \in Seq(1 .. phase) /\ q \in Seq(Nat) /\ phase \in Nat \ {0} /\ Ascending(q)
    BY TraceFacts DEF TraceOK, InOrder
<1>3. /\ Tail(q) \in Seq(1 .. phase) /\ Head(q) = q[1] /\ q[1] \in 1 .. phase /\ 1 \in DOMAIN q
      /\ Len(q) \in Nat \ {0} /\ DOMAIN q = 1 .. Len(q) /\ DOMAIN Tail(q) = 1 .. Len(q) - 1
      /\ \A j \in DOMAIN Tail(q) : j + 1 \in DOMAIN q /\ Tail(q)[j] = q[j + 1]
    BY <1>1, <1>2, TailFacts
<1>4. Ascending(Tail(q)) /\ \A j \in DOMAIN Tail(q) : q[1] < Tail(q)[j]
    BY <1>1, <1>2, AscendingTail
<1>5. /\ flushing' \in [Flushers -> Seq(1 .. phase)] /\ flushing'[f] = Tail(q)
      /\ \A g \in Flushers \ {f} : flushing'[g] = flushing[g] /\ flushing[g] = <<>>
    BY <1>1, <1>3 DEF TraceTypes, TraceOK, OneFlusher
<1>6. /\ Before(rows, q) /\ Before(q, buffer) /\ Ascending(rows) /\ Ascending(buffer)
      /\ Before(rows, buffer)
    BY DEF TraceOK, InOrder
<1>7. Before(rows, Tail(q)) /\ Before(Tail(q), buffer)
    BY <1>3, <1>6 DEF Before
<1> HIDE DEF q
<1>8. OneFlusher'
    BY <1>5 DEF OneFlusher
<1>9. CASE rows' = Append(rows, q[1]) /\ skipped' = skipped
    <2>1. rows \in Seq(1 .. phase)
        BY DEF TraceTypes
    <2>2. /\ rows' \in Seq(1 .. phase) /\ Len(rows) \in Nat
          /\ DOMAIN rows = 1 .. Len(rows) /\ DOMAIN rows' = 1 .. Len(rows) + 1
          /\ \A j \in DOMAIN rows : rows'[j] = rows[j]
          /\ rows'[Len(rows) + 1] = q[1]
        BY <1>3, <1>9, <2>1, AppendFacts
    <2>3. \A j \in DOMAIN rows' : j \in DOMAIN rows \/ j = Len(rows) + 1
        BY <2>2
    <2>4. Ascending(rows')
        <3>1. rows \in Seq(Nat) /\ q[1] \in Nat
            BY <1>2, <1>3, TraceFacts
        <3>2. \A i \in DOMAIN rows : rows[i] < q[1]
            BY <1>3, <1>6 DEF Before
        <3> QED BY <1>6, <1>9, <3>1, <3>2, AscendingAppend
    <2>5. Before(rows', Tail(q)) /\ Before(rows', buffer)
        BY <1>3, <1>4, <1>6, <1>7, <2>2, <2>3 DEF Before
    <2>6. TraceTypes'
        BY <1>1, <1>5, <1>9, <2>2 DEF TraceTypes
    <2>7. InOrder'
        <3>1. ASSUME NEW g \in Flushers
              PROVE  /\ Ascending(flushing'[g])
                     /\ Before(rows', flushing'[g]) /\ Before(flushing'[g], buffer)
            <4>1. CASE g = f
                BY <1>4, <1>5, <1>7, <2>5, <4>1
            <4>2. CASE g # f
                BY <1>5, <4>2 DEF Before, Ascending
            <4> QED BY <4>1, <4>2
        <3> QED BY <1>1, <1>6, <2>4, <2>5, <3>1 DEF InOrder
    <2>8. Covered'
        <3> SUFFICES ASSUME NEW p \in 1 .. phase
                     PROVE  \/ p \in skipped
                            \/ \E i \in DOMAIN rows' : rows'[i] = p
                            \/ \E i \in DOMAIN buffer : buffer[i] = p
                            \/ \E g \in Flushers : \E i \in DOMAIN flushing'[g] : flushing'[g][i] = p
            BY <1>1, <1>9 DEF Covered
        <3>1. \/ p \in skipped
              \/ \E i \in DOMAIN rows : rows[i] = p
              \/ \E i \in DOMAIN buffer : buffer[i] = p
              \/ \E g \in Flushers : \E i \in DOMAIN flushing[g] : flushing[g][i] = p
            BY DEF TraceOK, Covered
        <3>2. DOMAIN rows \subseteq DOMAIN rows' /\ Len(rows) + 1 \in DOMAIN rows'
            BY <2>2
        <3>3. CASE \E i \in DOMAIN rows : rows[i] = p
            BY <2>2, <3>2, <3>3
        <3>4. CASE \E g \in Flushers : \E i \in DOMAIN flushing[g] : flushing[g][i] = p
            <4>1. PICK i \in DOMAIN q : q[i] = p
                BY <1>5, <3>4 DEF q
            <4>2. CASE i = 1
                BY <2>2, <3>2, <4>1, <4>2
            <4>3. CASE i # 1
                <5>1. i - 1 \in DOMAIN Tail(q) /\ Tail(q)[i - 1] = p
                    <6>1. i - 1 \in DOMAIN Tail(q) /\ (i - 1) + 1 = i
                        BY <1>3, <4>3
                    <6> QED BY <1>3, <4>1, <6>1
                <5> QED BY <1>5, <5>1
            <4> QED BY <4>2, <4>3
        <3> QED BY <3>1, <3>3, <3>4
    <2> QED BY <1>8, <2>6, <2>7, <2>8 DEF TraceOK
<1>10. CASE rows' = rows /\ skipped' = skipped \cup {q[1]}
    <2>1. TraceTypes'
        BY <1>1, <1>3, <1>5, <1>10 DEF TraceTypes
    <2>2. InOrder'
        <3>1. ASSUME NEW g \in Flushers
              PROVE  /\ Ascending(flushing'[g])
                     /\ Before(rows, flushing'[g]) /\ Before(flushing'[g], buffer)
            <4>1. CASE g = f
                BY <1>4, <1>5, <1>7, <4>1
            <4>2. CASE g # f
                BY <1>5, <4>2 DEF Before, Ascending
            <4> QED BY <4>1, <4>2
        <3> QED BY <1>1, <1>6, <1>10, <3>1 DEF InOrder
    <2>3. Covered'
        <3> SUFFICES ASSUME NEW p \in 1 .. phase, p # q[1],
                            \E g \in Flushers : \E i \in DOMAIN flushing[g] : flushing[g][i] = p
                     PROVE  \E g \in Flushers : \E i \in DOMAIN flushing'[g] : flushing'[g][i] = p
            BY <1>1, <1>10 DEF TraceOK, Covered
        <3>1. PICK i \in DOMAIN q : q[i] = p
            BY <1>5 DEF q
        <3>2. i - 1 \in DOMAIN Tail(q) /\ (i - 1) + 1 = i
            BY <1>3, <3>1
        <3>3. Tail(q)[i - 1] = p
            BY <1>3, <3>1, <3>2
        <3> QED BY <1>5, <3>2, <3>3
    <2> QED BY <1>8, <2>1, <2>2, <2>3 DEF TraceOK
<1> QED BY <1>1, <1>3, <1>9, <1>10

\* A cancelled flush skips its batch, but for the head that may have landed.
LEMMA FlushCancelledTrace ==
    ASSUME TraceTypes, TraceOK, NEW f \in Flushers, FlushCancelled(f)
    PROVE  TraceTypes' /\ TraceOK'
<1> DEFINE q == flushing[f]
<1>1. /\ phase' = phase /\ stored' = stored /\ buffer' = buffer /\ q # <<>>
      /\ flushing' = [flushing EXCEPT ![f] = <<>>]
      /\ loop' \in {"records", "retries", "over"}
      /\ \/ rows' = Append(rows, Head(q)) /\ skipped' = skipped \cup ToSet(Tail(q))
         \/ rows' = rows /\ skipped' = skipped \cup ToSet(q)
    BY DEF FlushCancelled, server, TraceTypes
<1>2. q \in Seq(1 .. phase) /\ q \in Seq(Nat) /\ phase \in Nat \ {0} /\ Ascending(q)
    BY TraceFacts DEF TraceOK, InOrder
<1>3. /\ Tail(q) \in Seq(1 .. phase) /\ Head(q) = q[1] /\ q[1] \in 1 .. phase /\ 1 \in DOMAIN q
      /\ Len(q) \in Nat \ {0} /\ DOMAIN q = 1 .. Len(q) /\ DOMAIN Tail(q) = 1 .. Len(q) - 1
      /\ \A j \in DOMAIN Tail(q) : j + 1 \in DOMAIN q /\ Tail(q)[j] = q[j + 1]
    BY <1>1, <1>2, TailFacts
<1>4. /\ flushing' \in [Flushers -> Seq(1 .. phase)]
      /\ \A g \in Flushers : flushing'[g] = <<>>
      /\ \A g \in Flushers \ {f} : flushing[g] = <<>>
    BY <1>1 DEF TraceTypes, TraceOK, OneFlusher
<1>5. /\ Before(rows, q) /\ Before(q, buffer) /\ Ascending(rows) /\ Ascending(buffer)
      /\ Before(rows, buffer)
    BY DEF TraceOK, InOrder
<1>6. ToSet(q) \subseteq 1 .. phase /\ ToSet(Tail(q)) \subseteq 1 .. phase
    BY <1>2, <1>3, SeqFacts DEF ToSet
<1> HIDE DEF q
<1>7. OneFlusher'
    BY <1>4 DEF OneFlusher
<1>8. \A p : Before(p, <<>>) /\ Before(<<>>, p) /\ Ascending(<<>>)
    BY DEF Before, Ascending
<1>9. CASE rows' = Append(rows, q[1]) /\ skipped' = skipped \cup ToSet(Tail(q))
    <2>1. rows \in Seq(1 .. phase)
        BY DEF TraceTypes
    <2>2. /\ rows' \in Seq(1 .. phase) /\ Len(rows) \in Nat
          /\ DOMAIN rows = 1 .. Len(rows) /\ DOMAIN rows' = 1 .. Len(rows) + 1
          /\ \A j \in DOMAIN rows : rows'[j] = rows[j]
          /\ rows'[Len(rows) + 1] = q[1]
        BY <1>3, <1>9, <2>1, AppendFacts
    <2>3. TraceTypes'
        BY <1>1, <1>4, <1>6, <1>9, <2>2 DEF TraceTypes
    <2>4. Ascending(rows')
        <3>1. rows \in Seq(Nat) /\ q[1] \in Nat
            BY <1>2, <1>3, TraceFacts
        <3>2. \A i \in DOMAIN rows : rows[i] < q[1]
            BY <1>3, <1>5 DEF Before
        <3> QED BY <1>5, <1>9, <3>1, <3>2, AscendingAppend
    <2>5. Before(rows', buffer)
        BY <1>3, <1>5, <2>2 DEF Before
    <2>6. InOrder'
        BY <1>1, <1>4, <1>5, <1>8, <2>4, <2>5 DEF InOrder
    <2>7. \A p : (\E i \in DOMAIN q : q[i] = p) => p = q[1] \/ p \in ToSet(Tail(q))
        <3> SUFFICES ASSUME NEW i \in DOMAIN q, i # 1 PROVE q[i] \in ToSet(Tail(q))
            OBVIOUS
        <3>1. i - 1 \in DOMAIN Tail(q) /\ (i - 1) + 1 = i
            BY <1>3
        <3>2. Tail(q)[i - 1] = q[i]
            BY <1>3, <3>1
        <3> QED BY <3>1, <3>2 DEF ToSet
    <2>8. Covered'
        <3>1. DOMAIN rows \subseteq DOMAIN rows' /\ Len(rows) + 1 \in DOMAIN rows'
            BY <2>2
        <3>2. \A p \in 1 .. phase :
                 \/ p \in skipped
                 \/ \E i \in DOMAIN rows : rows[i] = p
                 \/ \E i \in DOMAIN buffer : buffer[i] = p
                 \/ \E i \in DOMAIN q : q[i] = p
            BY <1>4 DEF TraceOK, Covered, q
        <3>3. ASSUME NEW p \in 1 .. phase
              PROVE  \/ p \in skipped'
                     \/ \E i \in DOMAIN rows' : rows'[i] = p
                     \/ \E i \in DOMAIN buffer : buffer[i] = p
            <4>1. CASE p \in skipped \/ \E i \in DOMAIN buffer : buffer[i] = p
                BY <1>9, <4>1
            <4>2. CASE \E i \in DOMAIN rows : rows[i] = p
                BY <2>2, <3>1, <4>2
            <4>3. CASE \E i \in DOMAIN q : q[i] = p
                BY <1>9, <2>2, <2>7, <3>1, <4>3
            <4> QED BY <3>2, <4>1, <4>2, <4>3
        <3> QED BY <1>1, <3>3 DEF Covered
    <2> QED BY <1>7, <2>3, <2>6, <2>8 DEF TraceOK
<1>10. CASE rows' = rows /\ skipped' = skipped \cup ToSet(q)
    <2>1. TraceTypes'
        BY <1>1, <1>4, <1>6, <1>10 DEF TraceTypes
    <2>2. InOrder'
        BY <1>1, <1>4, <1>5, <1>8, <1>10 DEF InOrder
    <2>3. \A i \in DOMAIN q : q[i] \in ToSet(q)
        BY DEF ToSet
    <2>4. Covered'
        <3>1. \A p \in 1 .. phase :
                 \/ p \in skipped
                 \/ \E i \in DOMAIN rows : rows[i] = p
                 \/ \E i \in DOMAIN buffer : buffer[i] = p
                 \/ \E i \in DOMAIN q : q[i] = p
            BY <1>4 DEF TraceOK, Covered, q
        <3> QED BY <1>1, <1>10, <2>3, <3>1 DEF Covered
    <2> QED BY <1>7, <2>1, <2>2, <2>4 DEF TraceOK
<1> QED BY <1>1, <1>3, <1>9, <1>10

\* Behind a durable end the buffer is skipped; what is being written is not.
LEMMA AfterEndTrace ==
    ASSUME TraceTypes, TraceOK, RetryOnlyAfterEnd \/ DiscardDrained
    PROVE  TraceTypes' /\ TraceOK'
<1>1. CASE RetryOnlyAfterEnd
    <2>1. UNCHANGED <<phase, stored, buffer, flushing, rows, skipped>> /\ loop' = "retries"
        BY <1>1 DEF RetryOnlyAfterEnd, server
    <2> QED BY <2>1 DEF TraceTypes, TraceOK, OneFlusher, InOrder, Ascending, Before, Covered
<1>2. CASE DiscardDrained
    <2>1. /\ UNCHANGED <<phase, stored, flushing, rows, loop>> /\ buffer' = <<>>
          /\ skipped' = skipped \cup ToSet(buffer)
        BY <1>2 DEF DiscardDrained, server
    <2>2. TraceTypes'
        <3>1. ToSet(buffer) \subseteq 1 .. phase
            BY TraceFacts DEF ToSet
        <3>2. skipped \subseteq 1 .. phase
            BY DEF TraceTypes
        <3>3. skipped' \subseteq 1 .. phase
            BY <2>1, <3>1, <3>2
        <3>4. buffer' \in Seq(1 .. phase)
            BY <2>1
        <3> QED BY <2>1, <3>3, <3>4 DEF TraceTypes
    <2>3. OneFlusher'
        BY <2>1 DEF TraceOK, OneFlusher
    <2>4. InOrder'
        <3>1. \A p : Before(p, <<>>) /\ Ascending(<<>>)
            BY DEF Before, Ascending
        <3>2. /\ Ascending(rows)
              /\ \A f \in Flushers : Ascending(flushing[f]) /\ Before(rows, flushing[f])
            BY DEF TraceOK, InOrder
        <3> QED BY <2>1, <3>1, <3>2 DEF InOrder
    <2>5. Covered'
        <3>1. \A i \in DOMAIN buffer : buffer[i] \in ToSet(buffer)
            BY DEF ToSet
        <3>2. \A p \in 1 .. phase :
                 \/ p \in skipped
                 \/ \E i \in DOMAIN rows : rows[i] = p
                 \/ \E i \in DOMAIN buffer : buffer[i] = p
                 \/ \E f \in Flushers : \E i \in DOMAIN flushing[f] : flushing[f][i] = p
            BY DEF TraceOK, Covered
        <3>3. \A p \in 1 .. phase :
                 \/ p \in skipped'
                 \/ \E i \in DOMAIN rows : rows[i] = p
                 \/ \E f \in Flushers : \E i \in DOMAIN flushing[f] : flushing[f][i] = p
            BY <2>1, <3>1, <3>2
        <3> QED BY <2>1, <3>3 DEF Covered
    <2> QED BY <2>2, <2>3, <2>4, <2>5 DEF TraceOK
<1> QED BY <1>1, <1>2

\* A dead process skips what it had not written.
LEMMA RestartTrace == ASSUME TraceTypes, TraceOK, Restart PROVE TraceTypes' /\ TraceOK'
<1>1. /\ phase' = phase + 1 /\ stored' = phase + 1 /\ buffer' = <<>> /\ rows' = Append(rows, phase + 1)
      /\ loop' = "records" /\ flushing' = [f \in Flushers |-> <<>>]
      /\ skipped' = skipped \cup ToSet(buffer) \cup UNION {ToSet(flushing[f]) : f \in Flushers}
    BY DEF Restart
<1>2. phase \in Nat \ {0} /\ phase + 1 <= MaxPhase
    BY TraceFacts, Bounds DEF Restart
<1>3. /\ phase + 1 \in 1 .. MaxPhase /\ phase + 1 \in 1 .. phase + 1
      /\ 1 .. phase \subseteq 1 .. phase + 1 /\ rows \in Seq(1 .. phase + 1)
    BY <1>2, PhaseGrows
<1>4. /\ rows' \in Seq(1 .. phase + 1) /\ Len(rows) \in Nat
      /\ DOMAIN rows = 1 .. Len(rows) /\ DOMAIN rows' = 1 .. Len(rows) + 1
      /\ \A j \in DOMAIN rows : rows'[j] = rows[j]
      /\ rows'[Len(rows) + 1] = phase + 1
    BY <1>1, <1>3, AppendFacts
<1>5. skipped' \subseteq 1 .. phase + 1
    <2>1. skipped \subseteq 1 .. phase
        BY DEF TraceTypes
    <2>2. ToSet(buffer) \subseteq 1 .. phase
        BY TraceFacts DEF ToSet
    <2>3. \A f \in Flushers : ToSet(flushing[f]) \subseteq 1 .. phase
        BY TraceFacts DEF ToSet
    <2>4. UNION {ToSet(flushing[f]) : f \in Flushers} \subseteq 1 .. phase
        BY <2>3
    <2> QED BY <1>1, <1>3, <2>1, <2>2, <2>4
<1>6. TraceTypes'
    BY <1>1, <1>3, <1>4, <1>5 DEF TraceTypes
<1>7. OneFlusher'
    BY <1>1 DEF OneFlusher
<1>8. InOrder'
    <2>1. \A i \in DOMAIN rows : rows[i] < phase + 1
        BY <1>2, TraceFacts
    <2>2. Ascending(rows')
        <3>1. rows \in Seq(Nat) /\ phase + 1 \in Nat /\ Ascending(rows)
            BY <1>2, TraceFacts DEF TraceOK, InOrder
        <3> QED BY <1>1, <2>1, <3>1, AscendingAppend
    <2>3. \A p : Before(p, <<>>) /\ Before(<<>>, p) /\ Ascending(<<>>)
        BY DEF Before, Ascending
    <2> QED BY <1>1, <2>2, <2>3 DEF InOrder
<1>9. Covered'
    <2> SUFFICES ASSUME NEW p \in 1 .. phase + 1
                 PROVE  p \in skipped' \/ \E i \in DOMAIN rows' : rows'[i] = p
        BY <1>1 DEF Covered
    <2>1. DOMAIN rows \subseteq DOMAIN rows' /\ Len(rows) + 1 \in DOMAIN rows'
        BY <1>4
    <2>2. CASE p = phase + 1
        BY <1>4, <2>1, <2>2
    <2>3. CASE p \in 1 .. phase
        BY <1>1, <1>4, <2>1, <2>3 DEF TraceOK, Covered, ToSet
    <2> QED BY <1>2, <2>2, <2>3
<1> QED BY <1>6, <1>7, <1>8, <1>9 DEF TraceOK

-----------------------------------------------------------------------------
(* The invariant.                                                          *)

LEMMA InitInv == ASSUME Init PROVE IInv
<1> DEFINE f == Frame(0, 1, "phase_changed", 1)
<1>1. /\ boot = 0 /\ sequence = 1 /\ ring = <<f>> /\ queue = None /\ phase = 1 /\ stored = 1
      /\ buffer = <<>> /\ flushing = [g \in Flushers |-> <<>>] /\ rows = <<1>> /\ skipped = {}
      /\ loop = "records"
      /\ drops = 0 /\ lost = {}
    BY DEF Init
<1>2. console = [conn |-> "fetching", phase |-> 0, lastEventId |-> None,
                 lastAppliedId |-> None, frames |-> <<>>, refused |-> {}]
    BY DEF Init
<1>3. f \in Frames /\ f.boot = 0 /\ f.id = 1
    BY Bounds, NewFrame DEF Kinds
<1> HIDE DEF f
<1>4. ring \in Seq(Frames) /\ Len(ring) = 1 /\ DOMAIN ring = {1} /\ ring[1] = f /\ ring # <<>>
    BY <1>1, <1>3
<1>5. /\ console \in ConsoleRecord /\ console.conn = "fetching"
      /\ console.frames = <<>> /\ console.lastAppliedId = None
    BY <1>2, Bounds DEF ConsoleRecord
<1>6. StreamTypes
    BY <1>1, <1>4, <1>5, Bounds DEF StreamTypes, Subscribed
<1>7. RingShape
    BY <1>1, <1>3, <1>4 DEF RingShape
<1>8. DOMAIN console.frames = {} /\ Len(console.frames) = 0
    BY <1>5
<1>9. QueueShape /\ ReceivedBefore /\ Accounted /\ FramesOnceInOrder
    BY <1>1, <1>5, <1>8 DEF QueueShape, ReceivedBefore, Accounted, FramesOnceInOrder, Subscribed
<1>10. NoSilentGap
    <2>1. 1 .. Len(console.frames) - 1 = {}
        BY <1>8
    <2> QED BY <2>1 DEF NoSilentGap
<1>11. rows \in Seq(1 .. 1) /\ DOMAIN rows = {1} /\ rows[1] = 1 /\ DOMAIN buffer = {}
    BY <1>1
<1>12. TraceTypes
    BY <1>1, <1>11, Bounds DEF TraceTypes
<1>13. OneFlusher /\ InOrder
    BY <1>1, <1>11 DEF OneFlusher, InOrder, Ascending, Before
<1>14. Covered
    BY <1>1, <1>11 DEF Covered
<1> QED BY <1>6, <1>7, <1>9, <1>10, <1>12, <1>13, <1>14 DEF IInv, StreamOK, TraceOK

\* A step that leaves the trace, or the stream, as it is.
LEMMA TraceRests ==
    ASSUME TraceTypes, TraceOK, UNCHANGED <<phase, stored, buffer, flushing, rows, loop, skipped>>
    PROVE  TraceTypes' /\ TraceOK'
BY DEF TraceTypes, TraceOK, OneFlusher, InOrder, Ascending, Before, Covered

LEMMA StreamRests ==
    ASSUME StreamTypes, StreamOK, UNCHANGED <<boot, sequence, ring, queue, console, drops, lost>>
    PROVE  StreamTypes' /\ StreamOK'
<1>1. StreamTypes'
    BY DEF StreamTypes, Subscribed
<1>2. RingShape' /\ QueueShape' /\ ReceivedBefore' /\ Accounted'
    BY DEF StreamOK, RingShape, QueueShape, ReceivedBefore, Accounted, Subscribed, FirstBoot,
        Received, OnItsWay, Lost
<1>3. FramesOnceInOrder' /\ NoSilentGap'
    BY DEF StreamOK, FramesOnceInOrder, NoSilentGap, Precedes
<1> QED BY <1>1, <1>2, <1>3 DEF StreamOK

LEMMA NextInv == ASSUME IInv, [Next]_vars PROVE IInv'
<1>0. StreamTypes /\ StreamOK /\ TraceTypes /\ TraceOK
    BY DEF IInv
<1>1. CASE ChangePhase
    <2>1. phase + 1 \in 0 .. MaxPhase /\ Publish("phase_changed", phase + 1)
          /\ UNCHANGED <<boot, console, drops>>
        BY <1>0, <1>1, TraceFacts, Bounds DEF ChangePhase
    <2>2. StreamTypes' /\ StreamOK'
        BY <1>0, <2>1, PublishInv DEF Kinds
    <2> QED BY <1>0, <1>1, <2>2, ChangePhaseTrace DEF IInv
<1>2. CASE PublishTelemetry
    <2>1. 0 \in 0 .. MaxPhase /\ Publish("telemetry", 0) /\ UNCHANGED <<boot, console, drops>>
          /\ UNCHANGED <<phase, stored, buffer, flushing, rows, loop, skipped>>
        BY <1>2, Bounds DEF PublishTelemetry, trace
    <2>2. StreamTypes' /\ StreamOK'
        BY <1>0, <2>1, PublishInv DEF Kinds
    <2> QED BY <1>0, <2>1, <2>2, TraceRests DEF IInv
<1>3. CASE PersistPhase
    <2>1. UNCHANGED <<boot, sequence, ring, queue, console, drops, lost>>
        BY <1>3 DEF PersistPhase
    <2> QED BY <1>0, <1>3, <2>1, StreamRests, PersistPhaseTrace DEF IInv
<1>4. CASE Restart
    <2>1. phase \in Nat
        BY <1>0, TraceFacts
    <2> QED BY <1>0, <1>4, <2>1, RestartStream, RestartTrace DEF IInv
<1>5. ASSUME NEW f \in Flushers, BeginFlush(f) \/ FlushRow(f) \/ FlushCancelled(f) PROVE IInv'
    <2>1. UNCHANGED <<boot, sequence, ring, queue, console, drops, lost>>
        BY <1>5 DEF BeginFlush, FlushRow, FlushCancelled, server
    <2> QED BY <1>0, <1>5, <2>1, StreamRests, BeginFlushTrace, FlushRowTrace,
            FlushCancelledTrace DEF IInv
<1>10. CASE RetryOnlyAfterEnd \/ DiscardDrained
    <2>1. UNCHANGED <<boot, sequence, ring, queue, console, drops, lost>>
        BY <1>10 DEF RetryOnlyAfterEnd, DiscardDrained, server
    <2> QED BY <1>0, <1>10, <2>1, StreamRests, AfterEndTrace DEF IInv
<1>6. CASE Connect \/ Hydrate \/ Disconnect
    <2>1. stored \in 0 .. MaxPhase
        BY <1>0, TraceFacts, Bounds DEF TraceTypes
    <2>2. UNCHANGED <<phase, stored, buffer, flushing, rows, loop, skipped>>
        BY <1>6 DEF Connect, Hydrate, Disconnect, server, trace
    <2> QED BY <1>0, <1>6, <2>1, <2>2, ConnectInv, TraceRests DEF IInv
<1>7. CASE Subscribe
    <2>1. UNCHANGED <<phase, stored, buffer, flushing, rows, loop, skipped>>
        BY <1>7 DEF Subscribe, server, trace
    <2> QED BY <1>0, <1>7, <2>1, SubscribeInv, TraceRests DEF IInv
<1>8. CASE Deliver
    <2>1. UNCHANGED <<phase, stored, buffer, flushing, rows, loop, skipped>>
        BY <1>8 DEF Deliver, server, trace
    <2> QED BY <1>0, <1>8, <2>1, DeliverInv, TraceRests DEF IInv
<1>9. CASE UNCHANGED vars
    <2>1. /\ UNCHANGED <<boot, sequence, ring, queue, console, drops, lost>>
          /\ UNCHANGED <<phase, stored, buffer, flushing, rows, loop, skipped>>
        BY <1>9 DEF vars, server, trace
    <2> QED BY <1>0, <2>1, StreamRests, TraceRests DEF IInv
<1> QED BY <1>1, <1>2, <1>3, <1>4, <1>5, <1>6, <1>7, <1>8, <1>9, <1>10 DEF Next

\* The inductive invariant holds in every state of the stream and the console.
THEOREM Invariant == Spec => []IInv
BY InitInv, NextInv, PTL DEF Spec

\* The stream, the trace and the console keep their types; the queue and the
\* ring keep their bounds.
THEOREM TypeCorrect == Spec => []TypeOK
<1>1. IInv => TypeOK
    BY DEF IInv, StreamTypes, TraceTypes, TypeOK, ConsoleRecord
<1> QED BY <1>1, Invariant, PTL

\* The pages see every frame at most once and in order, whatever reconnects,
\* replays and restarts there are (EventBroadcaster.subscribe, openStream).
THEOREM OnceInOrder == Spec => []FramesOnceInOrder
<1>1. IInv => FramesOnceInOrder
    BY DEF IInv, StreamOK
<1> QED BY <1>1, Invariant, PTL

\* A frame the console passes over was dropped by its full queue or evicted.
THEOREM GapsAccounted == Spec => []NoSilentGap
<1>1. IInv => NoSilentGap
    BY DEF IInv, StreamOK
<1> QED BY <1>1, Invariant, PTL

\* The trace holds every phase change, in the order of emission, but for those
\* whose insert was refused, whose flush was cancelled, that a tick behind a
\* durable end discarded or whose process died (_flush_events, tick_once).
THEOREM TraceComplete == Spec => []TraceKeepsEvents
<1>1. ASSUME IInv PROVE TraceKeepsEvents
    <2>1. \A j \in DOMAIN rows : \A i \in 1 .. j - 1 : rows[i] < rows[j]
        BY <1>1 DEF IInv, TraceOK, InOrder, Ascending
    <2> DEFINE held == (UNION {ToSet(flushing[f]) : f \in Flushers}) \cup ToSet(buffer)
    <2>2. ToSet(rows) \cup held \cup skipped \subseteq 1 .. phase
        <3>1. \A f \in Flushers : ToSet(flushing[f]) \subseteq 1 .. phase
            BY <1>1, TraceFacts DEF IInv, ToSet
        <3>2. ToSet(rows) \subseteq 1 .. phase /\ ToSet(buffer) \subseteq 1 .. phase
            BY <1>1, TraceFacts DEF IInv, ToSet
        <3>3. skipped \subseteq 1 .. phase
            BY <1>1 DEF IInv, TraceTypes
        <3> QED BY <3>1, <3>2, <3>3
    <2>3. ASSUME NEW p \in 1 .. phase PROVE p \in ToSet(rows) \cup held \cup skipped
        <3>1. \A f \in Flushers : \A i \in DOMAIN flushing[f] : flushing[f][i] \in held
            BY DEF ToSet
        <3>2. /\ \A i \in DOMAIN rows : rows[i] \in ToSet(rows)
              /\ \A i \in DOMAIN buffer : buffer[i] \in held
            BY DEF ToSet
        <3>3. \/ p \in skipped
              \/ \E i \in DOMAIN rows : rows[i] = p
              \/ \E i \in DOMAIN buffer : buffer[i] = p
              \/ \E f \in Flushers : \E i \in DOMAIN flushing[f] : flushing[f][i] = p
            BY <1>1 DEF IInv, TraceOK, Covered
        <3> HIDE DEF held
        <3> QED BY <3>1, <3>2, <3>3
    <2> QED BY <2>1, <2>2, <2>3 DEF TraceKeepsEvents
<1> QED BY <1>1, Invariant, PTL
=============================================================================
