------------------------ MODULE PacketMonitorProofs ------------------------
(***************************************************************************)
(* Theorems about PacketMonitor, for any frames, queries, sizes and number *)
(* of packets: what the two threads and the stream's task can do to each   *)
(* other's work.                                                           *)
(***************************************************************************)
EXTENDS PacketMonitor, SequenceTheorems, FiniteSetTheorems, WellFoundedInduction, TLAPS

-----------------------------------------------------------------------------
(* Sequences as the queue and the buffer use them *)

Elements(s) == {s[i] : i \in DOMAIN s}

LEMMA AppendFacts ==
    ASSUME NEW S, NEW s \in Seq(S), NEW e \in S
    PROVE  /\ Append(s, e) \in Seq(S)
           /\ Len(Append(s, e)) = Len(s) + 1
           /\ Elements(Append(s, e)) = Elements(s) \union {e}
<1>1. /\ Append(s, e) \in Seq(S)
      /\ Len(Append(s, e)) = Len(s) + 1
      /\ \A i \in 1..Len(s) : Append(s, e)[i] = s[i]
      /\ Append(s, e)[Len(s) + 1] = e
    OBVIOUS
<1> DEFINE r == Append(s, e)
<1>2. /\ DOMAIN s = 1..Len(s) /\ DOMAIN r = 1..(Len(s) + 1)
      /\ Len(s) \in Nat
    BY <1>1
<1>3. /\ \A i \in DOMAIN s : i \in DOMAIN r /\ r[i] = s[i]
      /\ Len(s) + 1 \in DOMAIN r /\ r[Len(s) + 1] = e
      /\ \A i \in DOMAIN r : i \in DOMAIN s \/ i = Len(s) + 1
    BY <1>1, <1>2
<1> HIDE DEF r
<1>4. Elements(r) = Elements(s) \union {e}
    BY <1>3 DEF Elements
<1> QED BY <1>1, <1>4 DEF r

LEMMA TailFacts ==
    ASSUME NEW S, NEW s \in Seq(S), s # << >>
    PROVE  /\ Tail(s) \in Seq(S) /\ Head(s) \in S
           /\ Len(s) \in Nat \ {0} /\ Len(Tail(s)) = Len(s) - 1
           /\ DOMAIN Tail(s) = 1..(Len(s) - 1)
           /\ Head(s) = s[1]
           /\ \A i \in DOMAIN Tail(s) : i \in Nat /\ i + 1 \in DOMAIN s /\ Tail(s)[i] = s[i + 1]
<1>1. Len(s) \in Nat \ {0}
    BY EmptySeq
<1>2. /\ Tail(s) \in Seq(S) /\ Len(Tail(s)) = Len(s) - 1
      /\ Head(s) = s[1] /\ Head(s) \in S
    BY <1>1
<1>3. DOMAIN Tail(s) = 1..(Len(s) - 1) /\ DOMAIN s = 1..Len(s)
    BY <1>2
<1>4. \A i \in 1..(Len(s) - 1) : Tail(s)[i] = s[i + 1]
    BY <1>1
<1>5. \A i \in 1..(Len(s) - 1) : i \in Nat /\ i + 1 \in 1..Len(s)
    BY <1>1
<1> QED BY <1>1, <1>2, <1>3, <1>4, <1>5

LEMMA TailElements ==
    ASSUME NEW S, NEW s \in Seq(S), s # << >>
    PROVE  /\ Elements(s) = {Head(s)} \union Elements(Tail(s))
           /\ Head(s) \in Elements(s)
<1> DEFINE r == Tail(s)
           h == Head(s)
<1>1. /\ Len(s) \in Nat \ {0} /\ DOMAIN r = 1..(Len(s) - 1) /\ h = s[1]
      /\ \A i \in DOMAIN r : i \in Nat /\ i + 1 \in DOMAIN s /\ r[i] = s[i + 1]
    BY TailFacts
<1>2. DOMAIN s = 1..Len(s)
    OBVIOUS
<1> HIDE DEF r, h
<1>3. 1 \in DOMAIN s
    BY <1>1, <1>2
<1>4. ASSUME NEW i \in DOMAIN s, i # 1
      PROVE  \E j \in DOMAIN r : r[j] = s[i]
    <2>1. i - 1 \in DOMAIN r /\ (i - 1) + 1 = i
        BY <1>1, <1>2, <1>4
    <2> QED BY <1>1, <2>1
<1>5. Elements(s) = {h} \union Elements(r)
    BY <1>1, <1>3, <1>4 DEF Elements
<1> QED BY <1>1, <1>3, <1>5 DEF Elements, r, h

LEMMA EmptyFacts ==
    ASSUME NEW S
    PROVE  << >> \in Seq(S) /\ Len(<< >>) = 0 /\ Elements(<< >>) = {}
BY DEF Elements

\* e is recorded before g as far as their numbers must tell.
Before(e, g) == e.id # g.id /\ (e.by = g.by => e.id < g.id)

LEMMA OrderedByBefore ==
    ASSUME NEW s
    PROVE  Ordered(s) <=> \A i, j \in DOMAIN s : i < j => Before(s[i], s[j])
BY DEF Ordered, Before

LEMMA OrderedAppend ==
    ASSUME NEW S, NEW s \in Seq(S), NEW e \in S, Ordered(s),
           \A g \in Elements(s) : Before(g, e)
    PROVE  Ordered(Append(s, e))
<1> DEFINE r == Append(s, e)
<1>1. /\ Len(s) \in Nat /\ DOMAIN r = 1..(Len(s) + 1) /\ DOMAIN s = 1..Len(s)
      /\ \A i \in 1..Len(s) : r[i] = s[i]
      /\ r[Len(s) + 1] = e
    OBVIOUS
<1> HIDE DEF r
<1>2. SUFFICES ASSUME NEW i \in DOMAIN r, NEW j \in DOMAIN r, i < j
               PROVE  Before(r[i], r[j])
    BY OrderedByBefore DEF r
<1>3. i \in DOMAIN s /\ r[i] = s[i]
    BY <1>1, <1>2
<1>4. CASE j = Len(s) + 1
    BY <1>1, <1>3, <1>4 DEF Elements
<1>5. CASE j # Len(s) + 1
    <2>1. j \in DOMAIN s /\ r[j] = s[j]
        BY <1>1, <1>5
    <2> QED BY <1>2, <1>3, <2>1, OrderedByBefore
<1> QED BY <1>4, <1>5

LEMMA OrderedTail ==
    ASSUME NEW S, NEW s \in Seq(S), s # << >>, Ordered(s)
    PROVE  /\ Ordered(Tail(s))
           /\ \A g \in Elements(Tail(s)) : Before(Head(s), g)
<1> DEFINE r == Tail(s)
           h == Head(s)
<1>1. /\ Len(s) \in Nat \ {0} /\ DOMAIN r = 1..(Len(s) - 1) /\ h = s[1]
      /\ \A i \in DOMAIN r : i \in Nat /\ i + 1 \in DOMAIN s /\ r[i] = s[i + 1]
    BY TailFacts
<1>2. DOMAIN s = 1..Len(s)
    OBVIOUS
<1> HIDE DEF r, h
<1>3. ASSUME NEW i \in DOMAIN r, NEW j \in DOMAIN r, i < j
      PROVE  Before(r[i], r[j])
    <2>1. i + 1 < j + 1
        BY <1>1, <1>3
    <2> QED BY <1>1, <2>1, OrderedByBefore
<1>4. ASSUME NEW j \in DOMAIN r
      PROVE  Before(h, r[j])
    <2>1. 1 \in DOMAIN s /\ 1 < j + 1
        BY <1>1, <1>2
    <2> QED BY <1>1, <2>1, OrderedByBefore
<1>5. Ordered(r)
    BY <1>3, OrderedByBefore
<1> QED BY <1>4, <1>5 DEF Elements, r, h

\* Two ordered sequences, all of the one before all of the other.
LEMMA OrderedConcat ==
    ASSUME NEW S, NEW s \in Seq(S), NEW t \in Seq(S), Ordered(s), Ordered(t),
           \A e \in Elements(s), g \in Elements(t) : Before(e, g)
    PROVE  Ordered(s \o t)
<1> DEFINE r == s \o t
<1>1. /\ Len(s) \in Nat /\ Len(t) \in Nat
      /\ DOMAIN s = 1..Len(s) /\ DOMAIN t = 1..Len(t)
    OBVIOUS
<1>2. /\ DOMAIN r = 1..(Len(s) + Len(t))
      /\ \A i \in 1..(Len(s) + Len(t)) :
            r[i] = IF i <= Len(s) THEN s[i] ELSE t[i - Len(s)]
    OBVIOUS
<1> HIDE DEF r
<1>3. SUFFICES ASSUME NEW i \in DOMAIN r, NEW j \in DOMAIN r, i < j
               PROVE  Before(r[i], r[j])
    BY OrderedByBefore DEF r
<1>4. i \in Nat /\ j \in Nat
    BY <1>1, <1>2
<1>5. CASE j <= Len(s)
    <2>1. i \in DOMAIN s /\ j \in DOMAIN s /\ r[i] = s[i] /\ r[j] = s[j]
        BY <1>1, <1>2, <1>3, <1>4, <1>5
    <2> QED BY <1>3, <2>1, OrderedByBefore
<1>6. CASE i <= Len(s) /\ ~(j <= Len(s))
    <2>1. i \in DOMAIN s /\ j - Len(s) \in DOMAIN t /\ r[i] = s[i] /\ r[j] = t[j - Len(s)]
        BY <1>1, <1>2, <1>4, <1>6
    <2> QED BY <2>1 DEF Elements
<1>7. CASE ~(i <= Len(s))
    <2>1. /\ i - Len(s) \in DOMAIN t /\ j - Len(s) \in DOMAIN t
          /\ r[i] = t[i - Len(s)] /\ r[j] = t[j - Len(s)]
          /\ i - Len(s) < j - Len(s)
        BY <1>1, <1>2, <1>3, <1>4, <1>7
    <2> QED BY <2>1, OrderedByBefore
<1> QED BY <1>4, <1>5, <1>6, <1>7, <1>1

-----------------------------------------------------------------------------
(* Types, and where the threads and the stream can be *)

Points ==
    {"none", "idle", "ended", "lookup", "tracked", "joining",
     "numbered", "recorded", "stored", "entering", "discarding", "retrying"}

\* A thread is between a packet's number and the end of its publication.
Active == {"numbered", "recorded"} \union Publishing

Packets ==
    Simulated
    \union {[Parse(f) EXCEPT !.tag = Tag(Parse(f))] : f \in Frames}
    \union {DnsPacket(q.client, n) : q \in Queries, n \in Nat}

Entries == [id : Nat, by : Threads, packet : Packets]

ThreadShape ==
    /\ pc \in [Threads -> Points]
    /\ job = [t \in Threads |-> job[t]]
    /\ seq \in Nat
    /\ \A t \in Threads : pc[t] \in Active => job[t] \in Entries /\ job[t].by = t
    /\ pc["loop"] \in {"lookup", "tracked"} => \E q \in Queries : job["loop"].client = q.client

Shape ==
    /\ ThreadShape
    /\ buffer \in Seq(Entries) /\ queue \in Seq(Entries) /\ taken \in Seq(Entries)

\* The capture thread and the flag.
Stopping ==
    /\ mode = "standby" => ~running /\ pc["capture"] = "none" /\ late = {}
    /\ \/ late = {}
       \/ /\ \E id : late = {id}
          /\ ~running
          /\ pc["capture"] \notin {"numbered", "recorded"}

\* The stream and its subscription.
Streaming ==
    /\ stream = "none" => owed = {}
    /\ stream \in Live => subscribed

\* The steps of the stream's task.
StreamStep ==
    \/ Confirmed \/ Replay \/ Abandoned \/ Take \/ FindEmpty \/ Register \/ Woken
    \/ TimesOut \/ Drained

LEMMA ShapeInit == Init => Shape /\ Stopping /\ Streaming
<1> SUFFICES ASSUME Init PROVE Shape /\ Stopping /\ Streaming
    OBVIOUS
<1>1. pc \in [Threads -> Points]
    BY DEF Init, Threads, Points
<1>2. job = [t \in Threads |-> job[t]]
    BY DEF Init
<1>3. \A t \in Threads : pc[t] \notin Active
    BY DEF Init, Threads, Active, Publishing
<1>4. << >> \in Seq(Entries)
    OBVIOUS
<1>5. Shape
    BY <1>1, <1>2, <1>3, <1>4 DEF Shape, ThreadShape, Init
<1> QED BY <1>5 DEF Init, Stopping, Streaming, Live

\* Taking a number makes an entry.
LEMMA BeginShape ==
    ASSUME ThreadShape, NEW t \in Threads, NEW p \in Packets, Begin(t, p)
    PROVE  ThreadShape'
<1> DEFINE e == [id |-> seq + 1, by |-> t, packet |-> p]
<1>1. e \in Entries /\ e.by = t
    BY DEF Entries, ThreadShape
<1> HIDE DEF e
<1>2. /\ seq' = seq + 1
      /\ job' = [job EXCEPT ![t] = e]
      /\ pc' = [pc EXCEPT ![t] = "numbered"]
    BY DEF Begin, At, e
<1>3. pc' \in [Threads -> Points]
    BY <1>2 DEF ThreadShape, Points
<1>4. job' = [u \in Threads |-> job'[u]] /\ job'[t] = e
      /\ \A u \in Threads : u # t => job'[u] = job[u] /\ pc'[u] = pc[u]
    BY <1>2 DEF ThreadShape
<1>5. pc'[t] = "numbered"
    BY <1>2 DEF ThreadShape
<1>6. \A u \in Threads : pc'[u] \in Active => job'[u] \in Entries /\ job'[u].by = u
    BY <1>1, <1>4 DEF ThreadShape
<1>7. "loop" \in Threads
    BY DEF Threads
<1>8. pc'["loop"] \in {"lookup", "tracked"} =>
        \E q \in Queries : job'["loop"].client = q.client
    BY <1>4, <1>5, <1>7 DEF ThreadShape
<1> QED BY <1>2, <1>3, <1>4, <1>6, <1>8 DEF ThreadShape

\* A step that moves one thread and leaves the jobs alone.
LEMMA MoveShape ==
    ASSUME ThreadShape, NEW t \in Threads, NEW point \in Points, At(t, point),
           UNCHANGED <<job, seq>>,
           point \in Active => pc[t] \in Active,
           point \in {"lookup", "tracked"} => pc[t] \in {"lookup", "tracked"}
    PROVE  ThreadShape'
<1>1. pc' = [pc EXCEPT ![t] = point] /\ job' = job /\ seq' = seq
    BY DEF At
<1>2. pc' \in [Threads -> Points] /\ pc'[t] = point
      /\ \A u \in Threads : u # t => pc'[u] = pc[u]
    BY <1>1 DEF ThreadShape
<1>3. "loop" \in Threads
    BY DEF Threads
<1> QED BY <1>1, <1>2, <1>3 DEF ThreadShape

LEMMA ShapeNext == Shape /\ [Next]_vars => Shape'
<1> SUFFICES ASSUME Shape, [Next]_vars PROVE Shape'
    OBVIOUS
<1> USE DEF Shape
<1>0. /\ Threads = {"capture", "loop"} /\ "capture" \in Threads /\ "loop" \in Threads
    BY DEF Threads
<1>1. CASE Capture
    <2>1. PICK f \in Frames :
            IF Parse(f) = Malformed
            THEN seq' = seq + 1 /\ UNCHANGED <<pc, job>>
            ELSE Begin("capture", [Parse(f) EXCEPT !.tag = Tag(Parse(f))])
        BY <1>1 DEF Capture
    <2>2. [Parse(f) EXCEPT !.tag = Tag(Parse(f))] \in Packets
        BY DEF Packets
    <2>3. CASE Parse(f) = Malformed
        BY <1>1, <2>1, <2>3 DEF Capture, ThreadShape, streamVars, historyVars
    <2>4. CASE Parse(f) # Malformed
        BY <1>0, <1>1, <2>1, <2>2, <2>4, BeginShape DEF Capture, streamVars, historyVars
    <2> QED BY <2>3, <2>4
<1>2. CASE Simulate
    <2>1. PICK p \in Simulated : Begin("capture", p)
        BY <1>2 DEF Simulate
    <2>2. p \in Packets
        BY DEF Packets
    <2> QED BY <1>0, <1>2, <2>1, <2>2, BeginShape DEF Simulate, streamVars, historyVars
<1>3. CASE CaptureEnds
    BY <1>0, <1>3, MoveShape
    DEF CaptureEnds, Points, Active, Publishing, bufferVars, streamVars, historyVars
<1>4. ASSUME NEW q \in Queries, Query(q.client, q.blocked) PROVE Shape'
    <2>1. PICK point \in {"lookup", "tracked"} : At("loop", point)
        BY <1>4 DEF Query
    <2>2. job' = [job EXCEPT !["loop"] = [client |-> q.client, blocked |-> q.blocked]]
        BY <1>4 DEF Query
    <2>3. /\ pc' \in [Threads -> Points] /\ pc'["loop"] = point
          /\ \A u \in Threads : u # "loop" => pc'[u] = pc[u]
        BY <1>0, <2>1 DEF At, ThreadShape, Points
    <2>4. /\ job' = [u \in Threads |-> job'[u]] /\ job'["loop"].client = q.client
          /\ \A u \in Threads : u # "loop" => job'[u] = job[u]
        BY <1>0, <2>2 DEF ThreadShape
    <2>5. pc'["loop"] \notin Active
        BY <2>1, <2>3 DEF Active, Publishing
    <2>6. seq' = seq /\ UNCHANGED <<buffer, queue, taken>>
        BY <1>4 DEF Query, bufferVars, streamVars, historyVars
    <2> QED BY <2>3, <2>4, <2>5, <2>6 DEF ThreadShape
<1>5. CASE LookupEnds
    BY <1>0, <1>5, MoveShape
    DEF LookupEnds, Points, Active, Publishing, bufferVars, streamVars, historyVars
<1>6. CASE Ingest
    <2>1. Begin("loop", DnsPacket(job["loop"].client, seq + 1))
        BY <1>6 DEF Ingest
    <2>2. seq + 1 \in Nat /\ \E q \in Queries : job["loop"].client = q.client
        BY <1>6 DEF Ingest, ThreadShape
    <2>3. DnsPacket(job["loop"].client, seq + 1) \in Packets
        BY <2>2 DEF Packets
    <2> QED BY <1>0, <1>6, <2>1, <2>3, BeginShape DEF Ingest, streamVars, historyVars
<1>7. ASSUME NEW t \in Threads, Record(t) PROVE Shape'
    <2>1. CASE RecordFlow(t)
        BY <2>1, MoveShape
        DEF RecordFlow, Points, Active, Publishing, bufferVars, streamVars, historyVars
    <2>2. CASE Store(t)
        <3> DEFINE longer == Append(buffer, job[t])
        <3>1. ThreadShape'
            BY <2>2, MoveShape DEF Store, Points, Active, Publishing
        <3>2. job[t] \in Entries
            BY <2>2 DEF Store, ThreadShape, Active
        <3>3. longer \in Seq(Entries) /\ Len(longer) = Len(buffer) + 1
            BY <3>2, AppendFacts
        <3>4. longer # << >>
            BY <3>3, EmptyFacts
        <3> HIDE DEF longer
        <3>5. Tail(longer) \in Seq(Entries)
            BY <3>3, <3>4, TailFacts
        <3>6. buffer' \in Seq(Entries)
            BY <2>2, <3>3, <3>5 DEF Store, longer
        <3> QED BY <2>2, <3>1, <3>6 DEF Store, streamVars
    <2>3. CASE Publish(t)
        BY <2>3, MoveShape
        DEF Publish, Points, Active, Publishing, bufferVars, streamVars, historyVars
    <2>4. CASE Enter(t)
        <3>1. ThreadShape'
            BY <2>4, MoveShape DEF Enter, Points, Active, Publishing, bufferVars
        <3>2. job[t] \in Entries
            BY <2>4 DEF Enter, ThreadShape, Active, Publishing
        <3> QED BY <2>4, <3>1, <3>2, AppendFacts DEF Enter, bufferVars, historyVars
    <2>5. CASE Discard(t)
        <3>1. ThreadShape'
            BY <2>5, MoveShape DEF Discard, Points, Active, Publishing, bufferVars
        <3> QED BY <2>5, <3>1, TailFacts DEF Discard, bufferVars
    <2>6. CASE Retry(t)
        <3>1. PICK point \in {"idle", "entering"} : At(t, point)
            BY <2>6 DEF Retry
        <3> QED BY <2>6, <3>1, MoveShape
                DEF Retry, Points, Active, Publishing, bufferVars, streamVars
    <2> QED BY <1>7, <2>1, <2>2, <2>3, <2>4, <2>5, <2>6 DEF Record
<1>8. CASE Start
    BY <1>0, <1>8, MoveShape
    DEF Start, Points, Active, Publishing, bufferVars, streamVars, historyVars
<1>9. CASE Stop
    BY <1>0, <1>9, MoveShape
    DEF Stop, Points, Active, Publishing, bufferVars, streamVars, historyVars
<1>10. CASE Joined
    BY <1>0, <1>10, MoveShape
    DEF Joined, Points, Active, Publishing, bufferVars, streamVars, historyVars
<1>11. CASE Take
    <2>1. UNCHANGED <<pc, job, seq, buffer>> /\ queue # << >>
          /\ queue' = Tail(queue) /\ taken' = Append(taken, Head(queue))
        BY <1>11 DEF Take, Unchanged, threadVars, bufferVars
    <2>2. queue' \in Seq(Entries) /\ Head(queue) \in Entries
        BY <2>1, TailFacts
    <2>3. taken' \in Seq(Entries)
        BY <2>1, <2>2, AppendFacts
    <2> QED BY <2>1, <2>2, <2>3 DEF ThreadShape
<1>12. CASE Open \/ Confirmed \/ Replay \/ Abandoned \/ FindEmpty \/ Register \/ Woken
              \/ TimesOut \/ Drained \/ Leave \/ UNCHANGED vars
    BY <1>12 DEF Open, Confirmed, Replay, Abandoned, FindEmpty, Register, Woken, TimesOut, Drained,
                 Leave, Unchanged, vars, threadVars, bufferVars, streamVars, historyVars,
                 ThreadShape
<1> QED BY <1>1, <1>2, <1>3, <1>4, <1>5, <1>6, <1>7, <1>8, <1>9, <1>10, <1>11, <1>12
        DEF Next, StreamStep, StreamMoves

-----------------------------------------------------------------------------
(* The capture thread after stop *)

LEMMA StoppingNext == Shape /\ Stopping /\ [Next]_vars => Stopping'
<1> SUFFICES ASSUME Shape, Stopping, [Next]_vars PROVE Stopping'
    OBVIOUS
<1>0. /\ "capture" \in Threads /\ "loop" \in Threads
      /\ pc \in [Threads -> Points]
    BY DEF Threads, Shape, ThreadShape
<1>1. CASE Capture \/ Simulate
    <2>1. running /\ mode \in {"raw", "simulated"} /\ UNCHANGED <<mode, late>>
        BY <1>1 DEF Capture, Simulate, historyVars
    <2>2. late = {}
        BY <2>1 DEF Stopping
    <2> QED BY <2>1, <2>2 DEF Stopping
<1>2. CASE CaptureEnds
    BY <1>0, <1>2 DEF CaptureEnds, At, Stopping, historyVars
<1>3. ASSUME NEW q \in Queries, Query(q.client, q.blocked) PROVE Stopping'
    <2>1. pc'["capture"] = pc["capture"]
        BY <1>0, <1>3 DEF Query, At
    <2> QED BY <1>3, <2>1 DEF Query, Stopping, historyVars
<1>4. CASE LookupEnds \/ Ingest
    <2>1. pc'["capture"] = pc["capture"]
        BY <1>0, <1>4 DEF LookupEnds, Ingest, Begin, At
    <2>2. UNCHANGED <<mode, running, late>>
        BY <1>4 DEF LookupEnds, Ingest, historyVars
    <2> QED BY <2>1, <2>2 DEF Stopping
<1>5. ASSUME NEW t \in Threads, Record(t) PROVE Stopping'
    <2>1. UNCHANGED <<mode, running>> /\ (late' = late \/ Store(t))
        BY <1>5 DEF Record, RecordFlow, Store, Publish, Enter, Discard, Retry, historyVars
    <2>2. pc[t] \in {"numbered", "recorded", "stored", "entering", "discarding", "retrying"}
        BY <1>5 DEF Record, RecordFlow, Store, Publish, Enter, Discard, Retry
    <2>3. \E point \in {"recorded", "stored", "idle", "entering", "discarding", "retrying"} :
              /\ pc' = [pc EXCEPT ![t] = point]
              /\ point = "recorded" => pc[t] = "numbered"
        BY <1>5 DEF Record, RecordFlow, Store, Publish, Enter, Discard, Retry, At
    <2>4. CASE t = "loop"
        <3>1. pc'["capture"] = pc["capture"]
            BY <1>0, <2>3, <2>4
        <3>2. late' = late
            BY <2>1, <2>4 DEF Store
        <3> QED BY <2>1, <3>1, <3>2 DEF Stopping
    <2>5. CASE t = "capture"
        <3>1. mode # "standby"
            BY <2>2, <2>5 DEF Stopping
        <3>2. CASE Store(t)
            <4>1. late = {} /\ pc'["capture"] = "stored"
                BY <1>0, <2>5, <3>2 DEF Store, At, Stopping
            <4>2. late' = {} \/ (late' = {job[t].id} /\ ~running)
                BY <3>2, <4>1 DEF Store
            <4> QED BY <2>1, <3>1, <4>1, <4>2 DEF Stopping
        <3>3. CASE ~Store(t)
            <4>1. late' = late
                BY <2>1, <3>3
            <4>2. pc'["capture"] \in {"numbered", "recorded"} =>
                    pc["capture"] \in {"numbered", "recorded"}
                BY <1>0, <2>3, <2>5
            <4> QED BY <2>1, <3>1, <4>1, <4>2 DEF Stopping
        <3> QED BY <3>2, <3>3
    <2> QED BY <2>4, <2>5 DEF Threads
<1>6. CASE Start
    <2>1. pc'["capture"] = "idle" /\ late' = late /\ late = {} /\ mode' # "standby"
        BY <1>0, <1>6 DEF Start, At, Stopping, historyVars
    <2> QED BY <2>1 DEF Stopping
<1>7. CASE Stop \/ Joined
    <2>1. pc'["capture"] = pc["capture"]
        BY <1>0, <1>7 DEF Stop, Joined, At
    <2> QED BY <1>7, <2>1 DEF Stop, Joined, Stopping, historyVars
<1>8. CASE Open \/ StreamStep \/ Leave \/ UNCHANGED vars
    <2>1. UNCHANGED <<mode, running, pc, late>>
        BY <1>8 DEF Open, StreamStep, Confirmed, Replay, Abandoned, Take, FindEmpty, Register,
                    Woken, TimesOut, Drained, Leave, Unchanged, vars, threadVars, historyVars
    <2> QED BY <2>1 DEF Stopping
<1> QED BY <1>1, <1>2, <1>3, <1>4, <1>5, <1>6, <1>7, <1>8 DEF Next, StreamStep, StreamMoves

-----------------------------------------------------------------------------
(* The stream *)

LEMMA StreamingNext == Streaming /\ [Next]_vars => Streaming'
<1> SUFFICES ASSUME Streaming, [Next]_vars PROVE Streaming'
    OBVIOUS
<1>1. CASE Capture \/ Simulate \/ CaptureEnds \/ LookupEnds \/ Ingest
           \/ Start \/ Stop \/ Joined \/ UNCHANGED vars
    BY <1>1 DEF Capture, Simulate, CaptureEnds, LookupEnds, Ingest, Start, Stop, Joined, vars,
                Streaming, streamVars, historyVars
<1>2. ASSUME NEW q \in Queries, Query(q.client, q.blocked) PROVE Streaming'
    BY <1>2 DEF Query, Streaming, streamVars, historyVars
<1>3. ASSUME NEW t \in Threads, Record(t) PROVE Streaming'
    <2>1. UNCHANGED <<stream, subscribed>>
        BY <1>3 DEF Record, RecordFlow, Store, Publish, Enter, Discard, Retry, streamVars
    <2>2. stream = "none" => owed' = owed
        BY <1>3 DEF Record, RecordFlow, Store, Publish, Enter, Discard, Retry, historyVars
    <2> QED BY <2>1, <2>2 DEF Streaming
<1>4. CASE Open
    BY <1>4 DEF Open, Streaming
<1>5. CASE StreamStep
    BY <1>5 DEF StreamStep, Confirmed, Replay, Abandoned, Take, FindEmpty, Register, Woken,
                TimesOut, Drained, Wrote, Ended, Streaming, Live, historyVars
<1>6. CASE Leave
    BY <1>6 DEF Leave, Streaming, historyVars
<1> QED BY <1>1, <1>2, <1>3, <1>4, <1>5, <1>6 DEF Next, StreamStep, StreamMoves

-----------------------------------------------------------------------------
(* The queue's limit *)

\* Each thread that has passed the check has room for its packet beside the
\* other's, or the queue is over its limit by one already.
QueueRoom ==
    /\ Len(queue) <= QueueSize + 1
    /\ \A t \in Threads : pc[t] = "entering" => Len(queue) <= QueueSize
    /\ (\A t \in Threads : pc[t] = "entering") => Len(queue) <= QueueSize - 1

\* The queue grows no longer and no thread gets to its entry.
LEMMA RoomStays ==
    ASSUME Shape, QueueRoom,
           queue' \in Seq(Entries), Len(queue') <= Len(queue),
           \A t \in Threads : pc'[t] = "entering" => pc[t] = "entering"
    PROVE  QueueRoom'
<1>1. Len(queue) \in Nat /\ Len(queue') \in Nat
    BY DEF Shape
<1>2. QueueSize \in Nat
    BY MonitorAssumption
<1> QED BY <1>1, <1>2 DEF QueueRoom

LEMMA QueueRoomNext == Shape /\ QueueRoom /\ [Next]_vars => QueueRoom'
<1> SUFFICES ASSUME Shape, QueueRoom, [Next]_vars PROVE QueueRoom'
    OBVIOUS
<1>0. /\ Threads = {"capture", "loop"}
      /\ pc \in [Threads -> Points] /\ queue \in Seq(Entries) /\ Len(queue) \in Nat
      /\ QueueSize \in Nat
    BY MonitorAssumption DEF Threads, Shape, ThreadShape
<1>1. CASE Capture \/ Simulate \/ CaptureEnds \/ LookupEnds \/ Ingest \/ Start \/ Stop \/ Joined
    <2>1. queue' = queue
        BY <1>1 DEF Capture, Simulate, CaptureEnds, LookupEnds, Ingest, Start, Stop, Joined,
                    streamVars
    <2>2. \E t \in Threads, point \in {"numbered", "ended", "tracked", "idle", "joining"} :
            pc' = [pc EXCEPT ![t] = point] \/ pc' = pc
        BY <1>0, <1>1 DEF Capture, Simulate, CaptureEnds, LookupEnds, Ingest, Start, Stop, Joined,
                          Begin, At
    <2> QED BY <1>0, <2>1, <2>2, RoomStays
<1>2. ASSUME NEW q \in Queries, Query(q.client, q.blocked) PROVE QueueRoom'
    <2>1. queue' = queue
        BY <1>2 DEF Query, streamVars
    <2>2. \E point \in {"lookup", "tracked"} : pc' = [pc EXCEPT !["loop"] = point]
        BY <1>2 DEF Query, At
    <2> QED BY <1>0, <2>1, <2>2, RoomStays
<1>3. ASSUME NEW t \in Threads, Record(t) PROVE QueueRoom'
    <2>1. CASE RecordFlow(t) \/ Store(t)
        <3>1. queue' = queue
            BY <2>1 DEF RecordFlow, Store, streamVars
        <3>2. \E point \in {"recorded", "stored"} : pc' = [pc EXCEPT ![t] = point]
            BY <2>1 DEF RecordFlow, Store, At
        <3> QED BY <1>0, <3>1, <3>2, RoomStays
    <2>2. CASE Publish(t) \/ Retry(t)
        <3>1. queue' = queue
            BY <2>2 DEF Publish, Retry, streamVars
        <3>2. PICK point \in {"idle", "entering", "discarding"} :
                /\ pc' = [pc EXCEPT ![t] = point]
                /\ point = "entering" => ~Full
            BY <2>2 DEF Publish, Retry, At
        <3>3. CASE point # "entering"
            BY <1>0, <3>1, <3>2, <3>3, RoomStays
        <3>4. CASE point = "entering"
            <4>1. Len(queue) <= QueueSize - 1
                BY <1>0, <3>2, <3>4 DEF Full
            <4> QED BY <1>0, <3>1, <4>1 DEF QueueRoom
        <3> QED BY <3>3, <3>4
    <2>3. CASE Enter(t)
        <3>1. job[t] \in Entries
            BY <2>3 DEF Enter, Shape, ThreadShape, Active, Publishing
        <3>2. Len(queue') = Len(queue) + 1
            BY <1>0, <2>3, <3>1, AppendFacts DEF Enter
        <3>3. pc[t] = "entering" /\ pc' = [pc EXCEPT ![t] = "idle"]
            BY <2>3 DEF Enter, At
        <3>4. Len(queue) <= QueueSize
            BY <3>3 DEF QueueRoom
        <3>5. pc'[t] = "idle" /\ \A u \in Threads : u # t => pc'[u] = pc[u]
            BY <1>0, <3>3
        <3>6. ASSUME NEW u \in Threads, pc'[u] = "entering"
              PROVE  Len(queue) <= QueueSize - 1
            <4>1. \A v \in Threads : pc[v] = "entering"
                BY <1>0, <3>3, <3>5, <3>6
            <4> QED BY <4>1 DEF QueueRoom
        <3>7. ~(\A u \in Threads : pc'[u] = "entering")
            BY <3>5
        <3> QED BY <1>0, <3>2, <3>4, <3>6, <3>7 DEF QueueRoom
    <2>4. CASE Discard(t)
        <3>1. queue' = queue \/ (queue # << >> /\ queue' = Tail(queue))
            BY <2>4 DEF Discard
        <3>2. \E point \in {"idle", "retrying"} : pc' = [pc EXCEPT ![t] = point]
            BY <2>4 DEF Discard, At
        <3>3. queue' \in Seq(Entries) /\ Len(queue') <= Len(queue)
            BY <1>0, <3>1, TailFacts
        <3> QED BY <1>0, <3>2, <3>3, RoomStays
    <2> QED BY <1>3, <2>1, <2>2, <2>3, <2>4 DEF Record
<1>4. CASE Open \/ StreamStep \/ Leave \/ UNCHANGED vars
    <2>1. queue' = queue \/ (queue # << >> /\ queue' = Tail(queue))
        BY <1>4 DEF Open, StreamStep, Confirmed, Replay, Abandoned, Take, FindEmpty, Register,
                    Woken, TimesOut, Drained, Leave, vars, streamVars
    <2>2. pc' = pc
        BY <1>4 DEF Open, StreamStep, Confirmed, Replay, Abandoned, Take, FindEmpty, Register,
                    Woken, TimesOut, Drained, Leave, Unchanged, vars, threadVars
    <2>3. queue' \in Seq(Entries) /\ Len(queue') <= Len(queue)
        BY <1>0, <2>1, TailFacts
    <2> QED BY <2>2, <2>3, RoomStays
<1> QED BY <1>1, <1>2, <1>3, <1>4 DEF Next, StreamStep, StreamMoves

-----------------------------------------------------------------------------
(* No gap *)

LEMMA IdsOfElements == ASSUME NEW s PROVE Ids(s) = {e.id : e \in Elements(s)}
BY DEF Ids, Elements

\* id is where NoGap wants it.
Kept(id) ==
    \/ id \in Ids(taken) \union Ids(queue) \union lost
    \/ \E t \in Threads : pc[t] \in Publishing /\ job[t].id = id

LEMMA NoGapNext == Shape /\ Stopping /\ Streaming /\ NoGap /\ [Next]_vars => NoGap'
<1> SUFFICES ASSUME Shape, Stopping, Streaming, NoGap, [Next]_vars PROVE NoGap'
    OBVIOUS
<1>0. /\ Threads = {"capture", "loop"}
      /\ pc \in [Threads -> Points] /\ job = [t \in Threads |-> job[t]]
      /\ queue \in Seq(Entries) /\ taken \in Seq(Entries)
    BY DEF Threads, Shape, ThreadShape
<1> DEFINE Safe == stream \in Live => \A id \in owed : Kept(id)
<1>00. (NoGap <=> Safe) /\ (NoGap' <=> Safe')
    BY DEF NoGap, Live, Kept
<1> HIDE DEF Safe
<1>1. ASSUME UNCHANGED <<owed, lost, taken, queue>>, stream' = stream,
             NEW u \in Threads, pc[u] \notin Publishing,
             \A t \in Threads \ {u} : pc'[t] = pc[t] /\ job'[t] = job[t]
      PROVE  Safe'
    <2>1. \A id : Kept(id) => Kept(id)'
        BY <1>1 DEF Kept, Ids
    <2> QED BY <1>00, <1>1, <2>1 DEF Safe
<1>2. CASE Capture \/ Simulate \/ CaptureEnds \/ Start
    <2>1. UNCHANGED <<owed, lost, taken, queue>> /\ stream' = stream
        BY <1>2 DEF Capture, Simulate, CaptureEnds, Start, streamVars, historyVars
    <2>2. pc["capture"] \notin Publishing
        BY <1>2 DEF Capture, Simulate, CaptureEnds, Start, Stopping, Publishing
    <2>3. pc'["loop"] = pc["loop"] /\ job'["loop"] = job["loop"]
        BY <1>0, <1>2 DEF Capture, Simulate, CaptureEnds, Start, Begin, At
    <2> QED BY <1>0, <1>00, <1>1, <2>1, <2>2, <2>3
<1>3. CASE LookupEnds \/ Ingest \/ Stop \/ Joined
    <2>1. UNCHANGED <<owed, lost, taken, queue>> /\ stream' = stream
        BY <1>3 DEF LookupEnds, Ingest, Stop, Joined, streamVars, historyVars
    <2>2. pc["loop"] \notin Publishing
        BY <1>3 DEF LookupEnds, Ingest, Stop, Joined, LoopFree, Publishing
    <2>3. pc'["capture"] = pc["capture"] /\ job'["capture"] = job["capture"]
        BY <1>0, <1>3 DEF LookupEnds, Ingest, Stop, Joined, Begin, At
    <2> QED BY <1>0, <1>00, <1>1, <2>1, <2>2, <2>3
<1>4. ASSUME NEW q \in Queries, Query(q.client, q.blocked) PROVE NoGap'
    <2>1. UNCHANGED <<owed, lost, taken, queue>> /\ stream' = stream
        BY <1>4 DEF Query, streamVars, historyVars
    <2>2. pc["loop"] \notin Publishing
        BY <1>4 DEF Query, LoopFree, Publishing
    <2>3. pc'["capture"] = pc["capture"] /\ job'["capture"] = job["capture"]
        BY <1>0, <1>4 DEF Query, At
    <2> QED BY <1>0, <1>00, <1>1, <2>1, <2>2, <2>3
<1>5. ASSUME NEW t \in Threads, Record(t) PROVE NoGap'
    <2>0. stream' = stream /\ job' = job /\ taken' = taken
        BY <1>5 DEF Record, RecordFlow, Store, Publish, Enter, Discard, Retry,
                    streamVars, historyVars
    <2>1. CASE RecordFlow(t)
        <3>1. UNCHANGED <<owed, lost, taken, queue>> /\ pc[t] \notin Publishing
              /\ \A u \in Threads \ {t} : pc'[u] = pc[u] /\ job'[u] = job[u]
            BY <1>0, <2>0, <2>1 DEF RecordFlow, At, Publishing, streamVars, historyVars
        <3> QED BY <1>00, <1>1, <2>0, <3>1
    <2>2. CASE Store(t)
        <3>1. UNCHANGED <<lost, queue>> /\ pc'[t] = "stored" /\ pc[t] = "recorded"
              /\ \A u \in Threads : u # t => pc'[u] = pc[u]
            BY <1>0, <2>2 DEF Store, At, streamVars
        <3>2. owed' \subseteq owed \union {job[t].id}
            BY <2>2 DEF Store
        <3>3. Kept(job[t].id)'
            BY <2>0, <3>1 DEF Kept, Publishing
        <3>4. \A id : Kept(id) => Kept(id)'
            BY <2>0, <3>1 DEF Kept, Ids, Publishing
        <3> QED BY <1>00, <2>0, <3>2, <3>3, <3>4 DEF Safe
    <2>3. CASE Publish(t)
        <3>1. UNCHANGED <<lost, queue, owed>> /\ pc[t] = "stored"
              /\ (subscribed => pc'[t] \in {"entering", "discarding"})
              /\ \A u \in Threads : u # t => pc'[u] = pc[u]
            BY <1>0, <2>3 DEF Publish, At, streamVars, historyVars
        <3>2. \A id : subscribed /\ Kept(id) => Kept(id)'
            BY <2>0, <3>1 DEF Kept, Ids, Publishing
        <3> QED BY <1>00, <2>0, <3>1, <3>2 DEF Safe, Streaming
    <2>4. CASE Enter(t)
        <3>1. UNCHANGED <<lost, owed>> /\ pc[t] = "entering" /\ queue' = Append(queue, job[t])
              /\ \A u \in Threads : u # t => pc'[u] = pc[u]
            BY <1>0, <2>4 DEF Enter, At, historyVars
        <3>2. job[t] \in Entries
            BY <3>1 DEF Shape, ThreadShape, Active, Publishing
        <3>3. Elements(queue') = Elements(queue) \union {job[t]}
            BY <1>0, <3>1, <3>2, AppendFacts
        <3>4. Ids(queue) \subseteq Ids(queue') /\ job[t].id \in Ids(queue')
            BY <3>3, IdsOfElements
        <3>5. \A id : Kept(id) => Kept(id)'
            BY <2>0, <3>1, <3>4 DEF Kept
        <3> QED BY <1>00, <2>0, <3>1, <3>5 DEF Safe
    <2>5. CASE Discard(t)
        <3>1. owed' = owed /\ pc[t] = "discarding"
              /\ \A u \in Threads : u # t => pc'[u] = pc[u]
            BY <1>0, <2>5 DEF Discard, At
        <3>2. CASE queue = << >>
            <4>1. queue' = queue /\ lost' = lost \union {job[t].id}
                BY <2>5, <3>2 DEF Discard
            <4>2. \A id : Kept(id) => Kept(id)'
                BY <2>0, <3>1, <4>1 DEF Kept, Ids
            <4> QED BY <1>00, <2>0, <3>1, <4>2 DEF Safe
        <3>3. CASE queue # << >>
            <4>1. queue' = Tail(queue) /\ lost' = lost \union {Head(queue).id}
                  /\ pc'[t] = "retrying"
                BY <1>0, <2>5, <3>3 DEF Discard, At
            <4>2. Elements(queue) = {Head(queue)} \union Elements(queue')
                BY <1>0, <3>3, <4>1, TailElements
            <4>3. Ids(queue) = {Head(queue).id} \union Ids(queue')
                BY <4>2, IdsOfElements
            <4>4. \A id : Kept(id) => Kept(id)'
                BY <2>0, <3>1, <4>1, <4>3 DEF Kept, Publishing
            <4> QED BY <1>00, <2>0, <3>1, <4>4 DEF Safe
        <3> QED BY <3>2, <3>3
    <2>6. CASE Retry(t)
        <3>1. UNCHANGED <<queue, owed>> /\ pc[t] = "retrying"
              /\ \A u \in Threads : u # t => pc'[u] = pc[u]
            BY <1>0, <2>6 DEF Retry, At, streamVars
        <3>2. \/ lost' = lost \union {job[t].id}
              \/ lost' = lost /\ pc'[t] = "entering"
            BY <1>0, <2>6 DEF Retry, At
        <3>3. \A id : Kept(id) => Kept(id)'
            BY <2>0, <3>1, <3>2 DEF Kept, Ids, Publishing
        <3> QED BY <1>00, <2>0, <3>1, <3>3 DEF Safe
    <2> QED BY <1>5, <2>1, <2>2, <2>3, <2>4, <2>5, <2>6 DEF Record
<1>6. CASE Take
    <2>1. /\ UNCHANGED <<pc, job, lost, owed>> /\ queue # << >> /\ stream = "reading"
          /\ queue' = Tail(queue) /\ taken' = Append(taken, Head(queue))
        BY <1>6 DEF Take, Unchanged, threadVars
    <2>2. Head(queue) \in Entries /\ Elements(queue) = {Head(queue)} \union Elements(queue')
        BY <1>0, <2>1, TailFacts, TailElements
    <2>3. Elements(taken') = Elements(taken) \union {Head(queue)}
        BY <1>0, <2>1, <2>2, AppendFacts
    <2>4. Ids(queue) \union Ids(taken) = Ids(queue') \union Ids(taken')
        BY <2>2, <2>3, IdsOfElements
    <2>5. \A id : Kept(id) => Kept(id)'
        BY <2>1, <2>4 DEF Kept
    <2> QED BY <1>00, <2>1, <2>5 DEF Safe, Live
<1>7. CASE Open \/ Confirmed \/ Replay \/ Abandoned \/ FindEmpty \/ Register \/ Woken
             \/ TimesOut \/ Drained \/ Leave \/ UNCHANGED vars
    <2>1. UNCHANGED <<pc, job, lost, owed, taken, queue>>
        BY <1>7 DEF Open, Confirmed, Replay, Abandoned, FindEmpty, Register, Woken, TimesOut, Drained,
                    Leave, Unchanged, vars, threadVars, streamVars, historyVars
    <2>2. stream' \in Live => stream \in Live \/ stream = "none"
        BY <1>7 DEF Open, Confirmed, Replay, Abandoned, FindEmpty, Register, Woken, TimesOut, Drained,
                    Leave, vars, streamVars, Live
    <2>3. \A id : Kept(id) => Kept(id)'
        BY <2>1 DEF Kept, Ids
    <2> QED BY <1>00, <2>1, <2>2, <2>3 DEF Safe, Streaming
<1> QED BY <1>2, <1>3, <1>4, <1>5, <1>6, <1>7 DEF Next, StreamStep, StreamMoves

-----------------------------------------------------------------------------
(* The order of numbers *)

\* The packet has its number and is not in the buffer yet.
Early == {"numbered", "recorded"}

AllBefore(entries, e) == \A g \in entries : Before(g, e)

\* Numbers are not above the counter, those of the two threads differ, and
\* both sequences hold only packets that come before what a thread still
\* carries to them.
OrderInv ==
    /\ \A e \in Elements(buffer) \union Elements(queue) \union Elements(taken) : e.id <= seq
    /\ \A t \in Threads : pc[t] \in Active => job[t].id <= seq
    /\ \A t, u \in Threads :
            t # u /\ pc[t] \in Active /\ pc[u] \in Active => job[t].id # job[u].id
    /\ Ordered(buffer) /\ Ordered(taken) /\ Ordered(queue)
    /\ \A g \in Elements(queue) : AllBefore(Elements(taken), g)
    /\ \A t \in Threads :
            /\ pc[t] \in Early => AllBefore(Elements(buffer), job[t])
            /\ pc[t] \in Active => AllBefore(Elements(taken) \union Elements(queue), job[t])

LEMMA OrderInit == Init => OrderInv
<1> SUFFICES ASSUME Init PROVE OrderInv
    OBVIOUS
<1>1. \A t \in Threads : pc[t] \notin Active /\ pc[t] \notin Early
    BY DEF Init, Threads, Active, Publishing, Early
<1>2. Elements(<< >>) = {}
    BY EmptyFacts
<1>3. Ordered(<< >>)
    BY DEF Ordered
<1> QED BY <1>1, <1>2, <1>3 DEF Init, OrderInv

LEMMA ElementsTyped == ASSUME NEW S, NEW s \in Seq(S) PROVE Elements(s) \subseteq S
BY DEF Elements

\* Nothing is appended, no thread takes a number, each goes on or is done.
LEMMA CalmStep ==
    ASSUME Shape, Shape', OrderInv, seq' >= seq,
           UNCHANGED <<buffer, taken>>,
           queue' = queue \/ (queue # << >> /\ queue' = Tail(queue)),
           \A t \in Threads :
                /\ pc'[t] \in Active => pc[t] \in Active /\ job'[t] = job[t]
                /\ pc'[t] \in Early => pc[t] \in Early
    PROVE  OrderInv'
<1>1. Elements(queue') \subseteq Elements(queue) /\ Ordered(queue')
    <2>1. CASE queue' = queue
        BY <2>1 DEF OrderInv
    <2>2. CASE queue # << >> /\ queue' = Tail(queue)
        <3>1. queue \in Seq(Entries) /\ Ordered(queue)
            BY DEF Shape, OrderInv
        <3>2. Elements(queue) = {Head(queue)} \union Elements(Tail(queue))
            BY <2>2, <3>1, TailElements
        <3>3. Ordered(Tail(queue))
            BY <2>2, <3>1, OrderedTail
        <3> QED BY <2>2, <3>2, <3>3
    <2> QED BY <2>1, <2>2
<1>2. seq \in Int /\ seq' \in Int
    BY DEF Shape, ThreadShape
<1>3. ASSUME NEW e, e.id \in Nat, e.id <= seq PROVE e.id <= seq'
    BY <1>2, <1>3
<1>4. \A e \in Entries : e.id \in Nat
    BY DEF Entries
<1>5. \A e \in Elements(buffer') \union Elements(queue') \union Elements(taken') : e.id <= seq'
    BY <1>1, <1>3, <1>4, ElementsTyped DEF Shape, OrderInv
<1>6. \A t \in Threads : pc'[t] \in Active => job'[t].id <= seq'
    BY <1>3, <1>4 DEF Shape, ThreadShape, OrderInv
<1>7. \A t, u \in Threads :
            t # u /\ pc'[t] \in Active /\ pc'[u] \in Active => job'[t].id # job'[u].id
    BY DEF OrderInv
<1>8. \A g \in Elements(queue') : AllBefore(Elements(taken'), g)
    BY <1>1 DEF OrderInv
<1>9. ASSUME NEW t \in Threads
      PROVE  /\ pc'[t] \in Early => AllBefore(Elements(buffer'), job'[t])
             /\ pc'[t] \in Active =>
                    AllBefore(Elements(taken') \union Elements(queue'), job'[t])
    <2>1. Early \subseteq Active
        BY DEF Early, Active
    <2> QED BY <1>1, <1>9, <2>1 DEF OrderInv, AllBefore
<1> QED BY <1>1, <1>5, <1>6, <1>7, <1>8, <1>9 DEF OrderInv

\* A thread that carries nothing takes the next number.
LEMMA BeginStep ==
    ASSUME Shape, Shape', OrderInv, NEW t \in Threads, NEW p, Begin(t, p), pc[t] \notin Active,
           UNCHANGED <<buffer, taken, queue>>
    PROVE  OrderInv'
<1>1. /\ seq' = seq + 1 /\ seq \in Nat
      /\ job'[t].id = seq + 1 /\ pc'[t] = "numbered"
      /\ \A u \in Threads : u # t => job'[u] = job[u] /\ pc'[u] = pc[u]
    BY DEF Begin, At, Shape, ThreadShape
<1>2. \A e \in Entries : e.id \in Nat
    BY DEF Entries
<1> DEFINE held == Elements(buffer) \union Elements(queue) \union Elements(taken)
<1>3. \A e \in held : e.id \in Nat /\ e.id <= seq
    BY <1>2, ElementsTyped DEF Shape, OrderInv
<1>4. \A e \in held : e.id <= seq' /\ Before(e, job'[t])
    BY <1>1, <1>3 DEF Before
<1>5. ASSUME NEW u \in Threads, u # t, pc'[u] \in Active
      PROVE  job'[u].id <= seq' /\ job'[u].id # job'[t].id
    <2>1. job[u].id <= seq /\ job[u].id \in Nat
        BY <1>1, <1>2, <1>5 DEF Shape, ThreadShape, OrderInv
    <2> QED BY <1>1, <1>5, <2>1
<1>6. \A u \in Threads : pc'[u] \in Active => job'[u].id <= seq'
    BY <1>1, <1>5
<1>7. \A u, v \in Threads :
            u # v /\ pc'[u] \in Active /\ pc'[v] \in Active => job'[u].id # job'[v].id
    BY <1>1, <1>5 DEF OrderInv
<1>8. \A u \in Threads :
            /\ pc'[u] \in Early => AllBefore(Elements(buffer), job'[u])
            /\ pc'[u] \in Active => AllBefore(Elements(taken) \union Elements(queue), job'[u])
    BY <1>1, <1>4 DEF OrderInv, AllBefore
<1> QED BY <1>4, <1>6, <1>7, <1>8 DEF OrderInv

\* What one thread hands over comes before what the other carries.
LEMMA HandedOver ==
    ASSUME Shape, OrderInv, NEW t \in Threads, pc[t] \in Active,
           NEW u \in Threads, u # t, pc[u] \in Active
    PROVE  Before(job[t], job[u])
BY DEF Shape, ThreadShape, OrderInv, Before

LEMMA StoreStep ==
    ASSUME Shape, OrderInv, NEW t \in Threads, Store(t)
    PROVE  OrderInv'
<1> DEFINE longer == Append(buffer, job[t])
<1>1. /\ pc[t] = "recorded" /\ pc'[t] = "stored"
      /\ \A u \in Threads : u # t => pc'[u] = pc[u]
      /\ UNCHANGED <<job, seq, queue, taken>>
    BY DEF Store, At, Shape, ThreadShape, streamVars
<1>2. /\ job[t] \in Entries /\ buffer \in Seq(Entries)
      /\ pc[t] \in Early /\ pc[t] \in Active
    BY <1>1 DEF Shape, ThreadShape, Early, Active
<1>3. Ordered(longer)
    BY <1>1, <1>2, OrderedAppend DEF OrderInv, AllBefore
<1>4. /\ longer \in Seq(Entries) /\ Len(longer) = Len(buffer) + 1
      /\ Elements(longer) = Elements(buffer) \union {job[t]}
    BY <1>2, AppendFacts
<1>5. longer # << >>
    BY <1>2, <1>4, EmptyFacts
<1>6. buffer' = longer \/ buffer' = Tail(longer)
    BY DEF Store
<1> HIDE DEF longer
<1>7. Ordered(Tail(longer)) /\ Elements(Tail(longer)) \subseteq Elements(longer)
    BY <1>3, <1>4, <1>5, OrderedTail, TailElements
<1>8. Ordered(buffer') /\ Elements(buffer') \subseteq Elements(buffer) \union {job[t]}
    BY <1>3, <1>4, <1>6, <1>7
<1>9. job[t].id <= seq
    BY <1>2 DEF OrderInv
<1>10. \A e \in Elements(buffer') \union Elements(queue') \union Elements(taken') : e.id <= seq'
    BY <1>1, <1>8, <1>9 DEF OrderInv
<1>11. \A u \in Threads : pc'[u] \in Active => pc[u] \in Active
    BY <1>1, <1>2
<1>12. \A u \in Threads : pc'[u] \in Early => u # t /\ pc[u] \in Early
    BY <1>1 DEF Early
<1>13. ASSUME NEW u \in Threads, pc'[u] \in Early
       PROVE  AllBefore(Elements(buffer'), job'[u])
    <2>1. pc[u] \in Active /\ u # t
        BY <1>12, <1>13 DEF Early, Active
    <2>2. Before(job[t], job[u])
        BY <1>2, <2>1, HandedOver
    <2>3. AllBefore(Elements(buffer), job[u])
        BY <1>12, <1>13 DEF OrderInv
    <2> QED BY <1>1, <1>8, <2>2, <2>3 DEF AllBefore
<1> QED BY <1>1, <1>8, <1>10, <1>11, <1>13 DEF OrderInv

LEMMA EnterStep ==
    ASSUME Shape, OrderInv, NEW t \in Threads, Enter(t)
    PROVE  OrderInv'
<1>1. /\ pc[t] = "entering" /\ pc'[t] = "idle"
      /\ \A u \in Threads : u # t => pc'[u] = pc[u]
      /\ UNCHANGED <<job, seq, buffer, taken>>
      /\ queue' = Append(queue, job[t])
    BY DEF Enter, At, Shape, ThreadShape, bufferVars, historyVars
<1>2. /\ job[t] \in Entries /\ queue \in Seq(Entries) /\ pc[t] \in Active
    BY <1>1 DEF Shape, ThreadShape, Active, Publishing
<1>3. AllBefore(Elements(taken), job[t]) /\ \A g \in Elements(queue) : Before(g, job[t])
    BY <1>2 DEF OrderInv, AllBefore
<1>4. Ordered(queue') /\ Elements(queue') = Elements(queue) \union {job[t]}
    BY <1>1, <1>2, <1>3, OrderedAppend, AppendFacts DEF OrderInv
<1>5. job[t].id <= seq
    BY <1>2 DEF OrderInv
<1>6. \A e \in Elements(buffer') \union Elements(queue') \union Elements(taken') : e.id <= seq'
    BY <1>1, <1>4, <1>5 DEF OrderInv
<1>7. \A g \in Elements(queue') : AllBefore(Elements(taken'), g)
    BY <1>1, <1>3, <1>4 DEF OrderInv
<1>8. \A u \in Threads : /\ pc'[u] \in Active => u # t /\ pc[u] \in Active
                         /\ pc'[u] \in Early => u # t /\ pc[u] \in Early
    BY <1>1 DEF Active, Early, Publishing
<1>9. ASSUME NEW u \in Threads, pc'[u] \in Active
      PROVE  AllBefore(Elements(taken') \union Elements(queue'), job'[u])
    <2>1. Before(job[t], job[u])
        BY <1>2, <1>8, <1>9, HandedOver
    <2>2. AllBefore(Elements(taken) \union Elements(queue), job[u])
        BY <1>8, <1>9 DEF OrderInv
    <2> QED BY <1>1, <1>4, <2>1, <2>2 DEF AllBefore
<1> QED BY <1>1, <1>4, <1>6, <1>7, <1>8, <1>9 DEF OrderInv

LEMMA TakeStep == ASSUME Shape, OrderInv, Take PROVE OrderInv'
<1> DEFINE h == Head(queue)
<1>1. /\ UNCHANGED <<pc, job, seq, buffer>> /\ queue # << >>
      /\ queue' = Tail(queue) /\ taken' = Append(taken, h)
    BY DEF Take, Unchanged, threadVars, bufferVars
<1>2. queue \in Seq(Entries) /\ taken \in Seq(Entries) /\ Ordered(queue) /\ Ordered(taken)
    BY DEF Shape, OrderInv
<1>3. /\ h \in Entries /\ h \in Elements(queue)
      /\ Elements(queue) = {h} \union Elements(queue')
    BY <1>1, <1>2, TailFacts, TailElements
<1>4. Ordered(queue') /\ \A g \in Elements(queue') : Before(h, g)
    BY <1>1, <1>2, OrderedTail
<1> HIDE DEF h
<1>5. \A g \in Elements(taken) : Before(g, h)
    BY <1>3 DEF OrderInv, AllBefore
<1>6. Ordered(taken') /\ Elements(taken') = Elements(taken) \union {h}
    BY <1>1, <1>2, <1>3, <1>5, OrderedAppend, AppendFacts
<1>7. Elements(queue') \union Elements(taken') = Elements(queue) \union Elements(taken)
    BY <1>3, <1>6
<1>8. \A g \in Elements(queue') : AllBefore(Elements(taken'), g)
    BY <1>3, <1>4, <1>6 DEF OrderInv, AllBefore
<1>9. \A e \in Elements(buffer') \union Elements(queue') \union Elements(taken') : e.id <= seq'
    BY <1>1, <1>7 DEF OrderInv
<1>10. \A u \in Threads : pc'[u] \in Active =>
            AllBefore(Elements(taken') \union Elements(queue'), job'[u])
    BY <1>1, <1>7 DEF OrderInv, AllBefore
<1> QED BY <1>1, <1>4, <1>6, <1>8, <1>9, <1>10 DEF OrderInv

LEMMA OrderNext == Shape /\ Shape' /\ OrderInv /\ [Next]_vars => OrderInv'
<1> SUFFICES ASSUME Shape, Shape', OrderInv, [Next]_vars PROVE OrderInv'
    OBVIOUS
<1>0. /\ Threads = {"capture", "loop"} /\ pc \in [Threads -> Points] /\ seq \in Nat
      /\ \A point \in {"idle", "tracked", "lookup", "ended", "none", "joining"} :
            point \notin Active /\ point \notin Early
    BY DEF Threads, Shape, ThreadShape, Active, Early, Publishing
<1>1. CASE Capture
    <2>1. UNCHANGED <<buffer, taken, queue>> /\ pc["capture"] = "idle"
        BY <1>1 DEF Capture, streamVars, historyVars
    <2>2. \/ seq' = seq + 1 /\ UNCHANGED <<pc, job>>
          \/ \E p : Begin("capture", p)
        BY <1>1 DEF Capture
    <2>3. CASE seq' = seq + 1 /\ UNCHANGED <<pc, job>>
        BY <1>0, <2>1, <2>3, CalmStep
    <2>4. CASE \E p : Begin("capture", p)
        BY <1>0, <2>1, <2>4, BeginStep
    <2> QED BY <2>2, <2>3, <2>4
<1>2. CASE Simulate
    <2>1. UNCHANGED <<buffer, taken, queue>> /\ pc["capture"] = "idle"
          /\ \E p : Begin("capture", p)
        BY <1>2 DEF Simulate, streamVars, historyVars
    <2> QED BY <1>0, <2>1, BeginStep
<1>3. CASE Ingest
    <2>1. UNCHANGED <<buffer, taken, queue>> /\ pc["loop"] = "tracked"
          /\ \E p : Begin("loop", p)
        BY <1>3 DEF Ingest, streamVars, historyVars
    <2> QED BY <1>0, <2>1, BeginStep
<1>4. CASE CaptureEnds \/ LookupEnds \/ Start \/ Stop \/ Joined
    <2>1. UNCHANGED <<buffer, taken, queue, job, seq>>
        BY <1>4 DEF CaptureEnds, LookupEnds, Start, Stop, Joined, bufferVars, streamVars,
                    historyVars
    <2>2. \E t \in Threads, point \in {"ended", "tracked", "idle", "joining"} :
            pc' = [pc EXCEPT ![t] = point]
        BY <1>0, <1>4 DEF CaptureEnds, LookupEnds, Start, Stop, Joined, At
    <2> QED BY <1>0, <2>1, <2>2, CalmStep
<1>5. ASSUME NEW q \in Queries, Query(q.client, q.blocked) PROVE OrderInv'
    <2>1. UNCHANGED <<buffer, taken, queue, seq>>
        BY <1>5 DEF Query, bufferVars, streamVars, historyVars
    <2>2. pc'["loop"] \in {"lookup", "tracked"} /\ pc'["capture"] = pc["capture"]
          /\ job'["capture"] = job["capture"]
        BY <1>0, <1>5 DEF Query, At, Shape, ThreadShape
    <2> QED BY <1>0, <2>1, <2>2, CalmStep
<1>6. ASSUME NEW t \in Threads, Record(t) PROVE OrderInv'
    <2>1. CASE RecordFlow(t) \/ Publish(t) \/ Retry(t) \/ Discard(t)
        <3>1. UNCHANGED <<buffer, taken, job, seq>>
              /\ (queue' = queue \/ (queue # << >> /\ queue' = Tail(queue)))
            BY <2>1 DEF RecordFlow, Publish, Retry, Discard, bufferVars, streamVars, historyVars
        <3>2. \E point \in {"recorded", "idle", "entering", "discarding", "retrying"} :
                /\ pc' = [pc EXCEPT ![t] = point]
                /\ point = "recorded" => pc[t] = "numbered"
                /\ pc[t] \in Active
            BY <2>1 DEF RecordFlow, Publish, Retry, Discard, At, Active, Publishing
        <3>3. \A u \in Threads : /\ pc'[u] \in Active => pc[u] \in Active
                                 /\ pc'[u] \in Early => pc[u] \in Early
            BY <1>0, <3>2 DEF Early
        <3> QED BY <1>0, <3>1, <3>3, CalmStep
    <2>2. CASE Store(t)
        BY <2>2, StoreStep
    <2>3. CASE Enter(t)
        BY <2>3, EnterStep
    <2> QED BY <1>6, <2>1, <2>2, <2>3 DEF Record
<1>7. CASE Take
    BY <1>7, TakeStep
<1>8. CASE Open \/ Confirmed \/ Replay \/ Abandoned \/ FindEmpty \/ Register \/ Woken
             \/ TimesOut \/ Drained \/ Leave \/ UNCHANGED vars
    <2>1. UNCHANGED <<pc, job, seq, buffer, taken, queue>>
        BY <1>8 DEF Open, Confirmed, Replay, Abandoned, FindEmpty, Register, Woken, TimesOut, Drained,
                    Leave, Unchanged, vars, threadVars, bufferVars, streamVars, historyVars
    <2> QED BY <1>0, <2>1, CalmStep
<1> QED BY <1>1, <1>2, <1>3, <1>4, <1>5, <1>6, <1>7, <1>8 DEF Next, StreamStep, StreamMoves

-----------------------------------------------------------------------------
(* Sums over finite sets.  SumFunctionOnSet adds in an order of its own    *)
(* choosing: that the order does not matter, and that the sum exists at    *)
(* all, are shown by a least set of counterexamples.                       *)

\* A non-empty set of finite sets has one that includes no other.
LEMMA MinimalSet ==
    \A F : F # {} /\ (\A s \in F : IsFiniteSet(s))
             => \E s \in F : \A t \in F : t \subseteq s => t = s
<1> SUFFICES ASSUME NEW F, F # {}, \A s \in F : IsFiniteSet(s)
             PROVE  \E s \in F : \A t \in F : t \subseteq s => t = s
    OBVIOUS
<1> DEFINE D == UNION F
<1>1. F \subseteq FiniteSubsetsOf(D)
    BY DEF FiniteSubsetsOf
<1>2. \E s \in F : \A t \in F : <<t, s>> \notin StrictSubsetOrdering(D)
    BY <1>1, WFMin, FS_StrictSubsetOrderingWellFounded
<1> QED BY <1>2 DEF StrictSubsetOrdering

Pick(s) == CHOOSE x \in s : TRUE

\* h[s] is the sum of f over each s \subseteq S, one element at a time.
Sums(h, f, S) ==
    h = [s \in SUBSET S |-> IF s = {} THEN 0 ELSE f[Pick(s)] + h[s \ {Pick(s)}]]

LEMMA SumsStep ==
    ASSUME NEW S, NEW f, NEW h, Sums(h, f, S), NEW s \in SUBSET S
    PROVE  /\ s = {} => h[s] = 0
           /\ s # {} => Pick(s) \in s /\ h[s] = f[Pick(s)] + h[s \ {Pick(s)}]
<1>1. h[s] = IF s = {} THEN 0 ELSE f[Pick(s)] + h[s \ {Pick(s)}]
    BY Zenon DEF Sums
<1>2. s # {} => Pick(s) \in s
    BY DEF Pick
<1> QED BY <1>1, <1>2

LEMMA SumsAgree ==
    ASSUME NEW S, IsFiniteSet(S), NEW T, IsFiniteSet(T), NEW f, NEW g, NEW h, NEW k,
           \A x \in S \cap T : f[x] = g[x],
           Sums(h, f, S), Sums(k, g, T)
    PROVE  \A s \in SUBSET (S \cap T) : h[s] = k[s]
<1> DEFINE F == {s \in SUBSET (S \cap T) : h[s] # k[s]}
<1> SUFFICES ASSUME F # {} PROVE FALSE
    OBVIOUS
<1>1. PICK s \in F : \A t \in F : t \subseteq s => t = s
    <2>1. IsFiniteSet(S \cap T)
        BY FS_Intersection
    <2>2. \A t \in F : IsFiniteSet(t)
        BY <2>1, FS_Subset
    <2> HIDE DEF F
    <2> QED BY <2>2, MinimalSet
<1>2. s \in SUBSET S /\ s \in SUBSET T /\ h[s] # k[s]
    OBVIOUS
<1>3. /\ s # {} /\ Pick(s) \in s
      /\ h[s] = f[Pick(s)] + h[s \ {Pick(s)}]
      /\ k[s] = g[Pick(s)] + k[s \ {Pick(s)}]
    BY <1>2, SumsStep
<1>4. h[s \ {Pick(s)}] = k[s \ {Pick(s)}]
    <2>1. s \ {Pick(s)} \subseteq s /\ s \ {Pick(s)} # s
        BY <1>3
    <2> QED BY <1>1, <2>1
<1>5. f[Pick(s)] = g[Pick(s)]
    BY <1>3
<1> QED BY <1>2, <1>3, <1>4, <1>5

LEMMA SumsAreNatural ==
    ASSUME NEW S, IsFiniteSet(S), NEW f, \A x \in S : f[x] \in Nat, NEW h, Sums(h, f, S)
    PROVE  h \in [SUBSET S -> Nat]
<1> DEFINE F == {s \in SUBSET S : h[s] \notin Nat}
<1>1. CASE F # {}
    <2>1. PICK s \in F : \A t \in F : t \subseteq s => t = s
        <3>1. \A t \in F : IsFiniteSet(t)
            BY FS_Subset
        <3> HIDE DEF F
        <3> QED BY ONLY <1>1, <3>1, MinimalSet
    <2>2. s \in SUBSET S /\ h[s] \notin Nat
        OBVIOUS
    <2> HIDE DEF F
    <2>3. /\ s = {} => h[s] = 0
          /\ s # {} => Pick(s) \in s /\ h[s] = f[Pick(s)] + h[s \ {Pick(s)}]
        <3>1. s \in SUBSET S
            BY <2>2
        <3> QED BY ONLY Sums(h, f, S), <3>1, SumsStep
    <2>4. h[s \ {Pick(s)}] \in Nat
        <3>1. s \ {Pick(s)} \in SUBSET S /\ s \ {Pick(s)} \subseteq s /\ s \ {Pick(s)} # s
            BY <2>2, <2>3
        <3> QED BY <2>1, <3>1 DEF F
    <2>5. f[Pick(s)] \in Nat
        BY <2>2, <2>3
    <2> QED BY <2>2, <2>3, <2>4, <2>5
<1>2. CASE F = {}
    BY <1>2 DEF Sums
<1> QED BY <1>1, <1>2

\* The sums exist: for a least set without them they can be put together.
LEMMA SumsExist ==
    ASSUME NEW S, IsFiniteSet(S), NEW f, \A x \in S : f[x] \in Nat
    PROVE  \E h : Sums(h, f, S)
<1> DEFINE F == {s \in SUBSET S : ~\E h : Sums(h, f, s)}
<1> SUFFICES ASSUME F # {} PROVE FALSE
    <2>1. S \in SUBSET S
        OBVIOUS
    <2> QED BY <2>1
<1>1. PICK s \in F : \A t \in F : t \subseteq s => t = s
    <2>1. F # {} /\ \A t \in F : IsFiniteSet(t)
        BY FS_Subset
    <2> HIDE DEF F
    <2> QED BY ONLY <2>1, MinimalSet
<1>2. s \subseteq S /\ IsFiniteSet(s)
    BY FS_Subset
<1> DEFINE G(t) == CHOOSE h : Sums(h, f, t)
           x == Pick(s)
<1>3. \A t \in SUBSET s : t # s => Sums(G(t), f, t)
    <2> SUFFICES ASSUME NEW t \in SUBSET s, t # s PROVE Sums(G(t), f, t)
        OBVIOUS
    <2>1. t \notin F /\ t \in SUBSET S
        BY <1>1, <1>2
    <2>2. \E h : Sums(h, f, t)
        BY <2>1
    <2> QED BY <2>2
<1>4. CASE s = {}
    <2>1. Sums([u \in SUBSET s |-> 0], f, s)
        BY <1>4 DEF Sums
    <2> QED BY <2>1
<1>5. CASE s # {}
    <2> HIDE DEF G
    <2>1. x \in s /\ f[x] \in Nat
        BY <1>2, <1>5 DEF Pick
    <2>2. s \ {x} \in SUBSET s /\ s \ {x} # s
        BY <2>1
    <2> HIDE DEF x
    <2> DEFINE k == [u \in SUBSET s |->
                       IF u = s THEN f[x] + G(s \ {x})[s \ {x}] ELSE G(u)[u]]
    <2>5. ASSUME NEW u \in SUBSET s, u # s, u # {}
          PROVE  k[u] = f[Pick(u)] + k[u \ {Pick(u)}]
        <3>1. Pick(u) \in u
            BY <2>5 DEF Pick
        <3> DEFINE v == u \ {Pick(u)}
        <3>2. v \in SUBSET u /\ v \in SUBSET s /\ v # s
            BY <3>1
        <3>3. Sums(G(u), f, u) /\ Sums(G(v), f, v) /\ IsFiniteSet(u) /\ IsFiniteSet(v)
            BY <1>2, <1>3, <2>5, <3>2, FS_Subset
        <3>4. v \in SUBSET (u \cap v)
            BY <3>2
        <3> HIDE DEF v
        <3>5. G(u)[v] = G(v)[v]
            BY <3>3, <3>4, SumsAgree
        <3>6. G(u)[u] = f[Pick(u)] + G(u)[v]
            BY <2>5, <3>3 DEF Sums, v
        <3> QED BY <2>5, <3>2, <3>5, <3>6 DEF v
    <2>6. {} # s => k[{}] = 0
        BY <1>3 DEF Sums
    <2>7. k[s] = f[Pick(s)] + k[s \ {Pick(s)}]
        BY <2>2 DEF x
    <2>8. Sums(k, f, s)
        BY <1>5, <2>5, <2>6, <2>7 DEF Sums
    <2> QED BY <2>8
<1> QED BY <1>4, <1>5

\* SumFunctionOnSet finds them.
LEMMA SumFunctionFacts ==
    ASSUME NEW S, IsFiniteSet(S), NEW f, \A x \in S : f[x] \in Nat
    PROVE  \E h : Sums(h, f, S) /\ SumFunctionOnSet(f, S) = h[S]
<1>1. PICK k : Sums(k, f, S)
    BY SumsExist
<1> DEFINE body(h) == [s \in SUBSET S |->
             IF s = {} THEN 0 ELSE f[Pick(s)] + h[s \ {Pick(s)}]]
           h == CHOOSE h : h = body(h)
<1>2. k = body(k)
    BY <1>1 DEF Sums
<1>3. h = body(h)
    <2>1. \E g : g = body(g)
        BY <1>2
    <2> HIDE DEF body
    <2> QED BY <2>1
<1>4. SumFunctionOnSet(f, S) = h[S]
    BY DEF SumFunctionOnSet, FoldFunctionOnSet, MapThenFoldSet, Pick
<1>5. Sums(h, f, S)
    BY <1>3 DEF Sums
<1> QED BY <1>4, <1>5

LEMMA SumPick ==
    ASSUME NEW S, IsFiniteSet(S), NEW f, \A x \in S : f[x] \in Nat
    PROVE  /\ SumFunctionOnSet(f, S) \in Nat
           /\ S = {} => SumFunctionOnSet(f, S) = 0
           /\ S # {} => /\ Pick(S) \in S
                        /\ SumFunctionOnSet(f, S)
                             = f[Pick(S)] + SumFunctionOnSet(f, S \ {Pick(S)})
<1>1. PICK h : Sums(h, f, S) /\ SumFunctionOnSet(f, S) = h[S]
    BY SumFunctionFacts
<1>2. h \in [SUBSET S -> Nat] /\ S \in SUBSET S
    BY <1>1, SumsAreNatural
<1>3. /\ S = {} => h[S] = 0
      /\ S # {} => Pick(S) \in S /\ h[S] = f[Pick(S)] + h[S \ {Pick(S)}]
    BY ONLY <1>1, <1>2, SumsStep
<1>4. h[S \ {Pick(S)}] = SumFunctionOnSet(f, S \ {Pick(S)})
    <2> DEFINE T == S \ {Pick(S)}
    <2>1. IsFiniteSet(T) /\ (\A x \in T : f[x] \in Nat) /\ T \in SUBSET (S \cap T)
        BY FS_Subset
    <2> HIDE DEF T
    <2>2. PICK k : Sums(k, f, T) /\ SumFunctionOnSet(f, T) = k[T]
        BY <2>1, SumFunctionFacts
    <2>3. h[T] = k[T]
        BY <1>1, <2>1, <2>2, SumsAgree
    <2> QED BY <2>2, <2>3 DEF T
<1> QED BY <1>1, <1>2, <1>3, <1>4

\* Only the values on the set matter.
LEMMA SumCongruence ==
    ASSUME NEW S, IsFiniteSet(S), NEW f, \A x \in S : f[x] \in Nat,
           NEW g, \A x \in S : g[x] = f[x]
    PROVE  SumFunctionOnSet(f, S) = SumFunctionOnSet(g, S)
<1>1. PICK h : Sums(h, f, S) /\ SumFunctionOnSet(f, S) = h[S]
    BY SumFunctionFacts
<1>2. PICK k : Sums(k, g, S) /\ SumFunctionOnSet(g, S) = k[S]
    BY SumFunctionFacts
<1>3. S \in SUBSET (S \cap S) /\ \A x \in S \cap S : f[x] = g[x]
    OBVIOUS
<1>4. h[S] = k[S]
    BY <1>1, <1>2, <1>3, SumsAgree
<1> QED BY <1>1, <1>2, <1>4

\* The order in which elements are added does not matter.
LEMMA SumRemove ==
    ASSUME NEW S, IsFiniteSet(S), NEW f, \A x \in S : f[x] \in Nat, NEW x \in S
    PROVE  SumFunctionOnSet(f, S) = f[x] + SumFunctionOnSet(f, S \ {x})
<1> DEFINE Total(s) == SumFunctionOnSet(f, s)
           Wrong(s) == \E y \in s : Total(s) # f[y] + Total(s \ {y})
           F == {s \in SUBSET S : Wrong(s)}
<1>1. \A s \in SUBSET S : IsFiniteSet(s) /\ \A y \in s : f[y] \in Nat
    BY FS_Subset
<1>2. F = {}
    <2> SUFFICES ASSUME F # {} PROVE FALSE
        OBVIOUS
    <2>1. F # {} /\ \A s \in F : IsFiniteSet(s)
        BY <1>1
    <2>2. PICK s \in F : \A t \in F : t \subseteq s => t = s
        <3> HIDE DEF F
        <3> QED BY ONLY <2>1, MinimalSet
    <2>3. s \in SUBSET S
        OBVIOUS
    <2>4. PICK y \in s : Total(s) # f[y] + Total(s \ {y})
        OBVIOUS
    <2> DEFINE z == Pick(s)
    <2> HIDE DEF Total
    <2>5. z \in s /\ Total(s) = f[z] + Total(s \ {z})
        BY <1>1, <2>3, <2>4, SumPick DEF Total
    <2> HIDE DEF z
    <2>6. z # y
        BY <2>4, <2>5
    <2>7. ~Wrong(s \ {z}) /\ ~Wrong(s \ {y})
        <3>1. /\ s \ {z} \in SUBSET S /\ s \ {z} \subseteq s /\ s \ {z} # s
              /\ s \ {y} \in SUBSET S /\ s \ {y} \subseteq s /\ s \ {y} # s
            BY <2>3, <2>4, <2>5
        <3> HIDE DEF Wrong
        <3> QED BY <2>2, <3>1
    <2>8. /\ Total(s \ {z}) = f[y] + Total((s \ {z}) \ {y})
          /\ Total(s \ {y}) = f[z] + Total((s \ {y}) \ {z})
        BY <2>4, <2>5, <2>6, <2>7
    <2>9. (s \ {z}) \ {y} = (s \ {y}) \ {z}
        OBVIOUS
    <2>10. Total((s \ {y}) \ {z}) \in Nat /\ f[y] \in Nat /\ f[z] \in Nat
        BY <1>1, <2>3, <2>4, <2>5, SumPick DEF Total
    <2>11. Total((s \ {z}) \ {y}) = Total((s \ {y}) \ {z})
        BY <2>9
    <2>12. Total(s) = f[y] + Total(s \ {y})
        BY ONLY <2>5, <2>8, <2>10, <2>11
    <2> QED BY <2>4, <2>12
<1>3. ~Wrong(S)
    BY <1>2
<1> QED BY <1>3

\* A set sums to what its two parts do.
LEMMA SumSplit ==
    ASSUME NEW S, IsFiniteSet(S), NEW f, \A x \in S : f[x] \in Nat, NEW T \in SUBSET S
    PROVE  SumFunctionOnSet(f, S) = SumFunctionOnSet(f, T) + SumFunctionOnSet(f, S \ T)
<1> DEFINE Total(s) == SumFunctionOnSet(f, s)
           F == {s \in SUBSET S : T \subseteq s /\ Total(s) # Total(T) + Total(s \ T)}
<1>1. \A s \in SUBSET S : IsFiniteSet(s) /\ \A y \in s : f[y] \in Nat
    BY FS_Subset
<1>2. \A s \in SUBSET S : Total(s) \in Nat
    BY <1>1, SumPick
<1>3. Total({}) = 0
    BY <1>1, SumPick
<1>4. \A s \in SUBSET S, y \in S : y \in s => Total(s) = f[y] + Total(s \ {y})
    BY <1>1, SumRemove
<1> HIDE DEF Total
<1>5. F = {}
    <2> SUFFICES ASSUME F # {} PROVE FALSE
        OBVIOUS
    <2>1. F # {} /\ \A s \in F : IsFiniteSet(s)
        BY <1>1
    <2>2. PICK s \in F : \A t \in F : t \subseteq s => t = s
        <3> HIDE DEF F
        <3> QED BY ONLY <2>1, MinimalSet
    <2>3. s # T
        <3>1. T \ T = {}
            OBVIOUS
        <3> QED BY <1>2, <1>3, <3>1
    <2>4. PICK y \in s : y \notin T
        BY <2>3
    <2>5. /\ s \in SUBSET S /\ y \in S
          /\ s \ {y} \in SUBSET S /\ T \subseteq s \ {y} /\ s \ T \in SUBSET S
          /\ (s \ T) \ {y} = (s \ {y}) \ T /\ (s \ {y}) \ T \in SUBSET S
        BY <2>4
    <2>6. Total(s) = f[y] + Total(s \ {y})
        BY <1>4, <2>5
    <2>7. Total(s \ T) = f[y] + Total((s \ {y}) \ T)
        BY <1>4, <2>4, <2>5
    <2>8. Total(s \ {y}) = Total(T) + Total((s \ {y}) \ T)
        BY <2>2, <2>4, <2>5
    <2>9. Total(T) \in Nat /\ Total((s \ {y}) \ T) \in Nat /\ f[y] \in Nat
        BY <1>2, <2>5
    <2>10. Total(s) # Total(T) + Total(s \ T)
        OBVIOUS
    <2> QED BY ONLY <2>6, <2>7, <2>8, <2>9, <2>10
<1>6. S \notin F
    BY <1>5
<1> QED BY <1>6 DEF Total

-----------------------------------------------------------------------------
(* What the flows count *)

\* One more is counted for a key, a new one starts at one.
LEMMA SumGrows ==
    ASSUME NEW K, IsFiniteSet(K), NEW f, \A x \in K : f[x] \in Nat, NEW key, NEW g,
           \A x \in K \ {key} : g[x] = f[x],
           g[key] = IF key \in K THEN f[key] + 1 ELSE 1
    PROVE  SumFunctionOnSet(g, K \union {key}) = SumFunctionOnSet(f, K) + 1
<1> DEFINE T == K \union {key}
           R == K \ {key}
<1>1. IsFiniteSet(T) /\ IsFiniteSet(R) /\ R = T \ {key} /\ key \in T
    BY FS_AddElement, FS_RemoveElement
<1>2. \A x \in T : g[x] \in Nat
    OBVIOUS
<1>3. \A x \in R : f[x] \in Nat /\ g[x] = f[x]
    OBVIOUS
<1> HIDE DEF T, R
<1>4. SumFunctionOnSet(g, T) = g[key] + SumFunctionOnSet(g, R)
    BY ONLY <1>1, <1>2, SumRemove
<1>5. SumFunctionOnSet(g, R) = SumFunctionOnSet(f, R)
    BY ONLY <1>1, <1>3, SumCongruence
<1>6. SumFunctionOnSet(f, R) \in Nat
    BY ONLY <1>1, <1>3, SumPick
<1>7. CASE key \in K
    <2>1. SumFunctionOnSet(f, K) = f[key] + SumFunctionOnSet(f, R)
        BY <1>7, SumRemove DEF R
    <2> QED BY <1>4, <1>5, <1>6, <1>7, <2>1 DEF T
<1>8. CASE key \notin K
    <2>1. R = K
        BY <1>8 DEF R
    <2> QED BY <1>4, <1>5, <1>6, <1>8, <2>1 DEF T
<1> QED BY <1>7, <1>8

FlowFields == {"client", "server", "first", "last", "up", "down", "state", "tag"}

IsFlow(r) == r = [x \in FlowFields |-> r[x]] /\ r.up \in Nat /\ r.down \in Nat

FlowTable == IsFiniteSet(DOMAIN flows) /\ \A k \in DOMAIN flows : IsFlow(flows[k])

Counts == [k \in DOMAIN flows |-> flows[k].up + flows[k].down]

\* A packet counts once, in one of a flow's two directions.
LEMMA CountedOnce ==
    ASSUME NEW flow, NEW pkt, IsFlow(flow)
    PROVE  /\ IsFlow(Counted(flow, pkt))
           /\ Counted(flow, pkt).up + Counted(flow, pkt).down = flow.up + flow.down + 1
<1>1. DOMAIN flow = FlowFields
    BY DEF IsFlow
<1>2. DOMAIN Counted(flow, pkt) = FlowFields
    BY <1>1 DEF Counted
<1>3. /\ Counted(flow, pkt).up = IF pkt.src = flow.client THEN flow.up + 1 ELSE flow.up
      /\ Counted(flow, pkt).down = IF pkt.src = flow.client THEN flow.down ELSE flow.down + 1
    BY <1>1 DEF Counted, FlowFields
<1>4. Counted(flow, pkt) = [x \in FlowFields |-> Counted(flow, pkt)[x]]
    BY <1>2 DEF Counted
<1> QED BY <1>3, <1>4 DEF IsFlow

LEMMA NewFlowEmpty ==
    ASSUME NEW pkt
    PROVE  IsFlow(NewFlow(pkt)) /\ NewFlow(pkt).up + NewFlow(pkt).down = 0
BY DEF IsFlow, NewFlow, FlowFields

\* While none idles out, recording a packet adds one to what is kept of the
\* table, and the rest of the table is what the step removes.
LEMMA RecordAdds ==
    ASSUME FlowTable, ~PruneDue, NEW pkt, RecordPacket(pkt)
    PROVE  LET gone == DOMAIN flows \ DOMAIN flows'
           IN  /\ FlowTable'
               /\ SumFunction(Counts) \in Nat /\ SumFunction(Counts') \in Nat
               /\ PacketsIn(gone) \in Nat
               /\ SumFunction(Counts') + PacketsIn(gone)
                    = SumFunction(Counts) + IF Tracked(pkt) THEN 1 ELSE 0
<1> DEFINE gone == DOMAIN flows \ DOMAIN flows'
<1>6. \A keys : PacketsIn(keys) = SumFunctionOnSet(Counts, keys)
    BY DEF PacketsIn, Counts
<1>1. /\ DOMAIN Counts = DOMAIN flows
      /\ \A k \in DOMAIN flows : Counts[k] = flows[k].up + flows[k].down /\ Counts[k] \in Nat
    BY DEF Counts, FlowTable, IsFlow
<1>2. SumFunction(Counts) = SumFunctionOnSet(Counts, DOMAIN flows)
    BY <1>1 DEF SumFunction
<1>3. SumFunction(Counts) \in Nat
    <2> HIDE DEF Counts
    <2>1. IsFiniteSet(DOMAIN flows)
        BY DEF FlowTable
    <2> QED BY ONLY <1>1, <1>2, <2>1, SumPick
<1>4. CASE ~Tracked(pkt)
    <2>1. flows' = flows
        BY <1>4 DEF RecordPacket, flowVars
    <2>2. Counts' = Counts /\ FlowTable' /\ gone = {}
        BY <2>1 DEF Counts, FlowTable
    <2>3. PacketsIn(gone) = 0
        BY <1>6, <2>2, FS_EmptySet, SumPick
    <2> QED BY <1>3, <1>4, <2>1, <2>2, <2>3
<1>5. CASE Tracked(pkt)
    <2> DEFINE key == FlowKey(pkt)
               fresh(kept) == IF key \in kept THEN flows[key] ELSE NewFlow(pkt)
    <2>1. PICK kept \in Survivors(AfterPrune, key) :
            flows' = [k \in kept \union {key} |->
                        IF k # key THEN flows[k] ELSE Counted(fresh(kept), pkt)]
        BY <1>5 DEF RecordPacket
    <2>2. kept \subseteq DOMAIN flows
        BY DEF Survivors, AfterPrune, OldestOf
    <2>3. IsFiniteSet(kept) /\ IsFiniteSet(kept \union {key})
        BY <2>2, FS_Subset, FS_AddElement DEF FlowTable
    <2>4. IsFlow(fresh(kept))
          /\ fresh(kept).up + fresh(kept).down = IF key \in kept THEN Counts[key] ELSE 0
        BY <1>1, <2>2, NewFlowEmpty DEF FlowTable
    <2> HIDE DEF key, fresh
    <2>5. /\ DOMAIN flows' = kept \union {key}
          /\ flows'[key] = Counted(fresh(kept), pkt)
          /\ \A k \in kept \ {key} : flows'[k] = flows[k]
        BY <2>1
    <2>6. /\ IsFlow(flows'[key])
          /\ flows'[key].up + flows'[key].down
               = (IF key \in kept THEN Counts[key] ELSE 0) + 1
        BY <2>4, <2>5, CountedOnce
    <2>7. FlowTable'
        BY <2>2, <2>3, <2>5, <2>6 DEF FlowTable
    <2>8. /\ DOMAIN Counts' = kept \union {key}
          /\ \A k \in kept \ {key} : Counts'[k] = Counts[k]
          /\ Counts'[key] = IF key \in kept THEN Counts[key] + 1 ELSE 1
        <3>1. /\ DOMAIN Counts' = DOMAIN flows'
              /\ \A k \in DOMAIN flows' : Counts'[k] = flows'[k].up + flows'[k].down
            BY DEF Counts
        <3> HIDE DEF Counts
        <3>2. \A k \in kept \ {key} : Counts'[k] = Counts[k]
            BY <1>1, <2>2, <2>5, <3>1
        <3>3. key \in kept => Counts[key] \in Nat
            BY <1>1, <2>2
        <3>4. Counts'[key] = IF key \in kept THEN Counts[key] + 1 ELSE 1
            BY <2>5, <2>6, <3>1, <3>3
        <3> QED BY <2>5, <3>1, <3>2, <3>4
    <2>9. \A k \in kept : Counts[k] \in Nat
        BY <1>1, <2>2
    <2> HIDE DEF Counts
    <2>10. SumFunction(Counts') = SumFunctionOnSet(Counts, kept) + 1
        <3>1. SumFunctionOnSet(Counts', kept \union {key}) = SumFunctionOnSet(Counts, kept) + 1
            BY ONLY <2>3, <2>8, <2>9, SumGrows
        <3> QED BY <2>8, <3>1 DEF SumFunction
    <2>11. gone = DOMAIN flows \ kept
        <3>1. kept \in Survivors(DOMAIN flows, key)
            BY DEF AfterPrune
        <3>2. key \in DOMAIN flows => key \in kept
            BY <3>1 DEF Survivors
        <3> QED BY <2>2, <2>5, <3>2
    <2>12. /\ SumFunctionOnSet(Counts, kept) \in Nat
           /\ SumFunctionOnSet(Counts, DOMAIN flows \ kept) \in Nat
           /\ SumFunctionOnSet(Counts, DOMAIN flows)
                = SumFunctionOnSet(Counts, kept) + SumFunctionOnSet(Counts, DOMAIN flows \ kept)
        <3>1. IsFiniteSet(DOMAIN flows) /\ IsFiniteSet(DOMAIN flows \ kept)
            BY FS_Subset DEF FlowTable
        <3>2. SumFunctionOnSet(Counts, kept) \in Nat
            BY ONLY <2>3, <2>9, SumPick
        <3>3. \A k \in DOMAIN flows : Counts[k] \in Nat
            BY <1>1
        <3>4. SumFunctionOnSet(Counts, DOMAIN flows \ kept) \in Nat
            BY ONLY <3>1, <3>3, SumPick
        <3>5. kept \in SUBSET DOMAIN flows
            BY <2>2
        <3>6. SumFunctionOnSet(Counts, DOMAIN flows)
                = SumFunctionOnSet(Counts, kept) + SumFunctionOnSet(Counts, DOMAIN flows \ kept)
            BY ONLY <3>1, <3>3, <3>5, SumSplit
        <3> QED BY <3>2, <3>4, <3>6
    <2>13. PacketsIn(gone) = SumFunctionOnSet(Counts, DOMAIN flows \ kept)
        BY <1>6, <2>11
    <2> HIDE DEF gone
    <2>14. /\ PacketsIn(gone) \in Nat /\ SumFunction(Counts') \in Nat
           /\ SumFunction(Counts') + PacketsIn(gone) = SumFunction(Counts) + 1
        BY <1>2, <2>10, <2>12, <2>13
    <2> QED BY <1>3, <1>5, <2>7, <2>14 DEF gone
<1> QED BY <1>4, <1>5

-----------------------------------------------------------------------------
(* The flows and the counters *)

Carrying(point) == {t \in Threads : pc[t] = point}

\* No time passes here, so no flow idles out.
ClockStands == now = 0 /\ lastPrune = 0

CountInv ==
    FlowTable /\ ClockStands /\ stats \in [Counters -> Nat] /\ dropped \in Nat
    /\ FlowsMatchPackets

LEMMA MatchAsSum ==
    FlowsMatchPackets <=>
        SumFunction(Counts) + dropped = stats["total"] + Cardinality(Carrying("recorded"))
BY DEF FlowsMatchPackets, PacketsIn, Counts, Carrying, SumFunction

LEMMA CarryingFacts ==
    ASSUME NEW point
    PROVE  /\ IsFiniteSet(Carrying(point)) /\ Cardinality(Carrying(point)) \in Nat
           /\ Cardinality(Carrying(point)') \in Nat
<1>1. IsFiniteSet(Threads)
    <2>1. Threads = {"capture"} \union {"loop"}
        BY DEF Threads
    <2> QED BY <2>1, FS_Singleton, FS_AddElement
<1>2. Carrying(point) \in SUBSET Threads /\ Carrying(point)' \in SUBSET Threads
    BY DEF Carrying
<1> QED BY <1>1, <1>2, FS_Subset, FS_CardinalityType

\* One thread comes to a point, leaves it, or neither.
LEMMA CarryingMoves ==
    ASSUME ThreadShape, NEW t \in Threads, NEW next, At(t, next), NEW point
    PROVE  Cardinality(Carrying(point)')
             = Cardinality(Carrying(point))
                 + (IF next = point THEN 1 ELSE 0) - (IF pc[t] = point THEN 1 ELSE 0)
<1> DEFINE S == Carrying(point)
<1>1. IsFiniteSet(S) /\ Cardinality(S) \in Nat
    BY CarryingFacts
<1>2. pc'[t] = next /\ \A u \in Threads : u # t => pc'[u] = pc[u]
    BY DEF At, ThreadShape
<1>3. S' = IF next = point THEN S \union {t} ELSE S \ {t}
    BY <1>2 DEF Carrying
<1>4. t \in S <=> pc[t] = point
    BY DEF Carrying
<1> HIDE DEF S
<1>5. Cardinality(S \union {t}) = IF t \in S THEN Cardinality(S) ELSE Cardinality(S) + 1
    BY ONLY <1>1, FS_AddElement
<1>6. Cardinality(S \ {t}) = IF t \in S THEN Cardinality(S) - 1 ELSE Cardinality(S)
    BY ONLY <1>1, FS_RemoveElement
<1> QED BY <1>1, <1>3, <1>4, <1>5, <1>6 DEF S

\* What each step does to the tables and to the packets between them.
LEMMA CountSteps ==
    ASSUME Shape, Stopping, [Next]_vars
    PROVE  \/ /\ UNCHANGED <<tableVars, stats>>
              /\ Carrying("recorded")' = Carrying("recorded")
           \/ \E t \in Threads :
                /\ pc[t] = "numbered" /\ At(t, "recorded")
                /\ RecordPacket(job[t].packet) /\ stats' = stats
                /\ dropped' = dropped + PacketsIn(DOMAIN flows \ DOMAIN flows')
                                      + IF Tracked(job[t].packet) THEN 0 ELSE 1
           \/ \E t \in Threads :
                /\ pc[t] = "recorded" /\ At(t, "stored")
                /\ UNCHANGED tableVars
                /\ stats' = [c \in Counters |->
                        IF c \in {"total", Class(job[t].packet), Way(job[t])}
                        THEN stats[c] + 1 ELSE stats[c]]
<1>0. ThreadShape /\ "capture" \in Threads /\ "loop" \in Threads
    BY DEF Shape, Threads
<1>1. ASSUME NEW t \in Threads, NEW next, At(t, next), pc[t] # "recorded", next # "recorded"
      PROVE  Carrying("recorded")' = Carrying("recorded")
    BY <1>0, <1>1 DEF At, ThreadShape, Carrying
<1>2. CASE Capture \/ Simulate
    <2>1. UNCHANGED <<tableVars, stats>> /\ pc["capture"] = "idle"
        BY <1>2 DEF Capture, Simulate
    <2>2. pc' = pc \/ At("capture", "numbered")
        BY <1>2 DEF Capture, Simulate, Begin
    <2>3. CASE pc' = pc
        BY <2>1, <2>3 DEF Carrying
    <2>4. CASE At("capture", "numbered")
        BY <1>0, <1>1, <2>1, <2>4
    <2> QED BY <2>2, <2>3, <2>4
<1>3. CASE CaptureEnds
    BY <1>0, <1>1, <1>3 DEF CaptureEnds, bufferVars
<1>4. ASSUME NEW q \in Queries, Query(q.client, q.blocked)
      PROVE  UNCHANGED <<tableVars, stats>> /\ Carrying("recorded")' = Carrying("recorded")
    <2>1. pc["loop"] = "idle" /\ UNCHANGED <<tableVars, stats>>
        BY <1>4 DEF Query, LoopFree, bufferVars
    <2>2. At("loop", "tracked") \/ At("loop", "lookup")
        BY <1>4 DEF Query
    <2> QED BY <1>0, <1>1, <2>1, <2>2
<1>5. CASE LookupEnds \/ Ingest
    <2>1. pc["loop"] \in {"lookup", "tracked"} /\ UNCHANGED <<tableVars, stats>>
        BY <1>5 DEF LookupEnds, Ingest, bufferVars
    <2>2. At("loop", "tracked") \/ At("loop", "numbered")
        BY <1>5 DEF LookupEnds, Ingest, Begin
    <2> QED BY <1>0, <1>1, <2>1, <2>2
<1>6. ASSUME NEW t \in Threads, Record(t)
      PROVE  \/ RecordFlow(t) \/ Store(t)
             \/ UNCHANGED <<tableVars, stats>> /\ Carrying("recorded")' = Carrying("recorded")
    <2>1. CASE Publish(t) \/ Enter(t) \/ Discard(t) \/ Retry(t)
        <3>1. /\ pc[t] # "recorded" /\ UNCHANGED <<tableVars, stats>>
              /\ \E next \in {"idle", "discarding", "entering", "retrying"} : At(t, next)
            BY <2>1 DEF Publish, Enter, Discard, Retry, bufferVars
        <3> QED BY <1>1, <3>1
    <2> QED BY <1>6, <2>1 DEF Record
<1>7. CASE Start \/ Stop \/ Joined
    <2>1. UNCHANGED <<tableVars, stats>>
        BY <1>7 DEF Start, Stop, Joined, bufferVars
    <2>2. CASE Start
        <3>1. At("capture", "idle") /\ pc["capture"] = "none"
            BY <2>2 DEF Start, Stopping
        <3> QED BY <1>0, <1>1, <2>1, <3>1
    <2>3. CASE Stop \/ Joined
        <3>1. /\ pc["loop"] # "recorded"
              /\ At("loop", "joining") \/ At("loop", "idle")
            BY <2>3 DEF Stop, Joined, LoopFree
        <3> QED BY <1>0, <1>1, <2>1, <3>1
    <2> QED BY <1>7, <2>2, <2>3
<1>8. CASE Open \/ StreamStep \/ Leave \/ UNCHANGED vars
    <2>1. UNCHANGED <<tableVars, stats, pc>>
        BY <1>8 DEF Open, StreamStep, Confirmed, Replay, Abandoned, Take, FindEmpty, Register,
                    Woken, TimesOut, Drained, Leave, Unchanged, vars, threadVars, bufferVars
    <2> QED BY <2>1 DEF Carrying
<1>9. ASSUME NEW t \in Threads, RecordFlow(t)
      PROVE  /\ pc[t] = "numbered" /\ At(t, "recorded")
             /\ RecordPacket(job[t].packet) /\ stats' = stats
             /\ dropped' = dropped + PacketsIn(DOMAIN flows \ DOMAIN flows')
                                   + IF Tracked(job[t].packet) THEN 0 ELSE 1
    BY <1>9 DEF RecordFlow, bufferVars
<1>10. ASSUME NEW t \in Threads, Store(t)
       PROVE  /\ pc[t] = "recorded" /\ At(t, "stored")
              /\ UNCHANGED tableVars
              /\ stats' = [c \in Counters |->
                      IF c \in {"total", Class(job[t].packet), Way(job[t])}
                      THEN stats[c] + 1 ELSE stats[c]]
    BY <1>10 DEF Store
<1> QED BY <1>2, <1>3, <1>4, <1>5, <1>6, <1>7, <1>8, <1>9, <1>10 DEF Next, StreamStep, StreamMoves

LEMMA CountInit == Init => CountInv
<1> SUFFICES ASSUME Init PROVE CountInv
    OBVIOUS
<1>1. DOMAIN flows = {} /\ DOMAIN Counts = {}
    BY DEF Init, FlowInit, Counts
<1>2. FlowTable /\ ClockStands
    BY <1>1, FS_EmptySet DEF FlowTable, ClockStands, Init, FlowInit
<1>3. SumFunction(Counts) = 0
    <2>1. SumFunctionOnSet(Counts, {}) = 0
        BY FS_EmptySet, SumPick
    <2> QED BY <1>1, <2>1 DEF SumFunction
<1>4. stats \in [Counters -> Nat] /\ stats["total"] = 0 /\ dropped = 0
    BY DEF Init, Counters
<1>5. Cardinality(Carrying("recorded")) = 0
    <2>1. Carrying("recorded") = {}
        BY DEF Init, Carrying, Threads
    <2> QED BY <2>1, FS_EmptySet
<1>6. SumFunction(Counts) + dropped = stats["total"] + Cardinality(Carrying("recorded"))
    BY <1>3, <1>4, <1>5
<1> QED BY <1>2, <1>4, <1>6, MatchAsSum DEF CountInv

LEMMA CountsSum ==
    ASSUME FlowTable
    PROVE  SumFunction(Counts) \in Nat
<1>1. DOMAIN Counts = DOMAIN flows /\ \A k \in DOMAIN flows : Counts[k] \in Nat
    BY DEF FlowTable, IsFlow, Counts
<1>2. SumFunctionOnSet(Counts, DOMAIN flows) \in Nat
    <2> HIDE DEF Counts
    <2> QED BY <1>1, SumPick DEF FlowTable
<1> QED BY <1>1, <1>2 DEF SumFunction

LEMMA CountNext == Shape /\ Stopping /\ CountInv /\ [Next]_vars => CountInv'
<1> SUFFICES ASSUME Shape, Stopping, CountInv, [Next]_vars PROVE CountInv'
    OBVIOUS
<1> DEFINE C == Cardinality(Carrying("recorded"))
           Matched == SumFunction(Counts) + dropped = stats["total"] + C
<1>0. /\ ThreadShape /\ C \in Nat /\ stats["total"] \in Nat /\ dropped \in Nat
      /\ SumFunction(Counts) \in Nat
      /\ FlowTable /\ ClockStands /\ Matched
    BY CarryingFacts, CountsSum, MatchAsSum DEF Shape, CountInv, Counters
<1>a. ASSUME Matched' PROVE FlowsMatchPackets'
    BY <1>a, MatchAsSum, PTL
<1>1. CASE UNCHANGED <<tableVars, stats>> /\ Carrying("recorded")' = Carrying("recorded")
    <2>1. UNCHANGED <<flows, now, lastPrune, dropped, stats>>
        BY <1>1 DEF tableVars, flowVars
    <2>2. FlowTable' /\ ClockStands' /\ Counts' = Counts
        BY <1>0, <2>1 DEF FlowTable, ClockStands, Counts
    <2>3. Matched'
        BY <1>0, <1>1, <2>1, <2>2
    <2> QED BY <1>a, <2>1, <2>2, <2>3 DEF CountInv
<1>2. ASSUME NEW t \in Threads, pc[t] = "numbered", At(t, "recorded"),
             RecordPacket(job[t].packet), stats' = stats,
             dropped' = dropped + PacketsIn(DOMAIN flows \ DOMAIN flows')
                                + IF Tracked(job[t].packet) THEN 0 ELSE 1
      PROVE  CountInv'
    <2> DEFINE gone == PacketsIn(DOMAIN flows \ DOMAIN flows')
    <2>1. C' = C + 1
        BY <1>0, <1>2, CarryingMoves
    <2>2. ~PruneDue
        BY <1>0, FlowAssumption DEF ClockStands, PruneDue
    <2>3. /\ FlowTable' /\ SumFunction(Counts') \in Nat /\ gone \in Nat
          /\ SumFunction(Counts') + gone
                = SumFunction(Counts) + IF Tracked(job[t].packet) THEN 1 ELSE 0
        BY <1>0, <1>2, <2>2, RecordAdds
    <2>4. ClockStands'
        BY <1>0, <1>2, <2>2 DEF ClockStands, RecordPacket, flowVars
    <2>5. dropped' \in Nat /\ Matched'
        <3>1. dropped' = dropped + gone + IF Tracked(job[t].packet) THEN 0 ELSE 1
            BY <1>2
        <3> HIDE DEF C, gone
        <3>2. CASE Tracked(job[t].packet)
            BY <1>0, <1>2, <2>1, <2>3, <3>1, <3>2
        <3>3. CASE ~Tracked(job[t].packet)
            BY <1>0, <1>2, <2>1, <2>3, <3>1, <3>3
        <3> QED BY <3>2, <3>3
    <2> QED BY <1>0, <1>a, <1>2, <2>3, <2>4, <2>5 DEF CountInv
<1>3. ASSUME NEW t \in Threads, pc[t] = "recorded", At(t, "stored"), UNCHANGED tableVars,
             stats' = [c \in Counters |->
                        IF c \in {"total", Class(job[t].packet), Way(job[t])}
                        THEN stats[c] + 1 ELSE stats[c]]
      PROVE  CountInv'
    <2>1. C' = C - 1
        BY <1>0, <1>3, CarryingMoves
    <2>2. stats' \in [Counters -> Nat] /\ stats'["total"] = stats["total"] + 1
        BY <1>3 DEF CountInv, Counters
    <2>3. UNCHANGED <<flows, now, lastPrune, dropped>>
        BY <1>3 DEF tableVars, flowVars
    <2>4. FlowTable' /\ ClockStands' /\ Counts' = Counts
        BY <1>0, <2>3 DEF FlowTable, ClockStands, Counts
    <2>5. Matched'
        <3> HIDE DEF C
        <3> QED BY <1>0, <2>1, <2>2, <2>3, <2>4
    <2> QED BY <1>0, <1>a, <2>2, <2>3, <2>4, <2>5 DEF CountInv
<1> QED BY <1>1, <1>2, <1>3, CountSteps

-----------------------------------------------------------------------------
(* The theorems *)

Inv == Shape /\ Stopping /\ Streaming /\ QueueRoom /\ NoGap /\ OrderInv

LEMMA InvInit == Init => Inv
<1> SUFFICES ASSUME Init PROVE Inv
    OBVIOUS
<1>1. QueueRoom
    <2>1. Len(queue) = 0 /\ QueueSize \in Nat \ {0}
        BY EmptyFacts, MonitorAssumption DEF Init
    <2> QED BY <2>1 DEF QueueRoom
<1>2. NoGap
    BY DEF Init, NoGap
<1> QED BY <1>1, <1>2, ShapeInit, OrderInit DEF Inv

THEOREM MonitorInvariance == Spec => []Inv
<1>1. Inv /\ [Next]_vars => Inv'
    BY ShapeNext, StoppingNext, StreamingNext, QueueRoomNext, NoGapNext, OrderNext DEF Inv
<1> QED BY <1>1, InvInit, PTL DEF Spec

\* However many packets two threads publish at once, the stream's queue is
\* over its limit by one at most.
THEOREM QueueStaysNearlyBounded == Spec => []QueueNearlyBounded
<1>1. Inv => QueueNearlyBounded
    BY DEF Inv, QueueRoom, QueueNearlyBounded
<1> QED BY <1>1, MonitorInvariance, PTL

\* After stop has returned the capture thread appends one packet at most.
THEOREM StopIsQuiet == Spec => []QuietAfterStop
<1>1. Inv => QuietAfterStop
    <2> SUFFICES ASSUME Stopping PROVE Cardinality(late) <= 1
        BY DEF Inv, QuietAfterStop
    <2>1. CASE late = {}
        <3>1. Cardinality(late) = 0
            BY <2>1, FS_EmptySet
        <3> QED BY <3>1
    <2>2. CASE \E id : late = {id}
        <3>1. PICK id : late = {id}
            BY <2>2
        <3>2. Cardinality(late) = 1
            BY <3>1, FS_Singleton
        <3> QED BY <3>2
    <2> QED BY <2>1, <2>2 DEF Stopping
<1> QED BY <1>1, MonitorInvariance, PTL

\* No packet recorded since the stream was asked for is missing from it.
THEOREM StreamHasNoGap == Spec => []NoGap
<1>1. Inv => NoGap
    BY DEF Inv
<1> QED BY <1>1, MonitorInvariance, PTL

\* Each thread's packets stay in order, in the buffer and in the stream, and
\* none is there twice.
THEOREM ThreadOrderStays == Spec => []ThreadOrderKept
<1>1. Inv => ThreadOrderKept
    BY OrderedConcat DEF Inv, Shape, OrderInv, AllBefore, ThreadOrderKept
<1> QED BY <1>1, MonitorInvariance, PTL

\* However many packets come and however small the table, each is counted once
\* by a flow, or was by one that had to make room, and once by the counters.
THEOREM FlowsMatch == Spec => []FlowsMatchPackets
<1>1. CountInv => FlowsMatchPackets
    BY DEF CountInv
<1>2. Inv => Shape /\ Stopping
    BY DEF Inv
<1> QED BY <1>1, <1>2, CountInit, CountNext, MonitorInvariance, PTL DEF Spec

\* A flow that counts packets is dropped only for a packet of a new flow that
\* finds the table full; a packet that no flow ever counts has no addresses.
THEOREM FlowsLostOnlyWhenFull ==
    Spec => [][dropped' # dropped =>
                  \E t \in Threads :
                      /\ pc[t] = "numbered"
                      /\ \/ ~Tracked(job[t].packet)
                         \/ /\ Cardinality(DOMAIN flows) >= MaxFlows
                            /\ FlowKey(job[t].packet) \notin DOMAIN flows]_vars
<1>1. Shape /\ Stopping /\ CountInv /\ [Next]_vars =>
        [dropped' # dropped =>
            \E t \in Threads :
                /\ pc[t] = "numbered"
                /\ \/ ~Tracked(job[t].packet)
                   \/ /\ Cardinality(DOMAIN flows) >= MaxFlows
                      /\ FlowKey(job[t].packet) \notin DOMAIN flows]_vars
    <2> SUFFICES ASSUME Shape, Stopping, CountInv, [Next]_vars, dropped' # dropped
                 PROVE  \E t \in Threads :
                            /\ pc[t] = "numbered"
                            /\ \/ ~Tracked(job[t].packet)
                               \/ /\ Cardinality(DOMAIN flows) >= MaxFlows
                                  /\ FlowKey(job[t].packet) \notin DOMAIN flows
        OBVIOUS
    <2>1. PICK t \in Threads :
            /\ pc[t] = "numbered"
            /\ RecordPacket(job[t].packet)
            /\ dropped' = dropped + PacketsIn(DOMAIN flows \ DOMAIN flows')
                                  + IF Tracked(job[t].packet) THEN 0 ELSE 1
        BY CountSteps DEF tableVars
    <2> SUFFICES ASSUME Tracked(job[t].packet),
                        \/ ~(Cardinality(DOMAIN flows) >= MaxFlows)
                        \/ FlowKey(job[t].packet) \in DOMAIN flows
                 PROVE  FALSE
        BY <2>1
    <2>2. ~PruneDue
        BY FlowAssumption DEF CountInv, ClockStands, PruneDue
    <2>3. Survivors(AfterPrune, FlowKey(job[t].packet)) = {DOMAIN flows}
        BY <2>2 DEF Survivors, AfterPrune
    <2>4. DOMAIN flows' = DOMAIN flows \union {FlowKey(job[t].packet)}
        BY <2>1, <2>3 DEF RecordPacket
    <2>5. DOMAIN flows \ DOMAIN flows' = {}
        BY <2>4
    <2>6. PacketsIn(DOMAIN flows \ DOMAIN flows') = 0
        BY <2>5, FS_EmptySet, SumPick DEF PacketsIn
    <2> QED BY <2>1, <2>6 DEF CountInv
<1>2. Inv => Shape /\ Stopping
    BY DEF Inv
<1> QED BY <1>1, <1>2, CountInit, CountNext, MonitorInvariance, PTL DEF Spec
=============================================================================
