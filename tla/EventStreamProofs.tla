-------------------------- MODULE EventStreamProofs --------------------------
(***************************************************************************)
(* Theorems about EventStream, for any streams, filters, capacity and      *)
(* number of events: what a slow client loses and in which order the rest  *)
(* reaches it.                                                             *)
(***************************************************************************)
EXTENDS EventStream, SequenceTheorems, TLAPS

-----------------------------------------------------------------------------
(* Types *)

LEMMA PutIsShort ==
    ASSUME NEW q \in Seq(1 .. MaxEvents), Len(q) <= Capacity,
           NEW e \in 1 .. MaxEvents
    PROVE  /\ Put(q, e) \in Seq(1 .. MaxEvents)
           /\ Len(Put(q, e)) <= Capacity
  <1>1. CASE Len(q) < Capacity
    BY <1>1, StreamAssumption DEF Put
  <1>2. CASE ~(Len(q) < Capacity)
    <2>1. Len(q) = Capacity /\ q # <<>>
      BY <1>2, StreamAssumption
    <2>2. Tail(q) \in Seq(1 .. MaxEvents) /\ Len(Tail(q)) = Capacity - 1
      BY <2>1, StreamAssumption
    <2> QED
      BY <1>2, <2>2, StreamAssumption DEF Put
  <1> QED
    BY <1>1, <1>2

LEMMA HeadTailShort ==
    ASSUME NEW q \in Seq(1 .. MaxEvents), Len(q) <= Capacity, q # <<>>
    PROVE  /\ Head(q) \in 1 .. MaxEvents
           /\ Tail(q) \in Seq(1 .. MaxEvents)
           /\ Len(Tail(q)) = Len(q) - 1
           /\ Len(Tail(q)) <= Capacity
  <1>1. Len(q) \in Nat \ {0}
    BY EmptySeq
  <1>2. Head(q) = q[1] /\ Tail(q) \in Seq(1 .. MaxEvents) /\ Len(Tail(q)) = Len(q) - 1
    BY <1>1
  <1> QED
    BY <1>1, <1>2, StreamAssumption

LEMMA TypeInit == Init => TypeOK
  BY StreamAssumption DEF Init, TypeOK, Points

LEMMA TypeNext == TypeOK /\ [Next]_vars => TypeOK'
  <1> SUFFICES ASSUME TypeOK, [Next]_vars PROVE TypeOK'
    OBVIOUS
  <1> USE DEF TypeOK
  <1>1. CASE Publish
    <2>1. published + 1 \in 1 .. MaxEvents
      BY <1>1, StreamAssumption DEF Publish
    <2>2. \A s \in Streams : /\ Put(queue[s], published + 1) \in Seq(1 .. MaxEvents)
                             /\ Len(Put(queue[s], published + 1)) <= Capacity
      BY <2>1, PutIsShort
    <2> QED
      BY <1>1, <2>1, <2>2 DEF Publish
  <1>8. CASE PublishLater
    BY <1>8 DEF PublishLater
  <1>2. ASSUME NEW s \in Streams, Subscribe(s) PROVE TypeOK'
    BY <1>2, StreamAssumption DEF Subscribe, At, Points
  <1>3. ASSUME NEW s \in Streams, Confirmed(s) \/ ConfirmationFails(s) PROVE TypeOK'
    BY <1>3 DEF Confirmed, ConfirmationFails, At, Points
  <1>4. ASSUME NEW s \in Streams, Take(s) PROVE TypeOK'
    <2>1. /\ Head(queue[s]) \in 1 .. MaxEvents
          /\ Tail(queue[s]) \in Seq(1 .. MaxEvents)
          /\ Len(Tail(queue[s])) <= Capacity
      <3>1. queue[s] \in Seq(1 .. MaxEvents) /\ Len(queue[s]) <= Capacity /\ queue[s] # <<>>
        BY <1>4 DEF Take
      <3> QED
        BY <3>1, HeadTailShort
    <2>2. queue' \in [Streams -> Seq(1 .. MaxEvents)]
          /\ \A t \in Streams : Len(queue'[t]) <= Capacity
      BY <1>4, <2>1 DEF Take
    <2>3. taken' \in [Streams -> 0 .. MaxEvents]
      BY <1>4, <2>1 DEF Take
    <2>4. written' \in [Streams -> Seq(1 .. MaxEvents)]
      <3>1. Append(written[s], Head(queue[s])) \in Seq(1 .. MaxEvents)
        BY <2>1
      <3> QED
        BY <1>4, <3>1 DEF Take
    <2>5. pc' \in [Streams -> Points] /\ subscribers' \subseteq Streams
      BY <1>4 DEF Take, Wrote, Ended, At, Points
    <2> QED
      BY <1>4, <2>2, <2>3, <2>4, <2>5 DEF Take
  <1>5. ASSUME NEW s \in Streams, TakeLater(s) \/ KeepAlive(s) \/ Drain(s) PROVE TypeOK'
    BY <1>5 DEF TakeLater, KeepAlive, Drain, Wrote, Ended, At, Points
  <1>6. ASSUME NEW s \in Streams, Leave(s) PROVE TypeOK'
    BY <1>6 DEF Leave
  <1>7. CASE UNCHANGED vars
    BY <1>7 DEF vars
  <1> QED
    BY <1>1, <1>2, <1>3, <1>4, <1>5, <1>6, <1>7, <1>8 DEF Next

\* Every variable keeps its type; in particular no queue outgrows Capacity,
\* however slow its reader.
THEOREM StreamsTypeCorrect == Spec => []TypeOK
  BY TypeInit, TypeNext, PTL DEF Spec

-----------------------------------------------------------------------------
(* What is in a queue *)

\* q ends with the newest of n published events, has no gaps, and begins after
\* the event `last` unless it is full.
Newest(q, n, last) ==
    /\ \A i \in 1 .. Len(q) : q[i] = n - Len(q) + i
    /\ last + Len(q) = n \/ (Len(q) = Capacity /\ last + Len(q) < n)

LEMMA PutKeepsNewest ==
    ASSUME NEW q \in Seq(1 .. MaxEvents), Len(q) <= Capacity,
           NEW n \in Nat, NEW last \in Nat, Newest(q, n, last)
    PROVE  Newest(Put(q, n + 1), n + 1, last)
  <1>1. CASE Len(q) < Capacity
    <2>1. Put(q, n + 1) = Append(q, n + 1)
      BY <1>1 DEF Put
    <2>2. /\ Len(Append(q, n + 1)) = Len(q) + 1
          /\ \A i \in 1 .. Len(q) : Append(q, n + 1)[i] = q[i]
          /\ Append(q, n + 1)[Len(q) + 1] = n + 1
      OBVIOUS
    <2>3. last + Len(q) = n
      BY <1>1, StreamAssumption DEF Newest
    <2>4. \A i \in 1 .. Len(q) : q[i] = n - Len(q) + i
      BY DEF Newest
    <2>5. \A i \in 1 .. Len(q) + 1 :
            Append(q, n + 1)[i] = n + 1 - (Len(q) + 1) + i
      BY <2>2, <2>4
    <2> DEFINE r == Append(q, n + 1)
    <2>6. Len(q) \in Nat /\ Len(r) = Len(q) + 1 /\ Put(q, n + 1) = r
      BY <2>1, <2>2
    <2>7. \A i \in 1 .. Len(r) : r[i] = n + 1 - Len(r) + i
      BY <2>5, <2>6
    <2> HIDE DEF r
    <2>8. last + Len(r) = n + 1
      BY <2>3, <2>6
    <2>9. Newest(r, n + 1, last)
      BY <2>7, <2>8 DEF Newest
    <2> QED
      BY <2>6, <2>9
  <1>2. CASE ~(Len(q) < Capacity)
    <2> DEFINE t == Tail(q)
    <2>1. Put(q, n + 1) = Append(t, n + 1)
      BY <1>2 DEF Put
    <2>2. Len(q) = Capacity /\ q # <<>>
      BY <1>2, StreamAssumption
    <2>3. /\ t \in Seq(1 .. MaxEvents)
          /\ Len(t) = Capacity - 1
          /\ \A i \in 1 .. Len(t) : t[i] = q[i + 1]
      BY <2>2, StreamAssumption
    <2>4. \A i \in 1 .. Len(t) : t[i] = n + 1 - Capacity + i
      BY <2>2, <2>3, StreamAssumption DEF Newest
    <2> HIDE DEF t
    <2>5. /\ Len(Append(t, n + 1)) = Capacity
          /\ \A i \in 1 .. Len(t) : Append(t, n + 1)[i] = t[i]
          /\ Append(t, n + 1)[Capacity] = n + 1
      BY <2>3, StreamAssumption
    <2>6. \A i \in 1 .. Capacity : Append(t, n + 1)[i] = n + 1 - Capacity + i
      BY <2>3, <2>4, <2>5, StreamAssumption
    <2>7. last + Capacity < n + 1
      BY <2>2, StreamAssumption DEF Newest
    <2> DEFINE r == Append(t, n + 1)
    <2>8. Len(r) = Capacity /\ Put(q, n + 1) = r
      BY <2>1, <2>5
    <2>9. \A i \in 1 .. Len(r) : r[i] = n + 1 - Len(r) + i
      BY <2>6, <2>8
    <2> HIDE DEF r
    <2>10. Newest(r, n + 1, last)
      BY <2>7, <2>8, <2>9 DEF Newest
    <2> QED
      BY <2>8, <2>10
  <1> QED
    BY <1>1, <1>2

\* What is left after a take, and what the event taken tells of the others.
LEMMA TakeKeepsNewest ==
    ASSUME NEW q \in Seq(1 .. MaxEvents), Len(q) <= Capacity, q # <<>>,
           NEW n \in Nat, NEW last \in Nat, Newest(q, n, last)
    PROVE  /\ Newest(Tail(q), n, Head(q))
           /\ last < Head(q) /\ Head(q) <= n
           /\ Head(q) = last + 1 \/ Head(q) + Capacity <= n + 1
  <1>1. Len(q) \in Nat \ {0} /\ Head(q) = q[1]
    OBVIOUS
  <1>2. Head(q) = n - Len(q) + 1
    BY <1>1 DEF Newest
  <1>3. /\ Len(Tail(q)) = Len(q) - 1
        /\ \A i \in 1 .. Len(q) - 1 : Tail(q)[i] = q[i + 1]
    BY <1>1
  <1>4. Newest(Tail(q), n, Head(q))
    BY <1>1, <1>2, <1>3 DEF Newest
  <1> QED
    BY <1>1, <1>2, <1>4, StreamAssumption DEF Newest

-----------------------------------------------------------------------------
(* What each stream keeps *)

Behind(s) ==
    \A e \in Passes[s] : since[s] < e /\ e <= taken[s] =>
        \/ \E i \in 1 .. Len(written[s]) : written[s][i] = e
        \/ e + Capacity <= published

Ordered(s) ==
    /\ \A i \in 1 .. Len(written[s]) :
            /\ written[s][i] \in Passes[s]
            /\ since[s] < written[s][i] /\ written[s][i] <= taken[s]
    /\ \A i, j \in 1 .. Len(written[s]) : i < j => written[s][i] < written[s][j]

\* Where the task of a stream is tells what its queue and its output hold.
StreamInv(s) ==
    /\ since[s] <= taken[s]
    /\ pc[s] \in {"none", "confirming"} => written[s] = <<>>
    /\ pc[s] = "confirming" => since[s] = taken[s]
    /\ pc[s] \in {"confirming", "reading", "draining"} => s \in subscribers
    /\ s \in subscribers => Newest(queue[s], published, taken[s])
    /\ Ordered(s)
    /\ pc[s] \in {"reading", "draining"} => Behind(s)

Inv == TypeOK /\ \A s \in Streams : StreamInv(s)

\* A step that does not touch a stream leaves it as it was.
Untouched(s) ==
    /\ published' = published
    /\ queue'[s] = queue[s]
    /\ pc'[s] = pc[s]
    /\ written'[s] = written[s]
    /\ since'[s] = since[s]
    /\ taken'[s] = taken[s]
    /\ s \in subscribers' <=> s \in subscribers

LEMMA UntouchedKeeps ==
    ASSUME NEW s \in Streams, StreamInv(s), Untouched(s)
    PROVE  StreamInv(s)'
  BY DEF StreamInv, Untouched, Newest, Ordered, Behind

LEMMA StreamInit == Init => \A s \in Streams : StreamInv(s)
  <1> SUFFICES ASSUME Init, NEW s \in Streams PROVE StreamInv(s)
    OBVIOUS
  <1>1. /\ since[s] = 0 /\ taken[s] = 0 /\ pc[s] = "none"
        /\ written[s] = <<>> /\ subscribers = {}
    BY DEF Init
  <1>2. Ordered(s)
    BY <1>1 DEF Ordered
  <1> QED
    BY <1>1, <1>2 DEF StreamInv

LEMMA PublishKeeps ==
    ASSUME TypeOK, NEW s \in Streams, StreamInv(s), Publish
    PROVE  StreamInv(s)'
  <1>1. published \in Nat /\ taken[s] \in Nat
    BY DEF TypeOK
  <1>2. s \in subscribers' => Newest(queue'[s], published', taken'[s])
    <2> SUFFICES ASSUME s \in subscribers'
                 PROVE  Newest(queue'[s], published', taken'[s])
      OBVIOUS
    <2>1. /\ s \in subscribers
          /\ queue'[s] = Put(queue[s], published + 1)
          /\ published' = published + 1 /\ taken'[s] = taken[s]
      BY DEF Publish
    <2>2. Newest(queue[s], published, taken[s])
      BY <2>1 DEF StreamInv
    <2>3. queue[s] \in Seq(1 .. MaxEvents) /\ Len(queue[s]) <= Capacity
      BY DEF TypeOK
    <2>4. Newest(Put(queue[s], published + 1), published + 1, taken[s])
      BY <1>1, <2>2, <2>3, PutKeepsNewest
    <2> QED
      BY <2>1, <2>4
  <1>3. Ordered(s)'
    BY DEF StreamInv, Ordered, Publish
  <1>4. Behind(s) => Behind(s)'
    <2>1. \A e \in Passes[s] : e \in Nat
      BY StreamAssumption
    <2> QED
      BY <1>1, <2>1, StreamAssumption DEF Behind, Publish
  <1> QED
    BY <1>2, <1>3, <1>4 DEF StreamInv, Publish

LEMMA SubscribeKeeps ==
    ASSUME TypeOK, NEW s \in Streams, StreamInv(s), Subscribe(s)
    PROVE  StreamInv(s)'
  <1>1. /\ pc'[s] = "confirming" /\ s \in subscribers'
        /\ queue'[s] = <<>> /\ written'[s] = <<>>
        /\ since'[s] = published /\ taken'[s] = published /\ published' = published
    BY DEF Subscribe, At, TypeOK, StreamInv
  <1>2. published \in Nat
    BY DEF TypeOK
  <1>3. Newest(<<>>, published, published)
    BY <1>2 DEF Newest
  <1>4. Ordered(s)'
    BY <1>1 DEF Ordered
  <1> QED
    BY <1>1, <1>2, <1>3, <1>4 DEF StreamInv

LEMMA TakeKeeps ==
    ASSUME TypeOK, NEW s \in Streams, StreamInv(s), Take(s)
    PROVE  StreamInv(s)'
  <1> DEFINE event == Head(queue[s])
  <1>1. /\ queue[s] \in Seq(1 .. MaxEvents) /\ Len(queue[s]) <= Capacity /\ queue[s] # <<>>
        /\ published \in Nat /\ taken[s] \in Nat /\ since[s] \in Nat
        /\ written[s] \in Seq(1 .. MaxEvents)
    BY DEF TypeOK, Take
  <1>2. /\ pc[s] = "reading" /\ s \in subscribers
        /\ queue'[s] = Tail(queue[s]) /\ taken'[s] = event
        /\ published' = published /\ since'[s] = since[s]
    BY DEF Take, TypeOK, StreamInv
  <1>3. Newest(queue[s], published, taken[s]) /\ Ordered(s) /\ Behind(s)
        /\ since[s] <= taken[s]
    BY <1>2 DEF StreamInv
  <1>4. /\ Newest(Tail(queue[s]), published, event)
        /\ taken[s] < event /\ event <= published
        /\ event = taken[s] + 1 \/ event + Capacity <= published + 1
    BY <1>1, <1>3, TakeKeepsNewest
  <1>5. event \in 1 .. MaxEvents
    BY <1>1, HeadTailShort
  <1> HIDE DEF event
  <1>6. \A e \in Passes[s] : e \in Nat
    BY StreamAssumption
  <1>7. written'[s] = written[s] => Ordered(s)'
    <2> SUFFICES ASSUME written'[s] = written[s] PROVE Ordered(s)'
      OBVIOUS
    <2>1. ASSUME NEW i \in 1 .. Len(written[s])
          PROVE  /\ written[s][i] \in Passes[s] /\ since[s] < written[s][i]
                 /\ written[s][i] <= event
      BY <1>1, <1>3, <1>4, <1>5, <1>6, <2>1 DEF Ordered
    <2> QED
      BY <1>2, <1>3, <2>1 DEF Ordered
  <1>8. CASE written'[s] = Append(written[s], event) /\ event \in Passes[s]
             /\ pc'[s] \in {"reading", "draining"} /\ s \in subscribers'
    <2> DEFINE w == Append(written[s], event)
    <2>1. /\ Len(written[s]) \in Nat
          /\ Len(w) = Len(written[s]) + 1
          /\ \A i \in 1 .. Len(written[s]) : w[i] = written[s][i]
          /\ w[Len(written[s]) + 1] = event
      BY <1>1, <1>5
    <2> HIDE DEF w
    <2>2. \A i \in 1 .. Len(w) : w[i] \in Passes[s] /\ since[s] < w[i] /\ w[i] <= event
      <3> SUFFICES ASSUME NEW i \in 1 .. Len(w)
                   PROVE  w[i] \in Passes[s] /\ since[s] < w[i] /\ w[i] <= event
        OBVIOUS
      <3>1. CASE i = Len(written[s]) + 1
        BY <1>1, <1>3, <1>4, <1>5, <1>8, <2>1, <3>1
      <3>2. CASE i \in 1 .. Len(written[s])
        BY <1>1, <1>3, <1>4, <1>5, <1>6, <2>1, <3>2 DEF Ordered
      <3> QED
        BY <2>1, <3>1, <3>2
    <2>3. \A i, j \in 1 .. Len(w) : i < j => w[i] < w[j]
      <3> SUFFICES ASSUME NEW i \in 1 .. Len(w), NEW j \in 1 .. Len(w), i < j
                   PROVE  w[i] < w[j]
        OBVIOUS
      <3>1. i \in 1 .. Len(written[s])
        BY <2>1
      <3>2. CASE j = Len(written[s]) + 1
        BY <1>1, <1>3, <1>4, <1>5, <1>6, <2>1, <3>1, <3>2 DEF Ordered
      <3>3. CASE j \in 1 .. Len(written[s])
        BY <1>3, <2>1, <3>1, <3>3 DEF Ordered
      <3> QED
        BY <2>1, <3>2, <3>3
    <2>4. \A e \in Passes[s] : since[s] < e /\ e <= event =>
            \/ \E i \in 1 .. Len(w) : w[i] = e
            \/ e + Capacity <= published
      <3> SUFFICES ASSUME NEW e \in Passes[s], since[s] < e, e <= event
                   PROVE  \/ \E i \in 1 .. Len(w) : w[i] = e
                          \/ e + Capacity <= published
        OBVIOUS
      <3>1. CASE e = event
        BY <2>1, <3>1
      <3>2. CASE e # event /\ taken[s] < e
        BY <1>1, <1>4, <1>5, <1>6, <3>2, StreamAssumption
      <3>3. CASE e <= taken[s]
        BY <1>3, <2>1, <3>3 DEF Behind
      <3> QED
        BY <1>1, <1>6, <3>1, <3>2, <3>3
    <2>5. written'[s] = w
      BY <1>8 DEF w
    <2>6. Ordered(s)' /\ Behind(s)'
      BY <1>2, <2>2, <2>3, <2>4, <2>5 DEF Ordered, Behind
    <2> QED
      BY <1>1, <1>2, <1>3, <1>4, <1>5, <1>8, <2>6 DEF StreamInv
  <1>9. CASE written'[s] = written[s] /\ event \notin Passes[s]
             /\ pc'[s] = "reading" /\ s \in subscribers'
    <2>1. Ordered(s)'
      BY <1>9, <1>7
    <2>2. Behind(s)'
      <3> SUFFICES ASSUME NEW e \in Passes[s], since[s] < e, e <= event
                   PROVE  \/ \E i \in 1 .. Len(written[s]) : written[s][i] = e
                          \/ e + Capacity <= published
        BY <1>2, <1>9 DEF Behind
      <3>1. CASE taken[s] < e
        BY <1>1, <1>4, <1>5, <1>6, <1>9, <3>1, StreamAssumption
      <3>2. CASE e <= taken[s]
        BY <1>3, <3>2 DEF Behind
      <3> QED
        BY <1>1, <1>6, <3>1, <3>2
    <2> QED
      BY <1>1, <1>2, <1>3, <1>4, <1>5, <1>9, <2>1, <2>2 DEF StreamInv
  <1>10. CASE written'[s] = written[s] /\ pc'[s] = "ended" /\ s \notin subscribers'
    <2>1. Ordered(s)'
      BY <1>10, <1>7
    <2> QED
      BY <1>1, <1>2, <1>3, <1>4, <1>5, <1>10, <2>1 DEF StreamInv
  <1> QED
    <2>1. CASE Skips(s, event) /\ UNCHANGED <<pc, subscribers, written>>
      BY <1>2, <1>9, <2>1 DEF Skips
    <2>2. CASE ~Skips(s, event) /\ Wrote(s)
               /\ written' = [written EXCEPT ![s] = Append(@, event)]
      BY <1>2, <1>8, <2>2 DEF Skips, Wrote, At, TypeOK
    <2>3. CASE Ended(s) /\ UNCHANGED written
      BY <1>10, <2>3 DEF Ended, At, TypeOK
    <2> QED
      BY <2>1, <2>2, <2>3 DEF Take, event

\* The other steps of a stream's task move it between its points, and
\* unsubscribe it where it ends with the client gone.
LEMMA MoveKeeps ==
    ASSUME TypeOK, NEW s \in Streams, StreamInv(s),
           \/ Confirmed(s) \/ ConfirmationFails(s)
           \/ TakeLater(s) \/ KeepAlive(s) \/ Drain(s)
    PROVE  StreamInv(s)'
  <1>1. UNCHANGED <<published, queue, written, since, taken>>
    BY DEF Confirmed, ConfirmationFails, TakeLater, KeepAlive, Drain
  <1>2. Ordered(s)' /\ (Behind(s) => Behind(s)')
    BY <1>1 DEF StreamInv, Ordered, Behind
  <1>3. CASE Confirmed(s)
    <2>1. pc[s] = "confirming" /\ pc'[s] = "reading" /\ UNCHANGED subscribers
      BY <1>3 DEF Confirmed, At, TypeOK
    <2>2. since[s] \in Nat /\ since[s] = taken[s] /\ \A e \in Passes[s] : e \in Nat
      BY <2>1, StreamAssumption DEF TypeOK, StreamInv
    <2>3. Behind(s)
      BY <2>2 DEF Behind
    <2> QED
      BY <1>1, <1>2, <2>1, <2>3 DEF StreamInv
  <1>4. CASE ConfirmationFails(s)
    BY <1>1, <1>2, <1>4 DEF ConfirmationFails, At, TypeOK, StreamInv
  <1>5. CASE TakeLater(s) \/ KeepAlive(s) \/ Drain(s)
    <2>1. /\ pc[s] \in {"reading", "draining"}
          /\ \/ pc'[s] \in {"reading", "draining"} /\ UNCHANGED subscribers
             \/ pc'[s] = "ended" /\ s \notin subscribers'
      BY <1>5 DEF TakeLater, KeepAlive, Drain, Wrote, Ended, At, TypeOK
    <2> QED
      BY <1>1, <1>2, <2>1 DEF StreamInv
  <1> QED
    BY <1>3, <1>4, <1>5

LEMMA InvNext == Inv /\ [Next]_vars => Inv'
  <1> SUFFICES ASSUME Inv, [Next]_vars PROVE Inv'
    OBVIOUS
  <1>1. TypeOK /\ TypeOK'
    BY TypeNext DEF Inv
  <1>2. \A t \in Streams : StreamInv(t)
    BY DEF Inv
  <1>3. CASE Publish
    BY <1>1, <1>2, <1>3, PublishKeeps DEF Inv
  <1>4. ASSUME NEW s \in Streams,
               \/ Subscribe(s) \/ Confirmed(s) \/ ConfirmationFails(s)
               \/ Take(s) \/ TakeLater(s) \/ KeepAlive(s) \/ Drain(s)
        PROVE  Inv'
    <2>1. StreamInv(s)'
      BY <1>1, <1>2, <1>4, SubscribeKeeps, TakeKeeps, MoveKeeps
    <2>2. ASSUME NEW t \in Streams, t # s PROVE Untouched(t)
      BY <1>1, <1>4, <2>2 DEF Subscribe, Confirmed, ConfirmationFails, Take,
         TakeLater, KeepAlive, Drain, Wrote, Ended, At, Untouched, TypeOK
    <2> QED
      BY <1>1, <1>2, <2>1, <2>2, UntouchedKeeps DEF Inv
  <1>5. ASSUME PublishLater \/ \E s \in Streams : Leave(s) PROVE Inv'
    <2>1. \A t \in Streams : Untouched(t)
      BY <1>5 DEF PublishLater, Leave, Untouched
    <2> QED
      BY <1>1, <1>2, <2>1, UntouchedKeeps DEF Inv
  <1>6. CASE UNCHANGED vars
    <2>1. \A t \in Streams : Untouched(t)
      BY <1>6 DEF vars, Untouched
    <2> QED
      BY <1>1, <1>2, <2>1, UntouchedKeeps DEF Inv
  <1> QED
    BY <1>3, <1>4, <1>5, <1>6 DEF Next

LEMMA InvAlways == Spec => []Inv
  <1>1. Init => Inv
    BY TypeInit, StreamInit DEF Inv
  <1> QED
    BY <1>1, InvNext, PTL DEF Spec

\* However slow its reader, a queue ends with the newest event, has no gaps,
\* and has lost events only while it was full.
THEOREM NewestIsKept == Spec => []NewestKept
  <1>1. Inv => NewestKept
    BY DEF Inv, StreamInv, NewestKept, Newest, TypeOK
  <1> QED
    BY <1>1, InvAlways, PTL

\* What a client is sent is in the order of publication, each event once, and
\* only what its filter lets pass.
THEOREM DeliveryIsOrdered == Spec => []DeliveredInOrder
  <1>1. Inv => DeliveredInOrder
    BY DEF Inv, StreamInv, DeliveredInOrder, Ordered
  <1> QED
    BY <1>1, InvAlways, PTL

\* An event that was passed over had Capacity newer ones behind it.
THEOREM LossesAreOld == Spec => []LostOnlyWhenBehind
  <1>1. Inv => LostOnlyWhenBehind
    BY DEF Inv, StreamInv, LostOnlyWhenBehind, Behind
  <1> QED
    BY <1>1, InvAlways, PTL
=============================================================================
