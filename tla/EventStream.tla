----------------------------- MODULE EventStream -----------------------------
(***************************************************************************)
(* The live monitor: EventBus (service/event_bus.py), which hands every    *)
(* flow event to a bounded queue per subscriber, and _stream_monitor       *)
(* (service/ipc_server.py), the task that writes one client's queue to its *)
(* socket.  Events are numbered as they are published; what they say       *)
(* matters only to a client's filter.  Events do not end with the last     *)
(* number: more may follow for ever, of which it matters only whether a    *)
(* queue holds one.  The socket is the Unix one: a write to a client that  *)
(* has left raises at once.  Tasks meet only where they suspend, so        *)
(* publish is one step, and so is taking an event and writing it.          *)
(***************************************************************************)
EXTENDS Sequences, Integers

CONSTANTS
    Streams,    \* monitor requests
    Passes,     \* per stream: the numbers of the events its filter lets pass
    Picky,      \* the streams whose filter lets none of the later ones pass
    Capacity,   \* size of a subscriber's queue
    MaxEvents   \* bound: numbered events

ASSUME StreamAssumption ==
    /\ Passes \in [Streams -> SUBSET Nat] /\ Picky \subseteq Streams
    /\ Capacity \in Nat \ {0}
    /\ MaxEvents \in Nat

VARIABLES
    published,   \* number of numbered events published so far
    subscribers, \* the streams whose queue the bus knows
    queue,       \* per stream: events waiting
    later,       \* the streams with an event beyond MaxEvents behind these
    pc,          \* per stream: where its task is, see Points
    present,     \* streams whose client holds its end of the socket
    written,     \* per stream: events written to the socket
    since,       \* per stream: events published before it subscribed
    taken        \* per stream: the last event taken from the queue, or since

vars == <<published, subscribers, queue, later, pc, present, written, since, taken>>

\* "confirming": subscribed, the first reply is being written.  "reading": at
\* queue.get().  "draining": at drain(), for a client that does not read.
Points == {"none", "confirming", "reading", "draining", "ended"}

TypeOK ==
    /\ published \in 0 .. MaxEvents
    /\ subscribers \subseteq Streams
    /\ queue \in [Streams -> Seq(1 .. MaxEvents)]
    /\ \A s \in Streams : Len(queue[s]) <= Capacity
    /\ later \subseteq Streams
    /\ pc \in [Streams -> Points]
    /\ present \subseteq Streams
    /\ written \in [Streams -> Seq(1 .. MaxEvents)]
    /\ since \in [Streams -> 0 .. MaxEvents]
    /\ taken \in [Streams -> 0 .. MaxEvents]

-----------------------------------------------------------------------------
(* The bus *)

\* Mutant: a full queue loses the new event.
Put_DropsNewest(q, event) ==
    IF Len(q) < Capacity THEN Append(q, event) ELSE q

\* put_nowait; on QueueFull the oldest event makes room.
Put(q, event) ==
    IF Len(q) < Capacity THEN Append(q, event) ELSE Append(Tail(q), event)

\* Mutant: events pass by a stream whose client is slow.
Publish_SkipsSlow ==
    /\ published < MaxEvents
    /\ published' = published + 1
    /\ queue' = [s \in Streams |->
            IF s \in subscribers /\ pc[s] # "draining"
            THEN Put(queue[s], published + 1) ELSE queue[s]]
    /\ UNCHANGED <<subscribers, later, pc, present, written, since, taken>>

\* (Bound: MaxEvents.)
Publish ==
    /\ published < MaxEvents
    /\ published' = published + 1
    /\ queue' = [s \in Streams |->
            IF s \in subscribers THEN Put(queue[s], published + 1) ELSE queue[s]]
    /\ UNCHANGED <<subscribers, later, pc, present, written, since, taken>>

\* An event beyond them.  (Bound: only where every queue has room for it.)
PublishLater ==
    /\ published = MaxEvents
    /\ subscribers # {}
    /\ \A s \in subscribers : s \notin later /\ Len(queue[s]) < Capacity
    /\ later' = later \cup subscribers
    /\ UNCHANGED <<published, subscribers, queue, pc, present, written, since, taken>>

-----------------------------------------------------------------------------
(* A stream *)

At(s, point) == pc' = [pc EXCEPT ![s] = point]

Subscribe(s) ==
    /\ pc[s] = "none"
    /\ At(s, "confirming")
    /\ subscribers' = subscribers \cup {s}
    /\ queue' = [queue EXCEPT ![s] = <<>>]
    /\ later' = later \ {s}
    /\ since' = [since EXCEPT ![s] = published]
    /\ taken' = [taken EXCEPT ![s] = published]
    /\ UNCHANGED <<published, present, written>>

Confirmed(s) ==
    /\ pc[s] = "confirming"
    /\ s \in present
    /\ At(s, "reading")
    /\ UNCHANGED <<published, subscribers, queue, later, present, written, since, taken>>

\* The first drain raises outside the try: the queue stays subscribed.
ConfirmationFails(s) ==
    /\ pc[s] = "confirming"
    /\ s \notin present
    /\ At(s, "ended")
    /\ UNCHANGED <<published, subscribers, queue, later, present, written, since, taken>>

\* drain returns, at once or when the client reads again.
Wrote(s) ==
    /\ s \in present
    /\ \E point \in {"reading", "draining"} : At(s, point)
    /\ UNCHANGED subscribers

\* ConnectionResetError or BrokenPipeError: the finally clause unsubscribes.
Ended(s) ==
    /\ s \notin present
    /\ At(s, "ended")
    /\ subscribers' = subscribers \ {s}

\* Mutant: events are written whatever the filter says.
Skips_Nothing(s, event) == FALSE

\* The filter lets the task go on to the next event without a write.
Skips(s, event) == event \notin Passes[s]

\* An event is taken from the queue and written, unless filtered out.
Take(s) ==
    LET event == Head(queue[s])
    IN  /\ pc[s] = "reading"
        /\ queue[s] # <<>>
        /\ queue' = [queue EXCEPT ![s] = Tail(@)]
        /\ taken' = [taken EXCEPT ![s] = event]
        /\ \/ /\ Skips(s, event)
              /\ UNCHANGED <<pc, subscribers, written>>
           \/ /\ ~Skips(s, event)
              /\ Wrote(s)
              /\ written' = [written EXCEPT ![s] = Append(@, event)]
           \/ /\ ~Skips(s, event)
              /\ Ended(s)
              /\ UNCHANGED written
        /\ UNCHANGED <<published, later, present, since>>

\* The same for an event beyond MaxEvents.
TakeLater(s) ==
    /\ pc[s] = "reading"
    /\ queue[s] = <<>>
    /\ s \in later
    /\ later' = later \ {s}
    /\ IF s \in Picky THEN UNCHANGED <<pc, subscribers>> ELSE Wrote(s) \/ Ended(s)
    /\ UNCHANGED <<published, queue, present, written, since, taken>>

\* Mutant: the timeout is passed over in silence.
KeepAlive_Silent(s) ==
    /\ pc[s] = "reading"
    /\ queue[s] = <<>> /\ s \notin later
    /\ s \in present
    /\ Wrote(s)
    /\ UNCHANGED <<published, queue, later, present, written, since, taken>>

\* No event for ten seconds, not even one that the filter skips: a heartbeat
\* is written.
KeepAlive(s) ==
    /\ pc[s] = "reading"
    /\ queue[s] = <<>> /\ s \notin later
    /\ Wrote(s) \/ Ended(s)
    /\ UNCHANGED <<published, queue, later, present, written, since, taken>>

\* A drain that had to wait: the client reads, or the connection is lost.
Drain(s) ==
    /\ pc[s] = "draining"
    /\ \/ s \in present /\ At(s, "reading") /\ UNCHANGED subscribers
       \/ Ended(s)
    /\ UNCHANGED <<published, queue, later, present, written, since, taken>>

\* The client closes its end, or dies.
Leave(s) ==
    /\ s \in present
    /\ present' = present \ {s}
    /\ UNCHANGED <<published, subscribers, queue, later, pc, written, since, taken>>

Init ==
    /\ published = 0
    /\ subscribers = {}
    /\ queue = [s \in Streams |-> <<>>]
    /\ later = {}
    /\ pc = [s \in Streams |-> "none"]
    /\ present = Streams
    /\ written = [s \in Streams |-> <<>>]
    /\ since = [s \in Streams |-> 0]
    /\ taken = [s \in Streams |-> 0]

Next ==
    \/ Publish \/ PublishLater
    \/ \E s \in Streams :
        \/ Subscribe(s) \/ Confirmed(s) \/ ConfirmationFails(s)
        \/ Take(s) \/ TakeLater(s) \/ KeepAlive(s) \/ Drain(s)
        \/ Leave(s)

Spec == Init /\ [][Next]_vars

\* The event loop runs what can run, and a timer fires unless an event comes
\* first.  A client need not read, so a drain is fair only once its connection
\* is lost.  Nothing says that events come, or that they end.
FairSpec ==
    /\ Spec
    /\ \A s \in Streams :
        /\ WF_vars(Take(s) \/ TakeLater(s))
        /\ WF_vars(KeepAlive(s))
        /\ WF_vars(Drain(s) /\ s \notin present)
-----------------------------------------------------------------------------
(* Properties *)

\* A subscriber's queue ends with the newest event and has no gaps; it begins
\* after the last event taken unless it is full.  A slow client thus loses the
\* oldest events first, and only those it cannot hold.
NewestKept ==
    \A s \in subscribers :
        LET n == Len(queue[s])
        IN  /\ \A i \in 1 .. n : queue[s][i] = published - n + i
            /\ taken[s] + n = published \/ (n = Capacity /\ taken[s] + n < published)

\* What a client is sent are events published since it asked, that pass its
\* filter, in the order of publication and each once.
DeliveredInOrder ==
    \A s \in Streams :
        /\ \A i \in 1 .. Len(written[s]) :
                written[s][i] \in Passes[s] /\ since[s] < written[s][i]
        /\ \A i, j \in 1 .. Len(written[s]) : i < j => written[s][i] < written[s][j]

\* An event that a streaming client should have been sent and was passed over
\* had Capacity newer ones behind it.
LostOnlyWhenBehind ==
    \A s \in Streams : pc[s] \in {"reading", "draining"} =>
        \A e \in Passes[s] : since[s] < e /\ e <= taken[s] =>
            \/ \E i \in 1 .. Len(written[s]) : written[s][i] = e
            \/ e + Capacity <= published

\* A stream whose client has left gives up its queue, by the next event that
\* passes its filter or by the next heartbeat.  Only where events that the
\* filter skips keep coming, for ever, does it keep the queue: each of them
\* starts the ten seconds anew.
GoneAreReleased ==
    \A s \in Streams :
        \/ pc[s] \in {"reading", "draining"} /\ s \notin present ~> s \notin subscribers
        \/ s \in Picky /\ []<>(s \in later)

\* "Emit periodic keepalive heartbeat so connection never goes stale": a stream
\* whose client has left gives up its queue, whatever events come.
NeverStale ==
    \A s \in Streams :
        pc[s] \in {"reading", "draining"} /\ s \notin present ~> s \notin subscribers
=============================================================================
