---------------------------- MODULE PacketMonitor ----------------------------
(***************************************************************************)
(* network/monitor.py, with the request that streams its packets           *)
(* (service/ipc_server.py, _stream_packet_monitor).  Two threads record    *)
(* packets: the capture thread (from a raw socket, or simulated without    *)
(* one) and the event loop, for every DNS query it handles.  Each takes a  *)
(* number, updates the flows, appends and publishes in separate sections.  *)
(* The stream's queue is an asyncio.Queue, which the capture thread uses   *)
(* without the event loop's knowledge: its check, its entry and the        *)
(* reader's registration interleave.                                       *)
(*                                                                         *)
(* The clock stands still here (FlowTracker has it move).  A step that     *)
(* takes a lock for a moment is one step.  Byte counts, rates, device      *)
(* names in packets and the reports built from the counters are left out.  *)
(***************************************************************************)
EXTENDS FlowTracker, DeviceTracker, Sequences, Functions

CONSTANTS
    Frames,         \* the frames the socket delivers
    Queries,        \* the DNS queries: client and whether it is blocked
    Simulated,      \* the packets the simulated capture makes up
    BufferSize,     \* max_buffer_size
    QueueSize,      \* the size of a stream's queue
    ReplaySize,     \* the packets replayed to a new stream
    PassedProtocols,\* the stream's filter: the protocols it lets through
    MaxPackets      \* bound: numbers taken

ASSUME MonitorAssumption ==
    /\ Frames \subseteq Wire
    /\ BufferSize \in Nat \ {0}
    /\ QueueSize \in Nat \ {0}
    /\ ReplaySize \in Nat
    /\ MaxPackets \in Nat

Threads == {"capture", "loop"}

VARIABLES
    running,        \* _running
    mode,           \* _capture_mode
    pc,             \* where each thread is
    job,            \* the packet it works on: number and metadata
    seq,            \* _packet_id_seq
    buffer,         \* _buffer
    stats,          \* the packet counters
    subscribed,     \* the stream's queue is in _subscribers
    queue,          \* what waits in it
    getter,         \* its reader's future: "none", "pending" or "done"
    stream,         \* where the stream's task is
    rest,           \* the packets still to be replayed
    present,        \* the client holds its end of the socket
    dropped,        \* history: the packets that no flow counts any more
    taken,          \* history: the packets taken from its queue
    lost,           \* history: the packets its full queue discarded
    owed,           \* history: the packets appended since it asked
    late            \* history: captured packets appended after stop returned

tableVars == <<flowVars, dropped>>
threadVars == <<running, mode, pc, job>>
bufferVars == <<seq, buffer, stats>>
streamVars == <<subscribed, queue, getter, stream, rest, present>>
historyVars == <<taken, lost, owed, late>>
vars == <<tableVars, devices, threadVars, bufferVars, streamVars, historyVars>>

At(t, point) == pc' = [pc EXCEPT ![t] = point]

\* The event loop runs no other task while a query or a check is under way.
LoopFree == pc["loop"] = "idle" /\ stream # "checked"

Ids(s) == {s[i].id : i \in DOMAIN s}

-----------------------------------------------------------------------------
(* Recording a packet, in either thread *)

\* _correlate_policy, for captured frames: the first rule that holds.
Tag(p) ==
    LET On(ports) == {p.sport, p.dport} \cap ports # {}
        udp == p.proto = <<"UDP">>
        rules == << <<udp /\ On({51820}), "WireGuard Tunnel">>,
                    <<On({1194}), "OpenVPN Tunnel">>,
                    <<udp /\ On({500, 4500}), "IPsec IKE/NAT-T">>,
                    <<On({53}), "DNS Traffic">>,
                    <<On({853}), "DoT Tunnel">>,
                    <<On({443}), "HTTPS/QUIC Web Flow">>,
                    <<TRUE, "">> >>
    IN SelectSeq(rules, LAMBDA r : r[1])[1][2]

\* What ingest_dns_event reports of a query.
DnsPacket(client, n) ==
    [src |-> client, dst |-> "127.0.0.1", sport |-> 52000 + (n % 10000), dport |-> 53,
     proto |-> <<"UDP">>, flags |-> {}, dir |-> Direction(client, "127.0.0.1"),
     tag |-> "DNS"]

\* (Bound: MaxPackets, of which a query under way has claimed one.)
MayBegin == seq + (IF pc["loop"] \in {"lookup", "tracked"} THEN 1 ELSE 0) < MaxPackets

\* Mutant: the number is taken from a counter that is only raised later.
Begin_ByTotal(t, packet) ==
    /\ seq' = seq + 1
    /\ job' = [job EXCEPT ![t] = [id |-> stats["total"] + 1, by |-> t, packet |-> packet]]
    /\ At(t, "numbered")

Begin(t, packet) ==
    /\ seq' = seq + 1
    /\ job' = [job EXCEPT ![t] = [id |-> seq + 1, by |-> t, packet |-> packet]]
    /\ At(t, "numbered")

\* One pass of _capture_loop and the head of process_raw_frame: a frame that
\* does not parse has used up its number.
Capture ==
    /\ mode = "raw" /\ running /\ MayBegin
    /\ pc["capture"] = "idle"
    /\ \E f \in Frames :
         IF Parse(f) = Malformed
         THEN /\ seq' = seq + 1
              /\ UNCHANGED <<pc, job>>
         ELSE Begin("capture", [Parse(f) EXCEPT !.tag = Tag(Parse(f))])
    /\ UNCHANGED <<tableVars, devices, running, mode, buffer, stats, streamVars, historyVars>>

\* Mutant: the loop forgets to look at the flag.
Simulate_Forever ==
    /\ mode = "simulated" /\ MayBegin
    /\ pc["capture"] = "idle"
    /\ \E p \in Simulated : Begin("capture", p)
    /\ UNCHANGED <<tableVars, devices, running, mode, buffer, stats, streamVars, historyVars>>

\* One pass of _simulated_capture_loop, after its sleep.
Simulate ==
    /\ mode = "simulated" /\ running /\ MayBegin
    /\ pc["capture"] = "idle"
    /\ \E p \in Simulated : Begin("capture", p)
    /\ UNCHANGED <<tableVars, devices, running, mode, buffer, stats, streamVars, historyVars>>

CaptureEnds ==
    /\ ~running
    /\ pc["capture"] = "idle"
    /\ At("capture", "ended")
    /\ UNCHANGED <<tableVars, devices, running, mode, job, bufferVars, streamVars, historyVars>>

\* handle_query: the device tracker comes first.  For a client it has not seen
\* it asks the host's resolver for a name, and the event loop waits.
Query(client, isBlocked) ==
    /\ LoopFree /\ MayBegin
    /\ job' = [job EXCEPT !["loop"] = [client |-> client, blocked |-> isBlocked]]
    /\ IF Ignored(client)
       THEN At("loop", "tracked") /\ UNCHANGED devices
       ELSE IF IsKnown(client)
       THEN At("loop", "tracked") /\ CountQuery(client, isBlocked)
       ELSE At("loop", "lookup") /\ UNCHANGED devices
    /\ UNCHANGED <<tableVars, running, mode, bufferVars, streamVars, historyVars>>

\* gethostbyaddr returns or gives up.  It gives up at the latest when the
\* host's resolver times out, even if it asks this very server.
LookupEnds ==
    /\ pc["loop"] = "lookup"
    /\ AddDevice(job["loop"].client, job["loop"].blocked)
    /\ At("loop", "tracked")
    /\ UNCHANGED <<tableVars, running, mode, job, bufferVars, streamVars, historyVars>>

\* The head of ingest_dns_event.
Ingest ==
    /\ pc["loop"] = "tracked"
    /\ Begin("loop", DnsPacket(job["loop"].client, seq + 1))
    /\ UNCHANGED <<tableVars, devices, running, mode, buffer, stats, streamVars, historyVars>>

\* The packets counted by some of the flows.
PacketsIn(keys) ==
    SumFunctionOnSet([k \in DOMAIN flows |-> flows[k].up + flows[k].down], keys)

\* The device lock is taken for the packet's device name, so not during a
\* lookup; then the flow is updated.
RecordFlow(t) ==
    /\ pc[t] = "numbered"
    /\ pc["loop"] # "lookup"
    /\ RecordPacket(job[t].packet)
    /\ dropped' = dropped + PacketsIn(DOMAIN flows \ DOMAIN flows')
                          + IF Tracked(job[t].packet) THEN 0 ELSE 1
    /\ At(t, "recorded")
    /\ UNCHANGED <<devices, running, mode, job, bufferVars, streamVars, historyVars>>

Class(p) ==
    CASE p.proto[1] = "TCP" -> "tcp"
      [] p.proto[1] = "UDP" -> "udp"
      [] p.proto[1] \in {"ICMP", "ICMPv6"} -> "icmp"
      [] OTHER -> "other"

\* DNS events and simulated packets always count as outbound.
Way(entry) ==
    IF /\ mode = "raw" /\ entry.by = "capture"
       /\ entry.packet.dir \in {"INBOUND (LOCAL)", "WAN -> LAN"}
    THEN "inbound" ELSE "outbound"

Counters == {"total", "tcp", "udp", "icmp", "other", "inbound", "outbound"}

\* Mutant: after stop a packet is no longer stored, though its flow is.
Store_WhileRunning(t) ==
    /\ pc[t] = "recorded"
    /\ IF running
       THEN /\ buffer' = LET longer == Append(buffer, job[t])
                         IN IF Len(longer) > BufferSize THEN Tail(longer) ELSE longer
            /\ stats' = [c \in Counters |->
                    IF c \in {"total", Class(job[t].packet), Way(job[t])}
                    THEN stats[c] + 1 ELSE stats[c]]
            /\ owed' = IF stream = "none" THEN owed ELSE owed \union {job[t].id}
       ELSE UNCHANGED <<buffer, stats, owed>>
    /\ At(t, "stored")
    /\ UNCHANGED <<tableVars, devices, running, mode, job, seq, streamVars,
                   taken, lost, late>>

\* The second section under the lock.  (deque(maxlen): the oldest goes.)
Store(t) ==
    /\ pc[t] = "recorded"
    /\ buffer' = LET longer == Append(buffer, job[t])
                 IN IF Len(longer) > BufferSize THEN Tail(longer) ELSE longer
    /\ stats' = [c \in Counters |->
            IF c \in {"total", Class(job[t].packet), Way(job[t])}
            THEN stats[c] + 1 ELSE stats[c]]
    /\ owed' = IF stream = "none" THEN owed ELSE owed \union {job[t].id}
    /\ late' = IF t = "capture" /\ ~running /\ pc["loop"] # "joining"
               THEN late \union {job[t].id} ELSE late
    /\ At(t, "stored")
    /\ UNCHANGED <<tableVars, devices, running, mode, job, seq, streamVars, taken, lost>>

-----------------------------------------------------------------------------
(* _publish_to_subscribers, in either thread *)

Full == Len(queue) >= QueueSize

\* Mutant: a queue without a limit.
Publish_NoCheck(t) ==
    /\ pc[t] = "stored"
    /\ At(t, IF ~subscribed THEN "idle" ELSE "entering")
    /\ UNCHANGED <<tableVars, devices, running, mode, job, bufferVars, streamVars, historyVars>>

\* For the stream's queue, if it is subscribed by now, put_nowait asks whether
\* there is room.
Publish(t) ==
    /\ pc[t] = "stored"
    /\ At(t, IF ~subscribed THEN "idle" ELSE IF Full THEN "discarding" ELSE "entering")
    /\ UNCHANGED <<tableVars, devices, running, mode, job, bufferVars, streamVars, historyVars>>

\* put_nowait enters the packet and wakes the reader that is registered.
Enter(t) ==
    /\ pc[t] = "entering"
    /\ queue' = Append(queue, job[t])
    /\ getter' = IF getter = "pending" THEN "done" ELSE getter
    /\ At(t, "idle")
    /\ UNCHANGED <<tableVars, devices, running, mode, job, bufferVars,
                   subscribed, stream, rest, present, historyVars>>

\* QueueFull: get_nowait.  If the queue is empty by now, that raises and the
\* packet is given up.
Discard(t) ==
    /\ pc[t] = "discarding"
    /\ IF queue = << >>
       THEN At(t, "idle") /\ lost' = lost \union {job[t].id} /\ UNCHANGED queue
       ELSE /\ At(t, "retrying")
            /\ queue' = Tail(queue)
            /\ lost' = lost \union {Head(queue).id}
    /\ UNCHANGED <<tableVars, devices, running, mode, job, bufferVars, subscribed, getter,
                   stream, rest, present, taken, owed, late>>

\* The second put_nowait; another QueueFull is swallowed.
Retry(t) ==
    /\ pc[t] = "retrying"
    /\ At(t, IF Full THEN "idle" ELSE "entering")
    /\ lost' = IF Full THEN lost \union {job[t].id} ELSE lost
    /\ UNCHANGED <<tableVars, devices, running, mode, job, bufferVars, streamVars,
                   taken, owed, late>>

-----------------------------------------------------------------------------
(* Start and stop, by the daemon on the event loop *)

\* start: with a raw socket where the system grants one.
Start ==
    /\ ~running
    /\ mode = "standby"
    /\ LoopFree
    /\ running' = TRUE
    /\ mode' \in {"raw", "simulated"}
    /\ At("capture", "idle")
    /\ UNCHANGED <<tableVars, devices, job, bufferVars, streamVars, historyVars>>

\* stop: the flag, the socket, and up to a second's wait for the thread, in
\* which the event loop does nothing else.
Stop ==
    /\ running
    /\ LoopFree
    /\ running' = FALSE
    /\ At("loop", "joining")
    /\ UNCHANGED <<tableVars, devices, mode, job, bufferVars, streamVars, historyVars>>

\* join(timeout=1.0) returns, whether the thread has ended or not.
Joined ==
    /\ pc["loop"] = "joining"
    /\ At("loop", "idle")
    /\ UNCHANGED <<tableVars, devices, running, mode, job, bufferVars, streamVars, historyVars>>

-----------------------------------------------------------------------------
(* The stream's task *)

Unchanged == UNCHANGED <<tableVars, devices, threadVars, bufferVars>>

Passed(entry) == entry.packet.proto[1] \in PassedProtocols

Open ==
    /\ stream = "none" /\ LoopFree
    /\ stream' = "confirming"
    /\ subscribed' = TRUE
    /\ Unchanged /\ UNCHANGED <<queue, getter, rest, present, historyVars>>

\* Mutant: what waits already is dropped, to send nothing twice.
Confirmed_ClearsQueue ==
    /\ stream = "confirming" /\ LoopFree
    /\ present
    /\ stream' = "replaying"
    /\ queue' = << >>
    /\ rest' = SubSeq(buffer, IF Len(buffer) > ReplaySize THEN Len(buffer) - ReplaySize + 1 ELSE 1,
                      Len(buffer))
    /\ Unchanged /\ UNCHANGED <<subscribed, getter, present, historyVars>>

\* The confirmation is sent: the client has read it, or it fits the socket's
\* buffer.  The recent packets are copied.
Confirmed ==
    /\ stream = "confirming" /\ LoopFree
    /\ present
    /\ stream' = "replaying"
    /\ rest' = SubSeq(buffer, IF Len(buffer) > ReplaySize THEN Len(buffer) - ReplaySize + 1 ELSE 1,
                      Len(buffer))
    /\ Unchanged /\ UNCHANGED <<subscribed, queue, getter, present, historyVars>>

\* A copied packet is written, unless filtered out, and the task waits for a
\* client that does not read; after the last one it turns to its queue.
Replay ==
    /\ stream = "replaying" /\ LoopFree
    /\ IF rest = << >>
       THEN stream' = "reading" /\ UNCHANGED rest
       ELSE /\ rest' = Tail(rest)
            /\ IF Passed(Head(rest))
               THEN present /\ stream' \in {"replaying", "pausing"}
               ELSE UNCHANGED stream
    /\ Unchanged /\ UNCHANGED <<subscribed, queue, getter, present, historyVars>>

\* A write before the try block raises: the queue stays subscribed.
Abandoned ==
    /\ ~present /\ LoopFree
    /\ \/ stream \in {"confirming", "pausing"}
       \/ stream = "replaying" /\ rest # << >> /\ Passed(Head(rest))
    /\ stream' = "ended"
    /\ Unchanged /\ UNCHANGED <<subscribed, queue, getter, rest, present, historyVars>>

\* A write inside it raises: the finally clause unsubscribes.
Ended == ~present /\ stream' = "ended" /\ subscribed' = FALSE

\* A write to the client; the task goes on at once, or waits for the client to
\* read.
Wrote ==
    \/ present /\ stream' \in {"reading", "draining"} /\ UNCHANGED subscribed
    \/ Ended

\* A drain that had to wait: the client reads, or the connection is lost.
Drained ==
    /\ LoopFree
    /\ \/ /\ present /\ UNCHANGED subscribed
          /\ \/ stream = "pausing" /\ stream' = "replaying"
             \/ stream = "draining" /\ stream' = "reading"
       \/ stream = "draining" /\ Ended
    /\ Unchanged /\ UNCHANGED <<queue, getter, rest, present, historyVars>>

\* queue.get() finds a packet.
Take ==
    /\ stream = "reading" /\ LoopFree
    /\ queue # << >>
    /\ queue' = Tail(queue)
    /\ taken' = Append(taken, Head(queue))
    /\ IF Passed(Head(queue)) THEN Wrote ELSE UNCHANGED <<stream, subscribed>>
    /\ Unchanged /\ UNCHANGED <<getter, rest, present, lost, owed, late>>

\* queue.get() finds none, and then registers its future and suspends.
FindEmpty ==
    /\ stream = "reading" /\ LoopFree
    /\ queue = << >>
    /\ stream' = "checked"
    /\ Unchanged /\ UNCHANGED <<subscribed, queue, getter, rest, present, historyVars>>

Register ==
    /\ stream = "checked"
    /\ stream' = "waiting"
    /\ getter' = "pending"
    /\ Unchanged /\ UNCHANGED <<subscribed, queue, rest, present, historyVars>>

Woken ==
    /\ stream = "waiting" /\ LoopFree
    /\ getter = "done"
    /\ stream' = "reading"
    /\ getter' = "none"
    /\ Unchanged /\ UNCHANGED <<subscribed, queue, rest, present, historyVars>>

\* Mutant: the reader waits without a timeout.
TimesOut_Never ==
    /\ stream = "waiting" /\ LoopFree
    /\ getter = "done"
    /\ getter' = "none"
    /\ Wrote
    /\ Unchanged /\ UNCHANGED <<queue, rest, present, historyVars>>

\* wait_for gives up after ten seconds and a heartbeat is written.
TimesOut ==
    /\ stream = "waiting" /\ LoopFree
    /\ getter' = "none"
    /\ Wrote
    /\ Unchanged /\ UNCHANGED <<queue, rest, present, historyVars>>

Leave ==
    /\ present /\ stream # "none"
    /\ present' = FALSE
    /\ Unchanged /\ UNCHANGED <<subscribed, queue, getter, stream, rest, historyVars>>

-----------------------------------------------------------------------------
Init ==
    /\ FlowInit
    /\ DeviceInit
    /\ dropped = 0
    /\ running = FALSE
    /\ mode = "standby"
    /\ pc = [capture |-> "none", loop |-> "idle"]
    /\ job = [t \in Threads |-> << >>]
    /\ seq = 0
    /\ buffer = << >>
    /\ stats = [c \in Counters |-> 0]
    /\ subscribed = FALSE
    /\ queue = << >>
    /\ getter = "none"
    /\ stream = "none"
    /\ rest = << >>
    /\ present = TRUE
    /\ taken = << >>
    /\ lost = {}
    /\ owed = {}
    /\ late = {}

Record(t) == RecordFlow(t) \/ Store(t) \/ Publish(t) \/ Enter(t) \/ Discard(t) \/ Retry(t)

\* What the stream's task does without its client's help.
StreamMoves ==
    \/ Replay \/ Abandoned \/ Take \/ FindEmpty \/ Register \/ Woken \/ TimesOut
    \/ Drained /\ ~present

Next ==
    \/ Capture \/ Simulate \/ CaptureEnds
    \/ \E q \in Queries : Query(q.client, q.blocked)
    \/ LookupEnds \/ Ingest
    \/ \E t \in Threads : Record(t)
    \/ Start \/ Stop \/ Joined
    \/ Open \/ Confirmed \/ StreamMoves \/ Drained \/ Leave

Spec == Init /\ [][Next]_vars

\* Threads are scheduled, a lookup and a join end, and the event loop gets to
\* the stream's task between two queries, however many there are.  The client
\* need not read: a drain is fair only once its connection is lost.
FairSpec ==
    /\ Spec
    /\ \A t \in Threads : WF_vars(Record(t))
    /\ WF_vars(LookupEnds) /\ WF_vars(Ingest) /\ WF_vars(Joined)
    /\ WF_vars(StreamMoves)

-----------------------------------------------------------------------------
(* Properties *)

\* The flows and the counters tell of the same packets: each packet is counted
\* once by a flow and once by the counters.  They differ by those a thread has
\* entered in the one and not yet in the other, and by those whose flow had to
\* make room.
FlowsMatchPackets ==
    PacketsIn(DOMAIN flows) + dropped
        = stats["total"] + Cardinality({t \in Threads : pc[t] = "recorded"})

Ordered(s) ==
    \A i, j \in DOMAIN s :
        i < j => s[i].id # s[j].id /\ (s[i].by = s[j].by => s[i].id < s[j].id)

\* Packets of one thread stay in the order of their numbers, in the buffer and
\* in what the stream takes from its queue, and none is there twice.  (Those
\* of two threads may change places.)
ThreadOrderKept == Ordered(buffer) /\ Ordered(taken \o queue)

\* The stream's task is at work, or waits for its queue or its client.
Live ==
    {"confirming", "replaying", "pausing", "reading", "draining", "checked", "waiting"}

\* A thread has stored its packet and is not done with the stream's queue.
Publishing == {"stored", "entering", "discarding", "retrying"}

\* What is recorded after a client has asked for the stream reaches it through
\* its queue, whichever thread records it and however far confirmation and
\* replay have come; only a queue that was full when the packet was entered loses
\* one.  (A packet recorded before the replay is copied may be sent a second
\* time with it.)
NoGap ==
    stream \in Live =>
        \A id \in owed :
            \/ id \in Ids(taken) \union Ids(queue) \union lost
            \/ \E t \in Threads : pc[t] \in Publishing /\ job[t].id = id

\* The queue's limit is checked and then used without a lock: two threads may
\* pass the check together, and the queue exceeds its size by one, never more.
QueueNearlyBounded == Len(queue) <= QueueSize + 1

\* Once stop has returned, the capture thread records at most the one packet
\* it was working on, though stop waits for it no longer than a second.
QuietAfterStop == Cardinality(late) <= 1

\* Each packet that waits in the queue of a client that stays is taken or
\* discarded in the end, whatever packets come after it or do not, unless the
\* client stops reading for good.  The reader's wakeup may be lost, when the
\* capture thread enters the packet between the reader's check and its
\* registration; the timeout makes up for it.
StreamDelivers ==
    \A id \in 1 .. MaxPackets :
        \/ id \in Ids(queue) /\ stream \in Live ~> id \notin Ids(queue) \/ ~present
        \/ <>[](stream \in {"confirming", "pausing", "draining"})
=============================================================================
