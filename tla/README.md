# FocusGuard in TLA+

FocusGuard is a DNS daemon that keeps a home network away from distracting
sites. Rules are permanent (domains and services blocked until removed) or
belong to a focus session, which once confirmed cannot be cut short: until its
deadline no rule may be removed and no restart, crash or clock set-back may end
it. This directory models the daemon's own logic in TLA+, checks it with TLC on
small instances, and proves the main results with TLAPS for all values of the
constants.

    tlc -workers 2 -config policy_safety.cfg MCPolicyEngine
    tlapm PolicyEngineProofs.tla

`PROJECT.json` lists components, runs, mutants, findings, hazards and theorems,
and maps every definition to the source lines it stands for.

## 1. The system

One process, `focusguardd`, runs one asyncio event loop (and a capture thread
for packets). The command line talks to it over a socket, one JSON request at a
time. Request handlers do not await, so each is atomic with respect to the
others; DNS queries and monitor streams do await and interleave.

| component (src/focusguard) | state | operations | called by |
|---|---|---|---|
| session manager (`core/session.py`) | one session record: IDLE, LOCKED or EXPIRED, deadline, domains, services | start, check expiration, release, assert not locked | policy engine |
| policy engine (`core/policy.py`) | rules, session, the blocklist in force | add, remove, block, unblock, start, stop, tick, boot | IPC server, heartbeat |
| state store (`storage/state.py`) | `state.json`, its temporary file, `.secret` | save, load | policy engine |
| sinkhole (`dns/sinkhole.py`) | blocked and allowed rule sets | set rules, is blocked | policy engine, DNS server |
| DNS server and resolver (`dns/server.py`, `dns/resolver.py`) | queries under way, answer cache | handle query, ask upstream, store | clients |
| wire format (`dns/protocol.py`) | none | parse, write | DNS server |
| network gateway (`network/gateway.py`) | the kernel's iptables chains | enable, disable, status | IPC server, daemon start, root command line |
| IPC server, event bus (`service/`) | connections, subscriber queues | requests, monitor streams | command line |
| daemon (`service/daemon.py`) | what runs | start, 1 s heartbeat, stop | systemd |
| packet monitor (`network/monitor.py`) | a capture thread, the newest packets, counters, subscribers' queues | start, stop, record, publish | capture thread, DNS server, IPC server |
| flow tracker (`network/flows.py`) | the flow table | record and prune, list | packet monitor |
| device tracker (`network/devices.py`) | the known clients | record a query | DNS server |
| event log (`storage/log_store.py`) | an SQLite file of events and flows | record and trim, statistics | DNS server's callbacks, policy engine, IPC server |
| packet parser (`network/packets.py`) | none | frame to metadata | capture thread |
| normaliser, services, bypass catalogues, durations (`core/`, `network/bypass.py`) | none | pure functions | policy engine |

How they interact: a request changes the rules in memory, pushes the domain
list into the sinkhole, then saves the document; the heartbeat releases a
session whose deadline has passed; a DNS query reads the sinkhole once, on
arrival. The gateway is the one piece of state shared with another process; the
packet monitor is the one shared between threads.

What is hard here, and what makes each part correct:

- *Session and rules*: a granted session outlives failed saves, crashes,
  restarts and clock set-backs, and ends at its deadline; what was confirmed is
  on disk; the sinkhole follows the rules.
- *State store*: any crash or power failure between two system calls leaves the
  old or the new document.
- *DNS*: rules, cache and other queries change while a query waits; the record
  of a query and its reply agree; a rule beats the cache; every query ends.
- *Gateway*: sequences of commands by two processes, any of which fails or dies
  half-way; what an operation says is so; it can be repaired.
- *Streams*: readers that are slow, filter or vanish; what a bounded queue loses,
  and that it is given back.
- *Packets*: a thread that outlives its stop, two threads that number, store and
  publish packets in separate sections, an asyncio queue filled from a thread; no
  packet is lost but from a full queue, and the counters agree.
- *Flows*: a bounded table whose clock may be set back; which side is the client.
- *Event log*: retention, and which session a query is filed under, across failed
  writes, crashes and restarts; the end of a session is told once.

## 2. Modules

| module | models | composed of |
|---|---|---|
| `SessionManager` | the session record and its operators | |
| `PolicyEngine` | engine, session, sinkhole, document, clock, crashes | `SessionManager`; refines `FocusPromise` |
| `FocusPromise` | what a user is promised: the abstract specification | |
| `StateStore` | save and load by system call; process and power failures | refines `DurableDocument` |
| `DurableDocument` | what the daemon may expect of its state file: the abstract specification | |
| `DomainSinkhole` | rule sets and label-prefix matching | |
| `DnsServer` | queries, cache, upstream servers, changing rules | `DomainSinkhole` |
| `Gateway` | two processes working on the iptables chains | |
| `EventStream` | the event bus and the flow monitor's streams | |
| `PacketParser` | what the parser makes of a frame, a pure function | |
| `FlowTracker` | the flow table and its clock | `PacketParser` |
| `FrameCapture` | frames from the socket into the flow table | `FlowTracker` |
| `DeviceTracker` | the known clients | |
| `PacketMonitor` | both recording threads, start and stop, one packet stream | `FlowTracker`, `DeviceTracker` |
| `LogStore` | the log's tables and the callbacks that write them | `SessionManager`; refines `FocusPromise` |
| `FocusGuard` | the daemon its clients meet: rules in, answers out | `PolicyEngine`, `DnsServer`; refines both |
| `MCPolicyEngine`, `MCDnsServer`, `MCEventStream`, `MCFlowTracker`, `MCPacketMonitor`, `MCFocusGuard` | small instances | |
| `PolicyEngineProofs`, `StateStoreProofs`, `DnsServerProofs`, `EventStreamProofs`, `GatewayProofs`, `FlowTrackerProofs`, `PacketMonitorProofs`, `LogStoreProofs` | theorems | |

### PolicyEngine, SessionManager, FocusPromise

`mem`, `session` and `inForce` stand for the engine's configuration, its session
and the sinkhole's blocklist; `disk` is the document, whole (StateStore shows
why that is right); `clock` is the wall clock, which may be set back. Each IPC
request is one action that includes the refresh and the save; a save may raise
after memory has changed, as in the code. `Tick` is the heartbeat's call,
`Boot` is `PolicyEngine.__init__` with its own check of the deadline.
The variables `granted` and `confirmed` are ghosts: the session and the rules
that a client was told "ok" about.

`FocusPromise` knows only the clock, the promised session, whether the daemon
serves and what it blocks: while a promise lasts and the daemon serves, the
promised domains are blocked. `PromiseKept` checks, and `EngineKeepsPromise`
proves, that PolicyEngine implements it; `SessionKeepsPromise` proves the same of
LogStore, whose session is a narrower model of the same code.

### StateStore

`pc` is the next system call. `file` is what a process reads, `stable` what the
disk will hold after a power failure; `WriteBack` moves one to the other in the
kernel's own time. A document is a content and the key that signed it; a secret
is a number and whether `strip()` would shorten it. `load` looks at the
signature and then ignores the result, so only `verified` records it. A file that
cannot be read raises and is renamed aside ("aside"); where that rename fails too,
nobody is told: the process goes on with the default document while the old one
still lies there, and saves over it.
PolicyEngine's atomic save and its failing save are `Rename` and `SaveFails`
here: `StoredContentKept` says that a load returns what the last completed save
stored, which is what PolicyEngine takes for granted between power failures and
failed reads; `misread` marks the latter, and `store_read` shows what they cost.

`DurableDocument` says the same with no system calls: a save takes effect in one
step or not at all, and a load returns exactly what is there. `StateStore` maps
`file` and `stable` to the contents a load would find in them, before and after a
power failure; anything but a whole document reads as the default. `Lose` is
damage, `Replace` a load that gives the file up, moved aside or not. `SavesAreAtomic`
checks, and `StoreIsAtomic` proves, that every system call is a step or a stutter of
it: `Rename` is the commit, everything a save does before it is invisible.

### DnsServer, DomainSinkhole

A slot is a task of the event loop. `Receive` is everything up to the first
suspension: the socket calls before it do not suspend, so the sinkhole, the
records and the cache lookup are one step. `UpstreamAnswers` and `UpstreamFails`
end a wait. Names are label sequences from the top level down, as
`_domain_to_key` makes them. `Unwritable` names are those that `to_bytes` cannot
encode; whatever reply is meant for them is lost unless it is upstream's own
bytes. `action` in a query is what the flow log and the monitors were told.
`Restart` is the end of the process: queries, cache and rules are gone.

### FocusGuard

The policy engine and the DNS server in one process. What joins them is the
sinkhole: whenever the engine's blocklist changes, and when an engine starts, its
domains are pushed (`EngineStep` takes `SetBlockedDomains` as part of the step, as
the code calls it from `_refresh_sinkhole`); a crash ends both (`ProcessDies`), and
a query is served only while the daemon is up. There are two clocks: sessions end
by the wall clock, which is set back, and cached answers by the event loop's, which
is not. The properties are what a user sees: a name at or below a domain that the
daemon has confirmed (`Promised`) is refused, and one under no rule in force is not.

### Gateway

Each process runs a program, a sequence of iptables commands, one step each;
`Accepted` and `Effect` are the kernel's side. `check` on a command is
`check=True` in the code. A command may also raise where iptables cannot be run,
which ends the operation whether the command is checked or not. The ghosts `alone`
and `clean` say that nobody else has touched the tables since an operation began, and
that none of its commands failed for an outside reason (the xtables lock, a missing
right). `spoiled` says that, since nobody last worked on the tables, something else
than complete enables with the right to change them has.

### EventStream

Events are numbers in the order of publication. A stream's task is at `get`
("reading"), at a `drain` that has to wait ("draining"), or at the drain of its
first reply ("confirming"), which is outside the `try`: when that one raises the
queue stays subscribed for good (`ConfirmationFails`). `since` and `taken` are
ghosts. Events do not end with the last number: `later` says which streams have one
beyond it in their queue, and `Picky` are the streams whose filter lets none of those
pass. The clock is left out: a heartbeat may come whenever a queue is empty.
Setting `event.session_active` before a write is left out too; it is a display
field.

### PacketParser, FlowTracker, FrameCapture

A frame is its size and the header fields that the parser's branches look at:
the Ethernet type, header length, protocol, addresses, ports, flags, and whether
it is a later fragment. `Parse` gives the metadata or `Malformed`, and
`BytesRead` the ends of the fields it has read on the way. Where the parser looks
for ports in bytes that are none (a later fragment, a header length below five
words) it reports `JunkPort`. `RecordPacket` is `record_packet` with both
prunings; `Survivors` are the sets of flows that may be left, more than one where
flows were last seen in the same second. The wall clock elapses and is set back
once. `FrameCapture` takes one frame after another through both.

### PacketMonitor, DeviceTracker

`pc` says where each of the two threads is while it records a packet. Every section
under a lock is one step, and so is every access to the stream's queue:
`put_nowait`'s check and its entry, `get_nowait`, the retry, the reader's check of
an empty queue and the registration of its future. The event loop does nothing else
while it handles a query or runs the code of a task up to its next suspension
(`LoopFree`). The device lock is held through the reverse lookup of a new client,
and the capture thread waits for it. `Stop` waits for the thread for a second, which
may not be enough. Each write of the stream's task may have to wait for a client
that does not read: at the confirmation ("confirming"), between two replayed packets
("pausing") or at a packet or heartbeat ("draining"). `taken`, `lost`, `owed`,
`late` and `dropped` are history, the last the number of packets that no flow counts
any more, or ever did. DNS events and captured frames take the same path from
`Begin` on.

### LogStore

An insertion with its trim is one SQLite transaction: it commits or fails. The
module narrows PolicyEngine to one kind of rule (session domains beside fixed
permanent ones) and the sinkhole's decision to whether a domain is one of the rules
in force (essential names and parent domains are DomainSinkhole's subject), and adds
what the log sees: session ids, which row is filed under which session, and the
events of start, end and resumption, each written after the save it reports. Each
outcome of a request is a choice: done, save failed, or log failed after the save.
`owed` in a row names the confirmed sessions under way when the query came, and
`started` keeps each session's domains. `Stats` has the totals and the breakdown by
client, which lists the busiest `MaxListed` (ten in the code); which of several
equally busy ones it lists is open.

## 3. Runs

| run | instance | shows |
|---|---|---|
| `policy_safety` | a site with a companion, a service, a bypass domain; sessions of 1 and 2 s, clock to 3; 2 crashes, failed saves or set-backs | locks, rules and document agree; refinement of FocusPromise; every lock ends |
| `policy_overdue` (violated) | as above | rules of a lapsed session may stay in force |
| `system` | a site whose companion is a fixed name, an essential name below the site, a service with a wildcard; sessions of 1 s; 2 faults; 1 query at a time, one upstream server | from request to reply: promised names are refused, other names are not |
| `store_safety` | 2 contents, 4 keys, 3 faults of any kind | refinement of DurableDocument; stored content survives crashes at every step |
| `store_read` (violated) | 1 fault | one failed read of a sound file loses the document |
| `dns_safety` | 2 tasks, 3 names of 1 to 4 labels, 2 servers, TTLs below, between and above the clamp, clock to 3 | replies, records, cache and rules agree; every wait ends |
| `gateway_repair` | 2 processes, 2 faults, 4 jumps | enable repairs, disable stops, reports of success are true, overlapping enables all succeed |
| `gateway_residue` (violated) | 2 processes, no fault | left-over jumps and chains |
| `stream` | 2 clients, one with a filter; queues of 2, 5 numbered events and later ones without end | order and losses of what is delivered; release of queues, unless skipped events keep coming |
| `flows` | 2 LAN hosts and a server; a table of 2 flows; timeout 2 s, pruning every second, clock to 5; the first frame any of 6,000 at the parser's limits, then five of a conversation | the parser stays in its frame; limit, eviction, idling and direction of flows |
| `packets` | 1 good and 1 malformed frame, or 1 simulated packet; 1 query; 3 packets; a table of 2 flows; buffer 2, queue 1, replay 1 | numbers, order, counters; the stream has no gap; stop; lost wakeups are made up for, unless the client stops reading |
| `logs` | 2 domains, one of them permanent; 2 clients; tables of 2 rows, a listing of 1 client; 2 sessions, 3 queries, 2 faults, clock to 2 | retention, statistics, filing under sessions, ends told once |

Why the bounds are enough. The policy properties relate one session to one earlier
state of the rules, so one site, one service and a clock that passes one deadline
and one more session show every case; more faults than the bound only repeat a state
(the proofs have no bound). A save has five points at which it can stop and a load
may follow: three faults stop a save, then the load's own save, then the next. Two
DNS tasks are needed to share an entry and suffice, since tasks meet only in the
cache and the rules; `system` asks what one query meets of the rules, so one is
enough there, with a session that starts and lapses, one crash and one failed save.
Two gateway processes are all there are: the daemon runs one operation at a time,
and the command line one per process, of which a second adds only another inserter;
jumps are bounded because each overlap may add one. Streams meet only in the bus, so
two suffice; five events overflow a queue of two more than once, and a later event
is kept only while every queue has room, since what overflows loses the five have
shown. A table of two flows evicts with every third conversation, and a tenth of it
rounds to nothing; five seconds pass a timeout and two prunings. Three packets fill
a queue of one from two threads, which may both pass its check, and overflow a
buffer of two; the packets are of two flows or three, and the third evicts one from
a table of two; the clock stands still in PacketMonitor, since `flows` has it move.
Tables of two rows are trimmed by the third of three queries, and a listing of one
leaves out one of two clients; two sessions are the running one and one whose end
may be told again; two faults are a failed write and the crash that follows it.
`stream`, `flows`, `packets` and `logs` do not check for deadlock: once their
bounded counters are used up nothing is left to do.

The `violated` runs are findings: each checks a sentence of the documentation,
a docstring or a message, and `PROJECT.json` quotes it. Eight more configurations
are kept beside them and are run by hand; TLC violates each one's property:

| configuration, module | property | what the trace shows |
|---|---|---|
| `policy_retry.cfg`, MCPolicyEngine | ConfirmedServicesStored | `block_permanent_service` (policy.py:159) skips the save when the service is listed, so a retry after a failed save is confirmed and lost at the next restart |
| `store_verify.cfg`, StateStore | UntouchedStateVerifies | a secret that begins or ends with white space is cut by `strip()` (state.py:86) and replaced at every start; an untouched document then fails verification |
| `dns_dedup.cfg`, MCDnsServer | RequestsAreShared | the lock of resolver.py:40 is never taken: queries for one question that miss the cache together all go upstream, where ARCHITECTURE.md:69 has them share one request |
| `dns_replies.cfg`, MCDnsServer | RepliesArrive | `to_bytes` (protocol.py:44) raises for a name it has parsed: no sinkhole reply, no cached reply and no SERVFAIL is sent |
| `gateway_denied.cfg`, Gateway | DisableTruthful | disable looks at no return code (gateway.py:158) and reports removal when every command was refused |
| `gateway_locked.cfg`, Gateway | DisableRejectedWhileLocked | `cmd_gateway` looks up `session_status` where the report has `session.status`, so run as root it dismantles the chains while a session is locked; the README of the repository (line 448) has it "strictly rejected" |
| `stream_stale.cfg`, MCEventStream | NeverStale | each event that the filter skips starts `wait_for` anew (ipc_server.py:252), so while such events come less than ten seconds apart a client that has left keeps its queue; the comment at line 251 has the heartbeat "so connection never goes stale" |
| `gateway_status.cfg`, Gateway | StatusTruthful | status lists only the nat chain (gateway.py:70), so half an enable is reported active |

Read in the code, with no run of its own: ARCHITECTURE.md:160 has the event log
"capped at 5,000 entries", and `DEFAULT_MAX_EVENTS` (log_store.py) is 1000.

## 4. Fairness

For `LockLapses`, `policy_safety` assumes that time passes (AdvanceClock), that the
heartbeat's loop runs (it catches its exceptions and sleeps one second) and that a
dead daemon is started again (`Restart=always`). Nothing is assumed of clients, of
saves or of crashes. Crashes and failed saves are bounded, which stands for "not for
ever".

`dns_safety` assumes, for `QueriesEnd`, only that the timer of `wait_for` fires.
Answers need not come; a wait may also end with the process. (A reverse lookup
that blocks the loop delays timers, it does not stop them.)

`stream` assumes that the event loop runs a task that can run, that its
ten-second timer fires unless an event comes first, and that a drain raises once
its connection is lost. A client need not read, and events neither need come nor
end. `GoneAreReleased` therefore has one excuse: events that the filter skips, coming
for ever (`s \in Picky /\ []<>(s \in later)`). The code then neither writes nor
notices that the client has left, which `stream_stale.cfg` shows.

`packets` assumes, for `StreamDelivers`, that threads are scheduled, that a
reverse lookup gives up in the end (the C library's resolver times out) and so
does `join(timeout=1.0)`, and that the event loop gets to the stream's task
between two queries. Nothing is assumed of frames, queries or the client: a
confirmation or a drain is fair only once the connection is lost, and a client that
stops reading for good is the one excuse of the property. The timeout of ten
seconds is among the steps of the task, and the property rests on it: with a wakeup
lost and no timeout, what waits would wait until the next packet (the mutant of
`TimesOut` shows it).

## 5. Proofs

All proofs are over the unbounded modules: any sets of domains, names, contents,
TTLs, any number of faults, servers and ticks allowed by the named assumptions
(the `ASSUME`s of each module, such as `TimeAssumption` or `StoreAssumption`).

*PolicyEngine.* The inductive invariant strengthens the checked ones with what
holds between handlers: a granted session that still runs is the session in
memory and on disk; memory holds at least what was confirmed and the disk too;
what is in force is the blocklist of the rules in memory unless a lapsed session
is marked EXPIRED. Without the disk part a crash would break the memory part,
without the memory part a later save would break the disk part. From it:
`TypeCorrect`, `GrantedLocksHold`, `SinkholeFollowsPolicy`,
`ConfirmedDomainsAreStored`, `RulesStayFrozen` (an action property) and the
refinement `EngineKeepsPromise`.

*FocusGuard.* `DaemonRunsItsParts` comes first: each step of the daemon is a step
or a stutter of PolicyEngine and of DnsServer, so what is proved of either holds of
the daemon. To the engine's invariants `SystemInv` adds `Coupled`: while the daemon
is up the sinkhole's rules are the fixed ones and those of the engine's blocklist.
A query that arrives is decided by these rules alone (`ArrivalDecides`), before the
cache is looked at. `PromisedNamesAreRefused` then needs that what was promised is
in force, which is `GrantedLockHolds` and `ConfirmedDomainsStored` with
`SinkholeMatchesPolicy`, and that a larger rule set matches more names
(`MatchesMore`). `OtherNamesAreResolved` needs the converse: outside a session
marked EXPIRED the blocklist in force is exactly what the rules ask for.
They assume that a normalised domain is a fixed point of normalisation
(`NamesAssumption`), as `normalize_domain` is written.

*StateStore.* `DocumentStaysIntact`: only whole files are ever renamed over
`state.json`, and the temporary file is whole when `pc` is at the rename.
`StoredContentStays` adds that a save which got as far as its disk calls has a
key and a content, that what it renames is the document made of the two, and that
nothing is set aside that was not damaged or misread (`AsideExcused`).
`StoreTypeCorrect` needs the same fact: it is what makes a renamed file a document.
`StoreIsAtomic` proves the refinement of DurableDocument call by call; besides
these invariants it needs that a process between two calls of a save has the
content it is saving, and that one that is loading has none yet. A failed rename
aside is a `Replace` that leaves the file: the save that follows commits the default.

*DnsServer.* The invariant says, of each task, that a waiting one was allowed and
has failed exactly the servers before the present one, and of each cache entry,
that its expiry is its birth plus the clamped TTL. `RulesOverrideTheCache` also
needs that looking up every prefix of a name finds a rule above it
(`ForbiddenIsBlocked`). `BootstrapStaysBlocked` and `EssentialStaysReachable` have
an invariant of their own, `FixedInv`: whatever a request pushes, the rule sets
contain the fixed names, and no task or entry has come by a name below one. They
assume that the two fixed lists do not overlap (`ListsApart`), as they do not in
the code.

*Gateway.* The invariant says how far an operation that nobody disturbs has got:
before its k-th command an enable has every rule appended and every jump inserted
by the commands before it (`EnabledBefore`), its chains are there if no command
failed for an outside reason (`ChainsBefore`), and a disable has emptied what it
flushed (`EmptiedBefore`). What the step from k to k + 1 needs of the programs is
their order, stated once in `EnableShape` and `DisableShape`; whether the k-th
command was accepted is not known in advance, so each outcome is a case. An
operation is alone only while every other process is idle, which is why no other
process's step can spoil it. From it: `EnablesAreTruthful`, `EnablesRepair`,
`DisablesStopRedirection`, for any set of processes without privileges and any number
of faults. `OverlappingEnablesWork` is about enables that do disturb each other, in any
number of rounds and over any leftovers. Its invariant (`SharedInv`) says of each rule
and each jump that it is there or that a running enable still has to make it: a flush
takes rules away, but whoever flushes appends them later (`FlushThenFill`), and a chain
once made stays (`ChainsStay`), so no checked command is ever refused. When the last
enable is through, nothing is left to make.

*EventStream.* Where a task is tells what its queue and its output hold: a
subscribed queue is the newest events without a gap, and what was passed over
lies `Capacity` behind. That the queue has no gap is what makes the second part
inductive: the event taken next is either the successor of the last one or the
head of a full queue.

*FlowTracker, FrameCapture.* The invariant bounds the table and the times in it:
until the clock is set back, the last pruning is not in the future, and no flow in
the table was older than the timeout then. `IdleFlowsGo` follows because
a packet is recorded either right after a pruning or less than a period later.
`FlowsStayBounded` counts: making room drops at least one flow
(`DropCount`). `LanSideStaysClient` holds of a new flow by the order of the tests
in `record_packet`, and later packets do not change its client.
`ParserStaysInside` and `PortsAreAsSent` are cases over the parser's branches, for
every size and header length.

*PacketMonitor.* The invariant (`Inv`) has a part for each thing the threads share.
`Shape`: where each thread is and what it holds. `Stopping`: after stop the thread
has at most the packet it was at. `Streaming`: while the task is alive its queue is
subscribed, so that a publishing thread sees it. `QueueRoom`: the queue's length
with the threads that have passed the check stays within the limit plus one;
without counting the threads the bound is not inductive. `OrderInv`: what a thread
holds was numbered after everything it has stored or entered. From it:
`StreamHasNoGap`, `QueueStaysNearlyBounded`, `StopIsQuiet` and `ThreadOrderStays`.

The counters need sums over the flow table. `SumFunctionOnSet`
is a fold, and induction over data is out of reach; instead the proofs take a least
set for which the claim fails (finite sets are well founded under strict
inclusion), remove one flow from it and meet a contradiction (`SumRemove`,
`SumSplit`). `RecordAdds` then says what one call of `record_packet` does to the sum:
it grows by the packet and shrinks by the flows evicted. `FlowsMatch` follows, for a
table of any size and any number of packets, evictions and packets without addresses
included. It leaves open how much eviction may take, and `FlowsLostOnlyWhenFull`
answers: only a packet of a new flow that finds the table full takes anything from the
counts; no interleaving of the threads does. PacketMonitor's clock stands still, so
here no flow goes for being idle; that is `FrameCapture`'s subject.

*LogStore.* `SessionInv`: a locked session, in memory or on disk, was started under
its id with its domains, and what is in force is its rules with the permanent ones.
`GrantInv`: a confirmed session is on disk until its deadline. `RowsInv`: what a row
says of its session. `EndsInv`: a session whose end was told is locked neither in
memory nor on disk, which is what keeps a crash from telling it again. From it:
`NewestRowsStay`, `SessionRowsFollowRules`, `EndsAreToldOnce` and
`SessionQueriesAreCounted`, which for the breakdown by client needs only that those
it leaves out are no busier than those it lists. The first two parts also give
`SessionKeepsPromise`: with its writes to the log, each of which may fail a request
or a boot half-way, this module still implements FocusPromise.

Type correctness is a conjunct of each invariant, and a theorem of its own for the
store (`StoreTypeCorrect`) and the policy engine (`TypeCorrect`). These two,
`DocumentStaysIntact` and `EssentialStaysReachable` state invariants that no run
checks beside the deeper ones (`SavesAreAtomic`, `OtherNamesResolved`).

Only model-checked: the liveness properties (`LockLapses`, `QueriesEnd`,
`GoneAreReleased`, `StreamDelivers`), whose fairness and ENABLED are out of this
prover's reach, and the violated properties. The proofs of
`FrameCapture`, `PacketMonitor` and `LogStore` keep the bounds of the models only
where a constant of the code stands behind them (table, queue and buffer sizes);
the number of packets, queries, faults and seconds is arbitrary.

## 6. Not modelled

- Strings: parsing of durations, deadlines and domains (`time_guard.py`,
  `normalizer.py`), the DNS parser, wording of reports, status and diagnostics.
  These are pure functions on characters and bytes; the models take their results
  as inputs, refusals included.
- Tunnel rules of `network/bypass.py`: `enable_tunnel_restrictions` has no caller in
  the repository. Its catalogue of domains is part of PolicyEngine's fixed rules.
- Of the packet monitor: byte counts, rates and status reports; a failed read of the
  socket, which is logged and changes nothing.
  Of the parser: frames without an Ethernet header (never parsed so) and the hex
  preview. Of the device tracker: names, activity times, `set_device_hostname`
  (never called).
- Of the log store: `get_recent` and `get_recent_flows`, which only read, and
  `clear`, which no program of the repository calls.
- Sockets, their binding and closing, the order in which the daemon starts and
  stops its servers, and the interactive command line.
- `state.json` edited by hand, and the fallback directory used when
  `/var/lib/focusguard` cannot be made.

PolicyEngine reads the clock once per request where the code reads it up to three
times. FlowTracker reads it in the same step as it takes the lock: that two threads read
it in one order and record in the other is left out.

What holds only outside a session marked EXPIRED (`SinkholeMatchesPolicy`,
`OtherNamesResolved`) does not show the rules that such a session leaves in force;
`policy_overdue` does. `NoGap` counts a packet as lost also when it was given up
after its queue had become empty (monitor.py:401): the code does that.

## 7. What is left

1. `DaemonLifecycle`: the order of start and stop, a crash in between, shutdown with
   open streams (it depends on the Python version).
2. `Durations` and `DnsNames`: pure functions against reference definitions.
3. Refinement of PolicyEngine's `disk` by StateStore as an INSTANCE. PolicyEngine
   decides in one step whether a save succeeds, StateStore several calls later, so
   the mapping needs a prophecy of the outcome; until then the two meet in
   `StoredContentKept` and `SavesAreAtomic`, by argument.
