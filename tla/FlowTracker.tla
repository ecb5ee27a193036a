----------------------------- MODULE FlowTracker -----------------------------
(***************************************************************************)
(* network/flows.py: the table of bidirectional flows, bounded in size and *)
(* pruned by age.                                                          *)
(*                                                                         *)
(* Time is a natural number that may be set back (time.time()).  A packet  *)
(* is what PacketParser.Parse returns, with a policy tag if the monitor    *)
(* adds one; byte counts, which move with the packet counts, and device    *)
(* names are left out.  record_packet holds the lock throughout and reads  *)
(* the clock just before taking it, here in the same step: that two        *)
(* threads read it in one order and record in the other is left out.       *)
(* Flows that were last seen at the same time are evicted in any order     *)
(* (the code: the order of their creation).                                *)
(***************************************************************************)
EXTENDS PacketParser

CONSTANTS
    MaxFlows,       \* max_flows
    IdleTimeout,    \* idle_timeout
    PruneEvery,     \* the seconds between two prunings (60 in the code)
    MaxTime,        \* bound: the clock's last value
    MaxCount        \* bound: packets counted per flow

ASSUME FlowAssumption ==
    /\ MaxFlows \in Nat \ {0}
    /\ IdleTimeout \in Nat
    /\ PruneEvery \in Nat
    /\ MaxTime \in Nat

VARIABLES
    flows,          \* _flows: a flow record for each key in use
    lastPrune,      \* _last_prune
    now,            \* time.time()
    wasSetBack      \* history: the clock has been set back

flowVars == <<flows, lastPrune, now, wasSetBack>>

ServerPorts == {80, 443, 53, 853}

Port(p) == IF p < 0 THEN 0 ELSE p

\* Both directions of a conversation have one key: its endpoints unordered.
FlowKey(pkt) ==
    <<pkt.proto[1], {<<pkt.src, Port(pkt.sport)>>, <<pkt.dst, Port(pkt.dport)>>}>>

Tracked(pkt) == pkt.src # "" /\ pkt.dst # ""

\* Mutant: only the ports decide.
SourceIsClient_ByPort(pkt) ==
    Port(pkt.sport) > 1024 /\ Port(pkt.dport) \in ServerPorts

SourceIsClient(pkt) ==
    \/ IsPrivate(pkt.src)
    \/ Port(pkt.sport) > 1024 /\ Port(pkt.dport) \in ServerPorts

NewFlow(pkt) ==
    [client |-> IF SourceIsClient(pkt) THEN pkt.src ELSE pkt.dst,
     server |-> IF SourceIsClient(pkt) THEN pkt.dst ELSE pkt.src,
     first |-> now, last |-> now, up |-> 0, down |-> 0,
     state |-> "ESTABLISHED", tag |-> pkt.tag]

TcpState(flow, pkt) ==
    CASE "FIN" \in pkt.flags -> "CLOSING"
      [] "FIN" \notin pkt.flags /\ "RST" \in pkt.flags -> "RESET"
      [] pkt.flags \cap {"FIN", "RST", "SYN", "ACK"} = {"SYN"} -> "SYN_SENT"
      [] OTHER -> flow.state

Counted(flow, pkt) ==
    [flow EXCEPT !.last = now,
                 !.tag = IF @ = "" THEN pkt.tag ELSE @,
                 !.up = IF pkt.src = flow.client THEN @ + 1 ELSE @,
                 !.down = IF pkt.src = flow.client THEN @ ELSE @ + 1,
                 !.state = TcpState(flow, pkt)]

\* _prune_stale_locked, run when the last one is more than PruneEvery ago.
PruneDue == now - lastPrune > PruneEvery
Stale(k) == now - flows[k].last > IdleTimeout

\* Mutant: nothing is pruned while the table has room.
AfterPrune_WhenFull ==
    IF PruneDue /\ Cardinality(DOMAIN flows) >= MaxFlows
    THEN {k \in DOMAIN flows : ~Stale(k)} ELSE DOMAIN flows

AfterPrune == IF PruneDue THEN {k \in DOMAIN flows : ~Stale(k)} ELSE DOMAIN flows

\* _prune_oldest_locked: a tenth of the flows, and at least one.

\* Mutant: a tenth of a small table is nothing.
DropCount_Tenth(n) == n \div 10

DropCount(n) == IF n \div 10 > 1 THEN n \div 10 ELSE 1

\* Mutant: sorted the other way.
OldestOf_Newest(keys) ==
    {old \in SUBSET keys :
        /\ Cardinality(old) = DropCount(Cardinality(keys))
        /\ \A k \in old, j \in keys \ old : flows[k].last >= flows[j].last}

OldestOf(keys) ==
    {old \in SUBSET keys :
        /\ Cardinality(old) = DropCount(Cardinality(keys))
        /\ \A k \in old, j \in keys \ old : flows[k].last <= flows[j].last}

\* The sets of keys that may be left when a packet of this key is recorded.
Survivors(keys, key) ==
    IF Cardinality(keys) >= MaxFlows /\ key \notin keys
    THEN {keys \ old : old \in OldestOf(keys)}
    ELSE {keys}

\* record_packet
RecordPacket(pkt) ==
    IF ~Tracked(pkt)
    THEN UNCHANGED flowVars
    ELSE LET key == FlowKey(pkt)
         IN \E kept \in Survivors(AfterPrune, key) :
              /\ flows' = [k \in kept \union {key} |->
                            IF k # key THEN flows[k]
                            ELSE Counted(IF key \in kept THEN flows[key] ELSE NewFlow(pkt),
                                         pkt)]
              /\ lastPrune' = IF PruneDue THEN now ELSE lastPrune
              /\ UNCHANGED <<now, wasSetBack>>

Observe(pkt) ==
    /\ \A k \in DOMAIN flows : flows[k].up + flows[k].down < MaxCount
    /\ RecordPacket(pkt)

Elapse ==
    /\ now < MaxTime
    /\ now' = now + 1
    /\ UNCHANGED <<flows, lastPrune, wasSetBack>>

SetBack ==
    /\ ~wasSetBack
    /\ now' \in 0..(now - 1)
    /\ wasSetBack' = TRUE
    /\ UNCHANGED <<flows, lastPrune>>

FlowInit ==
    /\ flows = << >>
    /\ now = 0
    /\ lastPrune = 0
    /\ wasSetBack = FALSE

\* The table never holds more than max_flows flows: making room comes before
\* adding, drops at least one flow, and counts what the pruning left.
FlowsBounded == Cardinality(DOMAIN flows) <= MaxFlows

\* Of the flows of one step's table, those recorded as seen last stay: a flow
\* goes because it is idle, or because the table is full and every flow kept
\* was seen no earlier.  (After the clock is set back, the new flows have the
\* small times, and each evicts the one before it.)
RecentFlowsKept ==
    [][~wasSetBack =>
        \A k \in DOMAIN flows \ DOMAIN flows' :
            \/ Stale(k)
            \/ /\ Cardinality(DOMAIN flows) >= MaxFlows
               /\ \A j \in DOMAIN flows' : flows'[j].last >= flows[k].last]_flowVars

\* While the clock runs forward, no packet is recorded beside a flow that has
\* been idle longer than the timeout and one pruning period together.
IdleFlowsLeave ==
    [][flows' # flows /\ ~wasSetBack' =>
        \A k \in DOMAIN flows' : now - flows'[k].last <= IdleTimeout + PruneEvery]_flowVars

\* Between a private and a public address the private side is the client,
\* whichever side's packet made the flow (the first one, or the first after
\* an eviction), unless the private side is a server on a well-known port.
LanSideIsClient ==
    \A k \in DOMAIN flows :
        \A e, g \in k[2] :
            /\ e # g
            /\ IsPrivate(e[1]) /\ ~IsPrivate(g[1])
            /\ e[2] \notin ServerPorts
            => flows[k].client = e[1]
=============================================================================
