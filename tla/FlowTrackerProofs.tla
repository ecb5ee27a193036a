------------------------- MODULE FlowTrackerProofs -------------------------
(***************************************************************************)
(* Theorems about PacketParser, FlowTracker and FrameCapture, for any      *)
(* frames, addresses, limits and times that FrameAssumption,               *)
(* FlowAssumption and FramesAssumption allow.                              *)
(***************************************************************************)
EXTENDS FrameCapture, FiniteSetTheorems, TLAPS

(***************************************************************************)
(* The parser.                                                             *)
(***************************************************************************)

\* Where the transport header is reported whole, what the parser reads of it
\* lies inside the frame.
LEMMA TransportInside ==
    ASSUME NEW f \in Wire
    PROVE  TransportBytes(f) >= 0 => TransportReads(f) <= TransportBytes(f)
<1> USE FrameAssumption
<1>1. f.size \in Int /\ f.ihl \in Int
    OBVIOUS
<1>2. TransportBytes(f) \in Int
    BY <1>1 DEF TransportBytes, Payload, EthernetBytes, HeaderBytes, Ip6Bytes
<1>3. CASE f.protocol = "tcp"
    BY <1>2, <1>3 DEF TransportReads, HasTransport, TransportNeeds
<1>4. CASE f.protocol = "udp"
    BY <1>2, <1>4 DEF TransportReads, HasTransport, TransportNeeds
<1>5. CASE f.protocol \in {"icmp", "icmp6"}
    BY <1>2, <1>5 DEF TransportReads, HasTransport, TransportNeeds
<1>6. CASE f.protocol \notin {"tcp", "udp", "icmp", "icmp6"}
    BY <1>2, <1>6 DEF TransportReads, HasTransport, TransportNeeds
<1> QED BY <1>3, <1>4, <1>5, <1>6

\* No branch of parse reads past the end of any frame.
LEMMA ReadsInside ==
    ASSUME NEW f \in Wire, NEW n \in BytesRead(f)
    PROVE  n <= f.size
<1> USE FrameAssumption
<1>1. f.size \in Nat /\ f.ihl \in 0..15
    OBVIOUS
<1>2. CASE Payload(f) < 0
    BY <1>1, <1>2 DEF BytesRead, Payload, EthernetBytes
<1>3. CASE Payload(f) >= 0 /\ Parse(f) = Malformed
    BY <1>1, <1>3 DEF BytesRead, IpReads, Payload, EthernetBytes, Ip4Bytes, Ip6Bytes
<1>4. CASE Payload(f) >= 0 /\ Parse(f) # Malformed /\ f.type = "arp"
    BY <1>1, <1>4 DEF BytesRead, Parse, ParseArp, Payload, EthernetBytes, ArpBytes
<1>5. CASE Payload(f) >= 0 /\ Parse(f) # Malformed /\ f.type \in {"ip4", "ip6"}
    <2>1. HeaderBytes(f) \in Int /\ Payload(f) \in Int
        BY <1>1 DEF HeaderBytes, Payload, EthernetBytes, Ip6Bytes
    <2>2. Payload(f) >= IpReads(f) /\ Payload(f) >= HeaderBytes(f)
        BY <1>1, <1>5, <2>1
        DEF IpReads, HeaderBytes, Parse, ParseIp4, ParseIp6, Ip4Bytes, Ip6Bytes
    <2>3. TransportReads(f) \in Int
        BY DEF TransportReads
    <2>4. IpReads(f) \in Int
        BY DEF IpReads, Ip4Bytes, Ip6Bytes
    <2>5. TransportReads(f) <= Payload(f) - HeaderBytes(f)
        BY <2>1, <2>2, TransportInside DEF TransportBytes
    <2>6. n \in {14 + IpReads(f), 14 + HeaderBytes(f) + TransportReads(f)}
        BY <1>5 DEF BytesRead, EthernetBytes
    <2> QED BY <1>1, <2>1, <2>2, <2>3, <2>4, <2>5, <2>6 DEF Payload, EthernetBytes
<1>6. CASE Payload(f) >= 0 /\ Parse(f) # Malformed /\ f.type \notin {"arp", "ip4", "ip6"}
    BY <1>1, <1>6 DEF BytesRead, Payload, EthernetBytes
<1>7. Payload(f) \in Int
    BY <1>1 DEF Payload, EthernetBytes
<1> QED BY <1>2, <1>3, <1>4, <1>5, <1>6, <1>7

\* The ports reported are the sender's, and there are none of a cut header.
LEMMA PortsReported ==
    ASSUME NEW f \in Wire,
           Parse(f) # Malformed, f.type \in {"ip4", "ip6"},
           f.ihl >= 5, ~f.laterFragment
    PROVE  LET p == Parse(f)
               whole == /\ f.protocol \in {"tcp", "udp"}
                        /\ f.size - 14 - SenderHeader(f)
                             >= (IF f.protocol = "tcp" THEN 20 ELSE 8)
           IN IF whole THEN p.sport = f.sport /\ p.dport = f.dport
                       ELSE p.sport = NoPort /\ p.dport = NoPort
<1>1. f.size \in Nat /\ f.ihl \in 0..15
    BY FrameAssumption
<1>2. Parse(f) = ParseIp(f)
    BY DEF Parse, ParseIp4, ParseIp6
<1>3. Parse(f).sport = Transport(f).sport /\ Parse(f).dport = Transport(f).dport
    <2>1. ASSUME NEW src, NEW dst, NEW dir, NEW t
          PROVE  Metadata(src, dst, dir, t).sport = t.sport
                   /\ Metadata(src, dst, dir, t).dport = t.dport
        BY DEF Metadata
    <2>2. ParseIp(f).sport = Transport(f).sport /\ ParseIp(f).dport = Transport(f).dport
        BY <2>1 DEF ParseIp
    <2> QED BY <1>2, <2>2
<1>4. SenderHeader(f) = HeaderBytes(f)
    BY <1>1 DEF SenderHeader, HeaderBytes
<1>5. PortAt(f, f.sport) = f.sport /\ PortAt(f, f.dport) = f.dport
    BY <1>4 DEF PortAt
<1>6. HasTransport(f) <=>
        f.size - 14 - SenderHeader(f) >= TransportNeeds(f.protocol)
    BY <1>4 DEF HasTransport, TransportBytes, Payload, EthernetBytes
<1>7. f.protocol = "tcp" => TransportNeeds(f.protocol) = 20
    BY DEF TransportNeeds
<1>8. f.protocol = "udp" => TransportNeeds(f.protocol) = 8
    BY DEF TransportNeeds
<1> QED BY <1>3, <1>5, <1>6, <1>7, <1>8 DEF Transport

\* Every frame taken from the socket is one that may arrive.
LEMMA FramesArrive == CaptureSpec => [](frame \in Wire)
<1>1. CaptureInit => frame \in Wire
    BY DEF CaptureInit
<1>2. frame \in Wire /\ [CaptureNext]_captureVars => (frame \in Wire)'
    BY FramesAssumption DEF CaptureNext, ReadFrame, captureVars
<1> QED BY <1>1, <1>2, PTL DEF CaptureSpec

\* No frame makes the parser read past its end.
THEOREM ParserStaysInside == CaptureSpec => []ParserStaysInFrame
<1>1. frame \in Wire => ParserStaysInFrame
    BY ReadsInside DEF ParserStaysInFrame
<1> QED BY <1>1, FramesArrive, PTL

\* The ports reported are the sender's.
THEOREM PortsAreAsSent == CaptureSpec => []PortsAsSent
<1>1. frame \in Wire => PortsAsSent
    BY PortsReported DEF PortsAsSent
<1> QED BY <1>1, FramesArrive, PTL

(***************************************************************************)
(* The flow table.                                                         *)
(***************************************************************************)

FlowFields == {"client", "server", "first", "last", "up", "down", "state", "tag"}
Shaped(r) == r = [x \in FlowFields |-> r[x]]

\* A new flow has all its fields.
LEMMA NewFlowShaped ==
    ASSUME NEW pkt
    PROVE  Shaped(NewFlow(pkt))
BY DEF Shaped, NewFlow, FlowFields

\* Counting a packet renews a flow's time and leaves its client.
LEMMA CountedFacts ==
    ASSUME NEW flow, NEW pkt, Shaped(flow)
    PROVE  /\ Shaped(Counted(flow, pkt))
           /\ Counted(flow, pkt).last = now
           /\ Counted(flow, pkt).client = flow.client
<1>1. DOMAIN flow = FlowFields
    BY DEF Shaped
<1>2. DOMAIN Counted(flow, pkt) = FlowFields
    BY <1>1 DEF Counted
<1>3. Counted(flow, pkt).last = now
    BY <1>1 DEF Counted, FlowFields
<1>4. Counted(flow, pkt).client = flow.client
    BY <1>1 DEF Counted, FlowFields
<1>5. Shaped(Counted(flow, pkt))
    BY <1>2 DEF Shaped, Counted
<1> QED BY <1>3, <1>4, <1>5

\* Making room for a key leaves a part of the table, small enough for it.
LEMMA SurvivorFacts ==
    ASSUME NEW keys, NEW key, NEW kept \in Survivors(keys, key),
           IsFiniteSet(keys), Cardinality(keys) <= MaxFlows
    PROVE  /\ kept \subseteq keys
           /\ IsFiniteSet(kept \union {key})
           /\ Cardinality(kept \union {key}) <= MaxFlows
<1>1. MaxFlows \in Nat /\ Cardinality(keys) \in Nat
    BY FlowAssumption, FS_CardinalityType
<1>2. CASE Cardinality(keys) >= MaxFlows /\ key \notin keys
    <2>1. PICK old \in OldestOf(keys) : kept = keys \ old
        BY <1>2 DEF Survivors
    <2>2. old \subseteq keys /\ Cardinality(old) = DropCount(Cardinality(keys))
        BY DEF OldestOf
    <2>3. DropCount(Cardinality(keys)) \in Int /\ DropCount(Cardinality(keys)) >= 1
        BY <1>1 DEF DropCount
    <2>4. IsFiniteSet(kept) /\ Cardinality(kept) = Cardinality(keys) - Cardinality(old)
        <3>1. keys \intersect old = old
            BY <2>2
        <3> QED BY <2>1, <3>1, FS_Difference
    <2>5. /\ IsFiniteSet(kept \union {key})
          /\ Cardinality(kept \union {key}) <= Cardinality(kept) + 1
        <3>1. IsFiniteSet(kept) /\ Cardinality(kept) \in Nat
            BY <2>4, FS_CardinalityType
        <3>2. /\ IsFiniteSet(kept \union {key})
              /\ Cardinality(kept \union {key})
                   = IF key \in kept THEN Cardinality(kept) ELSE Cardinality(kept) + 1
            BY <3>1, FS_AddElement
        <3> QED BY <3>1, <3>2
    <2>6. Cardinality(kept \union {key}) \in Nat /\ Cardinality(kept) \in Nat
        BY <2>4, <2>5, FS_CardinalityType
    <2> QED BY <1>1, <2>1, <2>2, <2>3, <2>4, <2>5, <2>6
<1>3. CASE ~(Cardinality(keys) >= MaxFlows /\ key \notin keys)
    <2>1. kept = keys
        BY <1>3 DEF Survivors
    <2>2. /\ IsFiniteSet(keys \union {key})
          /\ Cardinality(keys \union {key})
               = IF key \in keys THEN Cardinality(keys) ELSE Cardinality(keys) + 1
        BY FS_AddElement
    <2> QED BY <1>1, <1>3, <2>1, <2>2
<1> QED BY <1>2, <1>3

\* The table is small and its times fit the clock, until that is set back:
\* none is of the future, and none was stale when the table was last pruned.
FlowIndInv ==
    /\ now \in Nat
    /\ lastPrune \in Nat
    /\ wasSetBack \in BOOLEAN
    /\ IsFiniteSet(DOMAIN flows)
    /\ Cardinality(DOMAIN flows) <= MaxFlows
    /\ \A k \in DOMAIN flows : Shaped(flows[k]) /\ flows[k].last \in Nat
    /\ ~wasSetBack =>
         /\ lastPrune <= now
         /\ \A k \in DOMAIN flows :
              flows[k].last <= now /\ flows[k].last >= lastPrune - IdleTimeout

\* What recording a packet does to the table.
LEMMA RecordFacts ==
    ASSUME FlowIndInv, NEW pkt, RecordPacket(pkt), Tracked(pkt)
    PROVE  \E kept \in Survivors(AfterPrune, FlowKey(pkt)) :
             /\ kept \subseteq AfterPrune
             /\ AfterPrune \subseteq DOMAIN flows
             /\ IsFiniteSet(AfterPrune)
             /\ DOMAIN flows' = kept \union {FlowKey(pkt)}
             /\ IsFiniteSet(DOMAIN flows') /\ Cardinality(DOMAIN flows') <= MaxFlows
             /\ \A k \in kept \ {FlowKey(pkt)} : flows'[k] = flows[k]
             /\ Shaped(flows'[FlowKey(pkt)])
             /\ flows'[FlowKey(pkt)].last = now
             /\ lastPrune' = IF PruneDue THEN now ELSE lastPrune
             /\ now' = now /\ wasSetBack' = wasSetBack
<1> DEFINE key == FlowKey(pkt)
           fresh(kept) == IF key \in kept THEN flows[key] ELSE NewFlow(pkt)
<1>1. PICK kept \in Survivors(AfterPrune, key) :
        /\ flows' = [k \in kept \union {key} |->
                        IF k # key THEN flows[k] ELSE Counted(fresh(kept), pkt)]
        /\ lastPrune' = IF PruneDue THEN now ELSE lastPrune
        /\ now' = now /\ wasSetBack' = wasSetBack
    BY DEF RecordPacket
<1>2. AfterPrune \subseteq DOMAIN flows
    BY DEF AfterPrune
<1>3. IsFiniteSet(AfterPrune) /\ Cardinality(AfterPrune) <= MaxFlows
    <2>1. IsFiniteSet(AfterPrune) /\ Cardinality(AfterPrune) <= Cardinality(DOMAIN flows)
        BY <1>2, FS_Subset DEF FlowIndInv
    <2>2. Cardinality(AfterPrune) \in Nat /\ Cardinality(DOMAIN flows) \in Nat
        BY <2>1, FS_CardinalityType DEF FlowIndInv
    <2> QED BY <2>1, <2>2, FlowAssumption DEF FlowIndInv
<1>4. /\ kept \subseteq AfterPrune
      /\ IsFiniteSet(kept \union {key}) /\ Cardinality(kept \union {key}) <= MaxFlows
    BY <1>3, SurvivorFacts
<1>5. Shaped(fresh(kept))
    BY <1>2, <1>4, NewFlowShaped DEF FlowIndInv
<1>6. Shaped(Counted(fresh(kept), pkt)) /\ Counted(fresh(kept), pkt).last = now
    BY <1>5, CountedFacts
<1>7. flows'[key] = Counted(fresh(kept), pkt)
    BY <1>1
<1>8. DOMAIN flows' = kept \union {key}
    BY <1>1
<1>9. \A k \in kept \ {key} : flows'[k] = flows[k]
    BY <1>1
<1> QED BY <1>1, <1>2, <1>3, <1>4, <1>6, <1>7, <1>8, <1>9

LEMMA FlowInvInit == FlowInit => FlowIndInv
<1> SUFFICES ASSUME FlowInit PROVE FlowIndInv
    OBVIOUS
<1>1. DOMAIN flows = {}
    BY DEF FlowInit
<1>2. IsFiniteSet(DOMAIN flows) /\ Cardinality(DOMAIN flows) = 0
    BY <1>1, FS_EmptySet
<1>3. now = 0 /\ lastPrune = 0 /\ wasSetBack = FALSE
    BY DEF FlowInit
<1>4. 0 <= MaxFlows
    BY FlowAssumption
<1>5. wasSetBack \in BOOLEAN
    BY <1>3, Zenon
<1> QED BY <1>1, <1>2, <1>3, <1>4, <1>5 DEF FlowIndInv

\* A recorded packet keeps the invariant.
LEMMA ObserveKeepsInv ==
    ASSUME FlowIndInv, NEW pkt, RecordPacket(pkt)
    PROVE  FlowIndInv'
<1>1. CASE ~Tracked(pkt)
    BY <1>1 DEF RecordPacket, FlowIndInv, flowVars
<1>2. CASE Tracked(pkt)
    <2> DEFINE key == FlowKey(pkt)
    <2>1. PICK kept \in Survivors(AfterPrune, key) :
             /\ kept \subseteq AfterPrune
             /\ AfterPrune \subseteq DOMAIN flows
             /\ DOMAIN flows' = kept \union {key}
             /\ IsFiniteSet(DOMAIN flows') /\ Cardinality(DOMAIN flows') <= MaxFlows
             /\ \A k \in kept \ {key} : flows'[k] = flows[k]
             /\ Shaped(flows'[key])
             /\ flows'[key].last = now
             /\ lastPrune' = IF PruneDue THEN now ELSE lastPrune
             /\ now' = now /\ wasSetBack' = wasSetBack
        BY <1>2, RecordFacts
    <2>2. now' \in Nat /\ lastPrune' \in Nat /\ wasSetBack' \in BOOLEAN
        BY <2>1 DEF FlowIndInv
    <2>3. \A k \in DOMAIN flows' : Shaped(flows'[k]) /\ flows'[k].last \in Nat
        BY <2>1 DEF FlowIndInv
    <2>4. ASSUME ~wasSetBack' PROVE lastPrune' <= now'
        BY <2>1, <2>4 DEF FlowIndInv
    <2>5. ASSUME ~wasSetBack', NEW k \in DOMAIN flows'
          PROVE  flows'[k].last <= now' /\ flows'[k].last >= lastPrune' - IdleTimeout
        <3>1. IdleTimeout \in Nat /\ now \in Nat /\ lastPrune \in Nat
            BY FlowAssumption DEF FlowIndInv
        <3>2. CASE k = key
            BY <2>1, <2>4, <2>5, <3>1, <3>2 DEF FlowIndInv
        <3>3. CASE k # key
            <4>1. /\ flows'[k].last = flows[k].last /\ flows[k].last \in Nat
                  /\ k \in AfterPrune /\ k \in DOMAIN flows
                BY <2>1, <2>5, <3>3 DEF FlowIndInv
            <4>2. flows[k].last <= now /\ flows[k].last >= lastPrune - IdleTimeout
                BY <2>1, <2>5, <4>1 DEF FlowIndInv
            <4>3. PruneDue => now - flows[k].last <= IdleTimeout
                BY <3>1, <4>1 DEF AfterPrune, Stale
            <4> QED BY <2>1, <3>1, <4>1, <4>2, <4>3
        <3> QED BY <3>2, <3>3
    <2> QED BY <2>1, <2>2, <2>3, <2>4, <2>5 DEF FlowIndInv
<1> QED BY <1>1, <1>2

LEMMA FlowInvNext == FlowIndInv /\ [CaptureNext]_captureVars => FlowIndInv'
<1> SUFFICES ASSUME FlowIndInv, [CaptureNext]_captureVars PROVE FlowIndInv'
    OBVIOUS
<1>1. CASE UNCHANGED flowVars
    BY <1>1 DEF FlowIndInv, flowVars
<1>2. ASSUME Observe(Parse(frame)) PROVE FlowIndInv'
    BY <1>2, ObserveKeepsInv DEF Observe
<1>3. CASE Elapse
    BY <1>3 DEF Elapse, FlowIndInv
<1>4. CASE SetBack
    BY <1>4 DEF SetBack, FlowIndInv
<1> QED BY <1>1, <1>2, <1>3, <1>4 DEF CaptureNext, ReadFrame, captureVars

\* Only a recorded packet changes the table.
LEMMA OnlyRecording ==
    ASSUME [CaptureNext]_captureVars, flows' # flows
    PROVE  RecordPacket(Parse(frame)) /\ Tracked(Parse(frame))
<1>1. ReadFrame
    BY DEF CaptureNext, captureVars, flowVars, Elapse, SetBack
<1>2. Observe(Parse(frame))
    BY <1>1 DEF ReadFrame, flowVars
<1> QED BY <1>2 DEF Observe, RecordPacket, flowVars

THEOREM FlowInvariance == CaptureSpec => []FlowIndInv
BY FlowInvInit, FlowInvNext, PTL DEF CaptureSpec, CaptureInit

\* The table stays within max_flows.
THEOREM FlowsStayBounded == CaptureSpec => []FlowsBounded
<1>1. FlowIndInv => FlowsBounded
    BY DEF FlowIndInv, FlowsBounded
<1> QED BY <1>1, FlowInvariance, PTL
\* What a recorded packet leaves beside its own flow is not long idle.
LEMMA RecordedIsFresh ==
    ASSUME FlowIndInv, NEW pkt, RecordPacket(pkt), Tracked(pkt), ~wasSetBack
    PROVE  \A k \in DOMAIN flows' : now - flows'[k].last <= IdleTimeout + PruneEvery
<1> DEFINE key == FlowKey(pkt)
<1>1. PICK kept \in Survivors(AfterPrune, key) :
         /\ kept \subseteq AfterPrune
         /\ AfterPrune \subseteq DOMAIN flows
         /\ DOMAIN flows' = kept \union {key}
         /\ \A k \in kept \ {key} : flows'[k] = flows[k]
         /\ flows'[key].last = now
    BY RecordFacts
<1>2. SUFFICES ASSUME NEW k \in DOMAIN flows'
               PROVE  now - flows'[k].last <= IdleTimeout + PruneEvery
    OBVIOUS
<1>3. IdleTimeout \in Nat /\ PruneEvery \in Nat /\ now \in Nat /\ lastPrune \in Nat
    BY FlowAssumption DEF FlowIndInv
<1>4. CASE k = key
    BY <1>1, <1>3, <1>4
<1>5. CASE k # key
    <2>1. /\ flows'[k].last = flows[k].last /\ flows[k].last \in Nat
          /\ k \in AfterPrune /\ k \in DOMAIN flows
        BY <1>1, <1>2, <1>5 DEF FlowIndInv
    <2>2. flows[k].last >= lastPrune - IdleTimeout
        BY <2>1 DEF FlowIndInv
    <2>3. CASE PruneDue
        <3>1. now - flows[k].last <= IdleTimeout
            BY <1>3, <2>1, <2>3 DEF AfterPrune, Stale
        <3> QED BY <1>3, <2>1, <3>1
    <2>4. CASE ~PruneDue
        <3>1. now - lastPrune <= PruneEvery
            BY <1>3, <2>4 DEF PruneDue
        <3> QED BY <1>3, <2>1, <2>2, <3>1
    <2> QED BY <2>3, <2>4
<1> QED BY <1>4, <1>5

\* While the clock runs forward no packet is recorded beside an idle flow.
THEOREM IdleFlowsGo == CaptureSpec => IdleFlowsLeave
<1>1. FlowIndInv /\ [CaptureNext]_captureVars
        => [flows' # flows /\ ~wasSetBack' =>
              \A k \in DOMAIN flows' :
                  now - flows'[k].last <= IdleTimeout + PruneEvery]_flowVars
    <2> SUFFICES ASSUME FlowIndInv, [CaptureNext]_captureVars, flows' # flows, ~wasSetBack'
                 PROVE  \A k \in DOMAIN flows' :
                            now - flows'[k].last <= IdleTimeout + PruneEvery
        OBVIOUS
    <2>2. RecordPacket(Parse(frame)) /\ Tracked(Parse(frame))
        BY OnlyRecording
    <2>4. ~wasSetBack
        BY <2>2, RecordFacts
    <2> QED BY <2>2, <2>4, RecordedIsFresh
<1> QED BY <1>1, FlowInvariance, PTL DEF CaptureSpec, IdleFlowsLeave

\* Which flows a recorded packet may remove.
LEMMA DroppedAreOld ==
    ASSUME FlowIndInv, NEW pkt, RecordPacket(pkt), Tracked(pkt), ~wasSetBack,
           NEW k \in DOMAIN flows \ DOMAIN flows', ~Stale(k)
    PROVE  /\ Cardinality(DOMAIN flows) >= MaxFlows
           /\ \A j \in DOMAIN flows' : flows'[j].last >= flows[k].last
<1> DEFINE key == FlowKey(pkt)
<1>1. PICK kept \in Survivors(AfterPrune, key) :
         /\ kept \subseteq AfterPrune
         /\ AfterPrune \subseteq DOMAIN flows
         /\ IsFiniteSet(AfterPrune)
         /\ DOMAIN flows' = kept \union {key}
         /\ \A j \in kept \ {key} : flows'[j] = flows[j]
         /\ flows'[key].last = now
    BY RecordFacts
<1>2. k \in AfterPrune
    BY DEF AfterPrune
<1>3. kept # AfterPrune
    BY <1>1, <1>2
<1>4. Cardinality(AfterPrune) >= MaxFlows
    BY <1>3 DEF Survivors
<1>5. PICK old \in OldestOf(AfterPrune) : kept = AfterPrune \ old
    BY <1>1, <1>3 DEF Survivors
<1>6. k \in old
    BY <1>1, <1>2, <1>5
<1>7. Cardinality(DOMAIN flows) >= MaxFlows
    <2>1. /\ IsFiniteSet(DOMAIN flows)
          /\ Cardinality(AfterPrune) <= Cardinality(DOMAIN flows)
        BY <1>1, FS_Subset DEF FlowIndInv
    <2>2. Cardinality(AfterPrune) \in Nat /\ Cardinality(DOMAIN flows) \in Nat
        BY <1>1, <2>1, FS_CardinalityType
    <2> QED BY <1>4, <2>1, <2>2, FlowAssumption
<1>8. ASSUME NEW j \in DOMAIN flows'
      PROVE  flows'[j].last >= flows[k].last
    <2>1. flows[k].last \in Nat /\ flows[k].last <= now /\ now \in Nat
        BY DEF FlowIndInv
    <2>2. CASE j = key
        BY <1>1, <2>1, <2>2
    <2>3. CASE j # key
        <3>1. j \in AfterPrune \ old /\ flows'[j].last = flows[j].last
            BY <1>1, <1>5, <1>8, <2>3
        <3>2. flows[k].last <= flows[j].last /\ flows[j].last \in Nat
            BY <1>1, <1>6, <3>1 DEF OldestOf, FlowIndInv
        <3> QED BY <2>1, <3>1, <3>2
    <2> QED BY <2>2, <2>3
<1> QED BY <1>7, <1>8

\* A flow goes because it is idle or because all that stay are newer.
THEOREM RecentFlowsStay == CaptureSpec => RecentFlowsKept
<1> DEFINE Kept == ~wasSetBack =>
                \A k \in DOMAIN flows \ DOMAIN flows' :
                    \/ Stale(k)
                    \/ /\ Cardinality(DOMAIN flows) >= MaxFlows
                       /\ \A j \in DOMAIN flows' : flows'[j].last >= flows[k].last
<1>1. FlowIndInv /\ [CaptureNext]_captureVars => [Kept]_flowVars
    <2> SUFFICES ASSUME FlowIndInv, [CaptureNext]_captureVars, ~wasSetBack,
                        NEW k \in DOMAIN flows \ DOMAIN flows', ~Stale(k)
                 PROVE  /\ Cardinality(DOMAIN flows) >= MaxFlows
                        /\ \A j \in DOMAIN flows' : flows'[j].last >= flows[k].last
        OBVIOUS
    <2>2. RecordPacket(Parse(frame)) /\ Tracked(Parse(frame))
        BY OnlyRecording
    <2> QED BY <2>2, DroppedAreOld
<1> QED BY <1>1, FlowInvariance, PTL DEF CaptureSpec, RecentFlowsKept

(***************************************************************************)
(* The two sides of a flow.                                                *)
(***************************************************************************)

PrivateClient(key, client) ==
    \A e, g \in key[2] :
        /\ e # g
        /\ IsPrivate(e[1]) /\ ~IsPrivate(g[1])
        /\ e[2] \notin ServerPorts
        => client = e[1]

\* Whichever way the first packet goes, the private side is made the client.
LEMMA FirstPacketDecides ==
    ASSUME NEW pkt
    PROVE  PrivateClient(FlowKey(pkt), NewFlow(pkt).client)
<1> DEFINE s == <<pkt.src, Port(pkt.sport)>>
           d == <<pkt.dst, Port(pkt.dport)>>
<1>1. FlowKey(pkt)[2] = {s, d}
    BY DEF FlowKey
<1>2. NewFlow(pkt).client = IF SourceIsClient(pkt) THEN pkt.src ELSE pkt.dst
    BY DEF NewFlow
<1>3. s[1] = pkt.src /\ d[1] = pkt.dst /\ d[2] = Port(pkt.dport)
    OBVIOUS
<1>4. IsPrivate(pkt.src) => SourceIsClient(pkt)
    BY DEF SourceIsClient
<1>5. SourceIsClient(pkt) => IsPrivate(pkt.src) \/ Port(pkt.dport) \in ServerPorts
    BY DEF SourceIsClient
<1> HIDE DEF s, d
<1> QED BY <1>1, <1>2, <1>3, <1>4, <1>5 DEF PrivateClient

LanInv == FlowIndInv /\ \A k \in DOMAIN flows : PrivateClient(k, flows[k].client)

\* A flow keeps its client; a new one has the right one.
LEMMA LanInvObserve ==
    ASSUME LanInv, NEW pkt, RecordPacket(pkt), Tracked(pkt)
    PROVE  \A k \in DOMAIN flows' : PrivateClient(k, flows'[k].client)
<1> DEFINE key == FlowKey(pkt)
           fresh(kept) == IF key \in kept THEN flows[key] ELSE NewFlow(pkt)
<1>1. PICK kept \in Survivors(AfterPrune, key) :
        flows' = [k \in kept \union {key} |->
                    IF k # key THEN flows[k] ELSE Counted(fresh(kept), pkt)]
    BY DEF RecordPacket
<1>2. AfterPrune \subseteq DOMAIN flows
    BY DEF AfterPrune
<1>3. kept \subseteq AfterPrune
    BY DEF Survivors
<1>4. Shaped(fresh(kept)) /\ PrivateClient(key, fresh(kept).client)
    BY <1>2, <1>3, NewFlowShaped, FirstPacketDecides DEF LanInv, FlowIndInv
<1>5. Counted(fresh(kept), pkt).client = fresh(kept).client
    BY <1>4, CountedFacts
<1>6. flows'[key].client = fresh(kept).client
    BY <1>1, <1>5
<1>7. \A k \in kept \ {key} : flows'[k] = flows[k] /\ k \in DOMAIN flows
    BY <1>1, <1>2, <1>3
<1>8. DOMAIN flows' = kept \union {key}
    BY <1>1
<1> HIDE DEF key, fresh
<1> QED BY <1>4, <1>6, <1>7, <1>8 DEF LanInv

\* Between a private and a public address the private side is the client.
THEOREM LanSideStaysClient == CaptureSpec => []LanSideIsClient
<1>1. FlowInit => LanInv
    <2>1. FlowInit => DOMAIN flows = {}
        BY DEF FlowInit
    <2> QED BY <2>1, FlowInvInit DEF LanInv
<1>2. LanInv /\ [CaptureNext]_captureVars => LanInv'
    <2> SUFFICES ASSUME LanInv, [CaptureNext]_captureVars
                 PROVE  LanInv'
        OBVIOUS
    <2>1. FlowIndInv'
        BY FlowInvNext DEF LanInv
    <2>2. CASE UNCHANGED flows
        BY <2>1, <2>2 DEF LanInv
    <2>3. ASSUME flows' # flows
          PROVE  \A k \in DOMAIN flows' : PrivateClient(k, flows'[k].client)
        <3>1. RecordPacket(Parse(frame)) /\ Tracked(Parse(frame))
            BY <2>3, OnlyRecording
        <3> QED BY <3>1, LanInvObserve
    <2> QED BY <2>1, <2>2, <2>3 DEF LanInv
<1>3. LanInv => LanSideIsClient
    BY DEF LanInv, LanSideIsClient, PrivateClient
<1> QED BY <1>1, <1>2, <1>3, PTL DEF CaptureSpec, CaptureInit
=============================================================================
