--------------------------- MODULE MCPacketMonitor ---------------------------
(***************************************************************************)
(* An instance of PacketMonitor: a captured conversation and a frame that  *)
(* does not parse, or one simulated packet; a client of the DNS server.    *)
(***************************************************************************)
EXTENDS PacketMonitor

MCPrivate == {"lan1"}

Good == [size |-> 54, type |-> "ip4", version |-> 4, ihl |-> 5, laterFragment |-> FALSE,
         protocol |-> "tcp", src |-> "lan1", sport |-> 50000, dst |-> "wan", dport |-> 443,
         flags |-> {"SYN"}, message |-> ""]
MCFrames == {Good, [Good EXCEPT !.size = 33]}
MCQueries == {[client |-> "lan1", blocked |-> TRUE]}
MCSimulated == {
    [Metadata("lan1", "wan", "LAN -> WAN",
              [NoTransport(<<"TCP">>) EXCEPT !.sport = 49152, !.dport = 443,
                                             !.flags = {"ACK", "PSH"}])
        EXCEPT !.tag = "HTTPS/QUIC Web Flow"]}
=============================================================================
