---------------------------- MODULE MCFlowTracker ----------------------------
(***************************************************************************)
(* An instance of FrameCapture: two LAN hosts and a server on the Internet *)
(* and, as the first frame, one of any size at which a branch of the       *)
(* parser decides, or one byte below that limit.                           *)
(***************************************************************************)
EXTENDS FrameCapture

MCPrivate == {"lan1", "lan2"}
MCLocal == {"lan2"}

Frame(n, type, protocol, src, sport, dst, dport) ==
    [size |-> n, type |-> type, version |-> 4, ihl |-> 5, laterFragment |-> FALSE,
     protocol |-> protocol, src |-> src, sport |-> sport, dst |-> dst, dport |-> dport,
     flags |-> {}, message |-> "Echo"]

\* A conversation of lan1 with a server, in both directions; a client on the
\* Internet asking lan2's DNS server, and lan2 serving the web; an address
\* resolution.
Conversations == {
    [Frame(54, "ip4", "tcp", "lan1", 50000, "wan", 8443) EXCEPT !.flags = {"SYN"}],
    [Frame(54, "ip4", "tcp", "wan", 8443, "lan1", 50000) EXCEPT !.flags = {"FIN", "ACK"}],
    Frame(62, "ip6", "udp", "wan", 50001, "lan2", 53),
    Frame(54, "ip4", "tcp", "lan2", 443, "wan", 50001),
    Frame(42, "arp", "none", "lan1", 0, "lan2", 0)}

\* The sizes around each limit, for IPv4 header lengths of 4, 5 and 6 words.
Sizes == {0, 13, 14, 33, 34, 35, 36, 37, 38, 41, 42, 45, 46, 49, 50, 53, 54, 55, 56, 57,
          58, 61, 62, 73, 74}
Edges ==
    {[Frame(n, type, protocol, "lan1", 50000, "lan1", 1) EXCEPT
        !.ihl = i, !.laterFragment = late, !.version = v] :
        n \in Sizes, type \in {"ip4", "ip6", "arp", "other"},
        protocol \in {"tcp", "udp", "icmp", "icmp6", "igmp"},
        i \in {4, 5, 6}, late \in BOOLEAN, v \in {4, 6}}

MCFrames == Conversations
MCWire == Conversations \union Edges
=============================================================================
