---------------------------- MODULE PacketParser ----------------------------
(***************************************************************************)
(* network/packets.py: what the monitor reads out of a captured frame.     *)
(*                                                                         *)
(* A frame is given by its size in bytes and the header fields the parser  *)
(* looks at.  Every branch first compares the bytes it has with the bytes  *)
(* it needs; BytesRead says how far it then indexes.  Bytes read as a port *)
(* that are not one (a later fragment, a wrong offset) show JunkPort.  A   *)
(* protocol label is a sequence of words, of which the first one keys the  *)
(* flows.  The preview, time stamp, interface, TTL, length and IP version  *)
(* are left out.                                                           *)
(***************************************************************************)
EXTENDS Integers, FiniteSets

CONSTANTS
    PrivateIps,     \* the addresses is_private_ip accepts
    LocalIps,       \* the appliance's own addresses (refresh_local_ips)
    JunkPort,       \* the number that other bytes show when read as a port
    Malformed,      \* parse returned None
    Wire            \* the frames that may arrive

PortNumbers == 0..65535

\* A port that was not read: None.
NoPort == -1

ASSUME FrameAssumption ==
    /\ JunkPort \in PortNumbers
    /\ \A f \in Wire : f.size \in Nat /\ f.ihl \in 0..15

EthernetBytes == 14
Ip4Bytes == 20
Ip6Bytes == 40
ArpBytes == 28

\* Mutant: TCP is taken to need no more than its ports and sequence number.
TransportNeeds_Short(protocol) ==
    CASE protocol = "tcp" -> 8
      [] protocol = "udp" -> 8
      [] protocol \in {"icmp", "icmp6"} -> 2
      [] OTHER -> 0

\* The bytes _parse_transport asks for.
TransportNeeds(protocol) ==
    CASE protocol = "tcp" -> 20
      [] protocol = "udp" -> 8
      [] protocol \in {"icmp", "icmp6"} -> 2
      [] OTHER -> 0

\* What the Ethernet header leaves, and what the IP header then leaves.
Payload(f) == f.size - EthernetBytes

\* Mutant: IP options are overlooked.
HeaderBytes_NoOptions(f) == IF f.type = "ip4" THEN Ip4Bytes ELSE Ip6Bytes

HeaderBytes(f) == IF f.type = "ip4" THEN 4 * f.ihl ELSE Ip6Bytes
TransportBytes(f) == Payload(f) - HeaderBytes(f)
HasTransport(f) == TransportBytes(f) >= TransportNeeds(f.protocol)

IsPrivate(ip) == ip \in PrivateIps

Direction(src, dst) ==
    CASE src \in LocalIps -> "OUTBOUND (LOCAL)"
      [] src \notin LocalIps /\ dst \in LocalIps -> "INBOUND (LOCAL)"
      [] OTHER -> IF IsPrivate(src)
                  THEN IF IsPrivate(dst) THEN "LAN (LOCAL)" ELSE "LAN -> WAN"
                  ELSE IF IsPrivate(dst) THEN "WAN -> LAN" ELSE "FORWARDED"

(***************************************************************************)
(* The sender's side: where the transport header really begins.            *)
(***************************************************************************)
SenderHeader(f) ==
    IF f.type = "ip4" THEN (IF f.ihl < 5 THEN Ip4Bytes ELSE 4 * f.ihl) ELSE Ip6Bytes
PortAt(f, port) ==
    IF ~f.laterFragment /\ HeaderBytes(f) = SenderHeader(f) THEN port ELSE JunkPort

\* _parse_transport
Label(f) ==
    CASE f.protocol = "tcp" -> <<"TCP">>
      [] f.protocol = "udp" -> <<"UDP">>
      [] f.protocol = "icmp" -> IF HasTransport(f) THEN <<"ICMP", f.message>> ELSE <<"ICMP">>
      [] f.protocol = "icmp6" -> IF HasTransport(f) THEN <<"ICMPv6", f.message>> ELSE <<"ICMPv6">>
      [] OTHER -> <<"Proto">>

Transport(f) ==
    LET ported == f.protocol \in {"tcp", "udp"} /\ HasTransport(f)
    IN [proto |-> Label(f),
        sport |-> IF ported THEN PortAt(f, f.sport) ELSE NoPort,
        dport |-> IF ported THEN PortAt(f, f.dport) ELSE NoPort,
        flags |-> IF ported /\ f.protocol = "tcp" THEN f.flags ELSE {}]

NoTransport(label) == [proto |-> label, sport |-> NoPort, dport |-> NoPort, flags |-> {}]

\* PacketMetadata: no policy has matched yet.
Metadata(src, dst, dir, t) ==
    [src |-> src, dst |-> dst, dir |-> dir, proto |-> t.proto,
     sport |-> t.sport, dport |-> t.dport, flags |-> t.flags, tag |-> ""]

ParseIp(f) == Metadata(f.src, f.dst, Direction(f.src, f.dst), Transport(f))

ParseIp4(f) ==
    IF Payload(f) >= Ip4Bytes /\ f.version = 4 /\ Payload(f) >= HeaderBytes(f)
    THEN ParseIp(f) ELSE Malformed

ParseIp6(f) == IF Payload(f) >= Ip6Bytes THEN ParseIp(f) ELSE Malformed

ParseArp(f) ==
    IF Payload(f) >= ArpBytes
    THEN Metadata(f.src, f.dst, "LOCAL", NoTransport(<<"ARP", f.message>>))
    ELSE Malformed

\* parse, as the capture loop calls it: with an Ethernet header.
Parse(f) ==
    IF Payload(f) < 0 THEN Malformed
    ELSE CASE f.type = "arp" -> ParseArp(f)
           [] f.type = "ip4" -> ParseIp4(f)
           [] f.type = "ip6" -> ParseIp6(f)
           [] OTHER -> Metadata("unknown", "unknown", "LOCAL", NoTransport(<<"EtherType">>))

(***************************************************************************)
(* How many bytes each branch looks at, from the start of its header: the  *)
(* ports and the flags of TCP, the ports of UDP, the type of ICMP.         *)
(***************************************************************************)
TransportReads(f) ==
    CASE f.protocol = "tcp" /\ HasTransport(f) -> 14
      [] f.protocol = "udp" /\ HasTransport(f) -> 4
      [] f.protocol \in {"icmp", "icmp6"} /\ HasTransport(f) -> 1
      [] OTHER -> 0

IpReads(f) ==
    IF f.type = "ip6" THEN Ip6Bytes
    ELSE IF Payload(f) >= Ip4Bytes THEN Ip4Bytes ELSE 0

BytesRead(f) ==
    CASE Payload(f) < 0 -> {0}
      [] Payload(f) >= 0 /\ Parse(f) = Malformed ->
            {EthernetBytes + (IF f.type = "ip4" THEN IpReads(f) ELSE 0)}
      [] Payload(f) >= 0 /\ Parse(f) # Malformed /\ f.type = "arp" ->
            {EthernetBytes + ArpBytes}
      [] Payload(f) >= 0 /\ Parse(f) # Malformed /\ f.type \in {"ip4", "ip6"} ->
            {EthernetBytes + IpReads(f),
             EthernetBytes + HeaderBytes(f) + TransportReads(f)}
      [] OTHER -> {EthernetBytes}
=============================================================================
