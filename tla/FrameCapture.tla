----------------------------- MODULE FrameCapture -----------------------------
(***************************************************************************)
(* network/monitor.py, _capture_loop and process_raw_frame, as far as they *)
(* take one frame after another from the socket, parse it and enter it in  *)
(* the flow table.  PacketMonitor models the rest: numbers, buffer, stream *)
(* and the second thread.                                                  *)
(***************************************************************************)
EXTENDS FlowTracker

CONSTANT Frames         \* bound: the frames that follow the first one

ASSUME FramesAssumption == Frames \subseteq Wire

VARIABLE frame          \* what recv returns next

captureVars == <<flowVars, frame>>

\* A frame that does not parse leaves no trace in the table.
ReadFrame ==
    /\ IF Parse(frame) = Malformed THEN UNCHANGED flowVars ELSE Observe(Parse(frame))
    /\ frame' \in Frames

CaptureInit == FlowInit /\ frame \in Wire

CaptureNext ==
    \/ ReadFrame
    \/ Elapse /\ UNCHANGED frame
    \/ SetBack /\ UNCHANGED frame

CaptureSpec == CaptureInit /\ [][CaptureNext]_captureVars

\* The parser looks at no byte beyond the end of the frame, whatever its size,
\* header length field and protocol: no frame makes it raise, which would
\* lose the frame after its number is taken.
ParserStaysInFrame == \A n \in BytesRead(frame) : n <= frame.size

\* Of a packet that is no later fragment and has a legal header length, ports
\* are reported exactly when its TCP or UDP header is whole, and they are the
\* ones the sender wrote.
PortsAsSent ==
    LET p == Parse(frame)
        whole == /\ frame.protocol \in {"tcp", "udp"}
                 /\ frame.size - 14 - SenderHeader(frame)
                      >= (IF frame.protocol = "tcp" THEN 20 ELSE 8)
    IN p # Malformed /\ frame.type \in {"ip4", "ip6"} /\ frame.ihl >= 5 /\ ~frame.laterFragment =>
         IF whole THEN p.sport = frame.sport /\ p.dport = frame.dport
                  ELSE p.sport = NoPort /\ p.dport = NoPort
=============================================================================
