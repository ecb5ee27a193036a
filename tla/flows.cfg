SPECIFICATION CaptureSpec
CONSTANTS
    PrivateIps <- MCPrivate
    LocalIps <- MCLocal
    JunkPort = 7
    Malformed = Malformed
    Wire <- MCWire
    Frames <- MCFrames
    MaxFlows = 2
    IdleTimeout = 2
    PruneEvery = 1
    MaxTime = 5
    MaxCount = 2
INVARIANTS
    ParserStaysInFrame
    PortsAsSent
    FlowsBounded
    LanSideIsClient
PROPERTIES
    RecentFlowsKept
    IdleFlowsLeave
CHECK_DEADLOCK FALSE
