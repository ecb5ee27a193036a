SPECIFICATION FairSpec
CONSTANTS
    PrivateIps <- MCPrivate
    LocalIps = {}
    JunkPort = 7
    Malformed = Malformed
    Wire <- MCFrames
    Frames <- MCFrames
    MaxFlows = 2
    IdleTimeout = 2
    PruneEvery = 1
    MaxTime = 0
    MaxCount = 5
    Clients = {"lan1"}
    Queries <- MCQueries
    Simulated <- MCSimulated
    BufferSize = 2
    QueueSize = 1
    ReplaySize = 1
    PassedProtocols = {"TCP"}
    MaxPackets = 3
INVARIANTS
    FlowsMatchPackets
    ThreadOrderKept
    NoGap
    QueueNearlyBounded
    QuietAfterStop
PROPERTIES
    StreamDelivers
CHECK_DEADLOCK FALSE
