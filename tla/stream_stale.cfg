SPECIFICATION FairSpec
CONSTANTS
    Streams <- MCStreams
    Passes <- MCPasses
    Picky <- MCPicky
    Capacity = 2
    MaxEvents = 5
PROPERTIES NeverStale
CHECK_DEADLOCK FALSE
