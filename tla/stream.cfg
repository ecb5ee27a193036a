SPECIFICATION FairSpec
CONSTANTS
    Streams <- MCStreams
    Passes <- MCPasses
    Picky <- MCPicky
    Capacity = 2
    MaxEvents = 5
INVARIANTS NewestKept DeliveredInOrder LostOnlyWhenBehind
PROPERTIES GoneAreReleased
CHECK_DEADLOCK FALSE
