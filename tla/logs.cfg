SPECIFICATION Spec
CONSTANTS
    Domains = {"site", "news"}
    Services = {}
    Clients = {"lan1", "lan2"}
    Permanent = {"news"}
    MaxEvents = 2
    MaxFlowRows = 2
    MaxListed = 1
    Durations = {1}
    Horizon = 2
    MaxSessions = 2
    MaxQueries = 3
    MaxFaults = 2
INVARIANTS
    NewestRowsKept
    SessionQueriesCounted
    SessionRowsMatchRules
    EndToldOnce
CHECK_DEADLOCK FALSE
