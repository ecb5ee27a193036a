SPECIFICATION Spec
CONSTANTS
    Unprivileged = {}
    MaxJumps = 4
    MaxFaults = 2
INVARIANTS EnableRepairs EnableTruthful DisableStopsRedirection
PROPERTIES OverlappingEnablesEnforce
