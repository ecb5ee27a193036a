SPECIFICATION Spec
CONSTANTS
    Unprivileged = {}
    MaxJumps = 4
    MaxFaults = 1
INVARIANTS StatusTruthful
