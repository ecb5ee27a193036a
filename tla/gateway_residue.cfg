SPECIFICATION Spec
CONSTANTS
    Unprivileged = {}
    MaxJumps = 4
    MaxFaults = 0
INVARIANTS DisableLeavesNothing
