SPECIFICATION Spec
CONSTANTS
    Unprivileged = {"daemon"}
    MaxJumps = 4
    MaxFaults = 0
INVARIANTS DisableTruthful
