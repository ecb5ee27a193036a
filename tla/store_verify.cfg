SPECIFICATION Spec
CONSTANTS
    Contents = {default, locked}
    DefaultContent = default
    MaxSecrets = 2
    MaxFaults = 0
INVARIANTS
    UntouchedStateVerifies
