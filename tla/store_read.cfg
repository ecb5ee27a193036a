SPECIFICATION Spec
CONSTANTS
    Contents = {default, locked}
    DefaultContent = default
    MaxSecrets = 2
    MaxFaults = 1
INVARIANTS
    SoundDocumentKept
