SPECIFICATION Spec
CONSTANTS
    Contents = {default, locked}
    DefaultContent = default
    MaxSecrets = 4
    MaxFaults = 3
INVARIANTS
    StoredContentKept
PROPERTIES
    SavesAreAtomic
