SPECIFICATION Spec
CONSTANTS
    s1 = s1
    s2 = s2
    Slots <- MCSlots
    Names <- ClipOnly
    Types = {"A"}
    Unwritable = {}
    Essential <- MCEssential
    Bootstrap <- MCBootstrap
    NormalNames <- MCNormalNames
    Upstreams = 2
    Ttls = {0, 2, 4}
    MinTtl = 1
    MaxTtl = 3
    Allowlist = FALSE
    Allowed = {}
    RuleSets <- MCRuleSets
    MaxClock = 3
INVARIANTS RequestsAreShared
