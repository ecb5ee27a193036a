SPECIFICATION FairSpec
CONSTANTS
    Domains <- MCDomains
    Services <- MCServices
    Inputs <- MCInputs
    Normalized <- MCNormalized
    CompanionsOf <- MCCompanionsOf
    ServiceInputs <- MCServiceInputs
    ServiceNamed <- MCServiceNamed
    DomainsOf <- MCDomainsOf
    BypassDomains <- MCBypassDomains
    Durations = {1, 2}
    Horizon = 3
    MaxFaults = 2
INVARIANTS
    SinkholeMatchesPolicy
    GrantedLockHolds
    ConfirmedDomainsStored
PROPERTIES
    RulesFrozenWhileGranted
    PromiseKept
    LockLapses
