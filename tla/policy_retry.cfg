SPECIFICATION Spec
CONSTANTS
    Domains <- MCDomains
    Services <- MCServices
    Inputs <- MCInputs
    Normalized <- MCNormalized
    CompanionsOf <- MCCompanionsOf
    ServiceInputs <- MCServiceInputs
    ServiceNamed <- MCServiceNamed
    DomainsOf <- MCDomainsOf
    BypassDomains <- MCBypassDomains
    Durations = {1}
    Horizon = 1
    MaxFaults = 1
INVARIANTS
    ConfirmedServicesStored
