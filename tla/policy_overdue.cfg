SPECIFICATION FairSpec
CONSTANTS
    Domains <- MCDomains
    Services <- MCServices
    Inputs <- MCInputs
    Normalized <- MCNormalized
    CompanionsOf <- MCCompanionsOf
    ServiceInputs <- MCServiceInputs
    ServiceNamed <- MCServiceNamed
    DomainsOf <- MCDomainsOf
    BypassDomains <- MCBypassDomains
    Durations = {1}
    Horizon = 2
    MaxFaults = 0
PROPERTIES
    RulesLiftedAtDeadline
