SPECIFICATION SystemSpec
CONSTANTS
    Domains <- MCDomains
    Services <- MCServices
    Inputs <- MCInputs
    Normalized <- MCNormalized
    CompanionsOf <- MCCompanionsOf
    ServiceInputs <- MCServices
    ServiceNamed <- MCServiceNamed
    DomainsOf <- MCDomainsOf
    BypassDomains = {}
    Durations = {1}
    Horizon = 1
    MaxFaults = 2
    Slots = {"s1"}
    Names <- MCNames
    Types = {"A"}
    Unwritable = {}
    Essential <- MCEssential
    Bootstrap <- MCBootstrap
    NormalNames <- MCNormalNames
    Upstreams = 1
    Ttls = {1}
    MinTtl = 1
    MaxTtl = 1
    MaxTicks = 1
PROPERTIES
    PromisedNamesRefused
    OtherNamesResolved
