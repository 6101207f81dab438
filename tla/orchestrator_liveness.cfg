SPECIFICATION FairSpec
CONSTANTS
    c1 = c1
    Cases <- OneCase
    Planned <- CooldownMix
    MaxRetryAttempts = 1
    MaxDelay = 1
    MaxLead = 1
    MaxTime = 2
    MaxRequests = 2
    MaxFailures = 1
    MaxFaults = 1
INVARIANTS
    PolicyGateHolds
PROPERTIES
    WaitsEnd
