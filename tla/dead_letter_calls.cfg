SPECIFICATION Spec
CONSTANTS
    c1 = c1
    Cases <- OneCase
    Planned <- LinksOnly
    MaxRetryAttempts = 1
    MaxDelay = 1
    MaxLead = 1
    MaxTime = 2
    MaxRequests = 3
    MaxFailures = 3
    MaxFaults = 0
PROPERTIES
    DeadStaysDead
