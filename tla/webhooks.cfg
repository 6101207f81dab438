SPECIFICATION FairSpec
CONSTANTS
    Events = {e1, e2}
    Bodies <- MixedBodies
    FirstStatuses = {"WAITING_RETRY"}
    Servers = {s1, s2}
    MaxDeliveries = 2
    MaxActions = 1
    MaxFaults = 1
INVARIANTS
    TypeOK
    InboxTellsTruth
    DeliveriesAudited
    CaseExplained
    LedgerAgrees
PROPERTIES
    InboxOnce
    EventsLand
