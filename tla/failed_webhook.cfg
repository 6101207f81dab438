SPECIFICATION Spec
CONSTANTS
    Events = {e1}
    Bodies <- Captures
    FirstStatuses = {"WAITING_RETRY"}
    Servers = {s1}
    MaxDeliveries = 2
    MaxActions = 1
    MaxFaults = 1
PROPERTIES
    FailedIsRetried
