SPECIFICATION FairSpec
CONSTANTS
    Wait = wait
    Slot = slot
    Servers = {s1, s2}
    MaxSessions = 2
    MaxTime = 1
    MaxFaults = 1
INVARIANTS
    TypeOK
    CallsTakeTurns
    SettledOnce
    NothingForgotten
    RequestsDoNotDeadlock
PROPERTIES
    SessionsEnd
CHECK_DEADLOCK FALSE
