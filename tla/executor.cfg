CONSTANTS
    Plans <- MCPlans
    Naive = naive
    LinkTtl = 2
    CardTtl = 1
    MaxTime = 3
    MaxPlans = 3
SPECIFICATION Spec
INVARIANTS
    TypeOK
    RecoveredOnce
PROPERTIES
    LedgerIsFinal
CHECK_DEADLOCK FALSE
