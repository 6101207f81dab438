CONSTANTS
    Cycle = 101
    MonthDay <- MCMonthDay
    Festivals <- MCFestivals
    Instants <- MCInstants
    InitialCases <- MCInitialCases
    Kinds = {"COMPLIANCE"}
    PromiseDays <- MCPromiseDays
    Timezones <- MCTimezones
    MaxRows = 2
    MaxFacts = 2
SPECIFICATION Spec
INVARIANTS
    TypeOK
    PlanIsDue
    PlanIsOffered
    RetryBudgetKept
    PaydayIsPayday
    QuietCustomer
    StaleAtMostADay
PROPERTIES
    FinalIsLeftAlone
    OwnActionsDrift
CHECK_DEADLOCK FALSE
