SPECIFICATION Spec
CONSTANTS
    SyncWindowDays = 2
    FinalAfter = 1
    MaxGap = 1
    InclusiveEnd = TRUE
    MayWithdraw = TRUE
    LastDay = 4
    MaxRevision = 2
    NoDay = NoDay
INVARIANTS
    TypeOK
    BilledAccurate
