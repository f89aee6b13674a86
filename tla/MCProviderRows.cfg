SPECIFICATION Spec
CONSTANTS
    Row <- Rows
    MaxRows = 2
    MaxPages = 2
    RowLimit = 2
    Unreadable = Unreadable
    NaN = NaN
INVARIANTS
    TypeOK
    AllOrNothing
    NothingLeftOut
    NoSilentLoss
    Idempotent
