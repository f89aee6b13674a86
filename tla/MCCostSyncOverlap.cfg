SPECIFICATION Spec
CONSTANTS
    MaxAccount = 1
    MaxCredential = 1
    ExternalID = {x1}
    CostKey = {k1}
    Provider = {aws, contabo}
    LiveProvider = {aws}
    EncryptionKey = {key1, key2}
    CronRun = {s1, s2}
    Handler = {h1}
    MaxRevision = 1
    ReuseIds = TRUE
    DbErrors = TRUE
    NoRow = NoRow
    Csv = Csv
SYMMETRY Interchangeable
INVARIANTS
    TypeOK
    NoInventedAmounts
PROPERTIES
    HistoryKept
    SyncKeepsConfiguration
    ImplementsCostLedger
