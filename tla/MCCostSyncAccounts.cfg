SPECIFICATION Spec
CONSTANTS
    MaxAccount = 2
    MaxCredential = 1
    ExternalID = {x1, x2}
    CostKey = {k1}
    Provider = {aws, contabo}
    LiveProvider = {aws}
    EncryptionKey = {key1}
    CronRun = {}
    Handler = {h1}
    MaxRevision = 2
    ReuseIds = FALSE
    DbErrors = FALSE
    NoRow = NoRow
    Csv = Csv
SYMMETRY Interchangeable
INVARIANTS
    OwnCosts
    ManualOnly
PROPERTIES
    RevisionsAdvance
