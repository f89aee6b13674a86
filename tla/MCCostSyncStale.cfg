SPECIFICATION Spec
CONSTANTS
    MaxAccount = 1
    MaxCredential = 1
    ExternalID = {x1}
    CostKey = {k1}
    Provider = {aws}
    LiveProvider = {aws}
    EncryptionKey = {key1}
    CronRun = {s1, s2}
    Handler = {}
    MaxRevision = 2
    ReuseIds = TRUE
    DbErrors = FALSE
    NoRow = NoRow
    Csv = Csv
SYMMETRY Interchangeable
PROPERTIES
    RevisionsAdvance
