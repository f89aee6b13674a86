SPECIFICATION Spec
CONSTANTS
    MaxAccount = 1
    MaxCredential = 1
    ExternalID = {x1}
    CostKey = {k1}
    Provider = {aws}
    LiveProvider = {aws}
    EncryptionKey = {key1}
    CronRun = {s1}
    Handler = {h1}
    MaxRevision = 2
    ReuseIds = FALSE
    DbErrors = FALSE
    NoRow = NoRow
    Csv = Csv
SYMMETRY Interchangeable
PROPERTIES
    CredentialKeptInUse
