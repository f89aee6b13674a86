SPECIFICATION Spec
CONSTANTS
    Email = {alice, bob}
    AdminEmail = {alice}
    Secret = {s1}
    MaxToken = 2
    DbErrors = TRUE
    Nobody = Nobody
    Preset = {p7, p30}
    InitialPreset = p30
    Org = {o1}
    Node = {o1, n1}
    MaxAsked = 2
    None = None
INVARIANTS
    TypeOK
    AdminExists
    ShownUserIsTokens
    SettledChartFits
    ChartOfOwner
PROPERTIES
    ChoiceStands
