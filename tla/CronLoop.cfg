SPECIFICATION Spec
CONSTANTS
    MaxAccount = 3
    LiveAccount = {2, 3}
    Run = {r1, r2}
INVARIANTS
    TypeOK
    QuietWithoutCron
PROPERTIES
    EveryoneRefreshed
    RunsEnd
    DeactivatedRest
