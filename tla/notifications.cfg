SPECIFICATION FairSpec
CONSTANTS
    Worker = {w1, w2}
    Job = {j1, j2}
    None = None
    MaxAttempts = 3
    BatchSize = 2
    MaxCrashes = 2
INVARIANTS
    OneHolder
    StrandedByCrash
    RepeatsExplained
PROPERTIES
    SettledOrStranded
