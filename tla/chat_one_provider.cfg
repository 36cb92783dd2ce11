SPECIFICATION FairSpec
CONSTANTS
    provA = provA
    provB = provB
    NoProvider = NoProvider
    FAILURE_THRESHOLD = 1
    OPEN_DURATION = 1
    MAX_RETRIES = 0
    Providers = {provA}
    CandidatesAt <- OneProvider
    InitialTiers = {3}
    Requests = {r1, r2, r3}
    HasVault = FALSE
    ClientsMayLeave = TRUE
INVARIANTS
    NoStuckProbe
PROPERTIES
    RequestsAnswered
