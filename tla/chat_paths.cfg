SPECIFICATION Spec
CONSTANTS
    provA = provA
    provB = provB
    NoProvider = NoProvider
    FAILURE_THRESHOLD = 1
    OPEN_DURATION = 1
    MAX_RETRIES = 1
    Providers = {provA, provB}
    CandidatesAt <- TwoProviders
    InitialTiers = {1, 3}
    Requests = {r1, r2}
    HasVault = TRUE
    ClientsMayLeave = TRUE
SYMMETRY RequestSymmetry
INVARIANTS
    TypeOK
    BilledByOutcome
    LoggedOnce
    ProbeGoesFirst
PROPERTIES
    ClosesOnlyOnItsOwnSuccess
