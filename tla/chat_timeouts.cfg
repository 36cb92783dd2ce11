SPECIFICATION Spec
CONSTANTS
    provA = provA
    provB = provB
    NoProvider = NoProvider
    FAILURE_THRESHOLD = 3
    OPEN_DURATION = 1
    MAX_RETRIES = 1
    Providers = {provA}
    CandidatesAt <- OneProvider
    InitialTiers = {3}
    Requests = {r1, r2, r3}
    HasVault = FALSE
    ClientsMayLeave = FALSE
SYMMETRY RequestSymmetry
INVARIANT TimeoutsTrip
