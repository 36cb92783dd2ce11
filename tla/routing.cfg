SPECIFICATION Spec
CONSTANTS
    MIN_TEXT_LEN = 3
    SCALE = 30
    ContextSignal <- MCContextSignal
    DepthSignal <- MCDepthSignal
    DefaultKeywords = {"design", "debug"}
    Env <- MCEnv
    ConventionName <- MCConventionName
    Files <- MCFiles
    Models = {"m1", "m2"}
    Messages <- MCMessages
    PolicyNames = {"none", "cheap", "code"}
    MaxTokens = {0, 2}
    MaxTurns = 3
CHECK_DEADLOCK FALSE
INVARIANTS
    TypeOK
    ExpansionAgrees
    CandidatesMatchReference
    OrdersAgree
    ReservationCovers
    EndpointsAgree
PROPERTIES
    TierNeverFalls
