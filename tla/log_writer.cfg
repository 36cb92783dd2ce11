SPECIFICATION ReadSpec
CONSTANTS
    r1 = r1
    r2 = r2
    r3 = r3
    Requests = {r1, r2, r3}
    Streamed = {r1}
    DEFAULT_CAPACITY = 2
    DbMayFail = TRUE
    MaxClock = 2
    ModelOf <- MCModelOf
    Lower <- MCLower
    TierOf <- MCTierOf
    ConfiguredModels = {"gpt"}
    Filters = {"GPT"}
    PageSizes = {1}
    Starts <- MCStarts
    Ends = {4, 1000000}
    U32 = 8
CHECK_DEADLOCK FALSE
INVARIANTS
    TypeOK
    LogMatchesHistory
    WalkMissesNothing
    GroupsCoverTotal
PROPERTY WritesGoThrough
