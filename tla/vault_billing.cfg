SPECIFICATION FairSpec
CONSTANTS
    Requests = {r1, r2}
    MAX_RETRIES = 2
    MAX_SETTLEMENT_ATTEMPTS = 2
    pending_threshold = 1
    Faults = TRUE
    ClientsMayLeave = TRUE
INVARIANTS
    TypeOK
    NothingForgotten
    RecordsAgree
PROPERTIES
    ImplementsLedger
    RowsAreKept
    TableDrains
    BackpressureClears
    ShutdownEnds
