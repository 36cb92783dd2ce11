SPECIFICATION FairSpec
CONSTANTS
    FAILURE_THRESHOLD = 3
    OPEN_DURATION = 2
    Providers = {p1}
    Names = {p1, other}
    NoProvider = NoProvider
    Tasks = {t1, t2, t3}
    MaxFailures = 4
    MaxTrips = 3
INVARIANTS
    TypeOK
    ClosedBelowThreshold
    NoStuckProbe
    NoLostWakeup
PROPERTIES
    WaitersAnswered
    OpenRunsOut
    ImplementsBroadcast
