SPECIFICATION Spec
CONSTANTS
    FAILURE_THRESHOLD = 2
    OPEN_DURATION = 2
    Providers = {p1}
    Names = {p1}
    NoProvider = NoProvider
    Tasks = {t1, t2, t3}
    MaxFailures = 3
    MaxTrips = 3
SYMMETRY TaskSymmetry
INVARIANT SingleProbe
