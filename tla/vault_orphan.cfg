SPECIFICATION Spec
CONSTANTS
    Requests = {r1, r2}
    MAX_RETRIES = 2
    MAX_SETTLEMENT_ATTEMPTS = 2
    pending_threshold = 1
    Faults = FALSE
    ClientsMayLeave = TRUE
INVARIANT EveryRequestBilled
