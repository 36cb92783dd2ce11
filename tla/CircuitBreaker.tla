--------------------------- MODULE CircuitBreaker ---------------------------
(***************************************************************************)
(* The per-provider breaker of src/proxy/circuit_breaker.rs, as operators  *)
(* on a record.  Every method of CircuitBreakerInner runs under the        *)
(* provider's mutex, so each is one operator from the old record to the    *)
(* new one; the modules that own the records apply them atomically.        *)
(*                                                                         *)
(* opened_at is kept as the time elapsed since it was set, cut off at      *)
(* OPEN_DURATION: check_state is the only reader and asks no more than     *)
(* whether that much time has passed.  The timestamps and the text of the  *)
(* last failure and success only feed log lines and error messages and are *)
(* left out.                                                               *)
(***************************************************************************)
EXTENDS Integers

CONSTANTS FAILURE_THRESHOLD, OPEN_DURATION

ASSUME ThresholdAssumption == FAILURE_THRESHOLD \in Nat \ {0}
ASSUME DurationAssumption == OPEN_DURATION \in Nat

CircuitState == {"Closed", "Open", "HalfOpen"}
ProbeResult == {"Pending", "Success", "Failed"}

\* opened_at = None
NeverOpened == -1

CircuitBreakerInner ==
    [state : CircuitState,
     failure_count : Nat,
     opened_for : {NeverOpened} \cup 0..OPEN_DURATION,
     trip_count : Nat,
     probe_in_flight : BOOLEAN]

NewInner ==
    [state |-> "Closed", failure_count |-> 0, opened_for |-> NeverOpened,
     trip_count |-> 0, probe_in_flight |-> FALSE]

\* try_acquire_probe leaves the flag set whichever way it answers.
TryAcquireProbe(b) ==
    [result |-> IF b.probe_in_flight THEN "WaitForProbe" ELSE "ProbePermit",
     inner |-> [b EXCEPT !.probe_in_flight = TRUE]]

\* NeverOpened is below every duration, so an Open breaker without an
\* opened_at would be rejected, as in the code.
TimeoutExpired(b) == b.opened_for # NeverOpened /\ b.opened_for >= OPEN_DURATION

CheckState(b) ==
    CASE b.state = "Closed" -> [result |-> "Allowed", inner |-> b]
      [] b.state = "Open" /\ TimeoutExpired(b) ->
            TryAcquireProbe([b EXCEPT !.state = "HalfOpen", !.probe_in_flight = FALSE])
      [] b.state = "Open" /\ ~TimeoutExpired(b) -> [result |-> "Rejected", inner |-> b]
      [] b.state = "HalfOpen" -> TryAcquireProbe(b)

\* Mutated form of RecordFailure: opened_at is only set by a failed probe.
RecordFailureNoInstant(b) ==
    LET count == b.failure_count + 1
    IN  [b EXCEPT !.failure_count = count,
                  !.state = IF count >= FAILURE_THRESHOLD THEN "Open" ELSE @,
                  !.trip_count = IF count >= FAILURE_THRESHOLD THEN @ + 1 ELSE @]

\* The code does not look at the state: the threshold alone decides.
RecordFailure(b) ==
    LET count == b.failure_count + 1
    IN  IF count >= FAILURE_THRESHOLD
        THEN [b EXCEPT !.failure_count = count, !.state = "Open",
                       !.opened_for = 0, !.trip_count = @ + 1]
        ELSE [b EXCEPT !.failure_count = count]

\* Mutated form of RecordSuccess: a success takes one failure back.
RecordSuccessDecrement(b) == [b EXCEPT !.failure_count = @ - 1]

RecordSuccess(b) == [b EXCEPT !.failure_count = 0]

\* Mutated form of RecordProbeSuccess: the failure count survives the probe.
RecordProbeSuccessKeepCount(b) ==
    [b EXCEPT !.state = "Closed", !.probe_in_flight = FALSE]

RecordProbeSuccess(b) ==
    [b EXCEPT !.state = "Closed", !.failure_count = 0, !.probe_in_flight = FALSE]

\* Mutated form of RecordProbeFailure: the flag stays set.
RecordProbeFailureKeepFlag(b) == [b EXCEPT !.state = "Open", !.opened_for = 0]

RecordProbeFailure(b) ==
    [b EXCEPT !.state = "Open", !.opened_for = 0, !.probe_in_flight = FALSE]

\* One unit of time passes (tokio::time::Instant).
Elapse(b) ==
    IF b.opened_for = NeverOpened \/ b.opened_for = OPEN_DURATION
    THEN b
    ELSE [b EXCEPT !.opened_for = @ + 1]
=============================================================================
