----------------------- MODULE CircuitBreaker_proofs -----------------------
(***************************************************************************)
(* What the methods of a circuit breaker do to its record, for every       *)
(* threshold and duration: the lemmas that the proofs about the registry   *)
(* and about the requests rest on.                                         *)
(***************************************************************************)
EXTENDS CircuitBreaker, TLAPS

\* What check_state does to a breaker: the record keeps its type, the state
\* only moves to HalfOpen, the flag is set whenever the result is not
\* Allowed or Rejected, and otherwise nothing changes.
LEMMA CheckStateFacts ==
    ASSUME NEW b \in CircuitBreakerInner
    PROVE  /\ CheckState(b).inner \in CircuitBreakerInner
           /\ CheckState(b).result \in {"Allowed", "ProbePermit", "Rejected", "WaitForProbe"}
           /\ CheckState(b).result \in {"Allowed", "Rejected"} =>
                 /\ CheckState(b).inner = b
                 /\ b.state # "HalfOpen"
           /\ CheckState(b).result \in {"ProbePermit", "WaitForProbe"} =>
                 /\ CheckState(b).inner.state = "HalfOpen"
                 /\ CheckState(b).inner.probe_in_flight
           /\ CheckState(b).result = "WaitForProbe" => b.probe_in_flight
  <1>1. CASE b.state = "Closed"
    BY <1>1 DEF CheckState, CircuitBreakerInner
  <1>2. CASE b.state = "Open" /\ ~TimeoutExpired(b)
    BY <1>2 DEF CheckState, CircuitBreakerInner
  <1>3. CASE b.state = "Open" /\ TimeoutExpired(b)
    BY <1>3 DEF CheckState, CircuitBreakerInner, CircuitState, TryAcquireProbe
  <1>4. CASE b.state = "HalfOpen"
    BY <1>4 DEF CheckState, CircuitBreakerInner, CircuitState, TryAcquireProbe
  <1> QED BY <1>1, <1>2, <1>3, <1>4 DEF CircuitBreakerInner, CircuitState

\* record_success only takes the count of failures back.
LEMMA RecordSuccessFacts ==
    ASSUME NEW b \in CircuitBreakerInner
    PROVE  /\ RecordSuccess(b) \in CircuitBreakerInner
           /\ RecordSuccess(b).state = b.state
           /\ RecordSuccess(b).probe_in_flight = b.probe_in_flight
           /\ RecordSuccess(b).failure_count = 0
  BY DEF RecordSuccess, CircuitBreakerInner

\* record_failure keeps a Closed breaker below the threshold, never sets nor
\* clears the flag, and never makes a breaker HalfOpen.
LEMMA RecordFailureFacts ==
    ASSUME NEW b \in CircuitBreakerInner
    PROVE  /\ RecordFailure(b) \in CircuitBreakerInner
           /\ RecordFailure(b).state \in {b.state, "Open"}
           /\ RecordFailure(b).probe_in_flight = b.probe_in_flight
           /\ RecordFailure(b).state # "Open" =>
                 RecordFailure(b).failure_count < FAILURE_THRESHOLD
  <1>0. 0 \in {NeverOpened} \cup 0..OPEN_DURATION
    BY DurationAssumption
  <1>1. CASE b.failure_count + 1 >= FAILURE_THRESHOLD
    <2>1. RecordFailure(b) = [b EXCEPT !.failure_count = b.failure_count + 1, !.state = "Open",
                                       !.opened_for = 0, !.trip_count = b.trip_count + 1]
      BY <1>1 DEF RecordFailure
    <2>2. b.failure_count + 1 \in Nat /\ b.trip_count + 1 \in Nat
      BY DEF CircuitBreakerInner
    <2>3. RecordFailure(b) \in CircuitBreakerInner
      BY <1>0, <2>1, <2>2 DEF CircuitBreakerInner, CircuitState
    <2> QED BY <2>1, <2>3 DEF CircuitBreakerInner
  <1>2. CASE ~(b.failure_count + 1 >= FAILURE_THRESHOLD)
    <2>1. RecordFailure(b) = [b EXCEPT !.failure_count = b.failure_count + 1]
      BY <1>2 DEF RecordFailure
    <2> QED BY <1>2, <2>1, ThresholdAssumption DEF CircuitBreakerInner, CircuitState
  <1> QED BY <1>1, <1>2

\* The end of a probe clears the flag and leaves HalfOpen, and a success
\* starts the count of failures afresh.
LEMMA RecordProbeFacts ==
    ASSUME NEW b \in CircuitBreakerInner
    PROVE  /\ RecordProbeSuccess(b) \in CircuitBreakerInner
           /\ RecordProbeSuccess(b).state = "Closed"
           /\ RecordProbeSuccess(b).failure_count = 0
           /\ RecordProbeSuccess(b).probe_in_flight = FALSE
           /\ RecordProbeFailure(b) \in CircuitBreakerInner
           /\ RecordProbeFailure(b).state = "Open"
           /\ RecordProbeFailure(b).probe_in_flight = FALSE
  <1>0. 0 \in {NeverOpened} \cup 0..OPEN_DURATION
    BY DurationAssumption
  <1> QED BY <1>0 DEF RecordProbeSuccess, RecordProbeFailure, CircuitBreakerInner, CircuitState

\* The clock moves nothing but the age of opened_at.
LEMMA ElapseFacts ==
    ASSUME NEW b \in CircuitBreakerInner
    PROVE  /\ Elapse(b) \in CircuitBreakerInner
           /\ Elapse(b).state = b.state
           /\ Elapse(b).probe_in_flight = b.probe_in_flight
           /\ Elapse(b).failure_count = b.failure_count
  BY DurationAssumption DEF Elapse, CircuitBreakerInner, NeverOpened
=============================================================================
