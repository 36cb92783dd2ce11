----------------------------- MODULE ChatRequest -----------------------------
(***************************************************************************)
(* POST /v1/chat/completions (src/proxy/handlers.rs, src/proxy/retry.rs):  *)
(* the life of a request from the choice of candidates to the response,    *)
(* against the circuit breakers it shares with every other request.        *)
(*                                                                         *)
(* A handler runs without interruption between two locks or awaits; each   *)
(* action below is one such stretch.  Its future is dropped at an await    *)
(* when the client goes away.  The router's answer is a constant: the      *)
(* candidates of each tier, cheapest first (an empty list is NoTierMatch). *)
(* What happens to a reservation after a settle or release has been        *)
(* spawned, and to a stream after its first byte, is the business of       *)
(* other modules.                                                          *)
(***************************************************************************)
EXTENDS CircuitBreaker, Sequences, FiniteSets

CONSTANTS
    Providers, NoProvider,
    Requests,
    CandidatesAt,     \* CandidatesAt[tier]: what select_candidates returns
    InitialTiers,     \* the tiers the header or the scorer asks for
    MAX_RETRIES,      \* retry::MAX_RETRIES
    HasVault,         \* is a vault configured?
    ClientsMayLeave   \* do clients disconnect?

Tiers == 1..3   \* Local, Standard, Frontier

ASSUME RetriesAssumption == MAX_RETRIES \in Nat
ASSUME TiersAssumption == InitialTiers \subseteq Tiers
ASSUME CandidatesAssumption == CandidatesAt \in [Tiers -> Seq(Providers)]
ASSUME ProviderAssumption == NoProvider \notin Providers

VARIABLES
    breakers,     \* breakers[p]: the circuit breaker of p
    probe_watch,  \* probe_watch[p]: the last result sent to waiters for p
    req,          \* req[r]: the local state of r's handler
    billing,      \* billing[r]: the vault calls spawned for r's reservation
    logged        \* logged[r]: the number of rows r has written to the log

vars == <<breakers, probe_watch, req, billing, logged>>

\* The classes of answers of a provider the handlers tell apart: 500, 502, 503
\* and 504 are retried and count for the breaker, the other 5xx count and are
\* not retried, everything else is final and does not count.
Statuses == {"transient", "server", "client"}
is_retryable(status) == status = "transient"
is_circuit_failure(status) == status \in {"transient", "server"}

NewRequest ==
    [pc |-> "new", streaming |-> FALSE, tier |-> 1,
     next |-> 1,                 \* the next candidate to ask a permit for
     filtered |-> << >>,         \* candidates with a permit
     probe |-> NoProvider,       \* probe_provider
     guarded |-> FALSE,          \* is there an unresolved ProbeGuard?
     unseen |-> FALSE,           \* has the watch receiver something to read?
     attempts |-> << >>,         \* failed attempts not yet reported
     tried |-> 0,                \* attempts so far
     reserved |-> FALSE,         \* ctx.reservation_id
     winner |-> NoProvider,      \* the provider that answered with success
     timedOut |-> FALSE]

Init ==
    /\ breakers = [p \in Providers |-> NewInner]
    /\ probe_watch = [p \in Providers |-> "Pending"]
    /\ req = [r \in Requests |-> NewRequest]
    /\ billing = [r \in Requests |-> {}]
    /\ logged = [r \in Requests |-> 0]

At(r, pc) == req[r].pc = pc
Candidates(r) == CandidatesAt[req[r].tier]
AllAsked(r) == req[r].next > Len(Candidates(r))
-----------------------------------------------------------------------------
(* resolve_candidates *)

\* The header, or the complexity score, fixes the first tier.
Begin(r) ==
    /\ At(r, "new")
    /\ \E tier \in InitialTiers, streaming \in BOOLEAN :
          req' = [req EXCEPT ![r].pc = "resolve", ![r].tier = tier, ![r].streaming = streaming]
    /\ UNCHANGED <<breakers, probe_watch, billing, logged>>

\* An early return: one row in the log, the rest as it is.
Respond(r) ==
    /\ req' = [req EXCEPT ![r].pc = "done"]
    /\ logged' = [logged EXCEPT ![r] = @ + 1]
    /\ UNCHANGED <<breakers, probe_watch, billing>>

\* select_candidates fails for another reason than the tier: no provider has
\* the model, or the policy leaves none.  No breaker has been asked yet.
RoutingError(r) ==
    /\ At(r, "new")
    /\ Respond(r)

NoneAvailable(r) ==
    /\ At(r, "resolve")
    /\ AllAsked(r)
    /\ req[r].filtered = << >>

Escalate(r) ==
    /\ NoneAvailable(r)
    /\ req[r].tier < 3
    /\ req' = [req EXCEPT ![r].tier = @ + 1, ![r].next = 1, ![r].probe = NoProvider]
    /\ UNCHANGED <<breakers, probe_watch, billing, logged>>

\* 400 if the Frontier tier has no provider for the model, 503 if all its
\* circuits are open.
GiveUp(r) ==
    /\ NoneAvailable(r)
    /\ req[r].tier = 3
    /\ Respond(r)

\* Mutated form of WithPermit: a probed candidate keeps its place.
WithPermitAppend(q, p, permit) ==
    IF permit = "Wait" THEN [q EXCEPT !.pc = "waiting", !.unseen = FALSE]
    ELSE [q EXCEPT !.pc = "resolve", !.next = @ + 1, !.unseen = FALSE,
                   !.filtered = IF permit = "Open" THEN @ ELSE Append(@, p),
                   !.probe = IF permit = "Probe" THEN p ELSE @]

\* The handler's next state once acquire_permit(p) has answered.
WithPermit(q, p, permit) ==
    CASE permit = "Normal" ->
            [q EXCEPT !.pc = "resolve", !.next = @ + 1, !.unseen = FALSE,
                      !.filtered = Append(@, p)]
      [] permit = "Probe" ->
            [q EXCEPT !.pc = "resolve", !.next = @ + 1, !.unseen = FALSE,
                      !.filtered = <<p>> \o @, !.probe = p]
      [] permit = "Open" ->
            [q EXCEPT !.pc = "resolve", !.next = @ + 1, !.unseen = FALSE]
      [] permit = "Wait" -> [q EXCEPT !.pc = "waiting", !.unseen = FALSE]

PermitOf(result) ==
    CASE result = "Allowed" -> "Normal"
      [] result = "ProbePermit" -> "Probe"
      [] result = "Rejected" -> "Open"
      [] result = "WaitForProbe" -> "Wait"

AskPermit(r) ==
    /\ At(r, "resolve")
    /\ ~AllAsked(r)
    /\ LET p == Candidates(r)[req[r].next]
           check == CheckState(breakers[p])
       IN  /\ breakers' = [breakers EXCEPT ![p] = check.inner]
           /\ req' = [req EXCEPT ![r] = WithPermit(@, p, PermitOf(check.result))]
    /\ UNCHANGED <<probe_watch, billing, logged>>

ProbeVerdict(r) ==
    /\ At(r, "waiting")
    /\ req[r].unseen
    /\ LET p == Candidates(r)[req[r].next]
       IN  req' = [req EXCEPT ![r] =
                     WithPermit(@, p, IF probe_watch[p] = "Success" THEN "Normal" ELSE "Open")]
    /\ UNCHANGED <<breakers, probe_watch, billing, logged>>
-----------------------------------------------------------------------------
(* chat_completions, from the candidates to the provider *)

\* The paths to the provider begin with the ProbeGuard.
ToProvider(q) == [q EXCEPT !.pc = "send", !.guarded = q.probe # NoProvider]

Resolved(r) ==
    /\ At(r, "resolve")
    /\ AllAsked(r)
    /\ req[r].filtered # << >>
    /\ req' = [req EXCEPT ![r] = IF HasVault THEN [@ EXCEPT !.pc = "vault"] ELSE ToProvider(@)]
    /\ UNCHANGED <<breakers, probe_watch, billing, logged>>

\* Mutated form of Refused: the refusal is not logged.
RefusedUnlogged(r) ==
    /\ At(r, "vault")
    /\ req' = [req EXCEPT ![r].pc = "done"]
    /\ UNCHANGED <<breakers, probe_watch, billing, logged>>

\* Backpressure, no bearer token, or the vault refuses to reserve.
Refused(r) ==
    /\ At(r, "vault")
    /\ Respond(r)

Reserved(r) ==
    /\ At(r, "vault")
    /\ req' = [req EXCEPT ![r] = ToProvider([@ EXCEPT !.reserved = TRUE])]
    /\ UNCHANGED <<breakers, probe_watch, billing, logged>>
-----------------------------------------------------------------------------
(* handle_streaming_path, handle_non_streaming_path and retry_with_fallback *)

\* The primary is tried MAX_RETRIES + 1 times, then the next candidate once.
Target(r) ==
    IF req[r].tried <= MAX_RETRIES THEN req[r].filtered[1] ELSE req[r].filtered[2]

\* send_to_provider succeeds.  A streaming answer spawns the task that will
\* settle or release the reservation.
SendOk(r) ==
    /\ At(r, "send")
    /\ req' = [req EXCEPT ![r].pc = "report", ![r].winner = Target(r)]
    /\ billing' = IF req[r].streaming /\ req[r].reserved
                  THEN [billing EXCEPT ![r] = @ \cup {"stream"}]
                  ELSE billing
    /\ UNCHANGED <<breakers, probe_watch, logged>>

\* Mutated form of LastAttempt: the fallback gets a second attempt.
LastAttemptFallbackTwice(r, status) ==
    \/ req[r].streaming
    \/ ~is_retryable(status)
    \/ /\ req[r].tried >= MAX_RETRIES
       /\ req[r].tried > MAX_RETRIES + 1 \/ Len(req[r].filtered) = 1

\* A failed attempt is recorded; the loop goes on if the status can be
\* retried and an attempt is left.  A stream is tried once.
LastAttempt(r, status) ==
    \/ req[r].streaming
    \/ ~is_retryable(status)
    \/ /\ req[r].tried >= MAX_RETRIES
       /\ req[r].tried > MAX_RETRIES \/ Len(req[r].filtered) = 1

SendFails(r) ==
    /\ At(r, "send")
    /\ \E status \in Statuses :
          req' = [req EXCEPT
                    ![r].pc = IF LastAttempt(r, status) THEN "report" ELSE "send",
                    ![r].attempts = Append(@, [provider |-> Target(r), status |-> status]),
                    ![r].tried = @ + 1]
    /\ UNCHANGED <<breakers, probe_watch, billing, logged>>

\* The 30 s deadline of the non-streaming path cuts the attempt under way.
DeadlinePasses(r) ==
    /\ At(r, "send")
    /\ ~req[r].streaming
    /\ req' = [req EXCEPT ![r].pc = "report", ![r].timedOut = TRUE]
    /\ UNCHANGED <<breakers, probe_watch, billing, logged>>

\* Each recorded attempt is reported to its provider's breaker, in order,
\* whatever the circuit's state is by now.
ReportAttempt(r) ==
    /\ At(r, "report")
    /\ req[r].attempts # << >>
    /\ LET a == Head(req[r].attempts)
       IN  breakers' = IF is_circuit_failure(a.status)
                       THEN [breakers EXCEPT ![a.provider] = RecordFailure(@)]
                       ELSE breakers
    /\ req' = [req EXCEPT ![r].attempts = Tail(@)]
    /\ UNCHANGED <<probe_watch, billing, logged>>

\* record_success for the winner, except where the guard's own success will
\* do it (a probe answered without streaming).
ReportWinner(r) ==
    /\ At(r, "report")
    /\ req[r].attempts = << >>
    /\ req' = [req EXCEPT ![r].pc = "guard"]
    /\ LET w == req[r].winner
           leftToGuard == ~req[r].streaming /\ req[r].guarded /\ w = req[r].probe
       IN  breakers' = IF w # NoProvider /\ ~leftToGuard
                       THEN [breakers EXCEPT ![w] = RecordSuccess(@)]
                       ELSE breakers
    /\ UNCHANGED <<probe_watch, billing, logged>>

\* Mutated form of Woken: nobody is told.
WokenNobody(q, p) == q

\* probe_watch.send(v) wakes every handler that waits for p.
Broadcast(p, v) == probe_watch' = [probe_watch EXCEPT ![p] = v]
Woken(q, p) ==
    IF q.pc = "waiting" /\ CandidatesAt[q.tier][q.next] = p
    THEN [q EXCEPT !.unseen = TRUE] ELSE q

\* Mutated form of ProbePassed: any success will do.
ProbePassedByAnyone(r) == req[r].winner # NoProvider

\* The probe counts as passed only if the probed provider is the one that
\* answered.
ProbePassed(r) == req[r].winner = req[r].probe

ResolveGuard(r) ==
    /\ At(r, "guard")
    /\ req[r].guarded
    /\ LET p == req[r].probe
       IN  /\ breakers' = [breakers EXCEPT ![p] =
                             IF ProbePassed(r) THEN RecordProbeSuccess(@) ELSE RecordProbeFailure(@)]
           /\ Broadcast(p, IF ProbePassed(r) THEN "Success" ELSE "Failed")
           /\ req' = [u \in Requests |->
                        IF u = r THEN [req[u] EXCEPT !.guarded = FALSE] ELSE Woken(req[u], p)]
    /\ UNCHANGED <<billing, logged>>

\* Mutated form of BillingCall: a timed-out request settles like an answered
\* one.
BillingCallNoTimeout(r) ==
    IF ~req[r].reserved \/ (req[r].streaming /\ req[r].winner # NoProvider) THEN {}
    ELSE IF req[r].winner = NoProvider /\ ~req[r].timedOut THEN {"release"} ELSE {"settle"}

\* The response, its row in the log, and settle or release; a stream that
\* has begun is settled by its own task.
BillingCall(r) ==
    CASE ~req[r].reserved -> {}
      [] req[r].reserved /\ req[r].winner = NoProvider -> {"release"}
      [] req[r].reserved /\ req[r].winner # NoProvider /\ ~req[r].streaming -> {"settle"}
      [] req[r].reserved /\ req[r].winner # NoProvider /\ req[r].streaming -> {}

Answer(r) ==
    /\ At(r, "guard")
    /\ ~req[r].guarded
    /\ req' = [req EXCEPT ![r].pc = "done"]
    /\ billing' = [billing EXCEPT ![r] = @ \cup BillingCall(r)]
    /\ logged' = [logged EXCEPT ![r] = @ + 1]
    /\ UNCHANGED <<breakers, probe_watch>>

\* The client disconnects while the handler is at an await: its future is
\* dropped, and with it the guard if there is one.
Disconnect(r) ==
    /\ ClientsMayLeave
    /\ req[r].pc \in {"waiting", "vault", "send"}
    /\ LET p == req[r].probe
       IN  IF req[r].guarded
           THEN /\ breakers' = [breakers EXCEPT ![p] = RecordProbeFailure(@)]
                /\ Broadcast(p, "Failed")
                /\ req' = [u \in Requests |->
                             IF u = r THEN [req[u] EXCEPT !.pc = "gone", !.guarded = FALSE]
                             ELSE Woken(req[u], p)]
           ELSE /\ req' = [req EXCEPT ![r].pc = "gone"]
                /\ UNCHANGED <<breakers, probe_watch>>
    /\ UNCHANGED <<billing, logged>>

Tick ==
    /\ breakers' = [p \in Providers |-> Elapse(breakers[p])]
    /\ UNCHANGED <<probe_watch, req, billing, logged>>

Arrive(r) == Begin(r) \/ RoutingError(r)

Handler(r) ==
    \/ Escalate(r) \/ GiveUp(r) \/ AskPermit(r) \/ ProbeVerdict(r)
    \/ Resolved(r) \/ Refused(r) \/ Reserved(r)
    \/ SendOk(r) \/ SendFails(r) \/ DeadlinePasses(r)
    \/ ReportAttempt(r) \/ ReportWinner(r) \/ ResolveGuard(r) \/ Answer(r)

Next == Tick \/ \E r \in Requests : Arrive(r) \/ Handler(r) \/ Disconnect(r)

\* Every await of a handler but the wait for a probe ends by itself: provider
\* calls time out after 120 s and vault calls after 5 s.
Fairness == \A r \in Requests : WF_vars(Handler(r))

Spec == Init /\ [][Next]_vars
FairSpec == Spec /\ Fairness
-----------------------------------------------------------------------------
Request ==
    [pc : {"new", "resolve", "waiting", "vault", "send", "report", "guard", "done", "gone"},
     streaming : BOOLEAN, tier : Tiers, next : Nat \ {0}, filtered : Seq(Providers),
     probe : Providers \cup {NoProvider}, guarded : BOOLEAN, unseen : BOOLEAN,
     attempts : Seq([provider : Providers, status : Statuses]),
     tried : 0..(MAX_RETRIES + 2), reserved : BOOLEAN,
     winner : Providers \cup {NoProvider}, timedOut : BOOLEAN]

TypeOK ==
    /\ breakers \in [Providers -> CircuitBreakerInner]
    /\ probe_watch \in [Providers -> ProbeResult]
    /\ req \in [Requests -> Request]
    /\ billing \in [Requests -> SUBSET {"settle", "release", "stream"}]
    /\ logged \in [Requests -> Nat]

\* The provider under probe is the first one the request is sent to, so a
\* probe is an attempt on that provider and not on a healthy one that would
\* have come first (resolve_candidates puts it at the front).
ProbeGoesFirst ==
    \A r \in Requests :
        At(r, "send") /\ req[r].guarded => req[r].filtered[1] = req[r].probe

\* A circuit closes only in the hands of a request that the provider itself
\* has answered: a fallback's success says nothing about the provider that
\* was probed (handle_streaming_path, handle_non_streaming_path).
ClosesOnlyOnItsOwnSuccess ==
    [][\A p \in Providers :
          breakers[p].state # "Closed" /\ breakers'[p].state = "Closed" =>
              \E r \in Requests : /\ req[r].guarded /\ ~req'[r].guarded
                                  /\ req[r].probe = p /\ req[r].winner = p]_vars

\* The vault calls a finished request owes.
Due(q) ==
    CASE ~q.reserved -> {}
      [] q.reserved /\ q.timedOut -> {"release"}
      [] q.reserved /\ ~q.timedOut ->
            IF q.winner = NoProvider THEN {"release"}
            ELSE IF q.streaming THEN {"stream"} ELSE {"settle"}

\* Every way out of a handler that holds a reservation spawns exactly one
\* vault call, and the right one: settle after an answer, release after an
\* error or a timeout, the stream's own task once a stream has begun; without
\* a reservation there is none.
BilledByOutcome == \A r \in Requests : At(r, "done") => billing[r] = Due(req[r])

\* Every answered request has exactly one row in the log, whichever of the
\* early returns answered it.
LoggedOnce ==
    \A r \in Requests : logged[r] = IF At(r, "done") THEN 1 ELSE 0

\* What a handler has in hand at each place, which makes the properties above
\* inductive: nothing is reserved, guarded or tried before the candidates are
\* known, the fallback is tried only if there is one, a deadline that passed
\* leaves no winner, and a probe once granted stays in front.
Consistent(q) ==
    /\ q.pc \in {"new", "resolve", "waiting", "vault"} => ~q.reserved /\ ~q.guarded /\ q.tried = 0
    /\ q.pc \in {"new", "resolve", "waiting", "vault", "send", "gone"} =>
          q.winner = NoProvider /\ ~q.timedOut
    /\ q.pc = "waiting" => q.next <= Len(CandidatesAt[q.tier])
    /\ q.pc \in {"vault", "send"} => q.filtered # << >>
    /\ q.pc = "send" => \/ q.tried <= MAX_RETRIES
                        \/ q.tried = MAX_RETRIES + 1 /\ Len(q.filtered) >= 2
    /\ q.timedOut => q.winner = NoProvider /\ ~q.streaming
    /\ q.guarded => q.probe # NoProvider /\ q.pc \in {"send", "report", "guard"}
    /\ q.probe # NoProvider => q.filtered # << >> /\ q.filtered[1] = q.probe

\* Until the handler is over, the only call spawned is the task of a stream.
DueSoFar(q) == IF q.reserved /\ q.streaming /\ q.winner # NoProvider THEN {"stream"} ELSE {}
BilledSoFar == \A r \in Requests : ~At(r, "done") => billing[r] = DueSoFar(req[r])

IndInv ==
    /\ TypeOK
    /\ \A r \in Requests : Consistent(req[r])
    /\ BilledSoFar /\ BilledByOutcome /\ LoggedOnce

\* A request with a probe permit that it has not passed on or lost.
OwnsProbe(r, p) ==
    /\ req[r].probe = p
    /\ req[r].pc \in {"resolve", "waiting", "vault"} \/ req[r].guarded

\* "RAII ProbeGuard to prevent stuck probe_in_flight flags"
\* (circuit_breaker.rs:12): a set flag has a live request behind it that will
\* resolve the probe.
NoStuckProbe ==
    \A p \in Providers :
        breakers[p].probe_in_flight => \E r \in Requests : OwnsProbe(r, p)

\* Every request that is let in gets an answer, although it may have to wait
\* for the probes of others.
RequestsAnswered ==
    \A r \in Requests : At(r, "resolve") ~> req[r].pc \in {"done", "gone"}

\* "Circuit opens after 3 consecutive request failures (5xx/timeout only, not
\* 4xx)" (.planning/milestones/v1.4-REQUIREMENTS.md:22): when as many requests
\* as the threshold timed out on a provider and none succeeded there, its
\* circuit is not closed.
TimeoutsTrip ==
    \A p \in Providers :
        /\ FAILURE_THRESHOLD <=
             Cardinality({r \in Requests : /\ At(r, "done") /\ req[r].timedOut
                                           /\ req[r].filtered[1] = p})
        /\ \A r \in Requests : req[r].winner # p
        => breakers[p].state # "Closed"
=============================================================================
