----------------------- MODULE CircuitBreakerRegistry -----------------------
(***************************************************************************)
(* CircuitBreakerRegistry of src/proxy/circuit_breaker.rs and the tasks    *)
(* that call it: the breakers behind their locks, the watch channel that   *)
(* tells waiting tasks how a probe ended, and ProbeGuard.                  *)
(*                                                                         *)
(* A task stands for one use of a permit by one request.  It asks for a    *)
(* permit, may report the outcome of its attempts at any later time (a     *)
(* report can arrive long after the circuit has moved on), and every Probe *)
(* permit is held by a ProbeGuard, which a task resolves or drops.         *)
(* A watch receiver is the flag unseen: subscribe() marks the current      *)
(* value as seen and each send makes it unseen again for every subscriber. *)
(***************************************************************************)
EXTENDS CircuitBreaker

CONSTANTS
    Providers,    \* the configured providers, one breaker each
    Names,        \* the names a task may ask for, configured or not
    NoProvider,   \* what a task that asks for nothing has as provider
    Tasks,
    MaxFailures,  \* bound on failure_count in the model
    MaxTrips      \* bound on trip_count in the model

ASSUME NamesAssumption == Providers \subseteq Names /\ NoProvider \notin Names
ASSUME BoundsAssumption == MaxFailures \in Nat /\ MaxTrips \in Nat

VARIABLES
    breakers,     \* breakers[p]: the CircuitBreakerInner of p
    probe_watch,  \* probe_watch[p]: the last value sent on p's watch channel
    task          \* task[t]: what task t holds or waits for

vars == <<breakers, probe_watch, task>>

TaskState == {"idle", "normal", "probe", "waiting"}

IdleTask == [pc |-> "idle", provider |-> NoProvider, unseen |-> FALSE]

\* A task that has just been told where it stands with p.
TaskAt(pc, p) ==
    IF pc = "idle" THEN IdleTask ELSE [pc |-> pc, provider |-> p, unseen |-> FALSE]

Idle(t) == task[t].pc = "idle"
HoldsPermit(t) == task[t].pc \in {"normal", "probe"}
Probing(t, p) == task[t].pc = "probe" /\ task[t].provider = p
Waiting(t, p) == task[t].pc = "waiting" /\ task[t].provider = p

Init ==
    /\ breakers = [p \in Providers |-> NewInner]
    /\ probe_watch = [p \in Providers |-> "Pending"]
    /\ task = [t \in Tasks |-> IdleTask]
-----------------------------------------------------------------------------
\* acquire_permit up to its first await: check_state and subscribe() happen
\* under one lock.
PermitFor(result) ==
    CASE result = "Allowed" -> "normal"
      [] result = "ProbePermit" -> "probe"
      [] result = "Rejected" -> "idle"
      [] result = "WaitForProbe" -> "waiting"

\* Mutated form of AcquirePermit: the receiver takes the value it finds in the
\* watch slot for news.
AcquirePermitStale(t, p) ==
    /\ Idle(t)
    /\ p \in Providers
    /\ LET check == CheckState(breakers[p])
       IN  /\ breakers' = [breakers EXCEPT ![p] = check.inner]
           /\ task' = [task EXCEPT ![t] =
                 [TaskAt(PermitFor(check.result), p) EXCEPT
                    !.unseen = check.result = "WaitForProbe"]]
    /\ UNCHANGED probe_watch

AcquirePermit(t, p) ==
    /\ Idle(t)
    /\ p \in Providers
    /\ LET check == CheckState(breakers[p])
       IN  /\ breakers' = [breakers EXCEPT ![p] = check.inner]
           /\ task' = [task EXCEPT ![t] = TaskAt(PermitFor(check.result), p)]
    /\ UNCHANGED probe_watch

\* A provider without a breaker is let through.
AcquireUnknown(t, p) ==
    /\ Idle(t)
    /\ p \notin Providers
    /\ task' = [task EXCEPT ![t] = TaskAt("normal", p)]
    /\ UNCHANGED <<breakers, probe_watch>>

\* Mutated form of AnswerOf: a failed probe sends the waiter back to wait.
AnswerOfWaitOn(value) == IF value = "Success" THEN "normal" ELSE "waiting"

\* rx.changed() returns: the task reads the value that is current now, which
\* may be newer than the one that woke it.
AnswerOf(value) ==
    CASE value = "Success" -> "normal"
      [] value = "Failed" -> "idle"
      [] value = "Pending" -> "waiting"

Wake(t) ==
    /\ task[t].pc = "waiting"
    /\ task[t].unseen
    /\ task' = [task EXCEPT ![t] =
                    TaskAt(AnswerOf(probe_watch[task[t].provider]), task[t].provider)]
    /\ UNCHANGED <<breakers, probe_watch>>

\* The caller's future is dropped while it waits (the client went away).
CancelWait(t) ==
    /\ task[t].pc = "waiting"
    /\ task' = [task EXCEPT ![t] = IdleTask]
    /\ UNCHANGED <<breakers, probe_watch>>
-----------------------------------------------------------------------------
\* The registry's record_success and record_failure: no-ops for a provider
\* without a breaker.
ReportSuccess(t) ==
    /\ HoldsPermit(t)
    /\ task[t].provider \in Providers
    /\ breakers' = [breakers EXCEPT ![task[t].provider] = RecordSuccess(@)]
    /\ UNCHANGED <<probe_watch, task>>

ReportFailure(t) ==
    /\ HoldsPermit(t)
    /\ task[t].provider \in Providers
    /\ breakers[task[t].provider].failure_count < MaxFailures
    /\ breakers[task[t].provider].trip_count < MaxTrips
    /\ breakers' = [breakers EXCEPT ![task[t].provider] = RecordFailure(@)]
    /\ UNCHANGED <<probe_watch, task>>

\* The request is over; a Normal permit needs no release.
Finish(t) ==
    /\ task[t].pc = "normal"
    /\ task' = [task EXCEPT ![t] = IdleTask]
    /\ UNCHANGED <<breakers, probe_watch>>

\* probe_watch.send(v) by task t, whose probe is over: every receiver that
\* is subscribed to p now has something unseen.
SendAndLeave(t, p, v) ==
    /\ probe_watch' = [probe_watch EXCEPT ![p] = v]
    /\ task' = [u \in Tasks |->
                  IF u = t THEN IdleTask
                  ELSE IF Waiting(u, p) THEN [task[u] EXCEPT !.unseen = TRUE]
                  ELSE task[u]]

\* ProbeGuard::success: close the circuit and broadcast, under the lock.
GuardSuccess(t) ==
    /\ task[t].pc = "probe"
    /\ breakers' = [breakers EXCEPT ![task[t].provider] = RecordProbeSuccess(@)]
    /\ SendAndLeave(t, task[t].provider, "Success")

\* Mutated form of GuardFailure: the circuit reopens, nobody is told.
GuardFailureSilent(t) ==
    /\ task[t].pc = "probe"
    /\ breakers' = [breakers EXCEPT ![task[t].provider] = RecordProbeFailure(@)]
    /\ task' = [task EXCEPT ![t] = IdleTask]
    /\ UNCHANGED probe_watch

\* ProbeGuard::failure: reopen the circuit and broadcast, under the lock.
GuardFailure(t) ==
    /\ task[t].pc = "probe"
    /\ breakers' = [breakers EXCEPT ![task[t].provider] = RecordProbeFailure(@)]
    /\ SendAndLeave(t, task[t].provider, "Failed")

\* A guard that is dropped unresolved counts as a failed probe.
GuardDrop(t) == GuardFailure(t)

Tick ==
    /\ breakers' = [p \in Providers |-> Elapse(breakers[p])]
    /\ UNCHANGED <<probe_watch, task>>

Next ==
    \/ \E t \in Tasks :
          \/ \E p \in Names : AcquirePermit(t, p) \/ AcquireUnknown(t, p)
          \/ Wake(t) \/ CancelWait(t)
          \/ ReportSuccess(t) \/ ReportFailure(t) \/ Finish(t)
          \/ GuardSuccess(t) \/ GuardFailure(t) \/ GuardDrop(t)
    \/ Tick

\* Time passes.  A guarded probe ends: the HTTP client gives up after 120 s
\* (src/server.rs) and dropping the guard counts as an end.  A task whose
\* watch receiver has a new value is scheduled by tokio.
Fairness ==
    /\ WF_vars(Tick)
    /\ \A t \in Tasks :
        /\ WF_vars(GuardSuccess(t) \/ GuardFailure(t) \/ GuardDrop(t))
        /\ WF_vars(Wake(t))

Spec == Init /\ [][Next]_vars
FairSpec == Spec /\ Fairness
-----------------------------------------------------------------------------
TypeOK ==
    /\ breakers \in [Providers -> CircuitBreakerInner]
    /\ probe_watch \in [Providers -> ProbeResult]
    /\ task \in [Tasks -> [pc : TaskState, provider : Names \cup {NoProvider}, unseen : BOOLEAN]]
    /\ \A t \in Tasks : task[t].pc \in {"probe", "waiting"} => task[t].provider \in Providers

\* Consecutive failures trip the circuit exactly at the threshold: a circuit
\* that takes requests has always fewer of them on its count, whatever stale
\* reports and probes of other tasks did to the record
\* (CircuitBreakerInner::record_failure, record_probe_success).
ClosedBelowThreshold ==
    \A p \in Providers :
        breakers[p].state = "Closed" => breakers[p].failure_count < FAILURE_THRESHOLD

\* No stuck probe: while a circuit is HalfOpen its probe_in_flight flag is
\* set, and a set flag has a task with an unresolved ProbeGuard behind it
\* (what the guard is there for, circuit_breaker.rs).
NoStuckProbe ==
    \A p \in Providers :
        /\ breakers[p].state = "HalfOpen" => breakers[p].probe_in_flight
        /\ breakers[p].probe_in_flight => \E t \in Tasks : Probing(t, p)

\* No lost wakeup: a task that waits for a probe of p either has a result to
\* read or some probe of p is unresolved and will send one
\* (acquire_permit subscribes under the lock that record_probe_* sends under).
NoLostWakeup ==
    \A t \in Tasks, p \in Providers :
        Waiting(t, p) => task[t].unseen \/ \E u \in Tasks : Probing(u, p)

\* Only a waiting task has news to read, and the news is a probe's result.
\* Needed beside the properties above to make them inductive, and for the
\* refinement below.
NewsIsAResult ==
    \A t \in Tasks :
        /\ task[t].pc = "idle" => task[t] = IdleTask
        /\ task[t].unseen => /\ task[t].pc = "waiting"
                            /\ probe_watch[task[t].provider] # "Pending"

IndInv == TypeOK /\ ClosedBelowThreshold /\ NoStuckProbe /\ NoLostWakeup /\ NewsIsAResult

\* Every waiting task is answered: the wait in acquire_permit has no timeout
\* and ends only if a probe result reaches it.
WaitersAnswered == \A t \in Tasks : (task[t].pc = "waiting") ~> (task[t].pc # "waiting")

\* An Open circuit does not keep a provider out for good: unless it leaves
\* Open its timeout runs out and the next acquire_permit probes, although
\* late failures and failed probes of other tasks start the timeout afresh
\* (a permit is good for finitely many reports and Open grants none).
OpenRunsOut ==
    \A p \in Providers :
        (breakers[p].state = "Open") ~> (breakers[p].state # "Open" \/ TimeoutExpired(breakers[p]))

\* The registry implements ProbeBroadcast: a waiter's verdict is what the
\* watch slot holds while the waiter has not seen it.
RoleOf == [t \in Tasks |-> task[t].pc]
PlaceOf == [t \in Tasks |-> task[t].provider]
VerdictOf ==
    [t \in Tasks |-> IF task[t].unseen THEN probe_watch[task[t].provider] ELSE "none"]

Abstract == INSTANCE ProbeBroadcast WITH
    Nobody <- NoProvider, Callers <- Tasks,
    role <- RoleOf, at <- PlaceOf, verdict <- VerdictOf

\* Every answer acquire_permit gives after a wait is the result of a probe
\* that ended during that wait, although all waiters share one watch slot
\* that keeps its old value for later subscribers.
ImplementsBroadcast == Abstract!Broadcast

\* "Half-Open: a single probe request is allowed to test recovery"
\* (circuit_breaker.rs:6): no two requests probe a provider at a time.
SingleProbe ==
    \A t, u \in Tasks, p \in Providers : Probing(t, p) /\ Probing(u, p) => t = u
=============================================================================
