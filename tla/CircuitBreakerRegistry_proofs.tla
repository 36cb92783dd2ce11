-------------------- MODULE CircuitBreakerRegistry_proofs --------------------
(***************************************************************************)
(* Proofs about CircuitBreakerRegistry, for every set of providers, names  *)
(* and tasks, every threshold and duration and every value of the model's  *)
(* bounds.                                                                 *)
(***************************************************************************)
EXTENDS CircuitBreakerRegistry, CircuitBreaker_proofs, TLAPS

\* The invariant survives a step of AcquirePermit.
LEMMA AcquirePreserves ==
    ASSUME IndInv, NEW t \in Tasks, NEW p \in Names, AcquirePermit(t, p)
    PROVE  IndInv'
  <1> DEFINE check == CheckState(breakers[p])
             moved == TaskAt(PermitFor(check.result), p)
  <1>1. /\ p \in Providers
        /\ breakers[p] \in CircuitBreakerInner
        /\ breakers' = [breakers EXCEPT ![p] = check.inner]
        /\ task' = [task EXCEPT ![t] = moved]
        /\ probe_watch' = probe_watch
        /\ task[t].pc = "idle"
    BY DEF AcquirePermit, IndInv, TypeOK, Idle
  <1>2. /\ check.inner \in CircuitBreakerInner
        /\ check.result \in {"Allowed", "ProbePermit", "Rejected", "WaitForProbe"}
        /\ check.result \in {"Allowed", "Rejected"} =>
              check.inner = breakers[p] /\ breakers[p].state # "HalfOpen"
        /\ check.result \in {"ProbePermit", "WaitForProbe"} =>
              check.inner.state = "HalfOpen" /\ check.inner.probe_in_flight
        /\ check.result = "WaitForProbe" => breakers[p].probe_in_flight
    BY <1>1, CheckStateFacts
  <1>3. /\ moved \in [pc : TaskState, provider : Names \cup {NoProvider}, unseen : BOOLEAN]
        /\ moved.unseen = FALSE
        /\ moved.pc = "idle" => moved = IdleTask
        /\ moved.pc # "idle" => moved.provider = p
        /\ moved.pc = "idle" <=> check.result = "Rejected"
        /\ moved.pc = "normal" <=> check.result = "Allowed"
        /\ moved.pc = "probe" <=> check.result = "ProbePermit"
        /\ moved.pc = "waiting" <=> check.result = "WaitForProbe"
    BY <1>1, <1>2 DEF PermitFor, TaskAt, IdleTask, TaskState
  <1> HIDE DEF check, moved
  <1>4. TypeOK'
    BY <1>1, <1>2, <1>3 DEF IndInv, TypeOK
  <1>5. ClosedBelowThreshold'
    BY <1>1, <1>2 DEF IndInv, TypeOK, ClosedBelowThreshold
  <1>6. \A q \in Providers, u \in Tasks : Probing(u, q) => Probing(u, q)'
    BY <1>1 DEF IndInv, TypeOK, Probing
  <1>7. NoStuckProbe'
    <2> SUFFICES ASSUME NEW q \in Providers
                 PROVE  /\ breakers'[q].state = "HalfOpen" => breakers'[q].probe_in_flight
                        /\ breakers'[q].probe_in_flight => \E u \in Tasks : Probing(u, q)'
      BY DEF NoStuckProbe
    <2>1. CASE q # p \/ check.result # "ProbePermit"
      <3>1. breakers'[q].probe_in_flight => breakers[q].probe_in_flight
        BY <1>1, <1>2, <2>1 DEF IndInv, TypeOK
      <3>2. breakers'[q].state = "HalfOpen" => breakers'[q].probe_in_flight
        BY <1>1, <1>2, <2>1 DEF IndInv, TypeOK, NoStuckProbe
      <3> QED BY <3>1, <3>2, <1>6 DEF IndInv, NoStuckProbe
    <2>2. CASE q = p /\ check.result = "ProbePermit"
      <3>1. Probing(t, q)'
        BY <1>1, <1>3, <2>2 DEF IndInv, TypeOK, Probing
      <3> QED BY <3>1, <1>1, <1>2, <2>2 DEF IndInv, TypeOK
    <2> QED BY <2>1, <2>2
  <1>8. NoLostWakeup'
    <2> SUFFICES ASSUME NEW u \in Tasks, NEW q \in Providers, Waiting(u, q)'
                 PROVE  task'[u].unseen \/ \E v \in Tasks : Probing(v, q)'
      BY DEF NoLostWakeup
    <2>1. CASE u # t
      <3>1. Waiting(u, q) /\ task'[u] = task[u]
        BY <1>1, <2>1 DEF IndInv, TypeOK, Waiting
      <3> QED BY <3>1, <1>6 DEF IndInv, NoLostWakeup
    <2>2. CASE u = t
      <3>1. q = p /\ check.result = "WaitForProbe"
        BY <1>1, <1>3, <2>2 DEF IndInv, TypeOK, Waiting
      <3> QED BY <3>1, <1>2, <1>6 DEF IndInv, NoStuckProbe
    <2> QED BY <2>1, <2>2
  <1>9. NewsIsAResult'
    BY <1>1, <1>3 DEF IndInv, TypeOK, NewsIsAResult
  <1> QED BY <1>4, <1>5, <1>7, <1>8, <1>9 DEF IndInv

\* The invariant survives a step of a task that leaves the breakers and the
\* watch slots alone and does not start a probe, nor end one, nor a wait that
\* has nothing to read.
LEMMA QuietTaskPreserves ==
    ASSUME IndInv, NEW t \in Tasks, NEW s,
           s \in [pc : {"idle", "normal"}, provider : Names \cup {NoProvider}, unseen : {FALSE}],
           s.pc = "idle" => s = IdleTask,
           task[t].pc # "probe", task' = [task EXCEPT ![t] = s],
           UNCHANGED <<breakers, probe_watch>>
    PROVE  IndInv'
  <1>1. TypeOK'
    BY DEF IndInv, TypeOK, TaskState
  <1>2. ClosedBelowThreshold'
    BY DEF IndInv, ClosedBelowThreshold
  <1>3. \A q \in Providers, u \in Tasks : Probing(u, q) => Probing(u, q)'
    BY DEF IndInv, TypeOK, Probing
  <1>4. NoStuckProbe'
    BY <1>3 DEF IndInv, NoStuckProbe
  <1>5. \A q \in Providers, u \in Tasks :
            Waiting(u, q)' => Waiting(u, q) /\ task'[u] = task[u]
    BY DEF IndInv, TypeOK, Waiting
  <1>6. NoLostWakeup'
    BY <1>3, <1>5 DEF IndInv, NoLostWakeup
  <1>7. NewsIsAResult'
    BY DEF IndInv, TypeOK, NewsIsAResult
  <1> QED BY <1>1, <1>2, <1>4, <1>6, <1>7 DEF IndInv

\* The invariant survives a step of Wake: the news a waiter reads is a result,
\* so it never goes back to wait.
LEMMA WakePreserves ==
    ASSUME IndInv, NEW t \in Tasks, Wake(t)
    PROVE  IndInv'
  <1> DEFINE p == task[t].provider
             s == TaskAt(AnswerOf(probe_watch[p]), p)
  <1>1. /\ task[t].pc = "waiting" /\ task[t].unseen /\ p \in Providers /\ p \in Names
        /\ task' = [task EXCEPT ![t] = s]
        /\ UNCHANGED <<breakers, probe_watch>>
    BY NamesAssumption DEF Wake, IndInv, TypeOK
  <1>2. probe_watch[p] \in {"Success", "Failed"}
    BY <1>1 DEF IndInv, TypeOK, NewsIsAResult, ProbeResult
  <1>3. /\ s \in [pc : {"idle", "normal"}, provider : Names \cup {NoProvider}, unseen : {FALSE}]
        /\ s.pc = "idle" => s = IdleTask
    BY <1>1, <1>2 DEF AnswerOf, TaskAt, IdleTask
  <1> HIDE DEF s
  <1> QED BY <1>1, <1>3, QuietTaskPreserves

\* The invariant survives a report and the clock: only one record changes at
\* a time (or none in a way that matters), and its flag stays as it is.
LEMMA BreakerStepPreserves ==
    ASSUME IndInv, UNCHANGED <<probe_watch, task>>,
           breakers' \in [Providers -> CircuitBreakerInner],
           \A p \in Providers :
               /\ breakers'[p].state \in {breakers[p].state, "Open"}
               /\ breakers'[p].probe_in_flight = breakers[p].probe_in_flight
               /\ breakers'[p].state = "Closed" =>
                     breakers'[p].failure_count < FAILURE_THRESHOLD
    PROVE  IndInv'
  <1>1. TypeOK'
    BY DEF IndInv, TypeOK
  <1>2. ClosedBelowThreshold'
    BY DEF ClosedBelowThreshold
  <1>3. NoStuckProbe'
    BY DEF IndInv, NoStuckProbe, Probing
  <1>4. NoLostWakeup' /\ NewsIsAResult'
    BY DEF IndInv, NoLostWakeup, NewsIsAResult, Probing, Waiting
  <1> QED BY <1>1, <1>2, <1>3, <1>4 DEF IndInv

\* The instances of BreakerStepPreserves: record_success, record_failure and
\* the clock.
LEMMA ReportsAndTickPreserve ==
    ASSUME IndInv,
           \/ \E t \in Tasks : ReportSuccess(t) \/ ReportFailure(t)
           \/ Tick
    PROVE  IndInv'
  <1>1. ASSUME NEW t \in Tasks, ReportSuccess(t) PROVE IndInv'
    <2> DEFINE p == task[t].provider
    <2>1. p \in Providers /\ breakers[p] \in CircuitBreakerInner
      BY <1>1 DEF ReportSuccess, IndInv, TypeOK
    <2>2. breakers' = [breakers EXCEPT ![p] = RecordSuccess(breakers[p])]
      BY <1>1 DEF ReportSuccess
    <2>3. RecordSuccess(breakers[p]).failure_count < FAILURE_THRESHOLD
      BY <2>1, RecordSuccessFacts, ThresholdAssumption
    <2>4. \A q \in Providers :
               /\ breakers'[q].state \in {breakers[q].state, "Open"}
               /\ breakers'[q].probe_in_flight = breakers[q].probe_in_flight
               /\ breakers'[q].state = "Closed" =>
                     breakers'[q].failure_count < FAILURE_THRESHOLD
      BY <2>1, <2>2, <2>3, RecordSuccessFacts DEF IndInv, TypeOK, ClosedBelowThreshold
    <2>5. breakers' \in [Providers -> CircuitBreakerInner]
      BY <2>1, <2>2, RecordSuccessFacts DEF IndInv, TypeOK
    <2> QED BY <1>1, <2>4, <2>5, BreakerStepPreserves DEF ReportSuccess
  <1>2. ASSUME NEW t \in Tasks, ReportFailure(t) PROVE IndInv'
    <2> DEFINE p == task[t].provider
    <2>1. p \in Providers /\ breakers[p] \in CircuitBreakerInner
      BY <1>2 DEF ReportFailure, IndInv, TypeOK
    <2>2. breakers' = [breakers EXCEPT ![p] = RecordFailure(breakers[p])]
      BY <1>2 DEF ReportFailure
    <2>3. \A q \in Providers :
               /\ breakers'[q].state \in {breakers[q].state, "Open"}
               /\ breakers'[q].probe_in_flight = breakers[q].probe_in_flight
               /\ breakers'[q].state = "Closed" =>
                     breakers'[q].failure_count < FAILURE_THRESHOLD
      BY <2>1, <2>2, RecordFailureFacts DEF IndInv, TypeOK, ClosedBelowThreshold
    <2>4. breakers' \in [Providers -> CircuitBreakerInner]
      BY <2>1, <2>2, RecordFailureFacts DEF IndInv, TypeOK
    <2> QED BY <1>2, <2>3, <2>4, BreakerStepPreserves DEF ReportFailure
  <1>3. ASSUME Tick PROVE IndInv'
    <2>1. \A q \in Providers : breakers[q] \in CircuitBreakerInner
                               /\ breakers'[q] = Elapse(breakers[q])
      BY <1>3 DEF Tick, IndInv, TypeOK
    <2>2. breakers' \in [Providers -> CircuitBreakerInner]
      BY <1>3, <2>1, ElapseFacts DEF Tick
    <2> QED BY <1>3, <2>1, <2>2, ElapseFacts, BreakerStepPreserves
            DEF Tick, IndInv, ClosedBelowThreshold
  <1> QED BY <1>1, <1>2, <1>3

\* The invariant survives the end of a probe, whichever way it ends.
LEMMA EndOfProbePreserves ==
    ASSUME IndInv, NEW t \in Tasks, task[t].pc = "probe",
           NEW v \in {"Success", "Failed"}, NEW b \in CircuitBreakerInner,
           b.probe_in_flight = FALSE, b.state # "HalfOpen",
           b.state = "Closed" => b.failure_count < FAILURE_THRESHOLD,
           breakers' = [breakers EXCEPT ![task[t].provider] = b],
           SendAndLeave(t, task[t].provider, v)
    PROVE  IndInv'
  <1> DEFINE p == task[t].provider
  <1>0. p \in Providers
    BY DEF IndInv, TypeOK
  <1>1. TypeOK'
    BY <1>0, ZenonT(40) DEF IndInv, TypeOK, SendAndLeave, IdleTask, ProbeResult, TaskState, Waiting
  <1>2. ClosedBelowThreshold'
    BY <1>0 DEF IndInv, TypeOK, ClosedBelowThreshold
  <1>3. \A q \in Providers, u \in Tasks : q # p /\ Probing(u, q) => Probing(u, q)'
    BY <1>0 DEF IndInv, TypeOK, Probing, SendAndLeave, Waiting
  <1>4. NoStuckProbe'
    BY <1>0, <1>3 DEF IndInv, TypeOK, NoStuckProbe
  <1>5. \A q \in Providers, u \in Tasks :
            Waiting(u, q)' => Waiting(u, q) /\ task'[u].unseen = (q = p \/ task[u].unseen)
    BY <1>0 DEF IndInv, TypeOK, SendAndLeave, Waiting, IdleTask
  <1>6. NoLostWakeup'
    BY <1>3, <1>5 DEF IndInv, NoLostWakeup
  <1>7. NewsIsAResult'
    BY <1>0 DEF IndInv, TypeOK, NewsIsAResult, SendAndLeave, Waiting, IdleTask
  <1> QED BY <1>1, <1>2, <1>4, <1>6, <1>7 DEF IndInv
-----------------------------------------------------------------------------
\* A fresh registry satisfies the invariant.
LEMMA InitImpliesIndInv == Init => IndInv
  <1> SUFFICES ASSUME Init PROVE IndInv
    OBVIOUS
  <1>1. NewInner \in CircuitBreakerInner
    BY DEF NewInner, CircuitBreakerInner, CircuitState
  <1>2. TypeOK
    BY <1>1 DEF Init, TypeOK, IdleTask, TaskState, ProbeResult
  <1>3. ClosedBelowThreshold /\ NoStuckProbe
    BY ThresholdAssumption DEF Init, ClosedBelowThreshold, NoStuckProbe, NewInner
  <1>4. NoLostWakeup /\ NewsIsAResult
    BY DEF Init, NoLostWakeup, NewsIsAResult, IdleTask, Waiting
  <1> QED BY <1>2, <1>3, <1>4 DEF IndInv

\* Every step of the registry and its tasks preserves the invariant, one case
\* per action.
LEMMA NextPreservesIndInv == IndInv /\ [Next]_vars => IndInv'
  <1> SUFFICES ASSUME IndInv, [Next]_vars PROVE IndInv'
    OBVIOUS
  <1>1. ASSUME NEW t \in Tasks, NEW p \in Names, AcquirePermit(t, p) PROVE IndInv'
    BY <1>1, AcquirePreserves
  <1>2. ASSUME NEW t \in Tasks, NEW p \in Names, AcquireUnknown(t, p) PROVE IndInv'
    <2>1. TaskAt("normal", p) \in
              [pc : {"idle", "normal"}, provider : Names \cup {NoProvider}, unseen : {FALSE}]
          /\ TaskAt("normal", p).pc # "idle"
      BY DEF TaskAt
    <2> QED BY <1>2, <2>1, QuietTaskPreserves DEF AcquireUnknown, Idle
  <1>3. ASSUME NEW t \in Tasks, Wake(t) PROVE IndInv'
    BY <1>3, WakePreserves
  <1>4. ASSUME NEW t \in Tasks, CancelWait(t) \/ Finish(t) PROVE IndInv'
    <2>1. IdleTask \in
              [pc : {"idle", "normal"}, provider : Names \cup {NoProvider}, unseen : {FALSE}]
      BY DEF IdleTask
    <2> QED BY <1>4, <2>1, QuietTaskPreserves DEF CancelWait, Finish
  <1>5. ASSUME NEW t \in Tasks, ReportSuccess(t) \/ ReportFailure(t) PROVE IndInv'
    BY <1>5, ReportsAndTickPreserve
  <1>6. ASSUME NEW t \in Tasks, GuardSuccess(t) PROVE IndInv'
    <2>1. breakers[task[t].provider] \in CircuitBreakerInner
      BY <1>6 DEF GuardSuccess, IndInv, TypeOK
    <2> DEFINE b == RecordProbeSuccess(breakers[task[t].provider])
    <2>2. /\ b \in CircuitBreakerInner /\ b.probe_in_flight = FALSE /\ b.state = "Closed"
          /\ b.failure_count = 0
      BY <2>1, RecordProbeFacts
    <2>3. breakers' = [breakers EXCEPT ![task[t].provider] = b]
      BY <1>6 DEF GuardSuccess
    <2> HIDE DEF b
    <2>4. b.state # "HalfOpen" /\ b.failure_count < FAILURE_THRESHOLD
      BY <2>2, ThresholdAssumption
    <2> QED BY <1>6, <2>2, <2>3, <2>4, EndOfProbePreserves DEF GuardSuccess
  <1>7. ASSUME NEW t \in Tasks, GuardFailure(t) \/ GuardDrop(t) PROVE IndInv'
    <2>1. breakers[task[t].provider] \in CircuitBreakerInner
      BY <1>7 DEF GuardFailure, GuardDrop, IndInv, TypeOK
    <2> DEFINE b == RecordProbeFailure(breakers[task[t].provider])
    <2>2. b \in CircuitBreakerInner /\ b.probe_in_flight = FALSE /\ b.state = "Open"
      BY <2>1, RecordProbeFacts
    <2>3. breakers' = [breakers EXCEPT ![task[t].provider] = b]
      BY <1>7 DEF GuardFailure, GuardDrop
    <2> HIDE DEF b
    <2> QED BY <1>7, <2>2, <2>3, EndOfProbePreserves DEF GuardFailure, GuardDrop
  <1>8. CASE Tick
    BY <1>8, ReportsAndTickPreserve
  <1>9. CASE UNCHANGED vars
    BY <1>9 DEF vars, IndInv, TypeOK, ClosedBelowThreshold, NoStuckProbe, NoLostWakeup,
                NewsIsAResult, Probing, Waiting
  <1> QED BY <1>1, <1>2, <1>3, <1>4, <1>5, <1>6, <1>7, <1>8, <1>9 DEF Next

\* The inductive invariant holds in every reachable state.
THEOREM Invariance == Spec => []IndInv
  BY InitImpliesIndInv, NextPreservesIndInv, PTL DEF Spec

\* The types, for every instance.
THEOREM TypeCorrect == Spec => []TypeOK
  <1>1. IndInv => TypeOK
    BY DEF IndInv
  <1> QED BY <1>1, Invariance, PTL

\* A circuit that takes requests has fewer consecutive failures on its count
\* than trip it.
THEOREM ThresholdCorrect == Spec => []ClosedBelowThreshold
  <1>1. IndInv => ClosedBelowThreshold
    BY DEF IndInv
  <1> QED BY <1>1, Invariance, PTL

\* With every probe permit in a ProbeGuard, probe_in_flight is never stuck.
THEOREM GuardsPreventStuckProbes == Spec => []NoStuckProbe
  <1>1. IndInv => NoStuckProbe
    BY DEF IndInv
  <1> QED BY <1>1, Invariance, PTL

\* No waiter of acquire_permit misses the result it waits for.
THEOREM WakeupsAreNotLost == Spec => []NoLostWakeup
  <1>1. IndInv => NoLostWakeup
    BY DEF IndInv
  <1> QED BY <1>1, Invariance, PTL
-----------------------------------------------------------------------------
(* The refinement *)

\* In the abstract state, a task that moves alone and has nothing to read
\* afterwards changes its own role, place and verdict.
LEMMA OneTaskMoves ==
    ASSUME IndInv, NEW t \in Tasks, NEW pc, NEW place,
           task' = [task EXCEPT ![t] = [pc |-> pc, provider |-> place, unseen |-> FALSE]],
           UNCHANGED probe_watch
    PROVE  /\ RoleOf' = [RoleOf EXCEPT ![t] = pc]
           /\ PlaceOf' = [PlaceOf EXCEPT ![t] = place]
           /\ VerdictOf' = [VerdictOf EXCEPT ![t] = "none"]
  <1> DEFINE s == [pc |-> pc, provider |-> place, unseen |-> FALSE]
  <1>1. task \in [Tasks -> [pc : TaskState, provider : Names \cup {NoProvider}, unseen : BOOLEAN]]
    BY DEF IndInv, TypeOK
  <1>2. task'[t] = s /\ \A u \in Tasks \ {t} : task'[u] = task[u]
    BY <1>1
  <1>3. s.pc = pc /\ s.provider = place /\ s.unseen = FALSE
    OBVIOUS
  <1> HIDE DEF s
  <1>4. /\ RoleOf'[t] = pc /\ PlaceOf'[t] = place /\ VerdictOf'[t] = "none"
    BY <1>2, <1>3 DEF RoleOf, PlaceOf, VerdictOf
  <1>5. \A u \in Tasks \ {t} : /\ RoleOf'[u] = RoleOf[u] /\ PlaceOf'[u] = PlaceOf[u]
                               /\ VerdictOf'[u] = VerdictOf[u]
    BY <1>2 DEF RoleOf, PlaceOf, VerdictOf
  <1>6. RoleOf' = [RoleOf EXCEPT ![t] = pc]
    BY <1>4, <1>5 DEF RoleOf
  <1>7. PlaceOf' = [PlaceOf EXCEPT ![t] = place]
    BY <1>4, <1>5 DEF PlaceOf
  <1>8. VerdictOf' = [VerdictOf EXCEPT ![t] = "none"]
    BY <1>4, <1>5, ZenonT(40) DEF VerdictOf
  <1> QED BY <1>6, <1>7, <1>8

\* An idle task, and every task that is not waiting, has no verdict.
LEMMA NoVerdictUnlessWaiting ==
    ASSUME IndInv, NEW t \in Tasks, task[t].pc # "waiting"
    PROVE  VerdictOf[t] = "none" /\ VerdictOf = [VerdictOf EXCEPT ![t] = "none"]
  <1>1. task[t].unseen = FALSE
    BY DEF IndInv, TypeOK, NewsIsAResult
  <1> QED BY <1>1 DEF VerdictOf

\* The first half of acquire_permit enters, joins the waiters of a probe that
\* is under way, or leaves the abstract state as it is.
LEMMA AcquireRefines ==
    ASSUME IndInv, NEW t \in Tasks, NEW p \in Names, AcquirePermit(t, p)
    PROVE  \/ Abstract!Enter(t, p, "normal")
           \/ Abstract!Enter(t, p, "probe")
           \/ Abstract!Join(t, p)
           \/ UNCHANGED <<RoleOf, PlaceOf, VerdictOf>>
  <1> DEFINE check == CheckState(breakers[p])
             s == TaskAt(PermitFor(check.result), p)
  <1>1. /\ task[t].pc = "idle" /\ task[t] = IdleTask /\ p \in Providers
        /\ task' = [task EXCEPT ![t] = s]
        /\ UNCHANGED probe_watch
        /\ breakers[p] \in CircuitBreakerInner
    BY DEF AcquirePermit, Idle, IndInv, TypeOK, NewsIsAResult
  <1>2. RoleOf[t] = "idle" /\ PlaceOf[t] = NoProvider
    BY <1>1 DEF RoleOf, PlaceOf, IdleTask
  <1>3. VerdictOf = [VerdictOf EXCEPT ![t] = "none"]
    BY <1>1, NoVerdictUnlessWaiting
  <1>4. check.result \in {"Allowed", "ProbePermit", "Rejected", "WaitForProbe"}
    BY <1>1 DEF CheckState, TryAcquireProbe, CircuitBreakerInner, CircuitState
  <1>5. check.result = "WaitForProbe" => breakers[p].probe_in_flight
    BY <1>1 DEF CheckState, TryAcquireProbe, CircuitBreakerInner, CircuitState
  <1> HIDE DEF check
  <1>6. CASE check.result = "Allowed"
    <2>1. /\ task' = [task EXCEPT ![t] = [pc |-> "normal", provider |-> p, unseen |-> FALSE]]
          /\ UNCHANGED probe_watch
      BY <1>1, <1>6 DEF PermitFor, TaskAt
    <2>2. /\ RoleOf' = [RoleOf EXCEPT ![t] = "normal"]
          /\ PlaceOf' = [PlaceOf EXCEPT ![t] = p]
          /\ VerdictOf' = [VerdictOf EXCEPT ![t] = "none"]
      BY <2>1, OneTaskMoves
    <2> QED BY <1>2, <1>3, <2>2 DEF Abstract!Enter
  <1>7. CASE check.result = "ProbePermit"
    <2>1. /\ task' = [task EXCEPT ![t] = [pc |-> "probe", provider |-> p, unseen |-> FALSE]]
          /\ UNCHANGED probe_watch
      BY <1>1, <1>7 DEF PermitFor, TaskAt
    <2>2. /\ RoleOf' = [RoleOf EXCEPT ![t] = "probe"]
          /\ PlaceOf' = [PlaceOf EXCEPT ![t] = p]
          /\ VerdictOf' = [VerdictOf EXCEPT ![t] = "none"]
      BY <2>1, OneTaskMoves
    <2> QED BY <1>2, <1>3, <2>2 DEF Abstract!Enter
  <1>8. CASE check.result = "Rejected"
    <2>1. s = task[t]
      BY <1>1, <1>8 DEF PermitFor, TaskAt
    <2>2. task' = task
      BY <1>1, <2>1 DEF IndInv, TypeOK
    <2> QED BY <1>1, <2>2 DEF RoleOf, PlaceOf, VerdictOf
  <1>9. CASE check.result = "WaitForProbe"
    <2>1. /\ task' = [task EXCEPT ![t] = [pc |-> "waiting", provider |-> p, unseen |-> FALSE]]
          /\ UNCHANGED probe_watch
      BY <1>1, <1>9 DEF PermitFor, TaskAt
    <2>2. /\ RoleOf' = [RoleOf EXCEPT ![t] = "waiting"]
          /\ PlaceOf' = [PlaceOf EXCEPT ![t] = p]
          /\ VerdictOf' = [VerdictOf EXCEPT ![t] = "none"]
      BY <2>1, OneTaskMoves
    <2>3. \E d \in Tasks : RoleOf[d] = "probe" /\ PlaceOf[d] = p
      BY <1>1, <1>5, <1>9 DEF IndInv, NoStuckProbe, Probing, RoleOf, PlaceOf
    <2> QED BY <1>2, <1>3, <2>2, <2>3 DEF Abstract!Join, Abstract!Enter
  <1> QED BY <1>4, <1>6, <1>7, <1>8, <1>9

\* The end of a probe is the end of the abstract probe: exactly the waiters of
\* its provider have a new verdict.
LEMMA EndOfProbeRefines ==
    ASSUME IndInv, NEW t \in Tasks, task[t].pc = "probe",
           NEW v, SendAndLeave(t, task[t].provider, v)
    PROVE  Abstract!EndProbe(t, v)
  <1> DEFINE p == task[t].provider
  <1>1. /\ p \in Providers /\ task[t].unseen = FALSE
        /\ probe_watch \in [Providers -> ProbeResult]
    BY DEF IndInv, TypeOK, NewsIsAResult
  <1>2. task'[t] = IdleTask
    BY DEF SendAndLeave
  <1>3. probe_watch' = [probe_watch EXCEPT ![p] = v]
    BY DEF SendAndLeave
  <1>4. ASSUME NEW u \in Tasks \ {t}
        PROVE  /\ RoleOf'[u] = RoleOf[u] /\ PlaceOf'[u] = PlaceOf[u]
               /\ VerdictOf'[u] = IF RoleOf[u] = "waiting" /\ PlaceOf[u] = p
                                  THEN v ELSE VerdictOf[u]
    <2>1. /\ task[u].unseen \in BOOLEAN
          /\ task[u] \in [pc : TaskState, provider : Names \cup {NoProvider}, unseen : BOOLEAN]
          /\ task[u].unseen => task[u].pc = "waiting" /\ task[u].provider \in Providers
      BY DEF IndInv, TypeOK, NewsIsAResult
    <2>2. CASE Waiting(u, p)
      <3>1. task'[u] = [task[u] EXCEPT !.unseen = TRUE]
        BY <2>2 DEF SendAndLeave
      <3>2. /\ task'[u].pc = task[u].pc /\ task'[u].provider = task[u].provider
            /\ task'[u].unseen = TRUE /\ task[u].provider = p /\ task[u].pc = "waiting"
        BY <2>1, <2>2, <3>1 DEF Waiting
      <3> QED BY <1>1, <1>3, <3>2 DEF RoleOf, PlaceOf, VerdictOf
    <2>3. CASE ~Waiting(u, p)
      <3>1. task'[u] = task[u]
        BY <2>3 DEF SendAndLeave
      <3>2. task[u].unseen => probe_watch'[task[u].provider] = probe_watch[task[u].provider]
        BY <1>1, <1>3, <2>1, <2>3 DEF Waiting
      <3> QED BY <2>1, <2>3, <3>1, <3>2 DEF RoleOf, PlaceOf, VerdictOf, Waiting
    <2> QED BY <2>2, <2>3
  <1>5. /\ RoleOf[t] = "probe" /\ PlaceOf[t] = p /\ VerdictOf[t] = "none"
        /\ RoleOf'[t] = "idle" /\ PlaceOf'[t] = NoProvider /\ VerdictOf'[t] = "none"
    BY <1>1, <1>2 DEF RoleOf, PlaceOf, VerdictOf, IdleTask
  <1>6. RoleOf' = [RoleOf EXCEPT ![t] = "idle"]
    BY <1>4, <1>5 DEF RoleOf
  <1>7. PlaceOf' = [PlaceOf EXCEPT ![t] = NoProvider]
    BY <1>4, <1>5 DEF PlaceOf
  <1>8. VerdictOf' = [d \in Tasks |-> IF RoleOf[d] = "waiting" /\ PlaceOf[d] = p
                                      THEN v ELSE VerdictOf[d]]
    BY <1>4, <1>5 DEF VerdictOf
  <1> QED BY <1>5, <1>6, <1>7, <1>8 DEF Abstract!EndProbe

\* Every step of the registry is a step of the broadcast or a stutter.
LEMMA StepRefines ==
    IndInv /\ [Next]_vars => [Abstract!Step]_(Abstract!abstractVars)
  <1> SUFFICES ASSUME IndInv, [Next]_vars
               PROVE  Abstract!Step \/ UNCHANGED <<RoleOf, PlaceOf, VerdictOf>>
    BY DEF Abstract!abstractVars
  <1>1. ASSUME NEW t \in Tasks, NEW p \in Names, AcquirePermit(t, p)
        PROVE  Abstract!Step \/ UNCHANGED <<RoleOf, PlaceOf, VerdictOf>>
    BY <1>1, AcquireRefines DEF Abstract!Step
  <1>2. ASSUME NEW t \in Tasks, NEW p \in Names, AcquireUnknown(t, p)
        PROVE  Abstract!Step
    <2>1. /\ task' = [task EXCEPT ![t] = [pc |-> "normal", provider |-> p, unseen |-> FALSE]]
          /\ task[t].pc = "idle" /\ UNCHANGED probe_watch
      BY <1>2 DEF AcquireUnknown, Idle, TaskAt
    <2>2. VerdictOf = [VerdictOf EXCEPT ![t] = "none"]
      BY <2>1, NoVerdictUnlessWaiting
    <2>3. /\ RoleOf' = [RoleOf EXCEPT ![t] = "normal"]
          /\ PlaceOf' = [PlaceOf EXCEPT ![t] = p]
          /\ VerdictOf' = [VerdictOf EXCEPT ![t] = "none"]
      BY <2>1, OneTaskMoves
    <2>4. RoleOf[t] = "idle"
      BY <2>1 DEF RoleOf
    <2> QED BY <2>2, <2>3, <2>4 DEF Abstract!Step, Abstract!Enter
  <1>3. ASSUME NEW t \in Tasks, Wake(t)
        PROVE  Abstract!Step
    <2> DEFINE p == task[t].provider
               s == TaskAt(AnswerOf(probe_watch[p]), p)
    <2>1. /\ task[t].pc = "waiting" /\ task[t].unseen
          /\ task' = [task EXCEPT ![t] = s] /\ UNCHANGED probe_watch
      BY <1>3 DEF Wake
    <2>2. RoleOf[t] = "waiting" /\ PlaceOf[t] = p /\ VerdictOf[t] = probe_watch[p]
      BY <2>1 DEF RoleOf, PlaceOf, VerdictOf
    <2>4. CASE probe_watch[p] = "Success"
      <3>1. s = [pc |-> "normal", provider |-> p, unseen |-> FALSE]
        BY <2>4 DEF AnswerOf, TaskAt
      <3>2. /\ RoleOf' = [RoleOf EXCEPT ![t] = "normal"]
            /\ PlaceOf' = [PlaceOf EXCEPT ![t] = p]
            /\ VerdictOf' = [VerdictOf EXCEPT ![t] = "none"]
        BY <2>1, <3>1, OneTaskMoves, ZenonT(40)
      <3>3. PlaceOf' = PlaceOf
        BY <2>2, <3>2 DEF PlaceOf
      <3> QED BY <2>2, <2>4, <3>2, <3>3 DEF Abstract!Step, Abstract!GoOn
    <2>5. CASE probe_watch[p] = "Failed"
      <3>1. s = [pc |-> "idle", provider |-> NoProvider, unseen |-> FALSE]
        BY <2>5 DEF AnswerOf, TaskAt, IdleTask
      <3>2. /\ RoleOf' = [RoleOf EXCEPT ![t] = "idle"]
            /\ PlaceOf' = [PlaceOf EXCEPT ![t] = NoProvider]
            /\ VerdictOf' = [VerdictOf EXCEPT ![t] = "none"]
        BY <2>1, <3>1, OneTaskMoves, ZenonT(40)
      <3> QED BY <2>2, <3>2 DEF Abstract!Step, Abstract!Leave
    <2>6. probe_watch[p] \in {"Success", "Failed"}
      BY <2>1 DEF IndInv, TypeOK, NewsIsAResult, ProbeResult
    <2> QED BY <2>4, <2>5, <2>6
  <1>4. ASSUME NEW t \in Tasks, CancelWait(t) \/ Finish(t)
        PROVE  Abstract!Step
    <2>1. /\ task[t].pc \in {"waiting", "normal"}
          /\ task' = [task EXCEPT ![t] = IdleTask] /\ UNCHANGED probe_watch
      BY <1>4 DEF CancelWait, Finish
    <2>2. /\ RoleOf' = [RoleOf EXCEPT ![t] = "idle"]
          /\ PlaceOf' = [PlaceOf EXCEPT ![t] = NoProvider]
          /\ VerdictOf' = [VerdictOf EXCEPT ![t] = "none"]
      BY <2>1, OneTaskMoves DEF IdleTask
    <2>3. RoleOf[t] \in {"waiting", "normal"}
      BY <2>1 DEF RoleOf
    <2> QED BY <2>2, <2>3 DEF Abstract!Step, Abstract!Leave
  <1>5. ASSUME NEW t \in Tasks, GuardSuccess(t)
        PROVE  Abstract!Step
    BY <1>5, EndOfProbeRefines DEF GuardSuccess, Abstract!Step
  <1>6. ASSUME NEW t \in Tasks, GuardFailure(t)
        PROVE  Abstract!Step
    BY <1>6, EndOfProbeRefines DEF GuardFailure, Abstract!Step
  <1>7. ASSUME NEW t \in Tasks, ReportSuccess(t) \/ ReportFailure(t)
        PROVE  UNCHANGED <<RoleOf, PlaceOf, VerdictOf>>
    BY <1>7 DEF ReportSuccess, ReportFailure, RoleOf, PlaceOf, VerdictOf
  <1>8. CASE Tick
    BY <1>8 DEF Tick, RoleOf, PlaceOf, VerdictOf
  <1>9. CASE UNCHANGED vars
    BY <1>9 DEF vars, RoleOf, PlaceOf, VerdictOf
  <1> QED BY <1>1, <1>2, <1>3, <1>4, <1>5, <1>6, <1>7, <1>8, <1>9 DEF Next, GuardDrop

\* The registry implements the broadcast of probe results: a waiter's answer
\* is the result of a probe that ended during its wait, although all waiters
\* of a provider share one watch slot.
THEOREM RegistryImplementsBroadcast == Spec => ImplementsBroadcast
  <1>1. Init => Abstract!Start
    BY DEF Init, Abstract!Start, RoleOf, PlaceOf, VerdictOf, IdleTask
  <1> QED BY <1>1, StepRefines, Invariance, PTL DEF Spec, ImplementsBroadcast, Abstract!Broadcast
=============================================================================
