------------------------- MODULE ChatRequest_proofs -------------------------
(***************************************************************************)
(* Proofs about ChatRequest, for every set of providers and requests,      *)
(* every routing of them, every number of retries and every threshold and  *)
(* duration of the breakers, with and without a vault.                     *)
(***************************************************************************)
EXTENDS ChatRequest, CircuitBreaker_proofs, SequenceTheorems

\* A new request.
LEMMA NewRequestFacts == NewRequest \in Request /\ Consistent(NewRequest)
  BY RetriesAssumption, EmptySeq DEF NewRequest, Request, Consistent, Tiers

\* A request that is woken has something to read, and is otherwise the same.
LEMMA WokenFacts ==
    ASSUME NEW q \in Request, NEW p
    PROVE  /\ Woken(q, p) \in Request
           /\ Consistent(q) => Consistent(Woken(q, p))
           /\ Woken(q, p).pc = q.pc /\ Woken(q, p).probe = q.probe
           /\ Woken(q, p).guarded = q.guarded /\ Woken(q, p).next = q.next
           /\ Woken(q, p).filtered = q.filtered
           /\ Due(Woken(q, p)) = Due(q) /\ DueSoFar(Woken(q, p)) = DueSoFar(q)
  <1>1. CASE Woken(q, p) = q
    BY <1>1
  <1>2. CASE Woken(q, p) = [q EXCEPT !.unseen = TRUE]
    BY <1>2, ZenonT(40) DEF Request, Consistent, Due, DueSoFar
  <1> QED BY <1>1, <1>2 DEF Woken

\* A request and its account: what has been spawned for it and logged of it.
Accounted(q, b, n) ==
    /\ b = IF q.pc = "done" THEN Due(q) ELSE DueSoFar(q)
    /\ n = IF q.pc = "done" THEN 1 ELSE 0

\* What the invariant says of one request.
LEMMA AccountsOf ==
    ASSUME IndInv, NEW r \in Requests
    PROVE  req[r] \in Request /\ Consistent(req[r]) /\ Accounted(req[r], billing[r], logged[r])
  BY DEF IndInv, TypeOK, Accounted, At, BilledSoFar, BilledByOutcome, LoggedOnce

\* Request r becomes q; the others stay as they are, or those that wait for p
\* are woken.
Moves(r, q, p) ==
    \/ req' = [req EXCEPT ![r] = q]
    \/ req' = [u \in Requests |-> IF u = r THEN q ELSE Woken(req[u], p)]

\* The step of one request.
LEMMA RequestMoves ==
    ASSUME IndInv, NEW r \in Requests, NEW p, NEW q \in Request, Consistent(q),
           NEW b \in SUBSET {"settle", "release", "stream"}, NEW n \in Nat, Accounted(q, b, n),
           Moves(r, q, p),
           billing' = [billing EXCEPT ![r] = b], logged' = [logged EXCEPT ![r] = n],
           breakers' \in [Providers -> CircuitBreakerInner],
           probe_watch' \in [Providers -> ProbeResult]
    PROVE  IndInv'
  <1>1. req' \in [Requests -> Request]
    BY WokenFacts DEF Moves, IndInv, TypeOK
  <1>2. req'[r] = q
    BY DEF Moves, IndInv, TypeOK
  <1>3. \A u \in Requests : u # r => req'[u] = req[u] \/ req'[u] = Woken(req[u], p)
    BY DEF Moves, IndInv, TypeOK
  <1>4. \A u \in Requests : u # r => /\ Consistent(req'[u])
                                     /\ Accounted(req'[u], billing[u], logged[u])
    BY <1>3, WokenFacts, AccountsOf DEF Accounted
  <1>5. \A u \in Requests : /\ Consistent(req'[u])
                            /\ Accounted(req'[u], billing'[u], logged'[u])
    BY <1>2, <1>4 DEF IndInv, TypeOK
  <1>6. TypeOK'
    BY <1>1 DEF IndInv, TypeOK
  <1> QED BY <1>5, <1>6 DEF IndInv, At, BilledSoFar, BilledByOutcome, LoggedOnce, Accounted

\* A step that spawns and logs nothing.
LEMMA QuietMove ==
    ASSUME IndInv, NEW r \in Requests, NEW p, NEW q \in Request, Consistent(q),
           req[r].pc # "done", q.pc # "done", DueSoFar(q) = DueSoFar(req[r]),
           Moves(r, q, p),
           billing' = billing, logged' = logged,
           breakers' \in [Providers -> CircuitBreakerInner],
           probe_watch' \in [Providers -> ProbeResult]
    PROVE  IndInv'
  <1>1. Accounted(req[r], billing[r], logged[r])
    BY AccountsOf
  <1>2. Accounted(q, billing[r], logged[r])
    BY <1>1 DEF Accounted
  <1>3. /\ billing[r] \in SUBSET {"settle", "release", "stream"} /\ logged[r] \in Nat
        /\ billing' = [billing EXCEPT ![r] = billing[r]]
        /\ logged' = [logged EXCEPT ![r] = logged[r]]
    BY DEF IndInv, TypeOK
  <1> QED BY <1>2, <1>3, RequestMoves

\* An early return before anything was reserved.
LEMMA RespondPreserves ==
    ASSUME IndInv, NEW r \in Requests, Respond(r), ~req[r].reserved, req[r].pc # "done",
           ~req[r].guarded
    PROVE  IndInv'
  <1> DEFINE q == [req[r] EXCEPT !.pc = "done"]
  <1>1. req[r] \in Request /\ Consistent(req[r]) /\ Accounted(req[r], billing[r], logged[r])
    BY AccountsOf
  <1>2. q \in Request
    BY <1>1 DEF Request
  <1>3. Consistent(q)
    BY <1>1 DEF Request, Consistent
  <1>4. billing[r] = {} /\ logged[r] = 0
    BY <1>1 DEF Accounted, DueSoFar
  <1>5. Accounted(q, {}, 1)
    BY <1>1 DEF Accounted, Due, Request
  <1>6. /\ req' = [req EXCEPT ![r] = q]
        /\ logged' = [logged EXCEPT ![r] = 1]
        /\ billing' = [billing EXCEPT ![r] = {}]
        /\ breakers' \in [Providers -> CircuitBreakerInner]
        /\ probe_watch' \in [Providers -> ProbeResult]
    BY <1>4 DEF Respond, IndInv, TypeOK
  <1> HIDE DEF q
  <1> QED BY <1>2, <1>3, <1>5, <1>6, RequestMoves DEF Moves

\* resolve_candidates, but for the permits.
LEMMA ResolvePreserves ==
    ASSUME IndInv, NEW r \in Requests,
           Begin(r) \/ RoutingError(r) \/ Escalate(r) \/ GiveUp(r)
    PROVE  IndInv'
  <1>1. req[r] \in Request /\ Consistent(req[r])
    BY AccountsOf
  <1>2. CASE Begin(r)
    <2>1. PICK tier \in InitialTiers, streaming \in BOOLEAN :
             req' = [req EXCEPT ![r].pc = "resolve", ![r].tier = tier, ![r].streaming = streaming]
      BY <1>2 DEF Begin
    <2> DEFINE q == [req[r] EXCEPT !.pc = "resolve", !.tier = tier, !.streaming = streaming]
    <2>2. q \in Request
      BY <1>1, TiersAssumption DEF Request
    <2>3. Consistent(q) /\ DueSoFar(q) = DueSoFar(req[r]) /\ q.pc # "done"
      BY <1>1, <1>2 DEF Begin, At, Request, Consistent, DueSoFar
    <2>4. req' = [req EXCEPT ![r] = q]
      BY <2>1 DEF IndInv, TypeOK
    <2> HIDE DEF q
    <2> QED BY <1>2, <2>2, <2>3, <2>4, QuietMove DEF Moves, Begin, At, IndInv, TypeOK
  <1>3. CASE RoutingError(r) \/ GiveUp(r)
    BY <1>1, <1>3, RespondPreserves DEF RoutingError, GiveUp, NoneAvailable, At, Consistent
  <1>4. CASE Escalate(r)
    <2> DEFINE q == [req[r] EXCEPT !.tier = @ + 1, !.next = 1, !.probe = NoProvider]
    <2>1. q \in Request
      <3>1. req[r].tier + 1 \in Tiers /\ 1 \in Nat \ {0}
        BY <1>1, <1>4 DEF Escalate, Request, Tiers
      <3> QED BY <1>1, <3>1 DEF Request
    <2>2. Consistent(q) /\ DueSoFar(q) = DueSoFar(req[r]) /\ q.pc # "done"
      BY <1>1, <1>4 DEF Escalate, NoneAvailable, At, Request, Consistent, DueSoFar
    <2>3. req' = [req EXCEPT ![r] = q]
      BY <1>4 DEF Escalate, IndInv, TypeOK
    <2> HIDE DEF q
    <2> QED BY <1>4, <2>1, <2>2, <2>3, QuietMove DEF Moves, Escalate, NoneAvailable, At, IndInv, TypeOK
  <1> QED BY <1>2, <1>3, <1>4

\* What a permit does to a request that asked for one.
LEMMA WithPermitFacts ==
    ASSUME NEW q \in Request, Consistent(q), q.pc \in {"resolve", "waiting"},
           NEW p \in Providers, NEW permit \in {"Normal", "Probe", "Open", "Wait"},
           permit = "Wait" => q.next <= Len(CandidatesAt[q.tier])
    PROVE  /\ WithPermit(q, p, permit) \in Request
           /\ Consistent(WithPermit(q, p, permit))
           /\ DueSoFar(WithPermit(q, p, permit)) = DueSoFar(q)
           /\ WithPermit(q, p, permit).pc \in {"resolve", "waiting"}
           /\ WithPermit(q, p, permit).guarded = q.guarded
           /\ permit \in {"Normal", "Open", "Wait"} => WithPermit(q, p, permit).probe = q.probe
           /\ permit = "Probe" => /\ WithPermit(q, p, permit).probe = p
           /\ permit = "Wait" => /\ WithPermit(q, p, permit).next = q.next
                                 /\ WithPermit(q, p, permit).filtered = q.filtered
           /\ permit # "Wait" => WithPermit(q, p, permit).next = q.next + 1
  <1> DEFINE w == WithPermit(q, p, permit)
  <1>0. q.filtered \in Seq(Providers) /\ q.next \in Nat \ {0} /\ q.next + 1 \in Nat \ {0}
    BY DEF Request
  <1>1. CASE permit = "Normal"
    <2>1. w = [q EXCEPT !.pc = "resolve", !.next = q.next + 1, !.unseen = FALSE,
                        !.filtered = Append(q.filtered, p)]
      BY <1>1 DEF WithPermit
    <2>2. /\ Append(q.filtered, p) \in Seq(Providers) /\ Append(q.filtered, p) # << >>
          /\ q.filtered # << >> => Append(q.filtered, p)[1] = q.filtered[1]
      BY <1>0, AppendProperties, EmptySeq
    <2>3. w \in Request
      BY <1>0, <2>1, <2>2 DEF Request
    <2>4. /\ w.pc = "resolve" /\ w.next = q.next + 1 /\ w.filtered = Append(q.filtered, p)
          /\ w.probe = q.probe /\ w.guarded = q.guarded /\ w.reserved = q.reserved
          /\ w.tried = q.tried /\ w.winner = q.winner /\ w.timedOut = q.timedOut
          /\ w.streaming = q.streaming
      BY <2>1 DEF Request
    <2> QED BY <1>1, <2>2, <2>3, <2>4 DEF Consistent, DueSoFar
  <1>2. CASE permit = "Probe"
    <2>1. w = [q EXCEPT !.pc = "resolve", !.next = q.next + 1, !.unseen = FALSE,
                        !.filtered = <<p>> \o q.filtered, !.probe = p]
      BY <1>2 DEF WithPermit
    <2>2. /\ <<p>> \o q.filtered \in Seq(Providers) /\ <<p>> \o q.filtered # << >>
          /\ (<<p>> \o q.filtered)[1] = p
      BY <1>0
    <2>3. w \in Request
      BY <1>0, <2>1, <2>2 DEF Request
    <2> QED BY <1>2, <2>1, <2>2, <2>3, ZenonT(40) DEF Request, Consistent, DueSoFar
  <1>3. CASE permit = "Open"
    <2>1. w = [q EXCEPT !.pc = "resolve", !.next = q.next + 1, !.unseen = FALSE]
      BY <1>3 DEF WithPermit
    <2>2. w \in Request
      BY <1>0, <2>1 DEF Request
    <2> QED BY <1>3, <2>1, <2>2 DEF Request, Consistent, DueSoFar
  <1>4. CASE permit = "Wait"
    <2>1. w = [q EXCEPT !.pc = "waiting", !.unseen = FALSE]
      BY <1>4 DEF WithPermit
    <2>2. w \in Request
      BY <1>0, <2>1 DEF Request
    <2> QED BY <1>4, <2>1, <2>2 DEF Request, Consistent, DueSoFar
  <1> QED BY <1>1, <1>2, <1>3, <1>4

\* The candidate a request asks for is a provider.
LEMMA CandidateFacts ==
    ASSUME NEW q \in Request, q.next <= Len(CandidatesAt[q.tier])
    PROVE  CandidatesAt[q.tier][q.next] \in Providers
  <1>1. CandidatesAt[q.tier] \in Seq(Providers) /\ q.next \in 1..Len(CandidatesAt[q.tier])
    BY CandidatesAssumption DEF Request
  <1> QED BY <1>1, ElementOfSeq

\* acquire_permit, at once or after the verdict on another's probe.
LEMMA PermitsPreserve ==
    ASSUME IndInv, NEW r \in Requests, AskPermit(r) \/ ProbeVerdict(r)
    PROVE  IndInv'
  <1> DEFINE p == Candidates(r)[req[r].next]
             check == CheckState(breakers[p])
  <1>1. req[r] \in Request /\ Consistent(req[r])
    BY AccountsOf
  <1>2. CASE AskPermit(r)
    <2>1. /\ req[r].pc = "resolve" /\ req[r].next <= Len(CandidatesAt[req[r].tier])
          /\ p = CandidatesAt[req[r].tier][req[r].next]
          /\ breakers' = [breakers EXCEPT ![p] = check.inner]
          /\ req' = [req EXCEPT ![r] = WithPermit(req[r], p, PermitOf(check.result))]
          /\ UNCHANGED <<probe_watch, billing, logged>>
      <3>1. Len(CandidatesAt[req[r].tier]) \in Nat /\ req[r].next \in Nat
        BY <1>1, CandidatesAssumption, LenProperties DEF Request
      <3> QED BY <1>2, <3>1 DEF AskPermit, AllAsked, Candidates, At, IndInv, TypeOK
    <2>2. p \in Providers
      BY <1>1, <2>1, CandidateFacts
    <2>3. /\ check.inner \in CircuitBreakerInner
          /\ check.result \in {"Allowed", "ProbePermit", "Rejected", "WaitForProbe"}
      BY <2>2, CheckStateFacts DEF IndInv, TypeOK
    <2>4. PermitOf(check.result) \in {"Normal", "Probe", "Open", "Wait"}
      BY <2>3 DEF PermitOf
    <2>5. breakers' \in [Providers -> CircuitBreakerInner] /\ probe_watch' \in [Providers -> ProbeResult]
      BY <2>1, <2>3 DEF IndInv, TypeOK
    <2> DEFINE w == WithPermit(req[r], p, PermitOf(check.result))
    <2>6. /\ w \in Request /\ Consistent(w) /\ DueSoFar(w) = DueSoFar(req[r])
          /\ w.pc \in {"resolve", "waiting"}
      BY <1>1, <2>1, <2>2, <2>4, WithPermitFacts
    <2>7. Moves(r, w, p)
      BY <2>1 DEF Moves
    <2> HIDE DEF p, w
    <2> QED BY <2>1, <2>5, <2>6, <2>7, QuietMove
  <1>3. CASE ProbeVerdict(r)
    <2> DEFINE permit == IF probe_watch[p] = "Success" THEN "Normal" ELSE "Open"
    <2>1. /\ req[r].pc = "waiting" /\ p = CandidatesAt[req[r].tier][req[r].next]
          /\ req' = [req EXCEPT ![r] = WithPermit(req[r], p, permit)]
          /\ UNCHANGED <<breakers, probe_watch, billing, logged>>
      BY <1>3 DEF ProbeVerdict, Candidates, At, IndInv, TypeOK
    <2>2. p \in Providers
      BY <1>1, <2>1, CandidateFacts DEF Consistent
    <2>3. permit \in {"Normal", "Probe", "Open", "Wait"} /\ permit # "Wait"
      OBVIOUS
    <2>4. breakers' \in [Providers -> CircuitBreakerInner] /\ probe_watch' \in [Providers -> ProbeResult]
      BY <2>1 DEF IndInv, TypeOK
    <2> DEFINE w == WithPermit(req[r], p, permit)
    <2>5. /\ w \in Request /\ Consistent(w) /\ DueSoFar(w) = DueSoFar(req[r])
          /\ w.pc \in {"resolve", "waiting"}
      BY <1>1, <2>1, <2>2, <2>3, WithPermitFacts
    <2>6. Moves(r, w, p)
      BY <2>1 DEF Moves
    <2> HIDE DEF p, w
    <2> QED BY <2>1, <2>4, <2>5, <2>6, QuietMove
  <1> QED BY <1>2, <1>3

\* The paths to the provider begin with the guard of the probe, if there is one.
LEMMA ToProviderFacts ==
    ASSUME NEW q \in Request, Consistent(q), q.pc \in {"resolve", "vault"}, q.filtered # << >>,
           NEW reserved \in BOOLEAN
    PROVE  LET w == ToProvider([q EXCEPT !.reserved = reserved])
           IN  /\ w \in Request /\ Consistent(w) /\ w.pc = "send"
               /\ DueSoFar(w) = {} /\ DueSoFar(q) = {}
               /\ w.probe = q.probe /\ w.guarded = (q.probe # NoProvider)
  <1> DEFINE w == ToProvider([q EXCEPT !.reserved = reserved])
  <1>1. w = [q EXCEPT !.reserved = reserved, !.pc = "send", !.guarded = q.probe # NoProvider]
    BY DEF ToProvider, Request
  <1>2. w \in Request
    BY <1>1 DEF Request
  <1>3. /\ w.pc = "send" /\ w.guarded = (q.probe # NoProvider) /\ w.reserved = reserved
        /\ w.next = q.next /\ w.tier = q.tier /\ w.filtered = q.filtered
        /\ w.probe = q.probe /\ w.tried = q.tried /\ w.winner = q.winner
        /\ w.timedOut = q.timedOut /\ w.streaming = q.streaming
    BY <1>1 DEF Request
  <1>4. /\ q.tried = 0 /\ q.winner = NoProvider /\ ~q.timedOut /\ ~q.reserved
        /\ q.probe # NoProvider => q.filtered # << >> /\ q.filtered[1] = q.probe
    BY DEF Consistent
  <1>5. Consistent(w)
    <2>1. w.tried <= MAX_RETRIES
      BY <1>3, <1>4, RetriesAssumption
    <2>2. w.guarded => w.probe # NoProvider
      BY <1>3
    <2> HIDE DEF w
    <2> QED BY <1>3, <1>4, <2>1, <2>2 DEF Consistent
  <1>6. DueSoFar(w) = {} /\ DueSoFar(q) = {}
    BY <1>3, <1>4 DEF DueSoFar
  <1> QED BY <1>2, <1>3, <1>5, <1>6

\* From the candidates to the provider, through the vault if there is one.
LEMMA DepartPreserves ==
    ASSUME IndInv, NEW r \in Requests, Resolved(r) \/ Refused(r) \/ Reserved(r)
    PROVE  IndInv'
  <1>1. req[r] \in Request /\ Consistent(req[r]) /\ req \in [Requests -> Request]
    BY AccountsOf DEF IndInv, TypeOK
  <1>2. breakers \in [Providers -> CircuitBreakerInner] /\ probe_watch \in [Providers -> ProbeResult]
    BY DEF IndInv, TypeOK
  <1>3. CASE Refused(r)
    BY <1>1, <1>3, RespondPreserves DEF Refused, At, Consistent
  <1>4. CASE Resolved(r) /\ HasVault
    <2> DEFINE q == [req[r] EXCEPT !.pc = "vault"]
    <2>1. q \in Request
      BY <1>1 DEF Request
    <2>2. Consistent(q) /\ DueSoFar(q) = DueSoFar(req[r]) /\ q.pc # "done"
      BY <1>1, <1>4 DEF Resolved, At, Request, Consistent, DueSoFar
    <2>3. req' = [req EXCEPT ![r] = q]
      BY <1>1, <1>4 DEF Resolved
    <2> HIDE DEF q
    <2> QED BY <1>2, <1>4, <2>1, <2>2, <2>3, QuietMove DEF Moves, Resolved, At
  <1>5. CASE (Resolved(r) /\ ~HasVault) \/ Reserved(r)
    <2>1. req[r].pc \in {"resolve", "vault"} /\ req[r].filtered # << >>
      BY <1>1, <1>5 DEF Resolved, Reserved, At, Consistent
    <2>2. PICK reserved \in BOOLEAN :
             req' = [req EXCEPT ![r] = ToProvider([req[r] EXCEPT !.reserved = reserved])]
      <3>1. CASE Reserved(r)
        BY <1>1, <3>1 DEF Reserved
      <3>2. CASE Resolved(r) /\ ~HasVault
        <4>1. req[r] = [req[r] EXCEPT !.reserved = req[r].reserved] /\ req[r].reserved \in BOOLEAN
          BY <1>1 DEF Request
        <4>2. req' = [req EXCEPT ![r] = ToProvider(req[r])]
          BY <1>1, <3>2 DEF Resolved
        <4> QED BY <4>1, <4>2
      <3> QED BY <1>5, <3>1, <3>2
    <2> DEFINE w == ToProvider([req[r] EXCEPT !.reserved = reserved])
    <2>3. /\ w \in Request /\ Consistent(w) /\ w.pc = "send"
          /\ DueSoFar(w) = DueSoFar(req[r])
      BY <1>1, <2>1, ToProviderFacts
    <2>4. Moves(r, w, NoProvider)
      BY <2>2 DEF Moves
    <2>5. UNCHANGED <<breakers, probe_watch, billing, logged>>
      BY <1>5 DEF Resolved, Reserved
    <2> HIDE DEF w
    <2> QED BY <1>2, <2>1, <2>3, <2>4, <2>5, QuietMove
  <1> QED BY <1>3, <1>4, <1>5

\* The provider an attempt goes to is one of the candidates.
LEMMA TargetFacts ==
    ASSUME IndInv, NEW r \in Requests, At(r, "send")
    PROVE  Target(r) \in Providers
  <1>1. req[r] \in Request /\ Consistent(req[r])
    BY AccountsOf
  <1>2. /\ req[r].filtered \in Seq(Providers) /\ req[r].filtered # << >>
        /\ req[r].tried \in Nat /\ Len(req[r].filtered) \in Nat
    BY <1>1, RetriesAssumption, LenProperties DEF At, Consistent, Request
  <1>3. 1 \in 1..Len(req[r].filtered)
    BY <1>2, EmptySeq
  <1>4. req[r].tried > MAX_RETRIES => 2 \in 1..Len(req[r].filtered)
    BY <1>1, <1>2, RetriesAssumption DEF At, Consistent
  <1> QED BY <1>2, <1>3, <1>4, ElementOfSeq, RetriesAssumption DEF Target

\* The attempts on the providers.
LEMMA SendPreserves ==
    ASSUME IndInv, NEW r \in Requests, SendOk(r) \/ SendFails(r) \/ DeadlinePasses(r)
    PROVE  IndInv'
  <1>1. /\ req[r] \in Request /\ Consistent(req[r]) /\ req \in [Requests -> Request]
        /\ Accounted(req[r], billing[r], logged[r])
    BY AccountsOf DEF IndInv, TypeOK
  <1>2. /\ breakers \in [Providers -> CircuitBreakerInner] /\ probe_watch \in [Providers -> ProbeResult]
        /\ billing \in [Requests -> SUBSET {"settle", "release", "stream"}]
        /\ logged \in [Requests -> Nat]
    BY DEF IndInv, TypeOK
  <1>3. At(r, "send") /\ Target(r) \in Providers /\ UNCHANGED <<breakers, probe_watch, logged>>
    BY TargetFacts DEF SendOk, SendFails, DeadlinePasses
  <1>4. /\ req[r].winner = NoProvider /\ ~req[r].timedOut /\ req[r].tried \in Nat
        /\ req[r].filtered \in Seq(Providers) /\ Len(req[r].filtered) \in Nat
        /\ req[r].filtered # << >>
        /\ \/ req[r].tried <= MAX_RETRIES
           \/ req[r].tried = MAX_RETRIES + 1 /\ Len(req[r].filtered) >= 2
    BY <1>1, <1>3, RetriesAssumption, LenProperties DEF At, Consistent, Request
  <1>5. CASE SendOk(r)
    <2> DEFINE q == [req[r] EXCEPT !.pc = "report", !.winner = Target(r)]
               b == DueSoFar(q)
    <2>1. q \in Request
      BY <1>1, <1>3 DEF Request
    <2>2. /\ q.pc = "report" /\ q.winner = Target(r) /\ q.timedOut = req[r].timedOut
          /\ q.filtered = req[r].filtered /\ q.probe = req[r].probe /\ q.guarded = req[r].guarded
          /\ q.reserved = req[r].reserved /\ q.streaming = req[r].streaming
      BY <1>1 DEF Request
    <2>3. Consistent(q)
      BY <1>1, <1>3, <1>4, <2>2 DEF At, Consistent
    <2>4. billing[r] = {} /\ logged[r] = 0
      BY <1>1, <1>3, <1>4 DEF Accounted, At, DueSoFar
    <2>5. req' = [req EXCEPT ![r] = q]
      BY <1>1, <1>5 DEF SendOk
    <2> HIDE DEF q
    <2>6. b = IF req[r].streaming /\ req[r].reserved THEN {"stream"} ELSE {}
      BY <1>3, <2>2, ProviderAssumption DEF DueSoFar
    <2>7. billing' = [billing EXCEPT ![r] = b]
      BY <1>2, <1>5, <2>4, <2>6 DEF SendOk
    <2>8. logged' = [logged EXCEPT ![r] = 0]
      BY <1>2, <1>3, <2>4
    <2>9. Accounted(q, b, 0) /\ b \in SUBSET {"settle", "release", "stream"}
      BY <2>2, <2>6 DEF Accounted
    <2> HIDE DEF b
    <2> QED BY <1>2, <1>3, <2>1, <2>3, <2>5, <2>7, <2>8, <2>9, RequestMoves DEF Moves
  <1>6. CASE SendFails(r)
    <2>1. PICK status \in Statuses :
             req' = [req EXCEPT
                       ![r].pc = IF LastAttempt(r, status) THEN "report" ELSE "send",
                       ![r].attempts = Append(@, [provider |-> Target(r), status |-> status]),
                       ![r].tried = @ + 1]
      BY <1>6 DEF SendFails
    <2> DEFINE pc == IF LastAttempt(r, status) THEN "report" ELSE "send"
               log == Append(req[r].attempts, [provider |-> Target(r), status |-> status])
               q == [req[r] EXCEPT !.pc = pc, !.attempts = log, !.tried = @ + 1]
    <2>2. log \in Seq([provider : Providers, status : Statuses])
      <3>1. [provider |-> Target(r), status |-> status] \in [provider : Providers, status : Statuses]
        BY <1>3
      <3>2. req[r].attempts \in Seq([provider : Providers, status : Statuses])
        BY <1>1 DEF Request
      <3> QED BY <3>1, <3>2, AppendProperties
    <2>3. req[r].tried + 1 \in 0..(MAX_RETRIES + 2)
      BY <1>4, RetriesAssumption
    <2>4. pc \in {"send", "report"}
      OBVIOUS
    <2>5. pc = "send" => \/ req[r].tried + 1 <= MAX_RETRIES
                         \/ req[r].tried + 1 = MAX_RETRIES + 1 /\ Len(req[r].filtered) >= 2
      <3>1. Len(req[r].filtered) >= 1
        BY <1>4, EmptySeq
      <3>2. pc = "send" => ~LastAttempt(r, status)
        OBVIOUS
      <3>3. ~LastAttempt(r, status) =>
               ~ /\ req[r].tried >= MAX_RETRIES
                 /\ req[r].tried > MAX_RETRIES \/ Len(req[r].filtered) = 1
        BY Zenon DEF LastAttempt
      <3> SUFFICES ASSUME pc = "send"
                   PROVE  \/ req[r].tried + 1 <= MAX_RETRIES
                          \/ req[r].tried + 1 = MAX_RETRIES + 1 /\ Len(req[r].filtered) >= 2
        OBVIOUS
      <3> HIDE DEF pc
      <3>4. CASE req[r].tried < MAX_RETRIES
        BY <1>4, <3>4, RetriesAssumption
      <3>5. CASE req[r].tried >= MAX_RETRIES
        <4>1. ~(req[r].tried > MAX_RETRIES) /\ Len(req[r].filtered) # 1
          BY <3>2, <3>3, <3>5, Zenon
        <4>2. req[r].tried + 1 = MAX_RETRIES + 1
          BY <1>4, <3>5, <4>1, RetriesAssumption
        <4> DEFINE n == Len(req[r].filtered)
        <4>3. n \in Nat /\ n >= 1 /\ n # 1
          BY <1>4, <3>1, <4>1
        <4> HIDE DEF n
        <4>4. n >= 2
          BY <4>3
        <4> QED BY <4>2, <4>4 DEF n
      <3> QED BY <1>4, <3>4, <3>5, RetriesAssumption
    <2>6. req' = [req EXCEPT ![r] = q]
      BY <1>1, <2>1
    <2> HIDE DEF log, pc
    <2>7. q \in Request
      BY <1>1, <2>2, <2>3, <2>4 DEF Request
    <2>8. /\ q.pc = pc /\ q.winner = req[r].winner /\ q.timedOut = req[r].timedOut
          /\ q.filtered = req[r].filtered /\ q.probe = req[r].probe /\ q.guarded = req[r].guarded
          /\ q.reserved = req[r].reserved /\ q.streaming = req[r].streaming
          /\ q.tried = req[r].tried + 1
      BY <1>1 DEF Request
    <2> HIDE DEF q
    <2>9. Consistent(q) /\ DueSoFar(q) = DueSoFar(req[r]) /\ q.pc # "done"
      BY <1>1, <1>3, <1>4, <2>4, <2>5, <2>8 DEF At, Consistent, DueSoFar
    <2> QED BY <1>2, <1>3, <1>6, <2>6, <2>7, <2>9, QuietMove DEF Moves, SendFails, At
  <1>7. CASE DeadlinePasses(r)
    <2> DEFINE q == [req[r] EXCEPT !.pc = "report", !.timedOut = TRUE]
    <2>1. q \in Request
      BY <1>1 DEF Request
    <2>2. req' = [req EXCEPT ![r] = q]
      BY <1>1, <1>7 DEF DeadlinePasses
    <2>3. /\ q.pc = "report" /\ q.winner = req[r].winner
          /\ q.filtered = req[r].filtered /\ q.probe = req[r].probe /\ q.guarded = req[r].guarded
          /\ q.reserved = req[r].reserved /\ q.streaming = req[r].streaming
      BY <1>1 DEF Request
    <2> HIDE DEF q
    <2>4. Consistent(q) /\ DueSoFar(q) = DueSoFar(req[r]) /\ q.pc # "done"
      BY <1>1, <1>3, <1>4, <1>7, <2>3 DEF DeadlinePasses, At, Consistent, DueSoFar
    <2> QED BY <1>2, <1>3, <1>7, <2>1, <2>2, <2>4, QuietMove DEF Moves, DeadlinePasses, At
  <1> QED BY <1>5, <1>6, <1>7

\* The reports to the breakers.
LEMMA ReportPreserves ==
    ASSUME IndInv, NEW r \in Requests, ReportAttempt(r) \/ ReportWinner(r)
    PROVE  IndInv'
  <1>1. req[r] \in Request /\ Consistent(req[r]) /\ req \in [Requests -> Request]
    BY AccountsOf DEF IndInv, TypeOK
  <1>2. breakers \in [Providers -> CircuitBreakerInner] /\ probe_watch \in [Providers -> ProbeResult]
    BY DEF IndInv, TypeOK
  <1>3. CASE ReportAttempt(r)
    <2> DEFINE a == Head(req[r].attempts)
               rest == Tail(req[r].attempts)
               q == [req[r] EXCEPT !.attempts = rest]
    <2>1. /\ req[r].attempts \in Seq([provider : Providers, status : Statuses])
          /\ req[r].attempts # << >>
      BY <1>1, <1>3 DEF ReportAttempt, Request
    <2>2. /\ a \in [provider : Providers, status : Statuses]
          /\ rest \in Seq([provider : Providers, status : Statuses])
      BY <2>1, HeadTailProperties
    <2>3. breakers' \in [Providers -> CircuitBreakerInner]
      <3>1. a.provider \in Providers
        BY <2>2
      <3>2. RecordFailure(breakers[a.provider]) \in CircuitBreakerInner
        BY <1>2, <3>1, RecordFailureFacts
      <3> QED BY <1>2, <1>3, <3>2 DEF ReportAttempt
    <2>4. req' = [req EXCEPT ![r] = q]
      BY <1>1, <1>3 DEF ReportAttempt
    <2> HIDE DEF rest
    <2>5. q \in Request
      BY <1>1, <2>2 DEF Request
    <2>6. Consistent(q) /\ DueSoFar(q) = DueSoFar(req[r]) /\ q.pc # "done"
      BY <1>1, <1>3 DEF ReportAttempt, At, Request, Consistent, DueSoFar
    <2> HIDE DEF q
    <2> QED BY <1>2, <1>3, <2>3, <2>4, <2>5, <2>6, QuietMove DEF Moves, ReportAttempt, At
  <1>4. CASE ReportWinner(r)
    <2> DEFINE w == req[r].winner
               q == [req[r] EXCEPT !.pc = "guard"]
    <2>1. breakers' \in [Providers -> CircuitBreakerInner]
      <3>1. w # NoProvider => RecordSuccess(breakers[w]) \in CircuitBreakerInner
        BY <1>1, <1>2, RecordSuccessFacts DEF Request
      <3> QED BY <1>2, <1>4, <3>1 DEF ReportWinner
    <2>2. req' = [req EXCEPT ![r] = q]
      BY <1>1, <1>4 DEF ReportWinner
    <2>3. q \in Request
      BY <1>1 DEF Request
    <2>4. Consistent(q) /\ DueSoFar(q) = DueSoFar(req[r]) /\ q.pc # "done"
      BY <1>1, <1>4 DEF ReportWinner, At, Request, Consistent, DueSoFar
    <2> HIDE DEF q
    <2> QED BY <1>2, <1>4, <2>1, <2>2, <2>3, <2>4, QuietMove DEF Moves, ReportWinner, At
  <1> QED BY <1>3, <1>4

\* The verdict on the probe, and the guard dropped with its future.
LEMMA GuardPreserves ==
    ASSUME IndInv, NEW r \in Requests, ResolveGuard(r) \/ Disconnect(r)
    PROVE  IndInv'
  <1> DEFINE p == req[r].probe
  <1>1. req[r] \in Request /\ Consistent(req[r]) /\ req \in [Requests -> Request]
    BY AccountsOf DEF IndInv, TypeOK
  <1>2. breakers \in [Providers -> CircuitBreakerInner] /\ probe_watch \in [Providers -> ProbeResult]
    BY DEF IndInv, TypeOK
  <1>3. req[r].guarded => /\ p \in Providers
                          /\ RecordProbeSuccess(breakers[p]) \in CircuitBreakerInner
                          /\ RecordProbeFailure(breakers[p]) \in CircuitBreakerInner
    BY <1>1, <1>2, RecordProbeFacts DEF Request, Consistent
  <1>4. "Success" \in ProbeResult /\ "Failed" \in ProbeResult
    BY DEF ProbeResult
  <1>5. CASE ResolveGuard(r)
    <2> DEFINE q == [req[r] EXCEPT !.guarded = FALSE]
    <2>1. /\ breakers' \in [Providers -> CircuitBreakerInner]
          /\ probe_watch' \in [Providers -> ProbeResult]
      BY <1>2, <1>3, <1>4, <1>5 DEF ResolveGuard, Broadcast
    <2>2. req' = [u \in Requests |-> IF u = r THEN q ELSE Woken(req[u], p)]
      BY <1>5 DEF ResolveGuard
    <2>3. q \in Request
      BY <1>1 DEF Request
    <2>4. Consistent(q) /\ DueSoFar(q) = DueSoFar(req[r]) /\ q.pc # "done"
      BY <1>1, <1>5 DEF ResolveGuard, At, Request, Consistent, DueSoFar
    <2> HIDE DEF q, p
    <2> QED BY <1>5, <2>1, <2>2, <2>3, <2>4, QuietMove DEF Moves, ResolveGuard, At
  <1>6. CASE Disconnect(r)
    <2> DEFINE q == [req[r] EXCEPT !.pc = "gone", !.guarded = FALSE]
    <2>1. /\ breakers' \in [Providers -> CircuitBreakerInner]
          /\ probe_watch' \in [Providers -> ProbeResult]
      BY <1>2, <1>3, <1>4, <1>6 DEF Disconnect, Broadcast
    <2>2. Moves(r, q, p)
      <3>1. CASE req[r].guarded
        BY <1>6, <3>1 DEF Disconnect, Moves
      <3>2. CASE ~req[r].guarded
        <4>1. q = [req[r] EXCEPT !.pc = "gone"]
          BY <1>1, <3>2 DEF Request
        <4> QED BY <1>1, <1>6, <3>2, <4>1 DEF Disconnect, Moves
      <3> QED BY <3>1, <3>2
    <2>3. q \in Request
      BY <1>1 DEF Request
    <2>4. Consistent(q) /\ DueSoFar(q) = DueSoFar(req[r]) /\ q.pc # "done" /\ req[r].pc # "done"
      BY <1>1, <1>6 DEF Disconnect, Request, Consistent, DueSoFar
    <2>5. UNCHANGED <<billing, logged>>
      BY <1>6 DEF Disconnect
    <2> HIDE DEF q, p
    <2> QED BY <2>1, <2>2, <2>3, <2>4, <2>5, QuietMove
  <1> QED BY <1>5, <1>6

\* The response, with its row and its vault call.
LEMMA AnswerPreserves ==
    ASSUME IndInv, NEW r \in Requests, Answer(r)
    PROVE  IndInv'
  <1> DEFINE q == [req[r] EXCEPT !.pc = "done"]
             b == billing[r] \cup BillingCall(r)
  <1>1. /\ req[r] \in Request /\ Consistent(req[r]) /\ req \in [Requests -> Request]
        /\ Accounted(req[r], billing[r], logged[r])
    BY AccountsOf DEF IndInv, TypeOK
  <1>2. /\ breakers \in [Providers -> CircuitBreakerInner] /\ probe_watch \in [Providers -> ProbeResult]
        /\ billing \in [Requests -> SUBSET {"settle", "release", "stream"}]
        /\ logged \in [Requests -> Nat]
    BY DEF IndInv, TypeOK
  <1>3. q \in Request
    BY <1>1 DEF Request
  <1>4. /\ q.pc = "done" /\ q.winner = req[r].winner /\ q.timedOut = req[r].timedOut
        /\ q.filtered = req[r].filtered /\ q.probe = req[r].probe /\ q.guarded = req[r].guarded
        /\ q.reserved = req[r].reserved /\ q.streaming = req[r].streaming
    BY <1>1 DEF Request
  <1>5. billing[r] = DueSoFar(req[r]) /\ logged[r] = 0
    BY <1>1 DEF Answer, At, Accounted
  <1>6. /\ req' = [req EXCEPT ![r] = q]
        /\ billing' = [billing EXCEPT ![r] = b]
        /\ logged' = [logged EXCEPT ![r] = 1]
        /\ UNCHANGED <<breakers, probe_watch>>
    BY <1>1, <1>2, <1>5 DEF Answer
  <1> HIDE DEF q
  <1>7. Consistent(q)
    BY <1>1, <1>4 DEF Answer, At, Consistent
  <1>8. req[r].timedOut => req[r].winner = NoProvider
    BY <1>1 DEF Consistent
  <1>9. b = Due(q)
    <2>1. CASE ~req[r].reserved
      BY <1>4, <1>5, <2>1 DEF DueSoFar, BillingCall, Due
    <2>2. CASE req[r].reserved /\ req[r].winner = NoProvider
      BY <1>4, <1>5, <2>2 DEF DueSoFar, BillingCall, Due
    <2>3. CASE req[r].reserved /\ req[r].winner # NoProvider /\ req[r].streaming
      BY <1>4, <1>5, <1>8, <2>3 DEF DueSoFar, BillingCall, Due
    <2>4. CASE req[r].reserved /\ req[r].winner # NoProvider /\ ~req[r].streaming
      BY <1>4, <1>5, <1>8, <2>4 DEF DueSoFar, BillingCall, Due
    <2> QED BY <2>1, <2>2, <2>3, <2>4
  <1> HIDE DEF b
  <1>10. Due(q) \in SUBSET {"settle", "release", "stream"}
    BY DEF Due
  <1>11. Accounted(q, b, 1)
    BY <1>4, <1>9 DEF Accounted
  <1> QED BY <1>2, <1>3, <1>6, <1>7, <1>9, <1>10, <1>11, RequestMoves DEF Moves

\* Time passes for the breakers.
LEMMA TickPreserves == IndInv /\ Tick => IndInv'
  <1> SUFFICES ASSUME IndInv, Tick PROVE IndInv'
    OBVIOUS
  <1>1. breakers' \in [Providers -> CircuitBreakerInner]
    BY ElapseFacts DEF Tick, IndInv, TypeOK
  <1> QED BY <1>1 DEF Tick, IndInv, TypeOK, BilledSoFar, BilledByOutcome, LoggedOnce, At

\* The invariant holds at the start and every step keeps it.
LEMMA InitIndInv == Init => IndInv
  <1> SUFFICES ASSUME Init PROVE IndInv
    OBVIOUS
  <1>1. NewInner \in CircuitBreakerInner
    BY DEF NewInner, CircuitBreakerInner, CircuitState
  <1>2. TypeOK
    BY <1>1, NewRequestFacts DEF Init, TypeOK, ProbeResult
  <1>3. \A r \in Requests : req[r] = NewRequest /\ billing[r] = {} /\ logged[r] = 0
    BY DEF Init
  <1>4. NewRequest.pc = "new" /\ DueSoFar(NewRequest) = {}
    BY DEF NewRequest, DueSoFar
  <1> QED BY <1>2, <1>3, <1>4, NewRequestFacts
      DEF IndInv, BilledSoFar, BilledByOutcome, LoggedOnce, At

\* Every action keeps it.
LEMMA NextIndInv == IndInv /\ [Next]_vars => IndInv'
  <1> SUFFICES ASSUME IndInv, [Next]_vars PROVE IndInv'
    OBVIOUS
  <1>1. CASE Tick
    BY <1>1, TickPreserves
  <1>2. ASSUME NEW r \in Requests, Arrive(r) \/ Handler(r) \/ Disconnect(r)
        PROVE  IndInv'
    BY <1>2, ResolvePreserves, PermitsPreserve, DepartPreserves, SendPreserves,
       ReportPreserves, GuardPreserves, AnswerPreserves DEF Arrive, Handler
  <1>3. CASE UNCHANGED vars
    BY <1>3 DEF vars, IndInv, TypeOK, BilledSoFar, BilledByOutcome, LoggedOnce, At
  <1> QED BY <1>1, <1>2, <1>3 DEF Next

\* The strengthened invariant holds in every reachable state.
THEOREM Invariance == Spec => []IndInv
  BY InitIndInv, NextIndInv, PTL DEF Spec

\* Handlers, breakers and accounts keep their types: in particular a request
\* makes at most MAX_RETRIES + 2 attempts.
THEOREM TypeCorrect == Spec => []TypeOK
  <1>1. IndInv => TypeOK
    BY DEF IndInv
  <1> QED BY <1>1, Invariance, PTL

\* Every finished request has spawned exactly the vault call its outcome
\* calls for, whichever of the paths of chat_completions it left by.
THEOREM OutcomeBilled == Spec => []BilledByOutcome
  <1>1. IndInv => BilledByOutcome
    BY DEF IndInv
  <1> QED BY <1>1, Invariance, PTL

\* Every finished request has one row in the log and no other has any.
THEOREM AnsweredLogged == Spec => []LoggedOnce
  <1>1. IndInv => LoggedOnce
    BY DEF IndInv
  <1> QED BY <1>1, Invariance, PTL

\* A probe is an attempt on the provider under probe.
THEOREM ProbeSentFirst == Spec => []ProbeGoesFirst
  <1>1. IndInv => ProbeGoesFirst
    BY DEF IndInv, Consistent, ProbeGoesFirst
  <1> QED BY <1>1, Invariance, PTL
-----------------------------------------------------------------------------
(* What the requests do to the breakers *)

\* The steps that neither take a probe nor resolve one.
Ordinary(r) ==
    \/ Arrive(r) \/ Escalate(r) \/ GiveUp(r) \/ ProbeVerdict(r)
    \/ Resolved(r) \/ Refused(r) \/ Reserved(r)
    \/ SendOk(r) \/ SendFails(r) \/ DeadlinePasses(r)
    \/ ReportAttempt(r) \/ ReportWinner(r) \/ Answer(r)

\* They may open a circuit, and do nothing else to its state or its flag.
LEMMA OrdinaryBreakers ==
    ASSUME IndInv, NEW r \in Requests, Ordinary(r), NEW c \in Providers
    PROVE  /\ breakers'[c].state \in {breakers[c].state, "Open"}
           /\ breakers'[c].probe_in_flight = breakers[c].probe_in_flight
  <1>1. breakers \in [Providers -> CircuitBreakerInner]
    BY DEF IndInv, TypeOK
  <1>2. /\ RecordFailure(breakers[c]).state \in {breakers[c].state, "Open"}
        /\ RecordFailure(breakers[c]).probe_in_flight = breakers[c].probe_in_flight
        /\ RecordSuccess(breakers[c]).state = breakers[c].state
        /\ RecordSuccess(breakers[c]).probe_in_flight = breakers[c].probe_in_flight
    BY <1>1, RecordFailureFacts, RecordSuccessFacts
  <1>3. breakers'[c] \in {breakers[c], RecordFailure(breakers[c]), RecordSuccess(breakers[c])}
    <2>1. CASE ReportAttempt(r)
      BY <1>1, <2>1 DEF ReportAttempt
    <2>2. CASE ReportWinner(r)
      BY <1>1, <2>2 DEF ReportWinner
    <2>3. CASE UNCHANGED breakers
      BY <2>3
    <2> QED BY <2>1, <2>2, <2>3 DEF Ordinary, Arrive, Begin, RoutingError, Escalate, GiveUp, Respond,
               ProbeVerdict, Resolved, Refused, Reserved, SendOk, SendFails, DeadlinePasses, Answer
  <1> QED BY <1>2, <1>3

\* A permit may set the flag; the circuit is then HalfOpen.  A request that
\* has to wait finds the flag set.
LEMMA AskPermitBreakers ==
    ASSUME IndInv, NEW r \in Requests, AskPermit(r)
    PROVE  \E p \in Providers :
              LET check == CheckState(breakers[p])
              IN  /\ p = CandidatesAt[req[r].tier][req[r].next]
                  /\ req[r].next <= Len(CandidatesAt[req[r].tier])
                  /\ breakers' = [breakers EXCEPT ![p] = check.inner]
                  /\ req' = [req EXCEPT ![r] = WithPermit(req[r], p, PermitOf(check.result))]
                  /\ check.inner.state \in {breakers[p].state, "HalfOpen"}
                  /\ check.result \in {"Allowed", "Rejected"} => check.inner = breakers[p]
                  /\ check.result = "WaitForProbe" => breakers[p].probe_in_flight
                  /\ check.result \in {"Allowed", "ProbePermit", "Rejected", "WaitForProbe"}
  <1> DEFINE p == Candidates(r)[req[r].next]
             check == CheckState(breakers[p])
  <1>1. req[r] \in Request /\ Consistent(req[r])
    BY AccountsOf
  <1>2. Len(CandidatesAt[req[r].tier]) \in Nat /\ req[r].next \in Nat
    BY <1>1, CandidatesAssumption, LenProperties DEF Request
  <1>3. /\ req[r].next <= Len(CandidatesAt[req[r].tier])
        /\ p = CandidatesAt[req[r].tier][req[r].next]
        /\ breakers' = [breakers EXCEPT ![p] = check.inner]
        /\ req' = [req EXCEPT ![r] = WithPermit(req[r], p, PermitOf(check.result))]
    BY <1>2 DEF AskPermit, AllAsked, Candidates, At, IndInv, TypeOK
  <1>4. p \in Providers
    BY <1>1, <1>3, CandidateFacts
  <1>5. /\ check.inner.state \in {breakers[p].state, "HalfOpen"}
        /\ check.result \in {"Allowed", "Rejected"} => check.inner = breakers[p]
        /\ check.result = "WaitForProbe" => breakers[p].probe_in_flight
        /\ check.result \in {"Allowed", "ProbePermit", "Rejected", "WaitForProbe"}
    BY <1>4, CheckStateFacts DEF IndInv, TypeOK
  <1> HIDE DEF p
  <1> QED BY <1>3, <1>4, <1>5

\* A circuit is closed by nothing but the guard of a probe that its own
\* provider has answered.
LEMMA StepCloses ==
    ASSUME IndInv, [Next]_vars, NEW c \in Providers,
           breakers[c].state # "Closed", breakers'[c].state = "Closed"
    PROVE  \E r \in Requests : /\ req[r].guarded /\ ~req'[r].guarded
                               /\ req[r].probe = c /\ req[r].winner = c
  <1>1. breakers \in [Providers -> CircuitBreakerInner] /\ req \in [Requests -> Request]
    BY DEF IndInv, TypeOK
  <1>2. ~Tick
    BY <1>1, ElapseFacts DEF Tick
  <1>3. ASSUME NEW r \in Requests, Ordinary(r)
        PROVE  FALSE
    BY <1>3, OrdinaryBreakers
  <1>4. ASSUME NEW r \in Requests, AskPermit(r)
        PROVE  FALSE
    <2>1. PICK p \in Providers :
             /\ breakers' = [breakers EXCEPT ![p] = CheckState(breakers[p]).inner]
             /\ CheckState(breakers[p]).inner.state \in {breakers[p].state, "HalfOpen"}
      BY <1>4, AskPermitBreakers
    <2> QED BY <1>1, <2>1
  <1>5. ASSUME NEW r \in Requests, Disconnect(r)
        PROVE  FALSE
    <2>1. RecordProbeFailure(breakers[c]).state = "Open"
      BY <1>1, RecordProbeFacts
    <2> QED BY <1>1, <1>5, <2>1 DEF Disconnect
  <1>6. ASSUME NEW r \in Requests, ResolveGuard(r)
        PROVE  /\ req[r].guarded /\ ~req'[r].guarded
               /\ req[r].probe = c /\ req[r].winner = c
    <2>1. RecordProbeFailure(breakers[c]).state = "Open"
      BY <1>1, RecordProbeFacts
    <2>2. req'[r] = [req[r] EXCEPT !.guarded = FALSE] /\ req[r].guarded
      BY <1>6 DEF ResolveGuard
    <2>3. ~req'[r].guarded
      BY <1>1, <2>2 DEF Request
    <2>4. req[r].probe = c /\ ProbePassed(r)
      BY <1>1, <1>6, <2>1 DEF ResolveGuard
    <2> QED BY <2>2, <2>3, <2>4 DEF ProbePassed
  <1>7. ~UNCHANGED vars
    BY DEF vars
  <1> QED BY <1>2, <1>3, <1>4, <1>5, <1>6, <1>7 DEF Next, Ordinary, Handler

\* A circuit closes only in the hands of a request that the provider itself
\* has answered.
THEOREM ClosedByOwnSuccess == Spec => ClosesOnlyOnItsOwnSuccess
  <1>1. IndInv /\ [Next]_vars =>
           [\A p \in Providers :
               breakers[p].state # "Closed" /\ breakers'[p].state = "Closed" =>
                   \E r \in Requests : /\ req[r].guarded /\ ~req'[r].guarded
                                       /\ req[r].probe = p /\ req[r].winner = p]_vars
    BY StepCloses
  <1> QED BY <1>1, Invariance, PTL DEF Spec, ClosesOnlyOnItsOwnSuccess
-----------------------------------------------------------------------------
(* No stuck probe where a request has one candidate and no vault to ask *)

\* A request that has not asked its only candidate yet holds no permit.
Single(q) ==
    /\ q.pc # "vault"
    /\ q.pc \in {"new", "resolve", "waiting"} /\ q.next = 1 => q.filtered = << >>

ProbeInv == NoStuckProbe /\ \A r \in Requests : Single(req[r])

OneCandidate == ~HasVault /\ \A tier \in Tiers : Len(CandidatesAt[tier]) <= 1

\* Under a request that moves, every set flag keeps its owner or the request
\* becomes one.
LEMMA OwnersKept ==
    ASSUME IndInv, IndInv', ProbeInv, NEW r \in Requests, Single(req'[r]), NEW p,
           \A u \in Requests : u # r => req'[u] = req[u] \/ req'[u] = Woken(req[u], p),
           \A c \in Providers :
              breakers'[c].probe_in_flight =>
                 \/ OwnsProbe(r, c)'
                 \/ breakers[c].probe_in_flight /\ ~OwnsProbe(r, c)
    PROVE  ProbeInv'
  <1>1. \A u \in Requests : u # r => /\ req'[u].pc = req[u].pc /\ req'[u].probe = req[u].probe
                                     /\ req'[u].guarded = req[u].guarded
                                     /\ req'[u].next = req[u].next
                                     /\ req'[u].filtered = req[u].filtered
    BY WokenFacts DEF IndInv, TypeOK
  <1>2. \A u \in Requests : Single(req'[u])
    BY <1>1 DEF ProbeInv, Single
  <1>3. ASSUME NEW c \in Providers, breakers'[c].probe_in_flight
        PROVE  \E u \in Requests : OwnsProbe(u, c)'
    <2>1. CASE OwnsProbe(r, c)'
      BY <2>1
    <2>2. CASE breakers[c].probe_in_flight /\ ~OwnsProbe(r, c)
      <3>1. PICK u \in Requests : OwnsProbe(u, c)
        BY <2>2 DEF ProbeInv, NoStuckProbe
      <3>2. OwnsProbe(u, c)'
        BY <1>1, <2>2, <3>1 DEF OwnsProbe
      <3> QED BY <3>2
    <2> QED BY <1>3, <2>1, <2>2
  <1> QED BY <1>2, <1>3 DEF ProbeInv, NoStuckProbe

\* A request still asking holds no probe: it has one candidate to ask.
LEMMA NoProbeYet ==
    ASSUME IndInv, ProbeInv, OneCandidate, NEW r \in Requests,
           req[r].pc \in {"resolve", "waiting"}, req[r].next <= Len(CandidatesAt[req[r].tier])
    PROVE  req[r].next = 1 /\ req[r].filtered = << >> /\ req[r].probe = NoProvider
  <1>1. req[r] \in Request /\ Consistent(req[r])
    BY AccountsOf
  <1>2. /\ Len(CandidatesAt[req[r].tier]) \in Nat /\ req[r].next \in Nat \ {0}
        /\ Len(CandidatesAt[req[r].tier]) <= 1
    BY <1>1, CandidatesAssumption, LenProperties DEF Request, OneCandidate
  <1>3. req[r].next = 1
    BY <1>2
  <1>4. req[r].filtered = << >>
    BY <1>3 DEF ProbeInv, Single
  <1> QED BY <1>1, <1>3, <1>4 DEF Consistent

\* A probe stays with its request through every ordinary step.
LEMMA OrdinaryKeepsProbe ==
    ASSUME IndInv, ProbeInv, OneCandidate, NEW r \in Requests, Ordinary(r)
    PROVE  /\ Single(req'[r])
           /\ \A c \in Providers : OwnsProbe(r, c) => OwnsProbe(r, c)'
           /\ \A u \in Requests : u # r => req'[u] = req[u]
  <1>1. req \in [Requests -> Request] /\ req[r] \in Request /\ Consistent(req[r]) /\ Single(req[r])
    BY AccountsOf DEF IndInv, TypeOK, ProbeInv
  <1> USE <1>1 DEF At, OwnsProbe, Single
  <1>2. CASE Begin(r)
    BY <1>2 DEF Begin, Request
  <1>3. CASE RoutingError(r) \/ GiveUp(r) \/ Refused(r)
    <2>1. req' = [req EXCEPT ![r].pc = "done"]
      BY <1>3 DEF RoutingError, GiveUp, Refused, Respond
    <2>2. \A c \in Providers : ~OwnsProbe(r, c)
      BY <1>3, ProviderAssumption DEF RoutingError, GiveUp, Refused, NoneAvailable, Consistent
    <2> QED BY <2>1, <2>2 DEF Request
  <1>4. CASE Escalate(r)
    <2>1. \A c \in Providers : ~OwnsProbe(r, c)
      BY <1>4, ProviderAssumption DEF Escalate, NoneAvailable, Consistent
    <2> QED BY <1>4, <2>1 DEF Escalate, NoneAvailable, Request
  <1>5. CASE ProbeVerdict(r)
    <2> DEFINE p == Candidates(r)[req[r].next]
               permit == IF probe_watch[p] = "Success" THEN "Normal" ELSE "Open"
               w == WithPermit(req[r], p, permit)
    <2>1. /\ req[r].pc = "waiting" /\ req[r].next <= Len(CandidatesAt[req[r].tier])
          /\ p = CandidatesAt[req[r].tier][req[r].next] /\ req' = [req EXCEPT ![r] = w]
      BY <1>5 DEF ProbeVerdict, Candidates, Consistent
    <2>2. p \in Providers
      BY <2>1, CandidateFacts
    <2>3. req[r].probe = NoProvider /\ req[r].next = 1
      BY <2>1, NoProbeYet
    <2>4. permit \in {"Normal", "Probe", "Open", "Wait"} /\ permit # "Wait"
      OBVIOUS
    <2>5. w.pc \in {"resolve", "waiting"} /\ w.next = req[r].next + 1
      BY <2>1, <2>2, <2>4, WithPermitFacts
    <2> HIDE DEF w
    <2>6. w.next # 1 /\ w.pc # "vault"
      BY <2>3, <2>5
    <2> QED BY <2>1, <2>3, <2>6, ProviderAssumption, Consistent(req[r]) DEF Consistent
  <1>6. CASE Resolved(r) \/ Reserved(r)
    <2>1. req' = [req EXCEPT ![r] = ToProvider(req[r])]
      BY <1>6 DEF Resolved, Reserved, OneCandidate
    <2> QED BY <2>1, ProviderAssumption DEF ToProvider, Request
  <1>7. CASE SendOk(r)
    BY <1>7 DEF SendOk, Request
  <1>8. CASE SendFails(r)
    <2>1. PICK status \in Statuses :
             req' = [req EXCEPT
                       ![r].pc = IF LastAttempt(r, status) THEN "report" ELSE "send",
                       ![r].attempts = Append(@, [provider |-> Target(r), status |-> status]),
                       ![r].tried = @ + 1]
      BY <1>8 DEF SendFails
    <2> QED BY <1>8, <2>1 DEF SendFails, Request
  <1>9. CASE DeadlinePasses(r)
    BY <1>9 DEF DeadlinePasses, Request
  <1>10. CASE ReportAttempt(r)
    BY <1>10 DEF ReportAttempt, Request
  <1>11. CASE ReportWinner(r)
    BY <1>11 DEF ReportWinner, Request
  <1>12. CASE Answer(r)
    BY <1>12 DEF Answer, Request
  <1> QED BY <1>2, <1>3, <1>4, <1>5, <1>6, <1>7, <1>8, <1>9, <1>10, <1>11, <1>12
      DEF Ordinary, Arrive

\* A permit for a probe has its owner from the start.
LEMMA AskPermitKeepsProbe ==
    ASSUME IndInv, IndInv', ProbeInv, OneCandidate, NEW r \in Requests, AskPermit(r)
    PROVE  ProbeInv'
  <1>1. /\ req \in [Requests -> Request] /\ req[r] \in Request /\ Consistent(req[r])
        /\ breakers \in [Providers -> CircuitBreakerInner] /\ req[r].pc = "resolve"
    BY AccountsOf DEF IndInv, TypeOK, AskPermit, At
  <1>2. PICK p \in Providers :
           LET check == CheckState(breakers[p])
           IN  /\ p = CandidatesAt[req[r].tier][req[r].next]
               /\ req[r].next <= Len(CandidatesAt[req[r].tier])
               /\ breakers' = [breakers EXCEPT ![p] = check.inner]
               /\ req' = [req EXCEPT ![r] = WithPermit(req[r], p, PermitOf(check.result))]
               /\ check.inner.state \in {breakers[p].state, "HalfOpen"}
               /\ check.result \in {"Allowed", "Rejected"} => check.inner = breakers[p]
               /\ check.result = "WaitForProbe" => breakers[p].probe_in_flight
               /\ check.result \in {"Allowed", "ProbePermit", "Rejected", "WaitForProbe"}
    BY AskPermitBreakers
  <1> DEFINE check == CheckState(breakers[p])
             permit == PermitOf(check.result)
             w == WithPermit(req[r], p, permit)
  <1>3. req[r].next = 1 /\ req[r].filtered = << >> /\ req[r].probe = NoProvider
    BY <1>1, <1>2, NoProbeYet
  <1>4. /\ permit \in {"Normal", "Probe", "Open", "Wait"}
        /\ permit = "Probe" <=> check.result = "ProbePermit"
    BY <1>2 DEF PermitOf
  <1>5. /\ w.pc \in {"resolve", "waiting"}
        /\ permit = "Probe" => w.probe = p
        /\ permit = "Wait" => w.next = req[r].next /\ w.filtered = req[r].filtered
        /\ permit # "Wait" => w.next = req[r].next + 1
    BY <1>1, <1>2, <1>4, WithPermitFacts, ZenonT(40)
  <1>6. req'[r] = w /\ \A u \in Requests : u # r => req'[u] = req[u]
    BY <1>1, <1>2
  <1> HIDE DEF w
  <1>7. Single(req'[r])
    BY <1>3, <1>5, <1>6 DEF Single
  <1>8. ASSUME NEW c \in Providers, breakers'[c].probe_in_flight
        PROVE  \/ OwnsProbe(r, c)'
               \/ breakers[c].probe_in_flight /\ ~OwnsProbe(r, c)
    <2>1. ~OwnsProbe(r, c)
      BY <1>3, ProviderAssumption DEF OwnsProbe
    <2>2. CASE c = p /\ check.result = "ProbePermit"
      BY <1>4, <1>5, <1>6, <2>2 DEF OwnsProbe
    <2>3. CASE c = p /\ check.result # "ProbePermit"
      BY <1>1, <1>2, <1>8, <2>1, <2>3
    <2>4. CASE c # p
      BY <1>1, <1>2, <1>8, <2>1, <2>4
    <2> QED BY <2>2, <2>3, <2>4
  <1> QED BY <1>6, <1>7, <1>8, OwnersKept

\* A guard takes its own flag with it, and a client that leaves has none
\* without a guard.
LEMMA GuardKeepsProbe ==
    ASSUME IndInv, IndInv', ProbeInv, OneCandidate, NEW r \in Requests,
           ResolveGuard(r) \/ Disconnect(r)
    PROVE  ProbeInv'
  <1> DEFINE p == req[r].probe
  <1>1. /\ req \in [Requests -> Request] /\ req[r] \in Request /\ Consistent(req[r])
        /\ breakers \in [Providers -> CircuitBreakerInner] /\ Single(req[r])
    BY AccountsOf DEF IndInv, TypeOK, ProbeInv
  <1>2. CASE req[r].guarded
    <2>1. p \in Providers
      BY <1>1, <1>2 DEF Request, Consistent
    <2>2. /\ RecordProbeFailure(breakers[p]).probe_in_flight = FALSE
          /\ RecordProbeSuccess(breakers[p]).probe_in_flight = FALSE
      BY <1>1, <2>1, RecordProbeFacts
    <2>3. /\ breakers' = [breakers EXCEPT ![p] = RecordProbeFailure(@)]
             \/ breakers' = [breakers EXCEPT ![p] = RecordProbeSuccess(@)]
          /\ \A u \in Requests : u # r => req'[u] = Woken(req[u], p)
      BY <1>1, <1>2 DEF ResolveGuard, Disconnect
    <2>4. \A c \in Providers : breakers'[c].probe_in_flight =>
                                  breakers[c].probe_in_flight /\ ~OwnsProbe(r, c)
      BY <1>1, <2>1, <2>2, <2>3 DEF OwnsProbe
    <2>5. Single(req'[r])
      <3>1. req'[r].pc \in {"guard", "gone"}
        <4>1. CASE ResolveGuard(r)
          <5>1. req'[r] = [req[r] EXCEPT !.guarded = FALSE] /\ req[r].pc = "guard"
            BY <4>1 DEF ResolveGuard, At
          <5> QED BY <1>1, <5>1 DEF Request
        <4>2. CASE Disconnect(r)
          <5>1. req'[r] = [req[r] EXCEPT !.pc = "gone", !.guarded = FALSE]
            BY <1>2, <4>2 DEF Disconnect
          <5> QED BY <1>1, <5>1 DEF Request
        <4> QED BY <4>1, <4>2
      <3> QED BY <3>1 DEF Single
    <2> QED BY <2>3, <2>4, <2>5, OwnersKept
  <1>3. CASE ~req[r].guarded
    <2>1. /\ Disconnect(r) /\ req' = [req EXCEPT ![r].pc = "gone"] /\ breakers' = breakers
          /\ req[r].pc \in {"waiting", "vault", "send"}
      BY <1>3 DEF ResolveGuard, Disconnect
    <2>2. \A c \in Providers : ~OwnsProbe(r, c)
      <3>1. req[r].pc # "vault"
        BY <1>1 DEF Single
      <3>2. req[r].pc = "waiting" => req[r].probe = NoProvider
        BY <1>1, NoProbeYet DEF Consistent
      <3> QED BY <1>3, <2>1, <3>1, <3>2, ProviderAssumption DEF OwnsProbe
    <2>3. Single(req'[r]) /\ \A u \in Requests : u # r => req'[u] = req[u]
      BY <1>1, <2>1 DEF Single, Request
    <2> QED BY <2>1, <2>2, <2>3, OwnersKept
  <1> QED BY <1>2, <1>3

\* "RAII ProbeGuard to prevent stuck probe_in_flight flags": where a request
\* has a single candidate and no vault stands before the provider, a set flag
\* has a live request behind it, whether clients leave or not.  With a second
\* candidate (run chat_stuck_probe), or a vault that refuses the request after
\* the probe was granted, the flag can be left behind.
THEOREM ProbesResolved ==
    ASSUME ~HasVault, \A tier \in Tiers : Len(CandidatesAt[tier]) <= 1
    PROVE  Spec => []NoStuckProbe
  <1>1. OneCandidate
    BY DEF OneCandidate
  <1>2. Init => ProbeInv
    BY DEF Init, ProbeInv, NoStuckProbe, Single, NewInner, NewRequest
  <1>3. ASSUME IndInv, IndInv', ProbeInv, [Next]_vars
        PROVE  ProbeInv'
    <2>1. CASE Tick
      <3>1. \A c \in Providers : breakers'[c].probe_in_flight = breakers[c].probe_in_flight
        BY <1>3, <2>1, ElapseFacts DEF Tick, IndInv, TypeOK
      <3> QED BY <1>3, <2>1, <3>1 DEF Tick, ProbeInv, NoStuckProbe, OwnsProbe
    <2>2. ASSUME NEW r \in Requests, Ordinary(r)
          PROVE  ProbeInv'
      <3>1. /\ Single(req'[r])
            /\ \A c \in Providers : OwnsProbe(r, c) => OwnsProbe(r, c)'
            /\ \A u \in Requests : u # r => req'[u] = req[u]
        BY <1>1, <1>3, <2>2, OrdinaryKeepsProbe
      <3>2. \A c \in Providers : breakers'[c].probe_in_flight = breakers[c].probe_in_flight
        BY <1>3, <2>2, OrdinaryBreakers
      <3> QED BY <1>3, <3>1, <3>2, OwnersKept
    <2>3. ASSUME NEW r \in Requests, AskPermit(r) \/ ResolveGuard(r) \/ Disconnect(r)
          PROVE  ProbeInv'
      BY <1>1, <1>3, <2>3, AskPermitKeepsProbe, GuardKeepsProbe
    <2>4. CASE UNCHANGED vars
      BY <1>3, <2>4 DEF vars, ProbeInv, NoStuckProbe, OwnsProbe
    <2> QED BY <1>3, <2>1, <2>2, <2>3, <2>4 DEF Next, Handler, Ordinary
  <1>4. ProbeInv => NoStuckProbe
    BY DEF ProbeInv
  <1> QED BY <1>2, <1>3, <1>4, Invariance, PTL DEF Spec
=============================================================================
