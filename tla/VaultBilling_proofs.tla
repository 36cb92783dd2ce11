------------------------- MODULE VaultBilling_proofs -------------------------
(***************************************************************************)
(* Proofs about VaultBilling, for every set of requests, every number of   *)
(* retries and attempts and every threshold, with and without faults and   *)
(* clients that leave.                                                     *)
(***************************************************************************)
EXTENDS VaultBilling, TLAPS

\* What a call does to a reservation, and nothing else: one that is held ends
\* as the call says, and only a reserve makes one held.
LEMMA AppliedFacts ==
    ASSUME NEW h \in {"none", "held", "settled", "released"}, NEW op \in Ops \cup {"reserve"}
    PROVE  /\ Applied(h, op) \in {"none", "held", "settled", "released"}
           /\ op \in Ops => Applied(h, op) # "held"
           /\ op \in Ops /\ h # "held" => Applied(h, op) = h
           /\ op = "settle" /\ h = "held" => Applied(h, op) = "settled"
           /\ op = "release" /\ h = "held" => Applied(h, op) = "released"
           /\ op = "reserve" => Applied(h, op) = IF h = "none" THEN "held" ELSE h
  BY DEF Applied, Ops

\* The tries of call_with_retry stay below MAX_RETRIES.
LEMMA AfterPostFacts ==
    ASSUME NEW outcome \in {"ok", "final", "retry"}, NEW tries \in 0..(MAX_RETRIES - 1)
    PROVE  /\ AfterPost(outcome, tries) \in {"ok", "err", "again"}
           /\ AfterPost(outcome, tries) = "ok" => outcome = "ok"
           /\ AfterPost(outcome, tries) = "again" => tries + 1 \in 0..(MAX_RETRIES - 1)
           /\ 0 \in 0..(MAX_RETRIES - 1)
  BY RetriesAssumption DEF AfterPost

\* A post for r changes r's reservation only, ends it if it was held and the
\* post succeeded, and leaves at most itself behind.
LEMMA PostFacts ==
    ASSUME TypeOK, NEW r \in Requests, NEW op \in Ops,
           NEW outcome \in {"ok", "final", "retry"}, Post(r, op, outcome)
    PROVE  /\ hold' \in [Requests -> {"none", "held", "settled", "released"}]
           /\ \A q \in Requests : hold'[q] = "held" => hold[q] = "held"
           /\ \A q \in Requests : q # r => hold'[q] = hold[q]
           /\ hold' = hold \/ hold' = [hold EXCEPT ![r] = Applied(@, op)]
           /\ outcome = "ok" => hold'[r] # "held"
           /\ late' = late \/ late' = late \cup {<<r, op>>}
  <1>1. hold[r] \in {"none", "held", "settled", "released"}
    BY DEF TypeOK
  <1>2. hold' = hold \/ hold' = [hold EXCEPT ![r] = Applied(@, op)]
    BY DEF Post, Arrive
  <1>3. outcome = "ok" => hold' = [hold EXCEPT ![r] = Applied(@, op)]
    BY DEF Post, Arrive
  <1>4. late' = late \/ late' = late \cup {<<r, op>>}
    BY DEF Post
  <1> QED BY <1>1, <1>2, <1>3, <1>4, AppliedFacts DEF TypeOK
-----------------------------------------------------------------------------
\* The initial state.
LEMMA InitImpliesIndInv == Init => IndInv
  <1> SUFFICES ASSUME Init PROVE IndInv
    OBVIOUS
  <1> USE DEF Init, IdleRec, NoJob, NoRow
  <1>1. TypeOK
    <2>1. 0 \in 0..(MAX_RETRIES - 1) /\ 0 \in 0..MAX_SETTLEMENT_ATTEMPTS
      BY RetriesAssumption, AttemptsAssumption
    <2>2. calm \in BOOLEAN
      BY SwitchesAssumption
    <2> QED BY <2>1, <2>2 DEF TypeOK
  <1>2. OneVerdict
    BY DEF OneVerdict, HasRow
  <1>3. PassFollowsTable /\ NothingForgotten
    BY DEF PassFollowsTable, NothingForgotten
  <1> QED BY <1>1, <1>2, <1>3 DEF IndInv

\* An entry of the pass has its row, as it was copied, and the call it stands
\* for is the right one, so its request is over.
LEMMA EntryFacts ==
    ASSUME IndInv, NEW c \in rec.todo \cup rec.cur
    PROVE  /\ c \in Snapshot
           /\ c.req \in Requests /\ c.op \in Ops /\ c.attempts \in Nat
           /\ pending[c.req].op = c.op /\ pending[c.req].attempts = c.attempts
           /\ HasRow(c.req)
           /\ Matches(c.req, c.op)
           /\ handler[c.req] = "done"
  <1>1. c \in Snapshot
    BY DEF IndInv, TypeOK
  <1>2. c.req \in Requests /\ c.op \in Ops /\ c.attempts \in Nat
    BY <1>1 DEF Snapshot
  <1>3. pending[c.req] = [op |-> c.op, attempts |-> c.attempts]
    BY DEF IndInv, PassFollowsTable
  <1>4. pending[c.req].op = c.op /\ pending[c.req].attempts = c.attempts
    BY <1>3
  <1>5. HasRow(c.req)
    BY <1>2, <1>4 DEF HasRow, NoRow, Ops
  <1>6. Matches(c.req, c.op)
    BY <1>2, <1>4, <1>5 DEF IndInv, OneVerdict
  <1>7. handler[c.req] = "done"
    BY <1>2, <1>6 DEF IndInv, OneVerdict, Matches
  <1> QED BY <1>1, <1>2, <1>4, <1>5, <1>6, <1>7

\* The connection, and the handler's own steps before it has decided: no record speaks of r yet.
LEMMA HandlerPreserves ==
    ASSUME IndInv, NEW r \in Requests,
           \/ Connect(r) \/ Close(r) \/ Admit(r)
           \/ ReserveOk(r) \/ ReserveFails(r) \/ Disconnect(r)
    PROVE  IndInv'
  <1> USE DEF IndInv
  <1>1. CASE Admit(r)
    BY <1>1 DEF Admit, TypeOK, OneVerdict, PassFollowsTable, NothingForgotten, Tracked, HasRow, Matches
  <1>2. CASE ReserveOk(r)
    <2>1. hold' = [hold EXCEPT ![r] = Applied(hold[r], "reserve")] /\ hold[r] \in {"none", "held", "settled", "released"}
      BY <1>2 DEF ReserveOk, Arrive, TypeOK
    <2>2. Applied(hold[r], "reserve") \in {"none", "held", "settled", "released"}
      BY <2>1, AppliedFacts
    <2>3. verdict[r] = "open" /\ \A c \in rec.cur : c.req # r
      BY <1>2, EntryFacts DEF ReserveOk, OneVerdict
    <2> QED BY <1>2, <2>1, <2>2, <2>3 DEF ReserveOk, TypeOK, OneVerdict, PassFollowsTable, NothingForgotten, Tracked, HasRow, Matches
  <1>3. CASE ReserveFails(r)
    BY <1>3 DEF ReserveFails, TypeOK, OneVerdict, PassFollowsTable, NothingForgotten, Tracked, HasRow, Matches, Ops
  <1>4. CASE Disconnect(r)
    BY <1>4 DEF Disconnect, Dropped, Unanswered, TypeOK, OneVerdict, PassFollowsTable, NothingForgotten, Tracked, HasRow, Matches, Ops
  <1>5. CASE Connect(r) \/ Close(r)
    BY <1>5 DEF Connect, Close, TypeOK, OneVerdict, PassFollowsTable, NothingForgotten, Tracked, HasRow, Matches
  <1> QED BY <1>1, <1>2, <1>3, <1>4, <1>5

\* The decision spawns the task, with the call the verdict asks for.
LEMMA DecisionPreserves ==
    ASSUME IndInv, NEW r \in Requests, Serve(r) \/ Fail(r)
    PROVE  IndInv'
  <1> USE DEF IndInv
  <1>1. CASE Serve(r)
    BY <1>1, RetriesAssumption DEF Serve, Spawn, TypeOK, OneVerdict, PassFollowsTable, NothingForgotten, Tracked, HasRow, Matches, Ops, NoJob
  <1>2. CASE Fail(r)
    BY <1>2, RetriesAssumption DEF Fail, Spawn, TypeOK, OneVerdict, PassFollowsTable, NothingForgotten, Tracked, HasRow, Matches, Ops, NoJob
  <1> QED BY <1>1, <1>2

\* A call that arrives late finds the verdict it was made for, or is a reserve of a
\* request that was turned away.
LEMMA LateArrivalPreserves ==
    ASSUME IndInv, NEW r \in Requests, NEW op \in Ops \cup {"reserve"}, LateArrival(r, op)
    PROVE  IndInv'
  <1> USE DEF IndInv
  <1>1. hold' = [hold EXCEPT ![r] = Applied(hold[r], op)] /\ hold[r] \in {"none", "held", "settled", "released"}
    BY DEF LateArrival, Arrive, TypeOK
  <1>2. Applied(hold[r], op) \in {"none", "held", "settled", "released"}
    BY <1>1, AppliedFacts
  <1>3. op \in Ops => Applied(hold[r], op) # "held"
    BY <1>1, AppliedFacts
  <1>4. op = "reserve" => verdict[r] = "open" /\ \A c \in rec.cur : c.req # r
    BY EntryFacts DEF LateArrival, OneVerdict
  <1> QED BY <1>1, <1>2, <1>3, <1>4
          DEF LateArrival, TypeOK, OneVerdict, PassFollowsTable, NothingForgotten, Tracked, HasRow, Matches

\* The task lets go of a reservation only when the vault has answered.
LEMMA JobPostPreserves ==
    ASSUME IndInv, NEW r \in Requests, JobPost(r)
    PROVE  IndInv'
  <1> USE DEF IndInv
  <1>1. PICK outcome \in {"ok", "final", "retry"} :
          /\ Post(r, job[r].op, outcome)
          /\ job' = [job EXCEPT ![r] =
                       CASE AfterPost(outcome, @.tries) = "ok" -> NoJob
                         [] AfterPost(outcome, @.tries) = "err" -> [@ EXCEPT !.phase = "saving", !.tries = 0]
                         [] AfterPost(outcome, @.tries) = "again" -> [@ EXCEPT !.tries = @ + 1]]
    BY DEF JobPost
  <1>2. /\ job[r].phase = "calling" /\ job[r] # NoJob
        /\ job[r].op \in Ops /\ Matches(r, job[r].op)
    BY DEF JobPost, OneVerdict, NoJob, Matches, Ops
  <1> DEFINE after == AfterPost(outcome, job[r].tries)
  <1>3. /\ after \in {"ok", "err", "again"}
        /\ after = "ok" => outcome = "ok"
        /\ after = "again" => job[r].tries + 1 \in 0..(MAX_RETRIES - 1)
        /\ 0 \in 0..(MAX_RETRIES - 1)
    BY AfterPostFacts DEF TypeOK
  <1>4. /\ hold' \in [Requests -> {"none", "held", "settled", "released"}]
        /\ \A q \in Requests : hold'[q] = "held" => hold[q] = "held"
        /\ outcome = "ok" => hold'[r] # "held"
        /\ late' = late \/ late' = late \cup {<<r, job[r].op>>}
    BY <1>1, <1>2, PostFacts
  <1> DEFINE j == CASE after = "ok" -> NoJob
                    [] after = "err" -> [job[r] EXCEPT !.phase = "saving", !.tries = 0]
                    [] after = "again" -> [job[r] EXCEPT !.tries = @ + 1]
  <1>5. /\ job' = [job EXCEPT ![r] = j]
        /\ j \in [phase : {"none", "calling", "saving"}, op : Ops \cup {"none"},
                  tries : 0..(MAX_RETRIES - 1)]
        /\ after = "ok" => j = NoJob
        /\ after # "ok" => j # NoJob /\ j.phase # "none" /\ j.op = job[r].op
    <2>0. job[r] \in [phase : {"none", "calling", "saving"}, op : Ops \cup {"none"},
                      tries : 0..(MAX_RETRIES - 1)]
      BY DEF TypeOK
    <2>1. job' = [job EXCEPT ![r] = j]
      BY <1>1 DEF TypeOK
    <2> HIDE DEF after
    <2>2. CASE after = "ok"
      BY <1>3, <2>1, <2>2 DEF NoJob
    <2>3. CASE after = "err"
      <3>1. j = [job[r] EXCEPT !.phase = "saving", !.tries = 0]
        BY <2>3
      <3> QED BY <1>2, <1>3, <2>0, <2>1, <2>3, <3>1 DEF NoJob
    <2>4. CASE after = "again"
      <3>1. j = [job[r] EXCEPT !.tries = job[r].tries + 1]
        BY <2>4
      <3> QED BY <1>2, <1>3, <2>0, <2>1, <2>4, <3>1 DEF NoJob
    <2> QED BY <1>3, <2>2, <2>3, <2>4
  <1> HIDE DEF j, after
  <1>6. UNCHANGED <<conn, handler, verdict, pending, rec, backpressure, evicted, proc, calm, cut>>
    BY DEF JobPost
  <1>7. TypeOK'
    BY <1>2, <1>4, <1>5, <1>6 DEF TypeOK
  <1>8. OneVerdict'
    BY <1>2, <1>3, <1>4, <1>5, <1>6 DEF OneVerdict, TypeOK, HasRow, Matches
  <1>9. PassFollowsTable'
    <2>1. \A c \in rec.cur : c.req \in Requests
      BY EntryFacts
    <2> QED BY <1>4, <1>6, <2>1 DEF PassFollowsTable
  <1>10. NothingForgotten'
    BY <1>3, <1>4, <1>5, <1>6 DEF NothingForgotten, Tracked, HasRow, TypeOK
  <1> QED BY <1>7, <1>8, <1>9, <1>10

\* The row carries the task's call, and a lost row is cut.
LEMMA JobSavePreserves ==
    ASSUME IndInv, NEW r \in Requests, JobSave(r)
    PROVE  IndInv'
  <1> USE DEF IndInv
  <1>1. /\ job' = [job EXCEPT ![r] = NoJob]
        /\ job[r] # NoJob /\ job[r].op \in Ops /\ Matches(r, job[r].op)
        /\ UNCHANGED <<conn, handler, verdict, hold, late, rec, backpressure, evicted, proc, calm>>
    BY DEF JobSave, OneVerdict, NoJob, Matches, Ops
  <1>2. NoJob \in [phase : {"none", "calling", "saving"}, op : Ops \cup {"none"},
                   tries : 0..(MAX_RETRIES - 1)]
    BY RetriesAssumption DEF NoJob
  <1>3. \/ /\ pending' = [pending EXCEPT ![r] = IF HasRow(r) THEN @ ELSE [op |-> job[r].op, attempts |-> 0]]
           /\ cut' = cut
        \/ cut' = cut \cup {r} /\ pending' = pending
    BY DEF JobSave
  <1>4. TypeOK'
    <2>1. [op |-> job[r].op, attempts |-> 0] \in
              [op : Ops \cup {"none"}, attempts : 0..MAX_SETTLEMENT_ATTEMPTS]
      BY <1>1, AttemptsAssumption
    <2>2. pending' \in [Requests -> [op : Ops \cup {"none"}, attempts : 0..MAX_SETTLEMENT_ATTEMPTS]]
      BY <1>3, <2>1 DEF TypeOK
    <2>3. job' \in [Requests -> [phase : {"none", "calling", "saving"}, op : Ops \cup {"none"},
                                tries : 0..(MAX_RETRIES - 1)]]
      BY <1>1, <1>2 DEF TypeOK
    <2>4. cut' \subseteq Requests
      BY <1>3 DEF TypeOK
    <2> QED BY <1>1, <2>2, <2>3, <2>4 DEF TypeOK
  <1>5. OneVerdict'
    BY <1>1, <1>3 DEF OneVerdict, TypeOK, HasRow, NoRow, Matches
  <1>6. PassFollowsTable'
    <2>1. \A c \in rec.todo \cup rec.cur : c.req \in Requests /\ HasRow(c.req)
      BY EntryFacts
    <2> QED BY <1>1, <1>3, <2>1 DEF PassFollowsTable, TypeOK
  <1>7. NothingForgotten'
    <2>1. [op |-> job[r].op, attempts |-> 0] # NoRow
      BY <1>1 DEF NoRow, Ops
    <2> QED BY <1>1, <1>3, <2>1 DEF NothingForgotten, Tracked, HasRow, TypeOK
  <1> QED BY <1>4, <1>5, <1>6, <1>7
-----------------------------------------------------------------------------
\* The records the reconciliation task moves between.
RecType == [phase : {"idle", "counted", "next", "replay", "delete", "bump", "off"},
            todo : SUBSET Snapshot, cur : SUBSET Snapshot,
            tries : 0..(MAX_RETRIES - 1), last : BOOLEAN]

\* The end of a pass leaves nothing behind.
LEMMA EndPassFacts ==
    ASSUME NEW last \in BOOLEAN
    PROVE  /\ EndPass(last) \in RecType
           /\ EndPass(last).phase = IF last THEN "off" ELSE "idle"
           /\ EndPass(last).todo = {} /\ EndPass(last).cur = {} /\ EndPass(last).last = FALSE
  <1>1. 0 \in 0..(MAX_RETRIES - 1)
    BY RetriesAssumption
  <1>2. CASE last = TRUE
    BY <1>1, <1>2 DEF EndPass, IdleRec, RecType
  <1>3. CASE last = FALSE
    BY <1>1, <1>3 DEF EndPass, IdleRec, RecType
  <1> QED BY <1>2, <1>3

\* A step of the reconciliation task between rows: the pass begins, takes its
\* copy, or ends.
LEMMA PassPreserves ==
    ASSUME IndInv, RecCount \/ RecFetch \/ RecDone
    PROVE  IndInv'
  <1> USE DEF IndInv
  <1>0. rec \in RecType /\ (proc = "final") \in BOOLEAN /\ rec.last \in BOOLEAN
    BY DEF TypeOK, RecType
  <1>1. ASSUME UNCHANGED <<conn, handler, verdict, hold, job, pending, late, evicted, proc, calm, cut>>,
               backpressure' \in BOOLEAN,
               rec' \in RecType, rec'.cur = {}, rec'.last => proc = "final",
               rec'.phase \in {"idle", "off", "counted"} => rec'.todo = {},
               rec'.phase \in {"idle", "off", "counted", "next"},
               rec'.phase = "off" => proc = "final",
               \A c \in rec'.todo : pending[c.req] = [op |-> c.op, attempts |-> c.attempts]
        PROVE  IndInv'
    BY <1>1 DEF RecType, TypeOK, OneVerdict, PassFollowsTable, NothingForgotten, Tracked, HasRow, Matches
  <1>2. CASE RecCount
    <2>1. rec.phase = "idle" /\ rec.todo = {} /\ rec.cur = {}
      BY <1>2 DEF RecCount, PassFollowsTable
    <2>2. backpressure' \in BOOLEAN
      <3>1. (Cardinality(Rows) >= pending_threshold) \in BOOLEAN
        OBVIOUS
      <3> QED BY <1>2, <3>1 DEF RecCount, TypeOK
    <2>3. \/ rec' = EndPass(proc = "final")
          \/ rec' = [rec EXCEPT !.phase = "counted", !.last = (proc = "final")]
      BY <1>2 DEF RecCount, BeginPass
    <2>4. CASE rec' = EndPass(proc = "final")
      BY <1>0, <1>1, <1>2, <2>2, <2>4, EndPassFacts DEF RecCount
    <2>5. CASE rec' = [rec EXCEPT !.phase = "counted", !.last = (proc = "final")]
      BY <1>0, <1>1, <1>2, <2>1, <2>2, <2>5 DEF RecCount, RecType
    <2> QED BY <2>3, <2>4, <2>5
  <1>3. CASE RecFetch
    <2> DEFINE copy == {[req |-> r, op |-> pending[r].op, attempts |-> pending[r].attempts] : r \in Rows}
    <2>1. rec.phase = "counted" /\ rec.todo = {} /\ rec.cur = {} /\ (rec.last => proc = "final")
      BY <1>3 DEF RecFetch, PassFollowsTable
    <2>2. copy \subseteq Snapshot
      BY DEF Rows, HasRow, OneVerdict, Matches, TypeOK, Snapshot, Ops
    <2>3. \A c \in copy : pending[c.req] = [op |-> c.op, attempts |-> c.attempts]
      BY DEF Rows, TypeOK
    <2>4. CASE rec' = [rec EXCEPT !.phase = "next", !.todo = copy]
      BY <1>0, <1>1, <1>3, <2>1, <2>2, <2>3, <2>4 DEF RecFetch, RecType, TypeOK
    <2>5. CASE rec' = EndPass(rec.last)
      BY <1>0, <1>1, <1>3, <2>1, <2>5, EndPassFacts DEF RecFetch, TypeOK
    <2> QED BY <1>3, <2>4, <2>5 DEF RecFetch
  <1>4. CASE RecDone
    <2>1. rec.last => proc = "final"
      BY DEF PassFollowsTable
    <2> QED BY <1>0, <1>1, <1>4, <2>1, EndPassFacts DEF RecDone, TypeOK
  <1> QED BY <1>2, <1>3, <1>4

\* Entries with the same request are the same entry.
LEMMA EntriesAreUnique ==
    ASSUME IndInv, NEW c \in rec.todo \cup rec.cur, NEW d \in rec.todo \cup rec.cur, c.req = d.req
    PROVE  c = d
  BY EntryFacts DEF Snapshot

\* Eviction touches the row of one entry, which leaves the copy.
LEMMA EvictPreserves ==
    ASSUME IndInv, NEW c \in rec.todo, RecEvict(c)
    PROVE  IndInv'
  <1> USE DEF IndInv
  <1>1. /\ rec.phase = "next" /\ rec.cur = {} /\ rec \in RecType
        /\ rec' = [rec EXCEPT !.todo = rec.todo \ {c}]
        /\ UNCHANGED <<conn, handler, verdict, hold, job, late, backpressure, proc, calm, cut>>
    BY DEF RecEvict, PassFollowsTable, TypeOK, RecType
  <1>2. c.req \in Requests /\ \A d \in rec'.todo : d.req \in Requests /\ d.req # c.req
    BY <1>1, EntryFacts, EntriesAreUnique DEF RecType
  <1>3. \/ pending' = [pending EXCEPT ![c.req] = NoRow] /\ evicted' = evicted \cup {c.req}
        \/ UNCHANGED <<pending, evicted>>
    BY DEF RecEvict, DeleteRow
  <1>4. TypeOK'
    <2>1. NoRow \in [op : Ops \cup {"none"}, attempts : 0..MAX_SETTLEMENT_ATTEMPTS]
      BY AttemptsAssumption DEF NoRow
    <2>2. rec' \in RecType /\ rec'.phase = "next"
      BY <1>1 DEF RecType
    <2>3. pending' \in [Requests -> [op : Ops \cup {"none"}, attempts : 0..MAX_SETTLEMENT_ATTEMPTS]]
      BY <1>2, <1>3, <2>1 DEF TypeOK
    <2>4. evicted' \subseteq Requests
      BY <1>2, <1>3 DEF TypeOK
    <2> QED BY <1>1, <2>2, <2>3, <2>4 DEF TypeOK, RecType
  <1>5. OneVerdict'
    BY <1>1, <1>2, <1>3 DEF OneVerdict, TypeOK, HasRow, Matches
  <1>6. PassFollowsTable'
    BY <1>1, <1>2, <1>3 DEF PassFollowsTable, TypeOK, RecType
  <1>7. NothingForgotten'
    BY <1>1, <1>2, <1>3 DEF NothingForgotten, Tracked, TypeOK, HasRow
  <1> QED BY <1>4, <1>5, <1>6, <1>7

\* An entry moves from the rows to do to the one in hand.
LEMMA PickPreserves ==
    ASSUME IndInv, NEW c \in rec.todo, RecPick(c)
    PROVE  IndInv'
  <1> USE DEF IndInv
  <1>1. /\ rec.phase = "next" /\ rec.cur = {} /\ rec \in RecType
        /\ rec' = [rec EXCEPT !.phase = "replay", !.todo = rec.todo \ {c}, !.cur = {c}, !.tries = 0]
        /\ c.attempts < MAX_SETTLEMENT_ATTEMPTS
        /\ UNCHANGED <<conn, handler, verdict, hold, job, pending, late, backpressure, evicted, proc, calm, cut>>
    BY DEF RecPick, PassFollowsTable, TypeOK, RecType
  <1>2. TypeOK'
    <2>1. 0 \in 0..(MAX_RETRIES - 1)
      BY RetriesAssumption
    <2>2. rec' \in RecType /\ rec'.phase = "replay"
      BY <1>1, <2>1 DEF RecType
    <2> QED BY <1>1, <2>2 DEF TypeOK, RecType
  <1>3. PassFollowsTable'
    BY <1>1 DEF PassFollowsTable, TypeOK, RecType
  <1>4. OneVerdict' /\ NothingForgotten'
    BY <1>1 DEF OneVerdict, HasRow, Matches, NothingForgotten, Tracked
  <1> QED BY <1>2, <1>3, <1>4

\* A replay posts what the row says, and goes on to delete the row only when the
\* vault has answered.
LEMMA RecPostPreserves ==
    ASSUME IndInv, NEW c \in rec.cur, RecPost(c)
    PROVE  IndInv'
  <1> USE DEF IndInv
  <1>1. PICK outcome \in {"ok", "final", "retry"} :
          /\ Post(c.req, c.op, outcome)
          /\ rec' = CASE AfterPost(outcome, rec.tries) = "ok" -> [rec EXCEPT !.phase = "delete", !.tries = 0]
                      [] AfterPost(outcome, rec.tries) = "err" -> [rec EXCEPT !.phase = "bump", !.tries = 0]
                      [] AfterPost(outcome, rec.tries) = "again" -> [rec EXCEPT !.tries = @ + 1]
    BY DEF RecPost
  <1>2. /\ c.req \in Requests /\ c.op \in Ops /\ Matches(c.req, c.op)
        /\ \A d \in rec.todo \cup rec.cur : d.req \in Requests
        /\ \A d \in rec.cur : d = c
    BY EntryFacts DEF PassFollowsTable
  <1>3. /\ rec.phase = "replay" /\ rec \in RecType
        /\ UNCHANGED <<conn, handler, verdict, job, pending, backpressure, evicted, proc, calm, cut>>
    BY DEF RecPost, TypeOK, RecType
  <1> DEFINE after == AfterPost(outcome, rec.tries)
  <1>4. /\ after \in {"ok", "err", "again"}
        /\ after = "ok" => outcome = "ok"
        /\ after = "again" => rec.tries + 1 \in 0..(MAX_RETRIES - 1)
        /\ 0 \in 0..(MAX_RETRIES - 1)
    BY <1>3, AfterPostFacts DEF RecType
  <1>5. /\ hold' \in [Requests -> {"none", "held", "settled", "released"}]
        /\ \A q \in Requests : hold'[q] = "held" => hold[q] = "held"
        /\ outcome = "ok" => hold'[c.req] # "held"
        /\ late' = late \/ late' = late \cup {<<c.req, c.op>>}
    BY <1>1, <1>2, PostFacts
  <1>6. /\ rec' \in RecType
        /\ rec'.phase \in {"replay", "delete", "bump"}
        /\ rec'.phase = "delete" => after = "ok"
        /\ rec'.todo = rec.todo /\ rec'.cur = rec.cur /\ rec'.last = rec.last
    <2> HIDE DEF after
    <2>0. rec' = CASE after = "ok" -> [rec EXCEPT !.phase = "delete", !.tries = 0]
                   [] after = "err" -> [rec EXCEPT !.phase = "bump", !.tries = 0]
                   [] after = "again" -> [rec EXCEPT !.tries = @ + 1]
      BY <1>1 DEF after
    <2>1. CASE after = "ok"
      <3>1. rec' = [rec EXCEPT !.phase = "delete", !.tries = 0]
        BY <2>0, <2>1
      <3> QED BY <1>3, <1>4, <2>1, <3>1 DEF RecType
    <2>2. CASE after = "err"
      <3>1. rec' = [rec EXCEPT !.phase = "bump", !.tries = 0]
        BY <2>0, <2>2
      <3> QED BY <1>3, <1>4, <2>2, <3>1 DEF RecType
    <2>3. CASE after = "again"
      <3>1. rec' = [rec EXCEPT !.tries = rec.tries + 1]
        BY <2>0, <2>3
      <3> QED BY <1>3, <1>4, <2>3, <3>1 DEF RecType
    <2> QED BY <1>4, <2>1, <2>2, <2>3
  <1> HIDE DEF after
  <1>7. TypeOK'
    <2>1. late' \subseteq Requests \X (Ops \cup {"reserve"})
      BY <1>2, <1>5 DEF TypeOK
    <2> QED BY <1>3, <1>5, <1>6, <2>1 DEF TypeOK, RecType
  <1>8. OneVerdict'
    BY <1>2, <1>3, <1>5 DEF OneVerdict, HasRow, Matches, Ops
  <1>9. PassFollowsTable'
    BY <1>2, <1>3, <1>4, <1>5, <1>6 DEF PassFollowsTable
  <1>10. NothingForgotten'
    BY <1>3, <1>5 DEF NothingForgotten, Tracked, HasRow
  <1> QED BY <1>7, <1>8, <1>9, <1>10

\* The end of a replay deletes the row, whose reservation has ended, or counts
\* the attempt, of which one was left.
LEMMA RowDonePreserves ==
    ASSUME IndInv, NEW c \in rec.cur, RecDelete(c) \/ RecBump(c)
    PROVE  IndInv'
  <1> USE DEF IndInv
  <1>1. /\ rec' = [rec EXCEPT !.phase = "next", !.cur = {}] /\ rec \in RecType
        /\ rec.phase \in {"delete", "bump"}
        /\ UNCHANGED <<conn, handler, verdict, hold, job, late, backpressure, evicted, proc, calm, cut>>
    BY DEF RecDelete, RecBump, NextRow, TypeOK, RecType
  <1>2. /\ rec' \in RecType /\ rec'.phase = "next" /\ rec'.cur = {}
        /\ rec'.todo = rec.todo /\ rec'.last = rec.last
    BY <1>1 DEF RecType
  <1>3. /\ c.req \in Requests /\ HasRow(c.req) /\ c.op \in Ops
        /\ pending[c.req].attempts = c.attempts /\ pending[c.req].op = c.op
        /\ c.attempts \in Nat /\ c.attempts < MAX_SETTLEMENT_ATTEMPTS
        /\ \A d \in rec.todo : d.req \in Requests /\ d.req # c.req
    BY EntryFacts, EntriesAreUnique DEF PassFollowsTable
  <1> DEFINE bumped == [op |-> c.op, attempts |-> c.attempts + 1]
  <1>4. \/ pending' = pending
        \/ pending' = [pending EXCEPT ![c.req] = NoRow] /\ hold[c.req] # "held"
        \/ pending' = [pending EXCEPT ![c.req] = bumped]
    <2>1. CASE RecDelete(c)
      BY <2>1 DEF RecDelete, DeleteRow, PassFollowsTable
    <2>2. CASE RecBump(c)
      <3>1. [pending[c.req] EXCEPT !.attempts = pending[c.req].attempts + 1] = bumped
        BY <1>3 DEF TypeOK
      <3> QED BY <2>2, <3>1 DEF RecBump
    <2> QED BY <2>1, <2>2
  <1>5. /\ NoRow \in [op : Ops \cup {"none"}, attempts : 0..MAX_SETTLEMENT_ATTEMPTS]
        /\ bumped \in [op : Ops \cup {"none"}, attempts : 0..MAX_SETTLEMENT_ATTEMPTS]
        /\ bumped # NoRow
    BY <1>3, AttemptsAssumption DEF NoRow, Ops
  <1>6. bumped.op = pending[c.req].op
    BY <1>3
  <1> HIDE DEF bumped
  <1>7. TypeOK'
    <2>1. pending' \in [Requests -> [op : Ops \cup {"none"}, attempts : 0..MAX_SETTLEMENT_ATTEMPTS]]
      BY <1>3, <1>4, <1>5, ZenonT(40) DEF TypeOK
    <2> QED BY <1>1, <1>2, <2>1 DEF TypeOK, RecType
  <1>8. OneVerdict'
    BY <1>1, <1>3, <1>4, <1>6 DEF OneVerdict, TypeOK, HasRow, Matches
  <1>9. PassFollowsTable'
    BY <1>1, <1>2, <1>3, <1>4 DEF PassFollowsTable, TypeOK
  <1>10. NothingForgotten'
    BY <1>1, <1>3, <1>4, <1>5 DEF NothingForgotten, Tracked, TypeOK, HasRow
  <1> QED BY <1>7, <1>8, <1>9, <1>10
-----------------------------------------------------------------------------
\* A restart keeps the table, the vault and the calls on their way; what it loses
\* is cut.
LEMMA RestartPreserves ==
    ASSUME IndInv, Restart
    PROVE  IndInv'
  <1> USE DEF IndInv
  <1>1. NoJob \in [phase : {"none", "calling", "saving"}, op : Ops \cup {"none"},
                   tries : 0..(MAX_RETRIES - 1)]
    BY RetriesAssumption DEF NoJob
  <1>2. /\ IdleRec \in RecType /\ IdleRec.phase = "idle" /\ IdleRec.last = FALSE
        /\ IdleRec.todo = {} /\ IdleRec.cur = {}
    BY RetriesAssumption DEF IdleRec, RecType
  <1>3. \A r \in Requests : handler'[r] = Dropped(handler[r])
    BY DEF Restart
  <1>4. \A r \in Requests :
           /\ Dropped(handler[r]) \in {"idle", "unreserved", "done", "dropped"}
           /\ Dropped(handler[r]) = "done" <=> handler[r] = "done"
           /\ handler[r] \in {"reserving", "unreserved"} => Dropped(handler[r]) = "unreserved"
    BY DEF TypeOK, Dropped
  <1>5. TypeOK'
    <2>1. late' \subseteq Requests \X (Ops \cup {"reserve"})
      BY DEF Restart, Unanswered, TypeOK
    <2>2. handler' \in [Requests -> {"idle", "reserving", "unreserved", "serving", "done", "dropped"}]
      BY <1>4 DEF Restart
    <2> QED BY <1>1, <1>2, <2>1, <2>2 DEF Restart, TypeOK, RecType
  <1>6. OneVerdict'
    <2>1. \A r \in Requests, op \in Ops : <<r, op>> \in late' => <<r, op>> \in late
      BY DEF Restart, Unanswered, Ops
    <2>2. \A r \in Requests : <<r, "reserve">> \in late' =>
              <<r, "reserve">> \in late \/ handler[r] = "reserving"
      BY DEF Restart, Unanswered
    <2> QED BY <1>3, <1>4, <2>1, <2>2 DEF Restart, OneVerdict, HasRow, Matches
  <1>7. PassFollowsTable'
    BY <1>2 DEF Restart, PassFollowsTable
  <1>8. NothingForgotten'
    BY DEF Restart, NothingForgotten, Tracked, HasRow
  <1> QED BY <1>5, <1>6, <1>7, <1>8

\* The process is stopped, killed or drained.
LEMMA ProcessPreserves ==
    ASSUME IndInv, Crash \/ Shutdown \/ Drained \/ Exit \/ CalmDown
    PROVE  IndInv'
  <1>1. CASE Crash \/ Exit
    BY <1>1, RestartPreserves DEF Crash, Exit
  <1>2. CASE Shutdown
    <2>1. ~rec.last /\ rec.phase # "off"
      BY <1>2 DEF Shutdown, IndInv, TypeOK, PassFollowsTable
    <2> QED BY <1>2, <2>1 DEF Shutdown, IndInv, TypeOK, OneVerdict, PassFollowsTable,
                              NothingForgotten, Tracked, HasRow, Matches
  <1>3. CASE Drained
    BY <1>3 DEF Drained, IndInv, TypeOK, OneVerdict, PassFollowsTable,
                NothingForgotten, Tracked, HasRow, Matches
  <1>4. CASE CalmDown
    BY <1>4 DEF CalmDown, IndInv, TypeOK, OneVerdict, PassFollowsTable,
                NothingForgotten, Tracked, HasRow, Matches
  <1> QED BY <1>1, <1>2, <1>3, <1>4

\* One step of anyone.
LEMMA NextPreservesIndInv == IndInv /\ [Next]_vars => IndInv'
  <1> SUFFICES ASSUME IndInv, [Next]_vars PROVE IndInv'
    OBVIOUS
  <1>1. ASSUME NEW r \in Requests,
               Connect(r) \/ Admit(r) \/ Handler(r) \/ Close(r) \/ Disconnect(r)
        PROVE  IndInv'
    BY <1>1, HandlerPreserves, DecisionPreserves DEF Handler
  <1>2. ASSUME NEW r \in Requests, Job(r) PROVE IndInv'
    BY <1>2, JobPostPreserves, JobSavePreserves DEF Job
  <1>3. ASSUME NEW r \in Requests, NEW op \in Ops \cup {"reserve"}, LateArrival(r, op) PROVE IndInv'
    BY <1>3, LateArrivalPreserves
  <1>4. CASE Reconcile
    BY <1>4, PassPreserves, EvictPreserves, PickPreserves, RecPostPreserves, RowDonePreserves
    DEF Reconcile
  <1>5. CASE Crash \/ Shutdown \/ Stop \/ CalmDown
    BY <1>5, ProcessPreserves DEF Stop
  <1>6. CASE UNCHANGED vars
    BY <1>6 DEF vars, IndInv, TypeOK, OneVerdict, PassFollowsTable, NothingForgotten, Tracked,
                HasRow, Matches
  <1> QED BY <1>1, <1>2, <1>3, <1>4, <1>5, <1>6 DEF Next

\* Every reachable state satisfies the inductive invariant.
THEOREM Invariance == Spec => []IndInv
  BY InitImpliesIndInv, NextPreservesIndInv, PTL DEF Spec

\* Every variable keeps its type: no call is posted more often than
\* call_with_retry allows and no row is replayed more often than reconcile_once
\* allows.
THEOREM TypeCorrect == Spec => []TypeOK
  <1>1. IndInv => TypeOK
    BY DEF IndInv
  <1> QED BY <1>1, Invariance, PTL

\* Whatever is or will be posted for a request is what its end calls for, and
\* the copy a reconciliation pass works on is never stale.
THEOREM RecordsAlwaysAgree == Spec => []RecordsAgree
  <1>1. IndInv => RecordsAgree
    BY DEF IndInv, RecordsAgree
  <1> QED BY <1>1, Invariance, PTL

\* A reservation whose request is over is settled, released, tracked, or was
\* cut off with the process or by a failed INSERT.
THEOREM NoReservationForgotten == Spec => []NothingForgotten
  <1>1. IndInv => NothingForgotten
    BY DEF IndInv
  <1> QED BY <1>1, Invariance, PTL
-----------------------------------------------------------------------------
\* A step that takes r's row out of the table is the end of its replay or its
\* eviction.
LEMMA StepKeepsRows ==
    ASSUME IndInv, [Next]_vars, NEW r \in Requests, HasRow(r), ~HasRow(r)'
    PROVE  hold[r] # "held" \/ pending[r].attempts >= MAX_SETTLEMENT_ATTEMPTS
  <1>1. pending' # pending
    BY DEF HasRow
  <1>2. \/ \E q \in Requests : JobSave(q)
        \/ \E c \in rec.todo : RecEvict(c)
        \/ \E c \in rec.cur : RecDelete(c) \/ RecBump(c)
    BY <1>1 DEF Next, vars, Handler, Job, Reconcile, Stop, Connect, Close, Admit, ReserveOk, ReserveFails, Serve, Fail,
        Disconnect, JobPost, LateArrival, RecCount, RecFetch, RecDone, RecPick, RecPost, Crash, Exit,
        Restart, Shutdown, Drained, CalmDown
  <1>3. ASSUME NEW q \in Requests, JobSave(q) PROVE FALSE
    BY <1>3 DEF JobSave, HasRow, IndInv, TypeOK
  <1>4. ASSUME NEW c \in rec.todo, RecEvict(c)
        PROVE  pending[r].attempts >= MAX_SETTLEMENT_ATTEMPTS
    <2>1. c.req \in Requests /\ pending[c.req].attempts = c.attempts
      BY EntryFacts
    <2>2. c.req = r
      BY <1>4, <2>1 DEF RecEvict, DeleteRow, HasRow, IndInv, TypeOK
    <2> QED BY <1>4, <2>1, <2>2 DEF RecEvict
  <1>5. ASSUME NEW c \in rec.cur, RecDelete(c) PROVE hold[r] # "held"
    <2>1. c.req \in Requests /\ hold[c.req] # "held"
      BY <1>5, EntryFacts DEF RecDelete, IndInv, PassFollowsTable
    <2>2. c.req = r
      BY <1>5, <2>1 DEF RecDelete, DeleteRow, HasRow, IndInv, TypeOK
    <2> QED BY <2>1, <2>2
  <1>6. ASSUME NEW c \in rec.cur, RecBump(c) PROVE FALSE
    <2>1. c.req \in Requests /\ pending[c.req].op = c.op /\ c.op \in Ops
      BY EntryFacts
    <2>2. pending' = [pending EXCEPT ![c.req].attempts = @ + 1] \/ pending' = pending
      BY <1>6 DEF RecBump
    <2>3. pending'[c.req].op = c.op
      BY <2>1, <2>2 DEF IndInv, TypeOK
    <2>4. c.req # r => pending'[r] = pending[r]
      BY <2>1, <2>2 DEF IndInv, TypeOK
    <2> QED BY <2>1, <2>3, <2>4 DEF HasRow, NoRow, Ops
  <1> QED BY <1>2, <1>3, <1>4, <1>5, <1>6

\* A row leaves the table only when the vault no longer holds the reservation
\* or the row has used up its attempts.
THEOREM RowsStay == Spec => RowsAreKept
  <1>1. IndInv /\ [Next]_vars =>
          [\A r \in Requests :
              HasRow(r) /\ ~HasRow(r)' =>
                  hold[r] # "held" \/ pending[r].attempts >= MAX_SETTLEMENT_ATTEMPTS]_vars
    BY StepKeepsRows
  <1> QED BY <1>1, Invariance, PTL DEF Spec, RowsAreKept
-----------------------------------------------------------------------------
\* A call that arrives is a step of the ledger or none: Hold for a reserve,
\* and for the others the end that the verdict calls for.
LEMMA ArrivalRefines ==
    ASSUME IndInv, NEW r \in Requests, NEW op \in Ops \cup {"reserve"},
           hold' = [hold EXCEPT ![r] = Applied(@, op)], verdict' = verdict,
           op \in Ops => Matches(r, op)
    PROVE  [Promise!Step]_(Promise!ledgerVars)
  <1>1. hold \in [Requests -> {"none", "held", "settled", "released"}]
    BY DEF IndInv, TypeOK
  <1>2. CASE op = "reserve" /\ hold[r] = "none"
    <2>1. Applied(hold[r], op) = "held"
      BY <1>1, <1>2, AppliedFacts
    <2> QED BY <1>2, <2>1 DEF Promise!Step, Promise!Hold
  <1>3. CASE op = "settle" /\ hold[r] = "held"
    <2>1. Applied(hold[r], op) = "settled" /\ verdict[r] = "served"
      BY <1>1, <1>3, AppliedFacts DEF Matches, Ops
    <2> QED BY <1>3, <2>1 DEF Promise!Step, Promise!Settle
  <1>4. CASE op = "release" /\ hold[r] = "held"
    <2>1. Applied(hold[r], op) = "released" /\ verdict[r] = "failed"
      BY <1>1, <1>4, AppliedFacts DEF Matches, Ops
    <2> QED BY <1>4, <2>1 DEF Promise!Step, Promise!Release
  <1>5. CASE \/ op = "reserve" /\ hold[r] # "none"
             \/ op \in Ops /\ hold[r] # "held"
    <2>1. Applied(hold[r], op) = hold[r]
      BY <1>1, <1>5, AppliedFacts DEF Ops
    <2>2. hold' = hold
      BY <1>1, <2>1
    <2> QED BY <2>2 DEF Promise!ledgerVars
  <1> QED BY <1>2, <1>3, <1>4, <1>5 DEF Ops

\* So is a post, which may also be lost.
LEMMA PostRefines ==
    ASSUME IndInv, NEW r \in Requests, NEW op \in Ops, Matches(r, op),
           NEW outcome \in {"ok", "final", "retry"}, Post(r, op, outcome), verdict' = verdict
    PROVE  [Promise!Step]_(Promise!ledgerVars)
  <1>1. hold' = hold \/ hold' = [hold EXCEPT ![r] = Applied(@, op)]
    BY PostFacts DEF IndInv
  <1>2. CASE hold' = hold
    BY <1>2 DEF Promise!ledgerVars
  <1>3. CASE hold' = [hold EXCEPT ![r] = Applied(@, op)]
    BY <1>3, ArrivalRefines
  <1> QED BY <1>1, <1>2, <1>3

\* Every step is a step of the ledger or leaves it as it is.
LEMMA StepRefines ==
    ASSUME IndInv, [Next]_vars
    PROVE  [Promise!Step]_(Promise!ledgerVars)
  <1>1. ASSUME NEW r \in Requests, ReserveOk(r) PROVE [Promise!Step]_(Promise!ledgerVars)
    BY <1>1, ArrivalRefines DEF ReserveOk, Arrive, Ops
  <1>2. ASSUME NEW r \in Requests, NEW op \in Ops \cup {"reserve"}, LateArrival(r, op)
        PROVE  [Promise!Step]_(Promise!ledgerVars)
    <2>1. op \in Ops => Matches(r, op)
      BY <1>2 DEF LateArrival, IndInv, OneVerdict
    <2> QED BY <1>2, <2>1, ArrivalRefines DEF LateArrival, Arrive
  <1>3. ASSUME NEW r \in Requests, JobPost(r) PROVE [Promise!Step]_(Promise!ledgerVars)
    <2>1. job[r].op \in Ops /\ Matches(r, job[r].op)
      BY <1>3 DEF JobPost, IndInv, OneVerdict, NoJob, Matches, Ops
    <2> QED BY <1>3, <2>1, PostRefines DEF JobPost
  <1>4. ASSUME NEW c \in rec.cur, RecPost(c) PROVE [Promise!Step]_(Promise!ledgerVars)
    <2>1. c.req \in Requests /\ c.op \in Ops /\ Matches(c.req, c.op)
      BY EntryFacts
    <2> QED BY <1>4, <2>1, PostRefines DEF RecPost
  <1>5. ASSUME NEW r \in Requests, Serve(r) \/ Fail(r) PROVE [Promise!Step]_(Promise!ledgerVars)
    <2>1. verdict[r] = "open"
      BY <1>5 DEF Serve, Fail, IndInv, OneVerdict
    <2>2. \E v \in {"served", "failed"} : Promise!Decide(r, v)
      BY <1>5, <2>1 DEF Serve, Fail, Promise!Decide
    <2> QED BY <2>2 DEF Promise!Step
  <1>6. CASE hold' = hold /\ verdict' = verdict
    BY <1>6 DEF Promise!ledgerVars
  <1>7. \/ \E r \in Requests : ReserveOk(r) \/ JobPost(r) \/ Serve(r) \/ Fail(r)
        \/ \E r \in Requests, op \in Ops \cup {"reserve"} : LateArrival(r, op)
        \/ \E c \in rec.cur : RecPost(c)
        \/ hold' = hold /\ verdict' = verdict
    BY DEF Next, vars, Handler, Job, Reconcile, Stop, Connect, Close, Admit, ReserveFails, Disconnect, JobSave,
        RecCount, RecFetch, RecDone, RecEvict, RecPick, RecDelete, RecBump, Crash, Exit, Restart,
        Shutdown, Drained, CalmDown
  <1> QED BY <1>1, <1>2, <1>3, <1>4, <1>5, <1>6, <1>7

\* The proxy, with its retries, its table, its crashes and the calls that
\* arrive late, implements the ledger: a hold ends at most once, settled if the
\* request was served and released if it failed.
THEOREM BillingImplementsLedger == Spec => ImplementsLedger
  <1>1. Init => Promise!Start
    BY DEF Init, Promise!Start
  <1>2. IndInv /\ [Next]_vars => [Promise!Step]_(Promise!ledgerVars)
    BY StepRefines
  <1> QED BY <1>1, <1>2, Invariance, PTL DEF Spec, ImplementsLedger, Promise!Ledger
=============================================================================
