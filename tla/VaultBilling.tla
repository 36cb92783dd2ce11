---------------------------- MODULE VaultBilling ----------------------------
(***************************************************************************)
(* Reserve, settle and release against the vault (src/proxy/vault.rs, and  *)
(* their callers in src/proxy/handlers.rs): the request that reserves, the *)
(* task it spawns to settle or release, the table of pending settlements,  *)
(* the reconciliation task that replays it, backpressure, and the ends of  *)
(* the process (src/proxy/server.rs).                                      *)
(*                                                                         *)
(* The vault is another program.  As the code uses it, a reservation it    *)
(* holds ends with the first settle or release that arrives; a later call  *)
(* on it changes nothing and is answered or refused.  Calls and answers    *)
(* get lost, and a call the client has given up on may still arrive.  The  *)
(* end of the process loses everything but the table and the vault.        *)
(* Statements fail, and the process crashes and is stopped and restarted,  *)
(* until the system calms down.                                            *)
(*                                                                         *)
(* Nothing makes a connection end: a handler may wait for ever for another *)
(* request's probe (acquire_permit has no timeout), and a stream for a     *)
(* client that neither reads nor leaves.                                   *)
(***************************************************************************)
EXTENDS Naturals, FiniteSets

CONSTANTS
    Requests,
    MAX_RETRIES,               \* vault::MAX_RETRIES: posts per call
    MAX_SETTLEMENT_ATTEMPTS,   \* replays before a row is evicted
    pending_threshold,         \* rows that switch on backpressure
    Faults,                    \* do statements fail and processes end?
    ClientsMayLeave            \* do clients disconnect?

ASSUME RetriesAssumption == MAX_RETRIES \in Nat \ {0}
ASSUME AttemptsAssumption == MAX_SETTLEMENT_ATTEMPTS \in Nat
ASSUME ThresholdAssumption == pending_threshold \in Nat
ASSUME SwitchesAssumption == {Faults, ClientsMayLeave} \subseteq BOOLEAN

VARIABLES
    conn,          \* requests whose connection is open
    handler,       \* handler[r]: the request's handler, or the task of its stream
    verdict,       \* verdict[r]: how the request ended, as the handler saw it
    hold,          \* hold[r]: the reservation in the vault
    job,           \* job[r]: the task spawned to settle or release
    pending,       \* pending[r]: r's row in pending_settlements
    late,          \* calls the client gave up on that may still arrive
    rec,           \* the reconciliation task
    backpressure,  \* VaultClient.backpressure
    proc,          \* the process: up, draining connections, or final
    calm,          \* no more faults
    evicted,       \* requests whose row was evicted (history)
    cut            \* requests whose job was lost with the process or with a
                   \* failed INSERT (history)

vars == <<conn, handler, verdict, hold, job, pending, late, rec, backpressure, proc, calm,
          evicted, cut>>

Ops == {"settle", "release"}
NoJob == [phase |-> "none", op |-> "none", tries |-> 0]
NoRow == [op |-> "none", attempts |-> 0]
HasRow(r) == pending[r] # NoRow
IdleRec == [phase |-> "idle", todo |-> {}, cur |-> {}, tries |-> 0, last |-> FALSE]

Init ==
    /\ conn = {}
    /\ handler = [r \in Requests |-> "idle"]
    /\ verdict = [r \in Requests |-> "open"]
    /\ hold = [r \in Requests |-> "none"]
    /\ job = [r \in Requests |-> NoJob]
    /\ pending = [r \in Requests |-> NoRow]
    /\ late = {}
    /\ rec = IdleRec
    /\ backpressure = FALSE
    /\ proc = "up"
    /\ calm = ~Faults
    /\ evicted = {} /\ cut = {}
-----------------------------------------------------------------------------
(* One POST of call_with_retry *)

\* The vault's side of a call.
Applied(h, op) ==
    CASE op = "reserve" /\ h = "none" -> "held"
      [] op = "settle" /\ h = "held" -> "settled"
      [] op = "release" /\ h = "held" -> "released"
      [] OTHER -> h
Arrive(r, op) == hold' = [hold EXCEPT ![r] = Applied(@, op)]

\* ok: arrived and answered.  final: answered with a 4xx, because nothing is
\* held any more or because the vault refuses the call (401, 403, 429) and goes
\* on holding, or with a body that does not parse; not retried.
\* retry: a 5xx, a lost connection or a timeout, with the call not arrived,
\* arrived, or still on its way.
Post(r, op, outcome) ==
    \/ /\ outcome \in {"ok", "final"}
       /\ Arrive(r, op)
       /\ UNCHANGED late
    \/ outcome = "final" /\ UNCHANGED <<hold, late>>
    \/ /\ outcome = "retry"
       /\ \/ UNCHANGED <<hold, late>>
          \/ Arrive(r, op) /\ UNCHANGED late
          \/ late' = late \cup {<<r, op>>} /\ UNCHANGED hold

\* A call the client gave up on reaches the vault after all.
LateArrival(r, op) ==
    /\ <<r, op>> \in late
    /\ late' = late \ {<<r, op>>}
    /\ Arrive(r, op)
    /\ UNCHANGED <<conn, handler, verdict, job, pending, rec, backpressure, evicted, proc, calm, cut>>
-----------------------------------------------------------------------------
(* The handler *)

\* A request comes in and waits for the permits of its candidates
\* (resolve_candidates), or is read.
Connect(r) ==
    /\ proc = "up"
    /\ handler[r] = "idle" /\ r \notin conn
    /\ conn' = conn \cup {r}
    /\ UNCHANGED <<handler, verdict, hold, job, pending, late, rec, backpressure, evicted, proc,
                   calm, cut>>

\* The answer is written (also one that comes before the vault: no permit, or
\* backpressure), or the client leaves while its request waits for permits or
\* while it is sent a stream, whose task goes on.
Close(r) ==
    /\ r \in conn
    /\ handler[r] # "reserving"
    /\ handler[r] = "serving" => ClientsMayLeave
    /\ conn' = conn \ {r}
    /\ UNCHANGED <<handler, verdict, hold, job, pending, late, rec, backpressure, evicted, proc,
                   calm, cut>>

\* With its permits, also while the process waits for open connections.
Admit(r) ==
    /\ r \in conn
    /\ handler[r] = "idle"
    /\ ~backpressure
    /\ handler' = [handler EXCEPT ![r] = "reserving"]
    /\ UNCHANGED <<conn, verdict, hold, job, pending, late, rec, backpressure, evicted, proc, calm, cut>>

\* reserve: one post, no retry.
ReserveOk(r) ==
    /\ handler[r] = "reserving"
    /\ Arrive(r, "reserve")
    /\ handler' = [handler EXCEPT ![r] = "serving"]
    /\ UNCHANGED <<conn, verdict, job, pending, late, rec, backpressure, evicted, proc, calm, cut>>

\* An error answer, or no answer: in the latter case the call may yet arrive
\* and the vault hold funds under an id the proxy never learns.
ReserveFails(r) ==
    /\ handler[r] = "reserving"
    /\ handler' = [handler EXCEPT ![r] = "unreserved"]
    /\ late' = late \/ late' = late \cup {<<r, "reserve">>}
    /\ UNCHANGED <<conn, verdict, hold, job, pending, rec, backpressure, evicted, proc, calm, cut>>

Spawn(r, op) == job' = [job EXCEPT ![r] = [phase |-> "calling", op |-> op, tries |-> 0]]

\* The provider answered: spawn_vault_settle.
Serve(r) ==
    /\ handler[r] = "serving"
    /\ handler' = [handler EXCEPT ![r] = "done"]
    /\ verdict' = [verdict EXCEPT ![r] = "served"]
    /\ Spawn(r, "settle")
    /\ UNCHANGED <<conn, hold, pending, late, rec, backpressure, evicted, proc, calm, cut>>

\* Every other end of the request: spawn_vault_release.
Fail(r) ==
    /\ handler[r] = "serving"
    /\ handler' = [handler EXCEPT ![r] = "done"]
    /\ verdict' = [verdict EXCEPT ![r] = "failed"]
    /\ Spawn(r, "release")
    /\ UNCHANGED <<conn, hold, pending, late, rec, backpressure, evicted, proc, calm, cut>>

\* A handler's future is dropped before it decides; a reserve it was waiting
\* for is on its way.
Dropped(pc) ==
    CASE pc = "reserving" -> "unreserved" [] pc = "serving" -> "dropped" [] OTHER -> pc
Unanswered(S) == {<<r, "reserve">> : r \in {q \in S : handler[q] = "reserving"}}

\* The client disconnects before it is answered, and the handler's future is
\* dropped.
Disconnect(r) ==
    /\ ClientsMayLeave
    /\ r \in conn
    /\ handler[r] \in {"reserving", "serving"}
    /\ conn' = conn \ {r}
    /\ handler' = [handler EXCEPT ![r] = Dropped(@)]
    /\ late' = late \cup Unanswered({r})
    /\ UNCHANGED <<verdict, hold, job, pending, rec, backpressure, evicted, proc, calm, cut>>
-----------------------------------------------------------------------------
(* spawn_vault_settle and spawn_vault_release *)

\* Mutated form of AfterPost: one retry too many.
AfterPostOneMore(outcome, tries) ==
    CASE outcome = "ok" -> "ok"
      [] outcome = "final" -> "err"
      [] outcome = "retry" -> IF tries < MAX_RETRIES THEN "again" ELSE "err"

\* Where a caller of call_with_retry stands after one more post.
AfterPost(outcome, tries) ==
    CASE outcome = "ok" -> "ok"
      [] outcome = "final" -> "err"
      [] outcome = "retry" -> IF tries + 1 < MAX_RETRIES THEN "again" ELSE "err"

JobPost(r) ==
    /\ job[r].phase = "calling"
    /\ \E outcome \in {"ok", "final", "retry"} :
          /\ Post(r, job[r].op, outcome)
          /\ job' = [job EXCEPT ![r] =
                       CASE AfterPost(outcome, @.tries) = "ok" -> NoJob
                         [] AfterPost(outcome, @.tries) = "err" -> [@ EXCEPT !.phase = "saving", !.tries = 0]
                         [] AfterPost(outcome, @.tries) = "again" -> [@ EXCEPT !.tries = @ + 1]]
    /\ UNCHANGED <<conn, handler, verdict, pending, rec, backpressure, evicted, proc, calm, cut>>

\* Mutated forms of JobSave: every row is a settle; no row is written.
JobSaveAsSettle(r) ==
    /\ job[r].phase = "saving"
    /\ job' = [job EXCEPT ![r] = NoJob]
    /\ pending' = [pending EXCEPT ![r] = IF HasRow(r) THEN @ ELSE [op |-> "settle", attempts |-> 0]]
    /\ UNCHANGED <<conn, handler, verdict, hold, late, rec, backpressure, evicted, proc, calm, cut>>

JobSaveNothing(r) ==
    /\ job[r].phase = "saving"
    /\ job' = [job EXCEPT ![r] = NoJob]
    /\ UNCHANGED <<conn, handler, verdict, hold, pending, late, rec, backpressure, evicted, proc, calm, cut>>

\* insert_pending_settlement: INSERT OR IGNORE on a unique reservation_id.  If
\* the statement fails the settlement is lost.
JobSave(r) ==
    /\ job[r].phase = "saving"
    /\ job' = [job EXCEPT ![r] = NoJob]
    /\ \/ /\ pending' = [pending EXCEPT ![r] =
                           IF HasRow(r) THEN @ ELSE [op |-> job[r].op, attempts |-> 0]]
          /\ UNCHANGED cut
       \/ ~calm /\ cut' = cut \cup {r} /\ UNCHANGED pending
    /\ UNCHANGED <<conn, handler, verdict, hold, late, rec, backpressure, evicted, proc, calm>>
-----------------------------------------------------------------------------
(* reconcile_once *)

Rows == {r \in Requests : HasRow(r)}

\* The last pass over, reconciliation_loop ends.
EndPass(last) == IF last THEN [IdleRec EXCEPT !.phase = "off"] ELSE IdleRec

\* The pass goes on if there are rows.  The pass that begins after the cancel
\* signal is the last one.
BeginPass ==
    LET last == proc = "final"
    IN  rec' = IF Rows = {} THEN EndPass(last)
               ELSE [rec EXCEPT !.phase = "counted", !.last = last]

\* Mutated form of RecCount: the flag is never taken back.
RecCountLatch ==
    /\ rec.phase = "idle"
    /\ backpressure' = (backpressure \/ Cardinality(Rows) >= pending_threshold)
    /\ BeginPass
    /\ UNCHANGED <<conn, handler, verdict, hold, job, pending, late, evicted, proc, calm, cut>>

\* count_pending, and the flag; a failing statement ends the pass.
RecCount ==
    /\ rec.phase = "idle"
    /\ \/ /\ backpressure' = (Cardinality(Rows) >= pending_threshold)
          /\ BeginPass
       \/ ~calm /\ rec' = EndPass(proc = "final") /\ UNCHANGED backpressure
    /\ UNCHANGED <<conn, handler, verdict, hold, job, pending, late, evicted, proc, calm, cut>>

\* fetch_pending takes a copy of the table; a failing statement ends the pass.
RecFetch ==
    /\ rec.phase = "counted"
    /\ \/ rec' = [rec EXCEPT !.phase = "next",
                             !.todo = {[req |-> r, op |-> pending[r].op,
                                        attempts |-> pending[r].attempts] : r \in Rows}]
       \/ ~calm /\ rec' = EndPass(rec.last)
    /\ UNCHANGED <<conn, handler, verdict, hold, job, pending, late, backpressure, evicted, proc, calm, cut>>

\* The end of the loop.
RecDone ==
    /\ rec.phase = "next"
    /\ rec.todo = {}
    /\ rec' = EndPass(rec.last)
    /\ UNCHANGED <<conn, handler, verdict, hold, job, pending, late, backpressure, evicted, proc, calm, cut>>

DeleteRow(r) == pending' = [pending EXCEPT ![r] = NoRow]

\* A row that has been replayed too often is dropped without replay.
RecEvict(c) ==
    /\ rec.phase = "next"
    /\ c \in rec.todo
    /\ c.attempts >= MAX_SETTLEMENT_ATTEMPTS
    /\ rec' = [rec EXCEPT !.todo = @ \ {c}]
    /\ \/ DeleteRow(c.req) /\ evicted' = evicted \cup {c.req}
       \/ ~calm /\ UNCHANGED <<pending, evicted>>
    /\ UNCHANGED <<conn, handler, verdict, hold, job, late, backpressure, proc, calm, cut>>

RecPick(c) ==
    /\ rec.phase = "next"
    /\ c \in rec.todo
    /\ c.attempts < MAX_SETTLEMENT_ATTEMPTS
    /\ rec' = [rec EXCEPT !.phase = "replay", !.todo = @ \ {c}, !.cur = {c}, !.tries = 0]
    /\ UNCHANGED <<conn, handler, verdict, hold, job, pending, late, backpressure, evicted, proc, calm, cut>>

\* Mutated form of RecPost: a replay that used up its retries counts as done.
RecPostUsedUp(c) ==
    /\ rec.phase = "replay"
    /\ c \in rec.cur
    /\ \E outcome \in {"ok", "final", "retry"} :
          /\ Post(c.req, c.op, outcome)
          /\ rec' = IF AfterPost(outcome, rec.tries) = "again" THEN [rec EXCEPT !.tries = @ + 1]
                    ELSE [rec EXCEPT !.phase = "delete", !.tries = 0]
    /\ UNCHANGED <<conn, handler, verdict, job, pending, backpressure, evicted, proc, calm, cut>>

\* replay_one: settle or release as the row says, with the same retries.
RecPost(c) ==
    /\ rec.phase = "replay"
    /\ c \in rec.cur
    /\ \E outcome \in {"ok", "final", "retry"} :
          /\ Post(c.req, c.op, outcome)
          /\ rec' = CASE AfterPost(outcome, rec.tries) = "ok" -> [rec EXCEPT !.phase = "delete", !.tries = 0]
                      [] AfterPost(outcome, rec.tries) = "err" -> [rec EXCEPT !.phase = "bump", !.tries = 0]
                      [] AfterPost(outcome, rec.tries) = "again" -> [rec EXCEPT !.tries = @ + 1]
    /\ UNCHANGED <<conn, handler, verdict, job, pending, backpressure, evicted, proc, calm, cut>>

NextRow == rec' = [rec EXCEPT !.phase = "next", !.cur = {}]

RecDelete(c) ==
    /\ rec.phase = "delete"
    /\ c \in rec.cur
    /\ NextRow
    /\ DeleteRow(c.req) \/ (~calm /\ UNCHANGED pending)
    /\ UNCHANGED <<conn, handler, verdict, hold, job, late, backpressure, evicted, proc, calm, cut>>

\* Mutated forms of RecBump: a failed replay drops the row; it leaves the
\* attempts as they are.
RecBumpDelete(c) ==
    /\ rec.phase = "bump"
    /\ c \in rec.cur
    /\ NextRow
    /\ DeleteRow(c.req)
    /\ UNCHANGED <<conn, handler, verdict, hold, job, late, backpressure, evicted, proc, calm, cut>>

RecBumpNothing(c) ==
    /\ rec.phase = "bump"
    /\ c \in rec.cur
    /\ NextRow
    /\ UNCHANGED <<conn, handler, verdict, hold, job, pending, late, backpressure, evicted, proc, calm, cut>>

\* increment_attempts
RecBump(c) ==
    /\ rec.phase = "bump"
    /\ c \in rec.cur
    /\ NextRow
    /\ \/ pending' = [pending EXCEPT ![c.req].attempts = @ + 1]
       \/ ~calm /\ UNCHANGED pending
    /\ UNCHANGED <<conn, handler, verdict, hold, job, late, backpressure, evicted, proc, calm, cut>>
-----------------------------------------------------------------------------
(* The process *)

\* The process ends and is started again: handlers, spawned tasks, the pass
\* under way and the flag are gone.
Restart ==
    /\ conn' = {}
    /\ handler' = [r \in Requests |-> Dropped(handler[r])]
    /\ late' = late \cup Unanswered(Requests)
    /\ cut' = cut \cup {r \in Requests : job[r] # NoJob}
    /\ job' = [r \in Requests |-> NoJob]
    /\ rec' = IdleRec
    /\ backpressure' = FALSE
    /\ proc' = "up"
    /\ UNCHANGED <<verdict, hold, pending, evicted, calm>>

Crash == ~calm /\ Restart

\* shutdown_signal: no connection is accepted any more.
Shutdown ==
    /\ ~calm
    /\ proc = "up"
    /\ proc' = "draining"
    /\ UNCHANGED <<conn, handler, verdict, hold, job, pending, late, rec, backpressure, calm,
                   evicted, cut>>

\* Mutated form of Drained: the server waits for the settlements as well.
DrainedWhenSettled ==
    /\ proc = "draining"
    /\ conn = {} /\ Rows = {}
    /\ proc' = "final"
    /\ UNCHANGED <<conn, handler, verdict, hold, job, pending, late, rec, backpressure, calm,
                   evicted, cut>>

\* axum::serve returns when no connection is open, with no limit to the wait,
\* and the reconciliation task is told to stop.  The tasks of streams whose
\* clients have left do not count.
Drained ==
    /\ proc = "draining"
    /\ conn = {}
    /\ proc' = "final"
    /\ UNCHANGED <<conn, handler, verdict, hold, job, pending, late, rec, backpressure, calm,
                   evicted, cut>>

\* Two seconds later the process exits, whatever is under way.
Exit == proc = "final" /\ Restart

CalmDown ==
    /\ ~calm
    /\ calm' = TRUE
    /\ UNCHANGED <<conn, handler, verdict, hold, job, pending, late, rec, backpressure, proc,
                   evicted, cut>>

Handler(r) == ReserveOk(r) \/ ReserveFails(r) \/ Serve(r) \/ Fail(r)

Job(r) == JobPost(r) \/ JobSave(r)

Reconcile ==
    \/ RecCount \/ RecFetch \/ RecDone
    \/ \E c \in rec.todo : RecEvict(c) \/ RecPick(c)
    \/ \E c \in rec.cur : RecPost(c) \/ RecDelete(c) \/ RecBump(c)

Stop == Drained \/ Exit

Next ==
    \/ \E r \in Requests :
          \/ Connect(r) \/ Admit(r) \/ Handler(r) \/ Close(r) \/ Disconnect(r)
          \/ Job(r)
          \/ \E op \in Ops \cup {"reserve"} : LateArrival(r, op)
    \/ Reconcile
    \/ Crash \/ Shutdown \/ Stop \/ CalmDown

\* The tasks that settle and release run to their end, since the vault client
\* has a timeout; the reconciliation task wakes up every 60 s, and run_server
\* goes on when it can.  Nothing is assumed of handlers, streams and clients.
Fairness ==
    /\ WF_vars(Reconcile) /\ WF_vars(Stop)
    /\ \A r \in Requests : WF_vars(Job(r))

Spec == Init /\ [][Next]_vars
FairSpec == Spec /\ Fairness
-----------------------------------------------------------------------------
Snapshot == [req : Requests, op : Ops, attempts : Nat]

TypeOK ==
    /\ conn \subseteq Requests
    /\ handler \in [Requests -> {"idle", "reserving", "unreserved", "serving", "done", "dropped"}]
    /\ verdict \in [Requests -> {"open", "served", "failed"}]
    /\ hold \in [Requests -> {"none", "held", "settled", "released"}]
    /\ job \in [Requests -> [phase : {"none", "calling", "saving"}, op : Ops \cup {"none"},
                             tries : 0..(MAX_RETRIES - 1)]]
    /\ pending \in [Requests -> [op : Ops \cup {"none"}, attempts : 0..MAX_SETTLEMENT_ATTEMPTS]]
    /\ late \subseteq Requests \X (Ops \cup {"reserve"})
    /\ rec \in [phase : {"idle", "counted", "next", "replay", "delete", "bump", "off"},
                todo : SUBSET Snapshot, cur : SUBSET Snapshot,
                tries : 0..(MAX_RETRIES - 1), last : BOOLEAN]
    /\ backpressure \in BOOLEAN
    /\ proc \in {"up", "draining", "final"} /\ calm \in BOOLEAN
    /\ rec.phase = "off" => proc = "final"
    /\ evicted \subseteq Requests /\ cut \subseteq Requests

\* Settling is for requests that were served, releasing for those that failed.
Matches(r, op) ==
    \/ op = "settle" /\ verdict[r] = "served"
    \/ op = "release" /\ verdict[r] = "failed"

\* Whatever will be posted to the vault for a request, now or after any number
\* of passes and crashes, is what its end calls for: the spawned task's call,
\* the row it leaves in the table and the calls still on their way
\* (spawn_vault_settle, spawn_vault_release, replay_one).  A reserve is on its
\* way only for a request that has been turned away.
OneVerdict ==
    /\ \A r \in Requests :
          /\ handler[r] # "done" => verdict[r] = "open"
          /\ job[r] # NoJob => job[r].phase # "none" /\ Matches(r, job[r].op)
          /\ HasRow(r) => Matches(r, pending[r].op)
    /\ \A r \in Requests, op \in Ops : <<r, op>> \in late => Matches(r, op)
    /\ \A r \in Requests : <<r, "reserve">> \in late => handler[r] = "unreserved"

\* The pass under way works on a copy of the table (fetch_pending), and the
\* copy is good for as long as it is used: the row of an entry that is still to
\* be replayed, or is being replayed, is there and as it was copied, with
\* attempts left if it is replayed.  When the row is to be deleted the vault
\* does not hold the reservation any more.
PassFollowsTable ==
    /\ rec.phase \in {"idle", "counted", "off"} => rec.todo = {}
    /\ rec.phase \notin {"replay", "delete", "bump"} => rec.cur = {}
    /\ rec.todo \cap rec.cur = {}
    /\ \A c, d \in rec.cur : c = d
    /\ \A c \in rec.todo \cup rec.cur : pending[c.req] = [op |-> c.op, attempts |-> c.attempts]
    /\ \A c \in rec.cur : c.attempts < MAX_SETTLEMENT_ATTEMPTS
    /\ rec.phase = "delete" => \A c \in rec.cur : hold[c.req] # "held"
    /\ rec.last => proc = "final"

\* All records of a request's end agree with it and with each other: the
\* spawned task's call, the row in the table, the copy of the row that
\* reconcile_once works on, and the calls that are still on their way.
RecordsAgree == OneVerdict /\ PassFollowsTable

\* What is billed follows what happened: the vault settles a reservation only
\* if the request was served and releases it only if the request failed, once,
\* although its settlement may be posted by the spawned task and by any number
\* of reconciliation passes, before and after crashes, and arrive out of order.
Promise == INSTANCE ReservationLedger WITH Accounts <- Requests
ImplementsLedger == Promise!Ledger

\* A row leaves the table only when the vault no longer holds the reservation
\* or the row has used up its attempts (reconcile_once), also across crashes
\* between the vault's answer and the delete.
RowsAreKept ==
    [][\A r \in Requests :
          HasRow(r) /\ ~HasRow(r)' =>
              hold[r] # "held" \/ pending[r].attempts >= MAX_SETTLEMENT_ATTEMPTS]_vars

\* Nothing is forgotten but in two ways: a reservation whose request is over is
\* settled or released, being worked on by its task, in the table, or was
\* evicted, unless the process ended while the task was at work or the INSERT
\* into the table failed (spawn_vault_settle, spawn_vault_release).
Tracked(r) == job[r] # NoJob \/ HasRow(r) \/ r \in evicted
NothingForgotten ==
    \A r \in Requests : verdict[r] # "open" /\ hold[r] = "held" => Tracked(r) \/ r \in cut

IndInv == TypeOK /\ OneVerdict /\ PassFollowsTable /\ NothingForgotten

\* Once the system is calm the table drains even if the vault never answers,
\* because rows are evicted; also when the process was just being stopped.
TableDrains == \A r \in Requests : calm /\ HasRow(r) ~> ~HasRow(r)

\* Backpressure is not for ever: once the system is calm, the pass that finds
\* the table short again lets requests in.
BackpressureClears == calm /\ backpressure ~> ~backpressure

\* A process that is told to stop does if every connection is closed some time
\* (run_server), although the vault does not answer, statements fail, rows are
\* left in the table and tasks are at work: it waits for connections only, but
\* for those without limit.
ShutdownEnds ==
    (\A r \in Requests : []<>(r \notin conn)) => (proc # "up" ~> proc = "up")

\* "When configured, every inference request: ... settle(actual_cost) [on
\* success], release() [on failure]" (vault.rs:4): when the handler is over, a
\* reservation it knew of is settled, released or tracked.
EveryRequestBilled ==
    \A r \in Requests : handler[r] \in {"done", "dropped"} /\ hold[r] = "held" => Tracked(r)
=============================================================================
