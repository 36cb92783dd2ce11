----------------------------- MODULE RequestLog -----------------------------
(***************************************************************************)
(* The request log (src/storage/writer.rs, src/storage/logging.rs and the  *)
(* callers in src/proxy/handlers.rs): a handler queues the INSERT of its   *)
(* request's row, the task of a stream queues the UPDATE that completes    *)
(* that row, and one writer task executes the queue in order.              *)
(*                                                                         *)
(* Both senders use try_send on one bounded channel: a write that finds no *)
(* room is dropped.  A row is reduced to its place in the table, its       *)
(* timestamp and whether the stream's UPDATE has reached it; the clock     *)
(* counts half seconds, a timestamp whole ones.  UpdateUsage has no        *)
(* caller.  LogQueries adds the endpoints that read the table.             *)
(***************************************************************************)
EXTENDS Naturals, Sequences

CONSTANTS
    Requests,
    Streamed,           \* the requests that ask for a stream
    DEFAULT_CAPACITY,   \* of the channel, 1024 in the code
    DbMayFail,          \* do statements fail?
    MaxClock            \* bound on the clock

ASSUME CapacityAssumption == DEFAULT_CAPACITY \in Nat \ {0}
ASSUME ClockAssumption == MaxClock \in Nat

VARIABLES
    handler,    \* handler[r]: has the handler logged its request?
    stream,     \* stream[r]: the task of a streamed answer
    queue,      \* the channel to the writer
    current,    \* the command the writer is executing, if any
    row,        \* row[r]: the row of r in the table requests
    table,      \* the requests with a row, in the order of their ids
    clock,      \* the time
    stamp,      \* stamp[r]: the timestamp of r's row
    lost,       \* commands dropped or failed (history)
    overtaken   \* requests whose UPDATE was queued before their INSERT (history)

vars == <<handler, stream, queue, current, row, table, clock, stamp, lost, overtaken>>

Commands == [kind : {"Insert", "UpdateStreamCompletion"}, req : Requests]
Insert(r) == [kind |-> "Insert", req |-> r]
Update(r) == [kind |-> "UpdateStreamCompletion", req |-> r]

Init ==
    /\ handler = [r \in Requests |-> "serving"]
    /\ stream = [r \in Requests |-> "none"]
    /\ queue = << >>
    /\ current = {}
    /\ row = [r \in Requests |-> "none"]
    /\ table = << >>
    /\ clock = 0 /\ stamp = [r \in Requests |-> 0]
    /\ lost = {}
    /\ overtaken = {}

\* Mutated form of TrySend: the channel has no bound.
TrySendUnbounded(c) == queue' = Append(queue, c) /\ UNCHANGED lost

\* tx.try_send: no room, no write.
TrySend(c) ==
    IF Len(queue) < DEFAULT_CAPACITY
    THEN queue' = Append(queue, c) /\ UNCHANGED lost
    ELSE lost' = lost \cup {c} /\ UNCHANGED queue

\* handle_streaming_response spawns the task of the stream before the handler
\* has logged anything.
StreamStarts(r) ==
    /\ r \in Streamed
    /\ handler[r] = "serving"
    /\ stream[r] = "none"
    /\ stream' = [stream EXCEPT ![r] = "running"]
    /\ UNCHANGED <<handler, queue, current, row, table, clock, stamp, lost, overtaken>>

\* log_success_to_db and log_error_to_db, which also take the timestamp.
LogWrite(r) ==
    /\ handler[r] = "serving"
    /\ handler' = [handler EXCEPT ![r] = "logged"]
    /\ stamp' = [stamp EXCEPT ![r] = clock \div 2]
    /\ TrySend(Insert(r))
    /\ UNCHANGED <<stream, current, row, table, clock, overtaken>>

\* The stream is over: stream_completion_update.
StreamCompletionUpdate(r) ==
    /\ stream[r] = "running"
    /\ stream' = [stream EXCEPT ![r] = "over"]
    /\ TrySend(Update(r))
    /\ overtaken' = IF handler[r] = "serving" THEN overtaken \cup {r} ELSE overtaken
    /\ UNCHANGED <<handler, current, row, table, clock, stamp>>

\* writer_loop: rx.recv, which makes room in the channel, and the statement.
WriterReceives ==
    /\ current = {}
    /\ queue # << >>
    /\ current' = {Head(queue)}
    /\ queue' = Tail(queue)
    /\ UNCHANGED <<handler, stream, row, table, clock, stamp, lost, overtaken>>

\* Mutated form of Executed: the update creates the row it does not find.
ExecutedUpsert(c, old) == IF c.kind = "Insert" THEN "inserted" ELSE "completed"

\* The table after command c.  An UPDATE that finds no row affects none.
Executed(c, old) ==
    CASE c.kind = "Insert" -> "inserted"
      [] c.kind = "UpdateStreamCompletion" -> IF old = "none" THEN "none" ELSE "completed"

\* AUTOINCREMENT: a new row comes last.
Inserted(c) == IF c.kind = "Insert" THEN Append(table, c.req) ELSE table

\* Mutated form of WriterExecutes: an error ends the loop.
WriterExecutesOrDies(c) ==
    /\ c \in current
    /\ c \notin lost
    /\ \/ /\ row' = [row EXCEPT ![c.req] = Executed(c, @)]
          /\ table' = Inserted(c)
          /\ current' = {}
          /\ UNCHANGED lost
       \/ /\ DbMayFail
          /\ lost' = lost \cup {c}
          /\ UNCHANGED <<row, table, current>>
    /\ UNCHANGED <<handler, stream, queue, clock, stamp, overtaken>>

\* A statement that fails is reported and the loop goes on.
WriterExecutes(c) ==
    /\ c \in current
    /\ current' = {}
    /\ \/ /\ row' = [row EXCEPT ![c.req] = Executed(c, @)]
          /\ table' = Inserted(c)
          /\ UNCHANGED lost
       \/ /\ DbMayFail
          /\ lost' = lost \cup {c}
          /\ UNCHANGED <<row, table>>
    /\ UNCHANGED <<handler, stream, queue, clock, stamp, overtaken>>

Tick ==
    /\ clock < MaxClock
    /\ clock' = clock + 1
    /\ UNCHANGED <<handler, stream, queue, current, row, table, stamp, lost, overtaken>>

Writer == WriterReceives \/ \E c \in current : WriterExecutes(c)

Next ==
    \/ \E r \in Requests : StreamStarts(r) \/ LogWrite(r) \/ StreamCompletionUpdate(r)
    \/ Writer \/ Tick

\* The writer task runs whenever it can.
Spec == Init /\ [][Next]_vars /\ WF_vars(Writer)
-----------------------------------------------------------------------------
TypeOK ==
    /\ handler \in [Requests -> {"serving", "logged"}]
    /\ stream \in [Requests -> {"none", "running", "over"}]
    /\ queue \in Seq(Commands) /\ Len(queue) <= DEFAULT_CAPACITY
    /\ current \subseteq Commands
    /\ row \in [Requests -> {"none", "inserted", "completed"}]
    /\ table \in Seq(Requests)
    /\ clock \in 0..MaxClock /\ stamp \in [Requests -> 0..clock]
    /\ lost \subseteq Commands
    /\ overtaken \subseteq Requests

Unwritten(r) ==
    \/ \E c \in current : c.req = r
    \/ \E i \in 1..Len(queue) : queue[i].req = r

\* All that will ever happen to the row of r has happened.
Final(r) == handler[r] = "logged" /\ stream[r] # "running" /\ ~Unwritten(r)

\* The log says what happened as far as it was told: once the writer is done
\* with a request, its row is there unless the INSERT was lost, and it has the
\* stream's outcome unless a write was lost or the UPDATE came too early
\* (DbWriter, writer_loop); no row is completed out of nothing.
LogMatchesHistory ==
    \A r \in Requests : Final(r) =>
        row[r] = CASE Insert(r) \in lost -> "none"
                   [] Insert(r) \notin lost /\ stream[r] = "over"
                        /\ Update(r) \notin lost /\ r \notin overtaken -> "completed"
                   [] OTHER -> "inserted"

\* The pipeline to the table: place 0 is the writer, the rest the channel.
Holds(c, k) == IF k = 0 THEN c \in current ELSE k <= Len(queue) /\ queue[k] = c
Pending(c) == \E k \in 0..Len(queue) : Holds(c, k)

\* Every command has one place in it, and one command is executed at a time.
OnePlace ==
    /\ \A c \in Commands : \A j, k \in 0..Len(queue) : Holds(c, j) /\ Holds(c, k) => j = k
    /\ \A c, d \in current : c = d

\* A command is sent once; what is lost is no longer in the pipeline.
SentOnce ==
    \A r \in Requests :
        /\ Pending(Insert(r)) \/ Insert(r) \in lost => handler[r] = "logged"
        /\ Pending(Update(r)) \/ Update(r) \in lost => stream[r] = "over"
        /\ ~(Pending(Insert(r)) /\ Insert(r) \in lost)
        /\ ~(Pending(Update(r)) /\ Update(r) \in lost)

\* No two commands pass each other: as long as one of the two writes of a
\* request is pending, overtaken says which of them comes first.
Ahead(c, d) == \A j, k \in 0..Len(queue) : Holds(c, j) /\ Holds(d, k) => j < k
InOrder ==
    \A r \in Requests :
        /\ r \in overtaken => stream[r] = "over"
        /\ stream[r] = "over" /\ handler[r] = "serving" => r \in overtaken
        /\ r \in overtaken /\ Pending(Update(r)) /\ handler[r] = "logged"
              /\ Insert(r) \notin lost => Pending(Insert(r)) /\ Ahead(Update(r), Insert(r))
        /\ r \notin overtaken /\ Pending(Insert(r)) /\ stream[r] = "over"
              /\ Update(r) \notin lost => Pending(Update(r)) /\ Ahead(Insert(r), Update(r))

\* The row of a request at every moment, and not only at the end.
RowFollows ==
    \A r \in Requests :
        row[r] = IF handler[r] = "serving" \/ Pending(Insert(r)) \/ Insert(r) \in lost
                 THEN "none"
                 ELSE IF stream[r] = "over" /\ ~Pending(Update(r)) /\ Update(r) \notin lost
                         /\ r \notin overtaken
                 THEN "completed" ELSE "inserted"

IndInv == TypeOK /\ OnePlace /\ SentOnce /\ InOrder /\ RowFollows

\* Every write that was accepted is executed, whatever became of the writes
\* before it (writer_loop outlives failing statements).
WritesGoThrough == \A r \in Requests : Unwritten(r) ~> ~Unwritten(r)
=============================================================================
