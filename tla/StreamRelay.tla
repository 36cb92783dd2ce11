----------------------------- MODULE StreamRelay -----------------------------
(***************************************************************************)
(* One streamed answer (handle_streaming_response in                       *)
(* src/proxy/handlers.rs, wrap_sse_stream in src/proxy/stream.rs): the     *)
(* task that forwards the provider's chunks to the client through a        *)
(* bounded channel, the observer that picks usage and [DONE] out of them,  *)
(* and what the task does once the stream has ended.                       *)
(*                                                                         *)
(* What the observer finds is SseObserver's business.  The observer lives  *)
(* in the closure of the wrapped stream and writes its result when that    *)
(* stream is dropped, which for the stream pinned in the task is when the  *)
(* task is over.                                                           *)
(***************************************************************************)
EXTENDS SseObserver

CONSTANTS
    CHANNEL_CAPACITY,  \* of the channel to the client, 32 in the code
    Transcripts,       \* the bodies a provider may send, as sequences of symbols
    MaxChunks,         \* bound on the chunks a body is cut into, and the errors
    MaxErrors,         \* bound on the errors of the connection
    Window             \* bound on the items the connection holds unread

ASSUME CapacityAssumption == CHANNEL_CAPACITY \in Nat \ {0}
ASSUME TranscriptsAssumption == \A t \in Transcripts : t \in Seq(Symbols)
ASSUME ChunksAssumption == {MaxChunks, MaxErrors, Window} \subseteq Nat

\* Items that are no part of the provider's body.
Err == <<"error">>
Trailing == <<"trailing">>

VARIABLES
    body,       \* what the provider has yet to send
    upstream,   \* what it has sent: chunks, and errors of the connection
    ended,      \* has the provider's stream ended?
    read,       \* how much of upstream the task has read
    task,       \* where the task is
    connected,  \* client_connected, as the task knows it
    channel,    \* chunks on their way to the client
    client,     \* is the client still there?
    received,   \* what the client has received
    observer,   \* the SseObserver
    handle,     \* the StreamResultHandle
    outcome,    \* what the task made of the stream
    text,       \* history: the text of all chunks the task has read
    resume      \* history: how much of it had been read when the buffer was last cleared

vars == <<body, upstream, ended, read, task, connected, channel, client, received,
          observer, handle, outcome, text, resume>>

history == <<text, resume>>

NoOutcome == [success |-> FALSE, cost |-> FALSE, updated |-> FALSE, billed |-> "none"]

Init ==
    /\ body \in Transcripts
    /\ upstream = << >> /\ ended = FALSE
    /\ read = 0 /\ task = "next" /\ connected = TRUE
    /\ channel = << >> /\ client = TRUE /\ received = << >>
    /\ observer = NewObserver
    /\ handle = {}
    /\ outcome = NoOutcome
    /\ text = << >> /\ resume = 0
-----------------------------------------------------------------------------
(* The provider and the client *)

\* The next n symbols of the body arrive as one chunk.
ProviderSends(n) ==
    /\ ~ended
    /\ Len(upstream) < MaxChunks
    /\ Len(upstream) - read < Window
    /\ upstream' = Append(upstream, SubSeq(body, 1, n))
    /\ body' = SubSeq(body, n + 1, Len(body))
    /\ UNCHANGED <<ended, read, task, connected, channel, client, received, observer, handle, outcome, history>>

Errors == Cardinality({i \in DOMAIN upstream : upstream[i] = Err})

ProviderErrs ==
    /\ ~ended
    /\ Errors < MaxErrors
    /\ Len(upstream) < MaxChunks
    /\ Len(upstream) - read < Window
    /\ upstream' = Append(upstream, Err)
    /\ UNCHANGED <<body, ended, read, task, connected, channel, client, received, observer, handle, outcome, history>>

\* The end of the body, or the 120 s after which the HTTP client gives up.
ProviderEnds ==
    /\ ~ended
    /\ ended' = TRUE
    /\ UNCHANGED <<body, upstream, read, task, connected, channel, client, received, observer, handle, outcome, history>>

ClientReads ==
    /\ client
    /\ channel # << >>
    /\ received' = Append(received, Head(channel))
    /\ channel' = Tail(channel)
    /\ UNCHANGED <<body, upstream, ended, read, task, connected, client, observer, handle, outcome, history>>

\* The response body is dropped, and the receiving end of the channel with it.
ClientLeaves ==
    /\ client
    /\ client' = FALSE
    /\ channel' = << >>
    /\ UNCHANGED <<body, upstream, ended, read, task, connected, received, observer, handle, outcome, history>>
-----------------------------------------------------------------------------
(* The task *)

\* The end of the last line that is complete, or of what was thrown away.
LineEnd(t, from) == Max({from} \cup Newlines(t))

\* The text t becomes u: with the chunk, the unfinished line may be too long.
Resume(t, from, u) == IF Len(u) - LineEnd(t, from) > BUFFER_CAP THEN Len(u) ELSE from

\* observed_stream.next() yields a chunk, which the observer has seen on its
\* way, or an error.
TakeChunk ==
    /\ task = "next"
    /\ read < Len(upstream)
    /\ read' = read + 1
    /\ observer' = IF upstream[read + 1] = Err THEN observer
                   ELSE process_chunk(observer, upstream[read + 1])
    /\ task' = IF connected THEN "forward" ELSE "next"
    /\ text' = IF upstream[read + 1] = Err THEN text ELSE text \o upstream[read + 1]
    /\ resume' = Resume(text, resume, text')
    /\ UNCHANGED <<body, upstream, ended, connected, channel, client, received, handle, outcome>>

\* Mutated forms of Forward: without the channel's bound; with try_send, which
\* drops the chunk when there is no room; and with a return instead of going
\* on when the client has left.
ForwardUnbounded ==
    /\ task = "forward"
    /\ channel' = IF client THEN Append(channel, upstream[read]) ELSE channel
    /\ connected' = client
    /\ task' = "next"
    /\ UNCHANGED <<body, upstream, ended, read, client, received, observer, handle, outcome, history>>

ForwardTry ==
    /\ task = "forward"
    /\ channel' = IF client /\ Len(channel) < CHANNEL_CAPACITY
                  THEN Append(channel, upstream[read]) ELSE channel
    /\ connected' = client
    /\ task' = "next"
    /\ UNCHANGED <<body, upstream, ended, read, client, received, observer, handle, outcome, history>>

ForwardReturn ==
    /\ task = "forward"
    /\ client => Len(channel) < CHANNEL_CAPACITY
    /\ channel' = IF client THEN Append(channel, upstream[read]) ELSE channel
    /\ connected' = client
    /\ task' = IF client THEN "next" ELSE "over"
    /\ UNCHANGED <<body, upstream, ended, read, client, received, observer, handle, outcome, history>>

\* tx.send waits for room and fails once the client has left.
Forward ==
    /\ task = "forward"
    /\ \/ /\ client
          /\ Len(channel) < CHANNEL_CAPACITY
          /\ channel' = Append(channel, upstream[read])
          /\ UNCHANGED connected
       \/ /\ ~client
          /\ connected' = FALSE
          /\ UNCHANGED channel
    /\ task' = "next"
    /\ UNCHANGED <<body, upstream, ended, read, client, received, observer, handle, outcome, history>>

\* The loop is over.  The result is taken out of the handle, cost and success
\* follow from it; there is a usage only with a [DONE] (build_result).
ReadResult ==
    /\ task = "next"
    /\ ended
    /\ read = Len(upstream)
    /\ outcome' = [outcome EXCEPT !.success = \E r \in handle : r.done_received,
                                  !.cost = \E r \in handle : r.usage # NoUsage]
    /\ handle' = {}
    /\ task' = "trailing"
    /\ UNCHANGED <<body, upstream, ended, read, connected, channel, client, received, observer, history>>

\* Mutated form of SendTrailing: try_send.
SendTrailingTry ==
    /\ task = "trailing"
    /\ channel' = IF connected /\ client /\ Len(channel) < CHANNEL_CAPACITY
                  THEN Append(channel, Trailing) ELSE channel
    /\ task' = "settle"
    /\ UNCHANGED <<body, upstream, ended, read, connected, client, received, observer, handle, outcome, history>>

\* The trailing event goes to a client that is still there; then the channel
\* closes.
SendTrailing ==
    /\ task = "trailing"
    /\ \/ /\ connected /\ client
          /\ Len(channel) < CHANNEL_CAPACITY
          /\ channel' = Append(channel, Trailing)
       \/ /\ ~connected \/ ~client
          /\ UNCHANGED channel
    /\ task' = "settle"
    /\ UNCHANGED <<body, upstream, ended, read, connected, client, received, observer, handle, outcome, history>>

\* stream_completion_update, then settle if the stream completed or its usage
\* is known, release otherwise.
Billing(o) == IF o.success \/ o.cost THEN "settle" ELSE "release"

\* The task is over and its locals go, the SseObserver with them.
Drop(o) == build_result(flush_buffer(o))

UpdateAndBill ==
    /\ task = "settle"
    /\ outcome' = [outcome EXCEPT !.updated = TRUE, !.billed = Billing(outcome)]
    /\ observer' = flush_buffer(observer)
    /\ handle' = {Drop(observer)}
    /\ task' = "over"
    /\ UNCHANGED <<body, upstream, ended, read, connected, channel, client, received, history>>

Task == TakeChunk \/ Forward \/ ReadResult \/ SendTrailing \/ UpdateAndBill

Next ==
    \/ \E n \in 1..Len(body) : ProviderSends(n)
    \/ ProviderErrs \/ ProviderEnds \/ ClientReads \/ ClientLeaves
    \/ Task

\* The provider's body ends or is cut off, and tokio runs a task that can
\* run.  Nothing is assumed of the client.
Fairness == WF_vars(ProviderEnds) /\ WF_vars(Task)

Spec == Init /\ [][Next]_vars /\ Fairness
-----------------------------------------------------------------------------
TypeOK ==
    /\ body \in Seq(Symbols) /\ upstream \in Seq(Seq(Symbols) \cup {Err}) /\ ended \in BOOLEAN
    /\ read \in 0..Len(upstream)
    /\ task \in {"next", "forward", "trailing", "settle", "over"}
    /\ {connected, client} \subseteq BOOLEAN
    /\ channel \in Seq(Seq(Symbols) \cup {Err, Trailing}) /\ Len(channel) <= CHANNEL_CAPACITY
    /\ received \in Seq(Seq(Symbols) \cup {Err, Trailing})
    /\ observer \in [buffer : Seq(Symbols \ {"nl"}), usage : {NoUsage, "1", "2"},
                     finish_reason : BOOLEAN, done_received : BOOLEAN]
    /\ Len(observer.buffer) <= BUFFER_CAP
    /\ outcome \in [success : BOOLEAN, cost : BOOLEAN, updated : BOOLEAN,
                    billed : {"none", "settle", "release"}]
    /\ text \in Seq(Symbols) /\ resume \in 0..Len(text)

\* Is the line of t that ends before n a data line with the payload x y,
\* white space around it left aside?
Says(t, n, x, y) ==
    LET i == Start(t, n)
    IN  /\ t[i] = "data:"
        /\ \E a \in i + 1..n - 2 :
              /\ t[a] = x /\ t[a + 1] = y
              /\ \A k \in i + 1..n - 1 : k \notin {a, a + 1} => t[k] = "cr"

Reports(t, n) == Says(t, n, "usage", "1") \/ Says(t, n, "usage", "2")

\* Of the lines of t that begin behind from, o knows whether one is [DONE],
\* and the usage of the last that has one; and if these are all lines, o knows
\* nothing else.
Knows(o, t, from) ==
    LET lines  == {n \in Newlines(t) : Start(t, n) > from}
        done   == {n \in lines : Says(t, n, "[DO", "NE]")}
        usages == {n \in lines : Reports(t, n)}
    IN  /\ done # {} => o.done_received
        /\ \A n \in usages : (\A m \in usages : m <= n) => Says(t, n, "usage", o.usage)
        /\ from = 0 => /\ o.done_received => done # {}
                       /\ o.usage # NoUsage => usages # {}

\* However the body is cut into chunks, the observer knows exactly what the
\* lines of the text say: a [DONE] line, and the usage of the last usage
\* line, the end of the stream being the end of its last line.  When a chunk
\* has been too large (process_chunk clears the buffer), this still holds of
\* the lines that begin behind it.
ObserverFaithful ==
    Knows(observer, IF task = "over" THEN Append(text, "nl") ELSE text, resume)

\* The client sees what the provider sent: in order, nothing twice, nothing
\* left out in between, the trailing event last and only after everything.
PassThrough ==
    LET seen == received \o channel
        sent == Append(upstream, Trailing)
    IN  /\ IsPrefix(seen, sent)
        /\ Len(seen) > Len(upstream) => ended /\ read = Len(upstream)

\* How many items a client that is still there has been sent, which makes
\* PassThrough inductive: the task has no more than one item in hand, and the
\* trailing event leaves only after the last of them.
Delivered ==
    CASE task = "forward" -> read - 1
      [] task \in {"settle", "over"} -> read + 1
      [] OTHER -> read

InStep ==
    /\ task = "forward" => read > 0
    /\ task \in {"trailing", "settle", "over"} => ended /\ read = Len(upstream)
    /\ client => connected /\ Len(received) + Len(channel) = Delivered
    /\ ~client => channel = << >>

\* What makes ObserverFaithful inductive: until it is flushed, the buffer
\* holds just what follows the last line.
BufferIsRest ==
    observer.buffer = IF task = "over" THEN << >> ELSE SubSeq(text, LineEnd(text, resume) + 1, Len(text))

IndInv == TypeOK /\ PassThrough /\ InStep /\ BufferIsRest /\ ObserverFaithful

\* A client that keeps reading gets all of it and then the trailing event,
\* however small the channel is.
ReaderGetsAll ==
    WF_vars(ClientReads) => <>(~client \/ received = Append(upstream, Trailing))

\* After a disconnect the task consumes the rest of the stream, updates the
\* log and bills the reservation; it is never left waiting for room.
DrainsAfterDisconnect ==
    ~client ~> (task = "over" /\ outcome.updated /\ outcome.billed # "none")

\* "After stream ends: extracts usage, computes cost" (handlers.rs:1326) and
\* "Stream completed OR usage data available: settle at actual cost"
\* (handlers.rs:1467): a stream with usage and [DONE] is settled.
CompletedStreamIsSettled ==
    task = "over" /\ observer.done_received /\ observer.usage # NoUsage => outcome.billed = "settle"
=============================================================================
