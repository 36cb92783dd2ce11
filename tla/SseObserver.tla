----------------------------- MODULE SseObserver -----------------------------
(***************************************************************************)
(* SseObserver of src/proxy/stream.rs: reassembles lines from the chunks   *)
(* of a stream and picks usage, finish_reason and [DONE] out of them.  The *)
(* module has no variables; StreamRelay keeps an observer and calls it.    *)
(*                                                                         *)
(* A symbol stands for a run of bytes, and a chunk may end between any two *)
(* of them, so [DONE] and a usage object are two symbols each.             *)
(***************************************************************************)
EXTENDS Naturals, Sequences, FiniteSetsExt, SequencesExt

CONSTANT BUFFER_CAP  \* in symbols; 64 KB in the code

ASSUME BufferCapAssumption == BUFFER_CAP \in Nat \ {0}

Symbols ==
    {"nl", "cr", "data:", ":", "event:", "bin",   \* "bin" is not UTF-8
     "[DO", "NE]", "usage", "1", "2", "?",         \* "?": fields are missing
     "stop", "text"}

NoUsage == "none"

\* SseObserver::new, with_handle.
NewObserver == [buffer |-> << >>, usage |-> NoUsage, finish_reason |-> FALSE,
                done_received |-> FALSE]

\* data.trim()
Trimmed(data) ==
    LET ink == {i \in 1..Len(data) : data[i] # "cr"}
    IN  IF ink = {} THEN << >> ELSE SubSeq(data, Min(ink), Max(ink))

\* process_data: the trimmed payload is [DONE], or is parsed as JSON, where
\* two payloads run together are malformed.
process_data(o, data) ==
    LET d == Trimmed(data)
    IN  CASE d = <<"[DO", "NE]">> -> [o EXCEPT !.done_received = TRUE]
          [] d = <<"usage", "1">> -> [o EXCEPT !.usage = "1"]
          [] d = <<"usage", "2">> -> [o EXCEPT !.usage = "2"]
          [] d = <<"stop">>       -> [o EXCEPT !.finish_reason = TRUE]
          [] OTHER                -> o

\* process_line: only data lines count.
process_line(o, line) ==
    IF line # << >> /\ Head(line) = "data:" THEN process_data(o, Tail(line)) ELSE o

\* One \r before the end of the line is cut off, and a line that is not UTF-8
\* is skipped.
Accept(o, raw) ==
    LET line == IF raw # << >> /\ Last(raw) = "cr" THEN Front(raw) ELSE raw
    IN  IF "bin" \in ToSet(line) THEN o ELSE process_line(o, line)

Newlines(b) == {i \in 1..Len(b) : b[i] = "nl"}

\* Where the line of b that ends before n begins.
Start(b, n) == Max({0} \cup {i \in Newlines(b) : i < n}) + 1

\* The line that ends at n, if one does, is read.
ReadLine(o, b, n) ==
    IF b[n] = "nl" THEN Accept(o, SubSeq(b, Start(b, n), n - 1)) ELSE o

\* The lines that the loop of process_chunk takes out, one after the other.
ReadLines(o) ==
    LET upto[n \in 0..Len(o.buffer)] ==
            IF n = 0 THEN o ELSE ReadLine(upto[n - 1], o.buffer, n)
    IN  upto[Len(o.buffer)]

\* What follows the last newline stays in the buffer.
Unfinished(b) == SubSeq(b, Max(Newlines(b) \cup {0}) + 1, Len(b))

WithBuffer(o, b) ==
    [buffer |-> b, usage |-> o.usage, finish_reason |-> o.finish_reason,
     done_received |-> o.done_received]

\* The whole loop of process_chunk.
DrainLines(o) == WithBuffer(ReadLines(o), Unfinished(o.buffer))

\* Mutated form of process_chunk: the buffer is drained down to nothing, and
\* the line that is not complete yet is lost.
ProcessChunkForgets(o, bytes) ==
    LET buffer == o.buffer \o bytes
    IN  WithBuffer(DrainLines(WithBuffer(o, buffer)), << >>)

\* process_chunk: the cap applies to the buffer with the whole chunk in it,
\* before any line is taken out.
process_chunk(o, bytes) ==
    LET buffer == o.buffer \o bytes
    IN  IF Len(buffer) > BUFFER_CAP
        THEN WithBuffer(o, << >>)
        ELSE DrainLines(WithBuffer(o, buffer))

\* flush_buffer: what is left is a last line.
flush_buffer(o) == WithBuffer(Accept(o, o.buffer), << >>)

\* build_result: nothing counts without [DONE].
build_result(o) ==
    IF o.done_received
    THEN [usage |-> o.usage, finish_reason |-> o.finish_reason, done_received |-> TRUE]
    ELSE [usage |-> NoUsage, finish_reason |-> FALSE, done_received |-> FALSE]
=============================================================================
