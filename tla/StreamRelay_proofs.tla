------------------------- MODULE StreamRelay_proofs -------------------------
(***************************************************************************)
(* Proofs about StreamRelay, for every set of transcripts, every capacity  *)
(* of the channel and of the observer's buffer, and every bound: what the  *)
(* client receives is what the provider sent, and what the observer finds  *)
(* is what the lines say.                                                  *)
(***************************************************************************)
EXTENDS StreamRelay, Ordering_proofs

\* What stays in the buffer has no newline in it.
LEMMA UnfinishedFacts ==
    ASSUME NEW b \in Seq(Symbols)
    PROVE  /\ Unfinished(b) \in Seq(Symbols \ {"nl"})
           /\ Len(Unfinished(b)) <= Len(b)
  <1> DEFINE m == Max(Newlines(b) \cup {0})
  <1>1. Len(b) \in Nat
    BY LenProperties
  <1>2. m \in Newlines(b) \cup {0} /\ \A y \in Newlines(b) \cup {0} : y <= m
    <2>1. Newlines(b) \cup {0} \subseteq 0..Len(b) /\ Newlines(b) \cup {0} # {}
      BY <1>1 DEF Newlines
    <2> HIDE DEF m
    <2> QED BY <1>1, <2>1, MaxFacts DEF m
  <1>3. m \in 0..Len(b)
    BY <1>1, <1>2 DEF Newlines
  <1> HIDE DEF m
  <1>4. Unfinished(b) = SubSeq(b, m + 1, Len(b))
    BY DEF Unfinished, m
  <1>5. \A i \in m + 1..Len(b) : b[i] \in Symbols \ {"nl"}
    <2>1. ASSUME NEW i \in m + 1..Len(b)
          PROVE  b[i] \in Symbols \ {"nl"}
      <3>1. i \in 1..Len(b) /\ ~(i <= m)
        BY <1>1, <1>3
      <3>2. b[i] \in Symbols
        BY <3>1, ElementOfSeq
      <3>3. i \notin Newlines(b)
        BY <1>2, <3>1
      <3> QED BY <3>1, <3>2, <3>3 DEF Newlines
    <2> QED BY <2>1
  <1>6. /\ SubSeq(b, m + 1, Len(b)) \in Seq(Symbols \ {"nl"})
        /\ Len(SubSeq(b, m + 1, Len(b))) <= Len(b)
    BY <1>1, <1>3, <1>5, SubSeqProperties
  <1> QED BY <1>4, <1>6

\* The buffer never outgrows its cap and never holds a complete line.
LEMMA ProcessChunkFacts ==
    ASSUME NEW o, o.buffer \in Seq(Symbols), NEW bytes \in Seq(Symbols)
    PROVE  /\ process_chunk(o, bytes).buffer \in Seq(Symbols \ {"nl"})
           /\ Len(process_chunk(o, bytes).buffer) <= BUFFER_CAP
  <1> DEFINE b == o.buffer \o bytes
  <1>1. b \in Seq(Symbols) /\ Len(b) \in Nat
    BY ConcatProperties, LenProperties
  <1> HIDE DEF b
  <1>2. CASE Len(b) > BUFFER_CAP
    <2>1. process_chunk(o, bytes).buffer = << >>
      BY <1>2 DEF process_chunk, WithBuffer, b
    <2> QED BY <2>1, EmptySeq, BufferCapAssumption
  <1>3. CASE ~(Len(b) > BUFFER_CAP)
    <2>1. process_chunk(o, bytes) = DrainLines(WithBuffer(o, b))
      BY <1>3 DEF process_chunk, b
    <2>2. process_chunk(o, bytes).buffer = Unfinished(b)
      BY <2>1 DEF DrainLines, WithBuffer
    <2>3. Unfinished(b) \in Seq(Symbols \ {"nl"}) /\ Len(Unfinished(b)) <= Len(b)
      BY <1>1, UnfinishedFacts
    <2>4. Len(Unfinished(b)) \in Nat
      BY <2>3, LenProperties
    <2> QED BY <1>1, <1>3, <2>2, <2>3, <2>4, BufferCapAssumption
  <1> QED BY <1>2, <1>3

-----------------------------------------------------------------------------
(* The observer: what it learns from lines and from chunks *)

\* A line begins behind the newline before it, or at the beginning.
IsStart(t, n, s) ==
    /\ s \in 1..n
    /\ s = 1 \/ t[s - 1] = "nl"
    /\ \A i \in s..n - 1 : t[i] # "nl"

\* Start is such a place.
LEMMA StartFacts ==
    ASSUME NEW t \in Seq(Symbols), NEW n \in 1..Len(t)
    PROVE  IsStart(t, n, Start(t, n))
  <1> DEFINE T == {0} \cup {i \in Newlines(t) : i < n}
  <1>1. Len(t) \in Nat
    BY LenProperties
  <1>2. T \subseteq 0..Len(t) /\ T # {}
    BY <1>1 DEF Newlines
  <1>3. PICK m : m = Max(T)
    OBVIOUS
  <1>4. m \in T /\ \A y \in T : y <= m
    <2> HIDE DEF T
    <2> QED BY <1>1, <1>2, <1>3, MaxFacts
  <1>5. Start(t, n) = m + 1
    BY <1>3 DEF Start
  <1>6. m \in 0..n - 1 /\ (m = 0 \/ t[m] = "nl")
    BY <1>1, <1>4 DEF Newlines
  <1>7. ASSUME NEW i \in m + 1..n - 1, t[i] = "nl"
        PROVE  FALSE
    <2>1. i \in T
      BY <1>1, <1>6, <1>7 DEF Newlines
    <2> QED BY <1>4, <1>6, <2>1
  <1>8. (m + 1) - 1 = m /\ m + 1 \in 1..n
    BY <1>6
  <1> QED BY <1>5, <1>6, <1>7, <1>8 DEF IsStart

\* A line has one beginning.
LEMMA StartUnique ==
    ASSUME NEW t, NEW n \in Nat, NEW r, NEW s, IsStart(t, n, r), IsStart(t, n, s)
    PROVE  r = s
  <1>1. r \in 1..n /\ s \in 1..n
    BY DEF IsStart
  <1>2. ~(r < s)
    BY <1>1 DEF IsStart
  <1>3. ~(s < r)
    BY <1>1 DEF IsStart
  <1> QED BY <1>1, <1>2, <1>3

\* The two symbols x and y and white space around them.
Payload(t, i, j, x, y) ==
    \E a \in i..j - 1 :
       /\ t[a] = x /\ t[a + 1] = y
       /\ \A k \in i..j : k \notin {a, a + 1} => t[k] = "cr"

\* What trim leaves.
LEMMA TrimmedFacts ==
    ASSUME NEW data \in Seq(Symbols), NEW x \in Symbols \ {"cr"}, NEW y \in Symbols \ {"cr"}
    PROVE  Trimmed(data) = <<x, y>> <=> Payload(data, 1, Len(data), x, y)
  <1> DEFINE ink == {i \in 1..Len(data) : data[i] # "cr"}
  <1>1. Len(data) \in Nat
    BY LenProperties
  <1>2. CASE ink = {}
    <2>1. Trimmed(data) = << >>
      BY <1>2 DEF Trimmed
    <2>2. ~Payload(data, 1, Len(data), x, y)
      BY <1>1, <1>2 DEF Payload
    <2>3. << >> # <<x, y>>
      OBVIOUS
    <2> QED BY <2>1, <2>2, <2>3
  <1>3. CASE ink # {}
    <2>1. PICK l, m : l = Min(ink) /\ m = Max(ink)
      OBVIOUS
    <2>2. Trimmed(data) = SubSeq(data, l, m)
      BY <1>3, <2>1 DEF Trimmed
    <2>3. /\ l \in ink /\ m \in ink
          /\ \A i \in ink : l <= i /\ i <= m
      <3>1. ink \subseteq Nat /\ ink \subseteq 0..Len(data)
        BY <1>1
      <3> HIDE DEF ink
      <3> QED BY <1>1, <1>3, <2>1, <3>1, MinFacts, MaxFacts
    <2>4. l \in 1..Len(data) /\ m \in l..Len(data) /\ data[l] # "cr" /\ data[m] # "cr"
      BY <1>1, <2>3
    <2>5. \A i \in 1..Len(data) : data[i] # "cr" => l <= i /\ i <= m
      BY <2>3
    <2>6. PICK d : d = SubSeq(data, l, m)
      OBVIOUS
    <2>7. /\ d \in Seq(Symbols) /\ Len(d) = m - l + 1
          /\ \A i \in 1..Len(d) : d[i] = data[l + i - 1]
      <3>1. \A i \in l..m : data[i] \in Symbols
        BY <1>1, <2>4, ElementOfSeq
      <3> QED BY <1>1, <2>4, <2>6, <3>1, SubSeqProperties
    <2>8. ASSUME d = <<x, y>>
          PROVE  Payload(data, 1, Len(data), x, y)
      <3>1. Len(d) = 2 /\ d[1] = x /\ d[2] = y
        BY <2>8
      <3>2. m = l + 1 /\ data[l] = x /\ data[l + 1] = y
        <4>0. l \in Int /\ m \in Int /\ m - l + 1 = 2 /\ 1 \in 1..Len(d) /\ 2 \in 1..Len(d)
          <5>1. l \in Int /\ m \in Int
            BY <1>1, <2>4
          <5>2. m - l + 1 = 2
            BY <2>7, <3>1
          <5> QED BY <3>1, <5>1, <5>2
        <4>1. m = l + 1
          BY <4>0
        <4>2. d[1] = data[l + 1 - 1] /\ d[2] = data[l + 2 - 1]
          BY <2>7, <4>0
        <4>3. l + 1 - 1 = l /\ l + 2 - 1 = l + 1
          BY <1>1, <2>4
        <4> QED BY <3>1, <4>1, <4>2, <4>3
      <3>3. l \in 1..Len(data) - 1
        BY <1>1, <2>4, <3>2
      <3>4. ASSUME NEW k \in 1..Len(data), k \notin {l, l + 1}
            PROVE  data[k] = "cr"
        BY <1>1, <2>4, <2>5, <3>2, <3>4
      <3> QED BY <3>2, <3>3, <3>4 DEF Payload
    <2>9. ASSUME Payload(data, 1, Len(data), x, y)
          PROVE  d = <<x, y>>
      <3>1. PICK a \in 1..Len(data) - 1 :
                   /\ data[a] = x /\ data[a + 1] = y
                   /\ \A k \in 1..Len(data) : k \notin {a, a + 1} => data[k] = "cr"
        BY <2>9 DEF Payload
      <3>2. l = a /\ m = a + 1
        <4>1. l \in {a, a + 1} /\ m \in {a, a + 1}
          BY <1>1, <2>4, <3>1
        <4>2. l <= a /\ a + 1 <= m
          BY <1>1, <2>5, <3>1
        <4> QED BY <1>1, <2>4, <3>1, <4>1, <4>2
      <3>3. Len(d) = 2 /\ d[1] = x /\ d[2] = y
        <4>1. Len(d) = 2
          BY <1>1, <2>7, <3>1, <3>2
        <4>2. d[1] = data[l + 1 - 1] /\ d[2] = data[l + 2 - 1]
          <5>1. 1 \in 1..Len(d) /\ 2 \in 1..Len(d)
            BY <4>1
          <5> QED BY <2>7, <5>1
        <4>3. l + 1 - 1 = a /\ l + 2 - 1 = a + 1
          BY <1>1, <2>4, <3>1, <3>2
        <4> QED BY <3>1, <4>1, <4>2, <4>3
      <3>4. <<x, y>> \in Seq(Symbols) /\ Len(<<x, y>>) = 2 /\ <<x, y>>[1] = x /\ <<x, y>>[2] = y
        OBVIOUS
      <3>5. PICK e : e = <<x, y>>
        OBVIOUS
      <3>6. \A i \in 1..Len(d) : d[i] = e[i]
        BY <3>3, <3>4, <3>5
      <3> QED BY <2>7, <3>3, <3>4, <3>5, <3>6, SeqEqual
    <2> QED BY <2>2, <2>6, <2>8, <2>9
  <1> QED BY <1>2, <1>3

Observers ==
    [buffer : Seq(Symbols), usage : {NoUsage, "1", "2"},
     finish_reason : BOOLEAN, done_received : BOOLEAN]

\* What o2 knows after o has seen a line, or several: done tells if one of
\* them is [DONE], one and two if the last usage among them is "1" or "2".
Learns(o, o2, done, one, two) ==
    /\ o2 \in Observers /\ o2.buffer = o.buffer
    /\ o2.done_received <=> (o.done_received \/ done)
    /\ one => o2.usage = "1"
    /\ two => o2.usage = "2"
    /\ ~one /\ ~two => o2.usage = o.usage

\* The payloads that count are different.
LEMMA PayloadsDiffer ==
    /\ <<"[DO", "NE]">> # <<"usage", "1">> /\ <<"[DO", "NE]">> # <<"usage", "2">>
    /\ <<"usage", "1">> # <<"usage", "2">> /\ <<"stop">> # <<"[DO", "NE]">>
    /\ <<"stop">> # <<"usage", "1">> /\ <<"stop">> # <<"usage", "2">>
    /\ {"[DO", "NE]", "usage", "1", "2"} \subseteq Symbols \ {"cr"}
  <1>1. Len(<<"stop">>) = 1 /\ Len(<<"[DO", "NE]">>) = 2
        /\ Len(<<"usage", "1">>) = 2 /\ Len(<<"usage", "2">>) = 2
    OBVIOUS
  <1>2. <<"[DO", "NE]">>[1] = "[DO" /\ <<"usage", "1">>[1] = "usage" /\ <<"usage", "2">>[1] = "usage"
        /\ <<"usage", "1">>[2] = "1" /\ <<"usage", "2">>[2] = "2"
    OBVIOUS
  <1> QED BY <1>1, <1>2 DEF Symbols

\* What process_data makes of a payload.
LEMMA DataFacts ==
    ASSUME NEW o \in Observers, NEW data \in Seq(Symbols)
    PROVE  Learns(o, process_data(o, data), Payload(data, 1, Len(data), "[DO", "NE]"),
                  Payload(data, 1, Len(data), "usage", "1"), Payload(data, 1, Len(data), "usage", "2"))
  <1>1. PICK d : d = Trimmed(data)
    OBVIOUS
  <1>2. /\ d = <<"[DO", "NE]">> <=> Payload(data, 1, Len(data), "[DO", "NE]")
        /\ d = <<"usage", "1">> <=> Payload(data, 1, Len(data), "usage", "1")
        /\ d = <<"usage", "2">> <=> Payload(data, 1, Len(data), "usage", "2")
    BY <1>1, TrimmedFacts, PayloadsDiffer
  <1>3. PICK p : p = process_data(o, data)
    OBVIOUS
  <1>4. p = CASE d = <<"[DO", "NE]">> -> [o EXCEPT !.done_received = TRUE]
              [] d = <<"usage", "1">> -> [o EXCEPT !.usage = "1"]
              [] d = <<"usage", "2">> -> [o EXCEPT !.usage = "2"]
              [] d = <<"stop">>       -> [o EXCEPT !.finish_reason = TRUE]
              [] OTHER                -> o
    BY <1>1, <1>3 DEF process_data
  <1>5. CASE d = <<"[DO", "NE]">>
    <2>1. p = [o EXCEPT !.done_received = TRUE]
      BY <1>4, <1>5, PayloadsDiffer
    <2>2. ~Payload(data, 1, Len(data), "usage", "1") /\ ~Payload(data, 1, Len(data), "usage", "2")
      BY <1>2, <1>5, PayloadsDiffer
    <2> QED BY <1>2, <1>3, <1>5, <2>1, <2>2 DEF Learns, Observers
  <1>6. CASE d = <<"usage", "1">>
    <2>1. p = [o EXCEPT !.usage = "1"]
      BY <1>4, <1>6, PayloadsDiffer
    <2>2. ~Payload(data, 1, Len(data), "[DO", "NE]") /\ ~Payload(data, 1, Len(data), "usage", "2")
      BY <1>2, <1>6, PayloadsDiffer
    <2> QED BY <1>2, <1>3, <1>6, <2>1, <2>2 DEF Learns, Observers
  <1>7. CASE d = <<"usage", "2">>
    <2>1. p = [o EXCEPT !.usage = "2"]
      BY <1>4, <1>7, PayloadsDiffer
    <2>2. ~Payload(data, 1, Len(data), "[DO", "NE]") /\ ~Payload(data, 1, Len(data), "usage", "1")
      BY <1>2, <1>7, PayloadsDiffer
    <2> QED BY <1>2, <1>3, <1>7, <2>1, <2>2 DEF Learns, Observers
  <1>8. CASE d # <<"[DO", "NE]">> /\ d # <<"usage", "1">> /\ d # <<"usage", "2">>
    <2>1. p = [o EXCEPT !.finish_reason = TRUE] \/ p = o
      BY <1>4, <1>8
    <2> QED BY <1>2, <1>3, <1>8, <2>1 DEF Learns, Observers
  <1> QED BY <1>5, <1>6, <1>7, <1>8

\* Does a line say x y?
LineSays(raw, x, y) == raw # << >> /\ raw[1] = "data:" /\ Payload(raw, 2, Len(raw), x, y)

\* The same of the line without its "data:".
LEMMA TailSays ==
    ASSUME NEW line \in Seq(Symbols), line # << >>, line[1] = "data:", NEW x, NEW y
    PROVE  /\ Tail(line) \in Seq(Symbols)
           /\ Payload(Tail(line), 1, Len(Tail(line)), x, y) <=> LineSays(line, x, y)
  <1>1. PICK d : d = Tail(line)
    OBVIOUS
  <1>2. /\ d \in Seq(Symbols) /\ Len(line) \in Nat /\ Len(d) = Len(line) - 1
        /\ \A i \in 1..Len(d) : d[i] = line[i + 1]
    BY <1>1, HeadTailProperties, LenProperties
  <1>3. ASSUME Payload(d, 1, Len(d), x, y)
        PROVE  Payload(line, 2, Len(line), x, y)
    <2>1. PICK a \in 1..Len(d) - 1 :
                 /\ d[a] = x /\ d[a + 1] = y
                 /\ \A k \in 1..Len(d) : k \notin {a, a + 1} => d[k] = "cr"
      BY <1>3 DEF Payload
    <2>2. a + 1 \in 2..Len(line) - 1 /\ a \in 1..Len(d) /\ a + 1 \in 1..Len(d)
      BY <1>2
    <2>3. line[a + 1] = x /\ line[(a + 1) + 1] = y
      BY <1>2, <2>1, <2>2
    <2>4. ASSUME NEW k \in 2..Len(line), k \notin {a + 1, (a + 1) + 1}
          PROVE  line[k] = "cr"
      <3>1. k - 1 \in 1..Len(d) /\ k - 1 \notin {a, a + 1} /\ (k - 1) + 1 = k
        BY <1>2, <2>4
      <3> QED BY <1>2, <2>1, <3>1
    <2> QED BY <2>2, <2>3, <2>4 DEF Payload
  <1>4. ASSUME Payload(line, 2, Len(line), x, y)
        PROVE  Payload(d, 1, Len(d), x, y)
    <2>1. PICK a \in 2..Len(line) - 1 :
                 /\ line[a] = x /\ line[a + 1] = y
                 /\ \A k \in 2..Len(line) : k \notin {a, a + 1} => line[k] = "cr"
      BY <1>4 DEF Payload
    <2>2. a - 1 \in 1..Len(d) - 1 /\ a - 1 \in 1..Len(d) /\ a \in 1..Len(d) /\ (a - 1) + 1 = a
      BY <1>2
    <2>3. d[a - 1] = x /\ d[(a - 1) + 1] = y
      BY <1>2, <2>1, <2>2
    <2>4. ASSUME NEW k \in 1..Len(d), k \notin {a - 1, (a - 1) + 1}
          PROVE  d[k] = "cr"
      <3>1. k + 1 \in 2..Len(line) /\ k + 1 \notin {a, a + 1}
        BY <1>2, <2>4
      <3> QED BY <1>2, <2>1, <3>1
    <2> QED BY <2>2, <2>3, <2>4 DEF Payload
  <1> QED BY <1>1, <1>2, <1>3, <1>4 DEF LineSays

\* The same of the line without the \r at its end.
LEMMA FrontSays ==
    ASSUME NEW raw \in Seq(Symbols), raw # << >>, raw[Len(raw)] = "cr", NEW x, NEW y, x # "cr", y # "cr"
    PROVE  /\ Front(raw) \in Seq(Symbols)
           /\ LineSays(Front(raw), x, y) <=> LineSays(raw, x, y)
  <1>1. PICK f : f = Front(raw)
    OBVIOUS
  <1>2. Len(raw) \in Nat /\ Len(raw) > 0
    BY LenProperties, EmptySeq
  <1>3. /\ f \in Seq(Symbols) /\ Len(f) = Len(raw) - 1
        /\ \A i \in 1..Len(f) : f[i] = raw[i]
    <2>1. f = SubSeq(raw, 1, Len(raw) - 1)
      BY <1>1 DEF Front
    <2>2. \A i \in 1..Len(raw) - 1 : raw[i] \in Symbols
      BY <1>2, ElementOfSeq
    <2>3. PICK m : m = Len(raw) - 1
      OBVIOUS
    <2>4. m \in Nat /\ (1 <= m \/ m = 0)
      BY <1>2, <2>3
    <2>5. /\ f \in Seq(Symbols) /\ Len(f) = IF 1 <= m THEN m - 1 + 1 ELSE 0
          /\ \A i \in 1..m - 1 + 1 : f[i] = raw[1 + i - 1]
      BY <2>1, <2>2, <2>3, <2>4, SubSeqProperties
    <2>6. Len(f) = m
      BY <2>4, <2>5
    <2>7. \A i \in 1..m : i \in 1..m - 1 + 1 /\ 1 + i - 1 = i
      BY <2>4
    <2> QED BY <2>3, <2>5, <2>6, <2>7
  <1>4. f # << >> <=> Len(raw) > 1
    BY <1>2, <1>3, EmptySeq
  <1>5. LineSays(raw, x, y) => Len(raw) > 1
    BY <1>2 DEF LineSays, Payload
  <1>6. CASE Len(raw) > 1
    <2>1. f[1] = raw[1]
      BY <1>2, <1>3, <1>6
    <2>2. Payload(f, 2, Len(f), x, y) <=> Payload(raw, 2, Len(raw), x, y)
      <3>1. ASSUME Payload(f, 2, Len(f), x, y)
            PROVE  Payload(raw, 2, Len(raw), x, y)
        <4>1. PICK a \in 2..Len(f) - 1 :
                     /\ f[a] = x /\ f[a + 1] = y
                     /\ \A k \in 2..Len(f) : k \notin {a, a + 1} => f[k] = "cr"
          BY <3>1 DEF Payload
        <4>2. a \in 2..Len(raw) - 1 /\ raw[a] = x /\ raw[a + 1] = y
          BY <1>2, <1>3, <4>1
        <4>3. ASSUME NEW k \in 2..Len(raw), k \notin {a, a + 1}
              PROVE  raw[k] = "cr"
          BY <1>2, <1>3, <4>1, <4>3
        <4> QED BY <4>2, <4>3 DEF Payload
      <3>2. ASSUME Payload(raw, 2, Len(raw), x, y)
            PROVE  Payload(f, 2, Len(f), x, y)
        <4>1. PICK a \in 2..Len(raw) - 1 :
                     /\ raw[a] = x /\ raw[a + 1] = y
                     /\ \A k \in 2..Len(raw) : k \notin {a, a + 1} => raw[k] = "cr"
          BY <3>2 DEF Payload
        <4>2. a + 1 # Len(raw)
          BY <4>1
        <4>3. a \in 2..Len(f) - 1 /\ f[a] = x /\ f[a + 1] = y
          BY <1>2, <1>3, <4>1, <4>2
        <4>4. ASSUME NEW k \in 2..Len(f), k \notin {a, a + 1}
              PROVE  f[k] = "cr"
          BY <1>2, <1>3, <4>1, <4>4
        <4> QED BY <4>3, <4>4 DEF Payload
      <3> QED BY <3>1, <3>2
    <2> QED BY <1>1, <1>3, <1>4, <1>6, <2>1, <2>2 DEF LineSays
  <1>7. CASE ~(Len(raw) > 1)
    BY <1>1, <1>3, <1>4, <1>5, <1>7 DEF LineSays
  <1> QED BY <1>6, <1>7

\* What the observer learns from a line.
LEMMA AcceptFacts ==
    ASSUME NEW o \in Observers, NEW raw \in Seq(Symbols)
    PROVE  Learns(o, Accept(o, raw), LineSays(raw, "[DO", "NE]"),
                  LineSays(raw, "usage", "1"), LineSays(raw, "usage", "2"))
  <1>1. PICK line : line = IF raw # << >> /\ Last(raw) = "cr" THEN Front(raw) ELSE raw
    OBVIOUS
  <1>2. /\ line \in Seq(Symbols)
        /\ LineSays(line, "[DO", "NE]") <=> LineSays(raw, "[DO", "NE]")
        /\ LineSays(line, "usage", "1") <=> LineSays(raw, "usage", "1")
        /\ LineSays(line, "usage", "2") <=> LineSays(raw, "usage", "2")
    <2>1. CASE raw # << >> /\ Last(raw) = "cr"
      <3>1. raw[Len(raw)] = "cr" /\ line = Front(raw)
        BY <1>1, <2>1 DEF Last
      <3>2. "[DO" # "cr" /\ "NE]" # "cr" /\ "usage" # "cr" /\ "1" # "cr" /\ "2" # "cr"
        OBVIOUS
      <3>3. Front(raw) \in Seq(Symbols) /\ (LineSays(Front(raw), "[DO", "NE]") <=> LineSays(raw, "[DO", "NE]"))
        BY <2>1, <3>1, <3>2, FrontSays
      <3>4. LineSays(Front(raw), "usage", "1") <=> LineSays(raw, "usage", "1")
        BY <2>1, <3>1, <3>2, FrontSays
      <3>5. LineSays(Front(raw), "usage", "2") <=> LineSays(raw, "usage", "2")
        BY <2>1, <3>1, <3>2, FrontSays
      <3> QED BY <3>1, <3>3, <3>4, <3>5
    <2>2. CASE ~(raw # << >> /\ Last(raw) = "cr")
      BY <1>1, <2>2
    <2> QED BY <2>1, <2>2
  <1>3. Learns(o, Accept(o, raw), LineSays(line, "[DO", "NE]"),
               LineSays(line, "usage", "1"), LineSays(line, "usage", "2"))
    <2>1. CASE line # << >> /\ line[1] = "data:" /\ "bin" \notin ToSet(line)
      <3>1. Accept(o, raw) = process_data(o, Tail(line))
        BY <1>1, <2>1 DEF Accept, process_line
      <3>2. PICK d \in Seq(Symbols) : d = Tail(line)
        BY <1>2, <2>1, TailSays
      <3>3. /\ Payload(d, 1, Len(d), "[DO", "NE]") <=> LineSays(line, "[DO", "NE]")
            /\ Payload(d, 1, Len(d), "usage", "1") <=> LineSays(line, "usage", "1")
            /\ Payload(d, 1, Len(d), "usage", "2") <=> LineSays(line, "usage", "2")
        BY <1>2, <2>1, <3>2, TailSays
      <3>4. Learns(o, process_data(o, d), Payload(d, 1, Len(d), "[DO", "NE]"),
                   Payload(d, 1, Len(d), "usage", "1"), Payload(d, 1, Len(d), "usage", "2"))
        BY <3>2, DataFacts
      <3> QED BY <3>1, <3>2, <3>3, <3>4 DEF Learns
    <2>2. CASE ~(line # << >> /\ line[1] = "data:" /\ "bin" \notin ToSet(line))
      <3>1. Accept(o, raw) = o
        BY <1>1, <2>2 DEF Accept, process_line
      <3>2. ASSUME NEW x, NEW y, LineSays(line, x, y), x # "bin", y # "bin"
            PROVE  "bin" \notin ToSet(line)
        <4>1. line[1] = "data:" /\ Payload(line, 2, Len(line), x, y)
          BY <3>2 DEF LineSays
        <4>2. PICK a \in 2..Len(line) - 1 :
                     /\ line[a] = x /\ line[a + 1] = y
                     /\ \A k \in 2..Len(line) : k \notin {a, a + 1} => line[k] = "cr"
          BY <4>1 DEF Payload
        <4>3. \A k \in 1..Len(line) : line[k] # "bin"
          BY <3>2, <4>1, <4>2
        <4> QED BY <1>2, <4>3 DEF ToSet
      <3>3. ~LineSays(line, "[DO", "NE]") /\ ~LineSays(line, "usage", "1") /\ ~LineSays(line, "usage", "2")
        BY <2>2, <3>2 DEF LineSays
      <3> QED BY <3>1, <3>3 DEF Learns
    <2> QED BY <2>1, <2>2
  <1> QED BY <1>2, <1>3 DEF Learns

\* Says, for a line that begins at i.
SaysFrom(t, i, n, x, y) == t[i] = "data:" /\ Payload(t, i + 1, n - 1, x, y)

\* The two forms agree.
LEMMA SaysIsFrom ==
    ASSUME NEW t \in Seq(Symbols), NEW n \in 1..Len(t), NEW x, NEW y
    PROVE  Says(t, n, x, y) <=> SaysFrom(t, Start(t, n), n, x, y)
  <1>1. PICK i : i = Start(t, n)
    OBVIOUS
  <1>2. i \in 1..n /\ Len(t) \in Nat
    BY <1>1, StartFacts, LenProperties DEF IsStart
  <1>3. n - 2 = (n - 1) - 1
    BY <1>2
  <1> QED BY <1>1, <1>3 DEF Says, SaysFrom, Payload

\* What a line says does not depend on where it stands.
LEMMA SaysShift ==
    ASSUME NEW u, NEW t, NEW c \in Nat, NEW i \in Nat, NEW n \in Nat, i <= n,
           \A k \in i..n - 1 : u[k] = t[k + c], NEW x, NEW y
    PROVE  SaysFrom(u, i, n, x, y) <=> SaysFrom(t, i + c, n + c, x, y)
  <1>1. ASSUME SaysFrom(u, i, n, x, y)
        PROVE  SaysFrom(t, i + c, n + c, x, y)
    <2>1. PICK a \in i + 1..n - 1 - 1 :
                 /\ u[a] = x /\ u[a + 1] = y
                 /\ \A k \in i + 1..n - 1 : k \notin {a, a + 1} => u[k] = "cr"
      BY <1>1 DEF SaysFrom, Payload
    <2>2. /\ a + c \in i + c + 1..n + c - 1 - 1 /\ a \in i..n - 1 /\ a + 1 \in i..n - 1 /\ i \in i..n - 1
          /\ (a + c) + 1 = (a + 1) + c
      OBVIOUS
    <2>3. t[i + c] = "data:" /\ t[a + c] = x /\ t[(a + c) + 1] = y
      BY <1>1, <2>1, <2>2 DEF SaysFrom
    <2>4. ASSUME NEW k \in i + c + 1..n + c - 1, k \notin {a + c, (a + c) + 1}
          PROVE  t[k] = "cr"
      <3>1. k - c \in i + 1..n - 1 /\ k - c \in i..n - 1 /\ k - c \notin {a, a + 1} /\ (k - c) + c = k
        BY <2>4
      <3> QED BY <2>1, <3>1
    <2> QED BY <2>2, <2>3, <2>4 DEF SaysFrom, Payload
  <1>2. ASSUME SaysFrom(t, i + c, n + c, x, y)
        PROVE  SaysFrom(u, i, n, x, y)
    <2>1. PICK b \in i + c + 1..n + c - 1 - 1 :
                 /\ t[b] = x /\ t[b + 1] = y
                 /\ \A k \in i + c + 1..n + c - 1 : k \notin {b, b + 1} => t[k] = "cr"
      BY <1>2 DEF SaysFrom, Payload
    <2>2. PICK a : a = b - c
      OBVIOUS
    <2>3. /\ a \in i + 1..n - 1 - 1 /\ a \in i..n - 1 /\ a + 1 \in i..n - 1 /\ i \in i..n - 1
          /\ a + c = b /\ (a + 1) + c = b + 1
      BY <2>2
    <2>4. u[i] = "data:" /\ u[a] = x /\ u[a + 1] = y
      BY <1>2, <2>1, <2>3 DEF SaysFrom
    <2>5. ASSUME NEW k \in i + 1..n - 1, k \notin {a, a + 1}
          PROVE  u[k] = "cr"
      <3>1. k + c \in i + c + 1..n + c - 1 /\ k \in i..n - 1 /\ k + c \notin {b, b + 1}
        BY <2>3, <2>5
      <3> QED BY <2>1, <3>1
    <2> QED BY <2>3, <2>4, <2>5 DEF SaysFrom, Payload
  <1> QED BY <1>1, <1>2

\* The line that ends at n, taken out of the buffer.
LEMMA LineTaken ==
    ASSUME NEW t \in Seq(Symbols), NEW n \in 1..Len(t), NEW x, NEW y
    PROVE  /\ SubSeq(t, Start(t, n), n - 1) \in Seq(Symbols)
           /\ LineSays(SubSeq(t, Start(t, n), n - 1), x, y) <=> Says(t, n, x, y)
  <1>1. PICK s : s = Start(t, n)
    OBVIOUS
  <1>2. s \in 1..n /\ Len(t) \in Nat /\ s \in Int /\ n - 1 \in Int
    BY <1>1, StartFacts, LenProperties DEF IsStart
  <1>3. PICK raw : raw = SubSeq(t, s, n - 1)
    OBVIOUS
  <1>4. \A i \in s..n - 1 : t[i] \in Symbols
    BY <1>2, ElementOfSeq
  <1>5. /\ raw \in Seq(Symbols) /\ Len(raw) = IF s <= n - 1 THEN n - 1 - s + 1 ELSE 0
        /\ \A i \in 1..n - 1 - s + 1 : raw[i] = t[s + i - 1]
    BY <1>2, <1>3, <1>4, SubSeqProperties
  <1>6. Len(raw) = n - s /\ s - 1 \in Nat /\ Len(raw) + 1 \in Nat /\ 1 <= Len(raw) + 1
    BY <1>2, <1>5
  <1>7. ASSUME NEW k \in 1..(Len(raw) + 1) - 1
        PROVE  raw[k] = t[k + (s - 1)]
    <2>1. k \in 1..n - 1 - s + 1 /\ s + k - 1 = k + (s - 1)
      BY <1>2, <1>6
    <2> QED BY <1>5, <2>1
  <1>8. SaysFrom(raw, 1, Len(raw) + 1, x, y) <=> SaysFrom(t, 1 + (s - 1), Len(raw) + 1 + (s - 1), x, y)
    <2>1. PICK c \in Nat, e \in Nat : c = s - 1 /\ e = Len(raw) + 1
      BY <1>6
    <2>2. \A k \in 1..e - 1 : raw[k] = t[k + c]
      BY <1>7, <2>1
    <2>3. 1 \in Nat /\ 1 <= e
      BY <1>6, <2>1
    <2>4. SaysFrom(raw, 1, e, x, y) <=> SaysFrom(t, 1 + c, e + c, x, y)
      BY <2>2, <2>3, SaysShift
    <2> QED BY <2>1, <2>4
  <1>9. 1 + (s - 1) = s /\ Len(raw) + 1 + (s - 1) = n
    BY <1>2, <1>6
  <1>10. SaysFrom(raw, 1, Len(raw) + 1, x, y) <=> LineSays(raw, x, y)
    <2>1. (Len(raw) + 1) - 1 = Len(raw) /\ 1 + 1 = 2 /\ Len(raw) \in Nat
      BY <1>2, <1>6
    <2>2. Payload(raw, 2, Len(raw), x, y) => raw # << >>
      <3>1. Payload(raw, 2, Len(raw), x, y) => Len(raw) # 0
        BY <2>1 DEF Payload
      <3> QED BY <1>5, <3>1, EmptySeq
    <2> QED BY <2>1, <2>2 DEF SaysFrom, LineSays
  <1> QED BY <1>1, <1>3, <1>5, <1>8, <1>9, <1>10, SaysIsFrom

\* What o2 knows after o has read the lines of b up to n.
LearnsLines(o, o2, b, n) ==
    /\ o2 \in Observers /\ o2.buffer = o.buffer
    /\ o2.done_received <=>
          (o.done_received \/ \E k \in Newlines(b) : k <= n /\ Says(b, k, "[DO", "NE]"))
    /\ \A k \in Newlines(b) :
          k <= n /\ Reports(b, k) /\ (\A m \in Newlines(b) : m <= n /\ Reports(b, m) => m <= k)
          => Says(b, k, "usage", o2.usage)
    /\ (\A k \in Newlines(b) : k <= n => ~Reports(b, k)) => o2.usage = o.usage

\* One more position.
LEMMA ReadLineFacts ==
    ASSUME NEW o \in Observers, NEW b \in Seq(Symbols), NEW n \in 1..Len(b), NEW p,
           LearnsLines(o, p, b, n - 1)
    PROVE  LearnsLines(o, ReadLine(p, b, n), b, n)
  <1>1. Len(b) \in Nat /\ p \in Observers /\ Newlines(b) \subseteq 1..Len(b) /\ p.buffer = o.buffer
    BY LenProperties DEF LearnsLines, Newlines
  <1>2. PICK q : q = ReadLine(p, b, n)
    OBVIOUS
  <1>3. CASE b[n] # "nl"
    <2>1. q = p
      BY <1>2, <1>3 DEF ReadLine
    <2>2. \A k \in Newlines(b) : k <= n <=> k <= n - 1
      BY <1>1, <1>3 DEF Newlines
    <2> QED BY <1>2, <2>1, <2>2 DEF LearnsLines
  <1>4. CASE b[n] = "nl"
    <2>1. PICK raw \in Seq(Symbols) : raw = SubSeq(b, Start(b, n), n - 1)
      BY LineTaken
    <2>2. q = Accept(p, raw)
      BY <1>2, <1>4, <2>1 DEF ReadLine
    <2>3. \A x, y : LineSays(raw, x, y) <=> Says(b, n, x, y)
      BY <2>1, LineTaken
    <2>4. Learns(p, q, Says(b, n, "[DO", "NE]"), Says(b, n, "usage", "1"), Says(b, n, "usage", "2"))
      <3>1. Learns(p, q, LineSays(raw, "[DO", "NE]"), LineSays(raw, "usage", "1"), LineSays(raw, "usage", "2"))
        BY <1>1, <2>2, AcceptFacts
      <3> QED BY <2>3, <3>1 DEF Learns
    <2>5. n \in Newlines(b) /\ \A k \in Newlines(b) : k <= n <=> (k <= n - 1 \/ k = n)
      BY <1>1, <1>4 DEF Newlines
    <2>6. q \in Observers /\ q.buffer = o.buffer
      BY <1>1, <2>4 DEF Learns
    <2>7. q.done_received <=>
             (o.done_received \/ \E k \in Newlines(b) : k <= n /\ Says(b, k, "[DO", "NE]"))
      BY <2>4, <2>5 DEF Learns, LearnsLines
    <2>8. ASSUME NEW k \in Newlines(b), k <= n, Reports(b, k),
                 \A m \in Newlines(b) : m <= n /\ Reports(b, m) => m <= k
          PROVE  Says(b, k, "usage", q.usage)
      <3>1. CASE Reports(b, n)
        <4>1. k = n
          BY <1>1, <2>5, <2>8, <3>1
        <4> QED BY <2>4, <3>1, <4>1 DEF Reports, Learns
      <3>2. CASE ~Reports(b, n)
        <4>1. q.usage = p.usage /\ k <= n - 1
          BY <2>4, <2>5, <2>8, <3>2 DEF Reports, Learns
        <4>2. \A m \in Newlines(b) : m <= n - 1 /\ Reports(b, m) => m <= k
          BY <2>5, <2>8
        <4> QED BY <2>8, <4>1, <4>2 DEF LearnsLines
      <3> QED BY <3>1, <3>2
    <2>9. (\A k \in Newlines(b) : k <= n => ~Reports(b, k)) => q.usage = o.usage
      BY <2>4, <2>5 DEF Reports, Learns, LearnsLines
    <2> QED BY <1>2, <2>6, <2>7, <2>8, <2>9 DEF LearnsLines
  <1> QED BY <1>3, <1>4

\* What the observer learns from the complete lines of its buffer.
LEMMA ReadLinesFacts ==
    ASSUME NEW o \in Observers, NEW b \in Seq(Symbols), o.buffer = b
    PROVE  LearnsLines(o, ReadLines(o), b, Len(b))
  <1>0. Len(b) \in Nat
    BY LenProperties
  <1> DEFINE step(m, f) == [n \in 0..m |-> IF n = 0 THEN o ELSE ReadLine(f[n - 1], b, n)]
             P == {m \in Nat : \E f : f = step(m, f)}
  <1>1. ASSUME NEW m \in 0..Len(b), \A j \in 0..(m - 1) : j \in P
        PROVE  m \in P
    <2>1. CASE m = 0
      <3> DEFINE g == [n \in 0..0 |-> o]
      <3>1. g = step(0, g)
        OBVIOUS
      <3> HIDE DEF g, step
      <3> QED BY <2>1, <3>1
    <2>2. CASE m # 0
      <3>1. m - 1 \in P /\ m \in Nat
        <4> HIDE DEF P
        <4>1. m \in Nat /\ m - 1 \in 0..(m - 1)
          BY <1>0, <2>2
        <4> QED BY <1>1, <4>1
      <3>2. PICK g : g = step(m - 1, g)
        BY <3>1
      <3> DEFINE h == [n \in 0..m |-> IF n = m THEN ReadLine(g[m - 1], b, m) ELSE g[n]]
      <3>3. g[0] = o /\ \A n \in 1..(m - 1) : g[n] = ReadLine(g[n - 1], b, n)
        BY <3>1, <3>2, <2>2
      <3>4. h[0] = o
        BY <3>1, <3>3, <2>2
      <3>5. ASSUME NEW n \in 1..m
            PROVE  h[n] = ReadLine(h[n - 1], b, n)
        <4>1. n - 1 \in 0..m /\ n - 1 # m
          BY <3>1
        <4>2. h[n - 1] = g[n - 1]
          BY <4>1
        <4>3. CASE n = m
          BY <4>2, <4>3
        <4>4. CASE n # m
          BY <3>1, <3>3, <4>2, <4>4
        <4> QED BY <4>3, <4>4
      <3>6. h = [n \in 0..m |-> h[n]]
        OBVIOUS
      <3> HIDE DEF h
      <3>7. h = step(m, h)
        <4>1. \A n \in 0..m : h[n] = IF n = 0 THEN o ELSE ReadLine(h[n - 1], b, n)
          BY <3>1, <3>4, <3>5
        <4> QED BY <3>6, <4>1
      <3> HIDE DEF step
      <3> QED BY <3>1, <3>7
    <2> QED BY <2>1, <2>2
  <1>2. Len(b) \in P
    <2> HIDE DEF P
    <2>1. \A m \in 0..Len(b) : m \in P
      <3>1. 0 \in Int /\ Len(b) \in Int
        BY <1>0
      <3> QED BY <1>1, <3>1, GoingUp
    <2> QED BY <1>0, <2>1
  <1> DEFINE u == CHOOSE f : f = step(Len(b), f)
  <1>3. u = step(Len(b), u)
    BY <1>2, Zenon
  <1>4. ReadLines(o) = u[Len(b)]
    BY DEF ReadLines
  <1> HIDE DEF u
  <1>5. u[0] = o /\ \A n \in 1..Len(b) : u[n] = ReadLine(u[n - 1], b, n)
    BY <1>0, <1>3
  <1> DEFINE Q == {n \in Nat : LearnsLines(o, u[n], b, n)}
  <1>6. ASSUME NEW n \in 0..Len(b), \A j \in 0..(n - 1) : j \in Q
        PROVE  n \in Q
    <2>1. CASE n = 0
      <3>1. \A k \in Newlines(b) : ~(k <= 0)
        BY <1>0 DEF Newlines
      <3>2. LearnsLines(o, o, b, 0)
        BY <3>1 DEF LearnsLines
      <3> QED BY <1>5, <2>1, <3>2
    <2>2. CASE n # 0
      <3>1. n \in 1..Len(b) /\ n \in Nat /\ n - 1 \in 0..(n - 1)
        BY <1>0, <2>2
      <3>2. n - 1 \in Q
        <4> HIDE DEF Q
        <4> QED BY <1>6, <3>1
      <3>3. LearnsLines(o, u[n - 1], b, n - 1)
        BY <3>2
      <3>4. LearnsLines(o, ReadLine(u[n - 1], b, n), b, n)
        BY <3>1, <3>3, ReadLineFacts
      <3> QED BY <1>5, <3>1, <3>4
    <2> QED BY <2>1, <2>2
  <1>7. \A n \in 0..Len(b) : n \in Q
    <2> HIDE DEF Q
    <2>1. 0 \in Int /\ Len(b) \in Int
      BY <1>0
    <2> QED BY <1>6, <2>1, GoingUp
  <1>8. Len(b) \in Q
    <2> HIDE DEF Q
    <2> QED BY <1>0, <1>7
  <1> QED BY <1>4, <1>8
-----------------------------------------------------------------------------
\* Behind LineEnd no line of t is complete.
LEMMA EndFacts ==
    ASSUME NEW t \in Seq(Symbols), NEW r \in 0..Len(t)
    PROVE  /\ LineEnd(t, r) \in 0..Len(t)
           /\ LineEnd(t, r) = r \/ LineEnd(t, r) \in Newlines(t)
           /\ r <= LineEnd(t, r)
           /\ \A n \in Newlines(t) : n <= LineEnd(t, r)
  <1> DEFINE T == {r} \cup Newlines(t)
  <1>1. Len(t) \in Nat
    BY LenProperties
  <1>2. T \subseteq 0..Len(t) /\ T # {}
    BY <1>1 DEF Newlines
  <1>3. Max(T) \in T /\ \A y \in T : y <= Max(T)
    <2> HIDE DEF T
    <2> QED BY <1>1, <1>2, MaxFacts
  <1>4. LineEnd(t, r) = Max(T)
    BY DEF LineEnd
  <1>5. PICK m : m = Max(T)
    OBVIOUS
  <1> QED BY <1>2, <1>3, <1>4, <1>5

\* Nothing else is the end of the last line.
LEMMA EndUnique ==
    ASSUME NEW t \in Seq(Symbols), NEW r \in 0..Len(t), NEW m \in 0..Len(t),
           m = r \/ m \in Newlines(t), r <= m, \A n \in Newlines(t) : n <= m
    PROVE  LineEnd(t, r) = m
  <1>1. PICK e : e = LineEnd(t, r)
    OBVIOUS
  <1>2. /\ e \in 0..Len(t) /\ (e = r \/ e \in Newlines(t))
        /\ r <= e /\ \A n \in Newlines(t) : n <= e
    BY <1>1, EndFacts
  <1>3. e <= m /\ m <= e
    BY <1>2
  <1>4. Len(t) \in Nat
    BY LenProperties
  <1> QED BY <1>1, <1>2, <1>3, <1>4

\* The text t has become u, of which m has been read as lines or thrown away,
\* and b is what follows.
Cut(t, u, b, r, m) ==
    /\ t \in Seq(Symbols) /\ u \in Seq(Symbols) /\ b \in Seq(Symbols)
    /\ r \in 0..Len(t) /\ m \in 0..Len(t) /\ r <= m
    /\ m = r \/ m \in Newlines(t)
    /\ \A n \in Newlines(t) : n <= m
    /\ Len(t) <= Len(u) /\ \A i \in 1..Len(t) : u[i] = t[i]
    /\ Len(u) = m + Len(b) /\ \A k \in 1..Len(b) : b[k] = u[m + k]

\* The old lines are the same in the new text.
LEMMA LinesKept ==
    ASSUME NEW t, NEW u, NEW b, NEW r, NEW m, Cut(t, u, b, r, m), NEW n \in Nat, n <= m
    PROVE  /\ n \in Newlines(u) <=> n \in Newlines(t)
           /\ n \in Newlines(t) =>
                 Start(u, n) = Start(t, n) /\ \A x, y : Says(u, n, x, y) <=> Says(t, n, x, y)
  <1>1. /\ t \in Seq(Symbols) /\ u \in Seq(Symbols) /\ Len(t) \in Nat /\ Len(u) \in Nat /\ Len(t) <= Len(u)
        /\ \A i \in 1..Len(t) : u[i] = t[i]
        /\ n <= Len(t) /\ m \in Nat
    BY LenProperties DEF Cut
  <1>2. n \in Newlines(u) <=> n \in Newlines(t)
    BY <1>1 DEF Newlines
  <1>3. ASSUME n \in Newlines(t)
        PROVE  Start(u, n) = Start(t, n) /\ \A x, y : Says(u, n, x, y) <=> Says(t, n, x, y)
    <2>1. n \in 1..Len(t) /\ n \in 1..Len(u)
      BY <1>1, <1>3 DEF Newlines
    <2>2. PICK s : s = Start(t, n)
      OBVIOUS
    <2>3. IsStart(t, n, s) /\ IsStart(u, n, Start(u, n)) /\ s \in 1..n
      BY <1>1, <2>1, <2>2, StartFacts DEF IsStart
    <2>4. IsStart(u, n, s)
      <3>1. s # 1 => s - 1 \in 1..Len(t)
        BY <1>1, <2>1, <2>3
      <3>2. \A i \in s..n - 1 : i \in 1..Len(t)
        BY <1>1, <2>1, <2>3
      <3> QED BY <1>1, <2>3, <3>1, <3>2 DEF IsStart
    <2>5. Start(u, n) = s
      BY <2>3, <2>4, StartUnique
    <2>6. ASSUME NEW x, NEW y
          PROVE  Says(u, n, x, y) <=> Says(t, n, x, y)
      <3>1. /\ Says(u, n, x, y) <=> SaysFrom(u, s, n, x, y)
            /\ Says(t, n, x, y) <=> SaysFrom(t, s, n, x, y)
        BY <1>1, <2>1, <2>2, <2>5, SaysIsFrom
      <3>2. \A k \in s..n - 1 : u[k] = t[k + 0]
        <4>1. \A k \in s..n - 1 : k \in 1..Len(t) /\ k + 0 = k
          BY <1>1, <2>1, <2>3
        <4> QED BY <1>1, <4>1
      <3>3. 0 \in Nat /\ s \in Nat /\ s <= n
        BY <2>3
      <3>4. SaysFrom(u, s, n, x, y) <=> SaysFrom(t, s + 0, n + 0, x, y)
        BY <3>2, <3>3, SaysShift
      <3>5. s + 0 = s /\ n + 0 = n
        BY <3>3
      <3> QED BY <3>1, <3>4, <3>5
    <2> QED BY <2>2, <2>5, <2>6
  <1> QED BY <1>2, <1>3

\* The new lines, in the buffer and in the text.
LEMMA LinesAdded ==
    ASSUME NEW t, NEW u, NEW b, NEW r, NEW m, Cut(t, u, b, r, m), NEW k \in Nat \ {0}
    PROVE  /\ m + k \in Newlines(u) <=> k \in Newlines(b)
           /\ k \in Newlines(b) /\ Start(u, m + k) > r =>
                 \A x, y : Says(u, m + k, x, y) <=> Says(b, k, x, y)
           /\ k \in Newlines(b) /\ (m = 0 \/ m \in Newlines(t) \/ \E j \in Newlines(b) : j < k) =>
                 Start(u, m + k) > r
  <1>1. /\ t \in Seq(Symbols) /\ u \in Seq(Symbols) /\ b \in Seq(Symbols)
        /\ Len(t) \in Nat /\ Len(u) \in Nat /\ Len(b) \in Nat
        /\ m \in Nat /\ r \in Nat /\ r <= m /\ m <= Len(t) /\ Len(t) <= Len(u) /\ Len(u) = m + Len(b)
        /\ \A i \in 1..Len(t) : u[i] = t[i]
        /\ \A i \in 1..Len(b) : b[i] = u[m + i]
    BY LenProperties DEF Cut
  <1>2. m + k \in Newlines(u) <=> k \in Newlines(b)
    <2>1. m + k \in 1..Len(u) <=> k \in 1..Len(b)
      BY <1>1
    <2> QED BY <1>1, <2>1 DEF Newlines
  <1> SUFFICES ASSUME k \in Newlines(b)
               PROVE  /\ Start(u, m + k) > r => \A x, y : Says(u, m + k, x, y) <=> Says(b, k, x, y)
                      /\ (m = 0 \/ m \in Newlines(t) \/ \E j \in Newlines(b) : j < k) => Start(u, m + k) > r
    BY <1>2
  <1>3. k \in 1..Len(b) /\ m + k \in 1..Len(u) /\ m + k \in Nat
    BY <1>1 DEF Newlines
  <1>4. PICK s : s = Start(u, m + k)
    OBVIOUS
  <1>5. /\ s \in 1..m + k /\ (s = 1 \/ u[s - 1] = "nl")
        /\ \A i \in s..(m + k) - 1 : u[i] # "nl"
    <2>1. PICK n : n = m + k
      OBVIOUS
    <2>2. IsStart(u, n, s)
      BY <1>1, <1>3, <1>4, <2>1, StartFacts
    <2> QED BY <2>1, <2>2 DEF IsStart
  <1>6. m \in Newlines(t) => s > m
    BY <1>1, <1>3, <1>5 DEF Newlines
  <1>7. ASSUME s > r, NEW x, NEW y
        PROVE  Says(u, m + k, x, y) <=> Says(b, k, x, y)
    <2>1. s > m
      BY <1>6, <1>7 DEF Cut
    <2>2. PICK v : v = s - m
      OBVIOUS
    <2>3. v \in 1..k /\ v + m = s /\ v \in Nat /\ v <= k
      BY <1>1, <1>3, <1>5, <2>1, <2>2
    <2>4. IsStart(b, k, v)
      <3>1. v = 1 \/ b[v - 1] = "nl"
        <4>1. CASE v = 1
          BY <4>1
        <4>2. CASE v # 1
          <5>1. v - 1 \in 1..Len(b) /\ m + (v - 1) = s - 1 /\ s # 1
            BY <1>1, <1>3, <2>3, <4>2
          <5> QED BY <1>1, <1>5, <5>1
        <4> QED BY <4>1, <4>2
      <3>2. ASSUME NEW i \in v..k - 1
            PROVE  b[i] # "nl"
        <4>1. i \in 1..Len(b) /\ m + i \in s..(m + k) - 1
          BY <1>1, <1>3, <2>3
        <4> QED BY <1>1, <1>5, <4>1
      <3> QED BY <2>3, <3>1, <3>2 DEF IsStart
    <2>5. Start(b, k) = v
      <3>1. IsStart(b, k, Start(b, k))
        BY <1>1, <1>3, StartFacts
      <3> QED BY <2>4, <3>1, StartUnique
    <2>6. Says(b, k, x, y) <=> SaysFrom(b, v, k, x, y)
      BY <1>1, <1>3, <2>5, SaysIsFrom
    <2>7. Says(u, m + k, x, y) <=> SaysFrom(u, s, m + k, x, y)
      <3>1. PICK n : n = m + k
        OBVIOUS
      <3> QED BY <1>1, <1>3, <1>4, <3>1, SaysIsFrom
    <2>8. \A i \in v..k - 1 : b[i] = u[i + m]
      <3>1. \A i \in v..k - 1 : i \in 1..Len(b) /\ m + i = i + m
        BY <1>1, <1>3, <2>3
      <3> QED BY <1>1, <3>1
    <2>9. SaysFrom(b, v, k, x, y) <=> SaysFrom(u, v + m, k + m, x, y)
      BY <1>1, <2>3, <2>8, SaysShift
    <2>10. k + m = m + k
      BY <1>1
    <2> QED BY <2>3, <2>6, <2>7, <2>9, <2>10
  <1>8. ASSUME m = 0 \/ m \in Newlines(t) \/ \E j \in Newlines(b) : j < k
        PROVE  s > r
    <2>1. CASE m = 0
      BY <1>1, <1>3, <1>5, <2>1
    <2>2. CASE m \in Newlines(t)
      BY <1>1, <1>3, <1>5, <1>6, <2>2
    <2>3. ASSUME NEW j \in Newlines(b), j < k
          PROVE  s > r
      <3>1. j \in 1..Len(b) /\ b[j] = "nl" /\ u[m + j] = "nl"
        BY <1>1, <2>3 DEF Newlines
      <3>2. ~(m + j \in s..(m + k) - 1)
        BY <1>5, <3>1
      <3> QED BY <1>1, <1>3, <1>5, <2>3, <3>1, <3>2
    <2> QED BY <1>8, <2>1, <2>2, <2>3
  <1> QED BY <1>4, <1>7, <1>8

\* An observer that knew the old text and reads what follows knows the new.
LEMMA KnowsMore ==
    ASSUME NEW t, NEW u, NEW b, NEW r, NEW m, Cut(t, u, b, r, m),
           NEW o, NEW o2, NEW p, Knows(o, t, r), LearnsLines(p, o2, b, Len(b)),
           p.done_received = o.done_received, p.usage = o.usage
    PROVE  Knows(o2, u, r)
  <1> DEFINE Lines(w) == {n \in Newlines(w) : Start(w, n) > r}
             said(w)  == {n \in Lines(w) : Says(w, n, "[DO", "NE]")}
             told(w)  == {n \in Lines(w) : Reports(w, n)}
  <1>1. /\ t \in Seq(Symbols) /\ u \in Seq(Symbols) /\ b \in Seq(Symbols)
        /\ Len(t) \in Nat /\ Len(u) \in Nat /\ Len(b) \in Nat
        /\ m \in Nat /\ r \in Nat /\ r <= m /\ (m = r \/ m \in Newlines(t))
    BY LenProperties DEF Cut
  <1>2. /\ Newlines(u) \subseteq Nat \ {0} /\ Newlines(t) \subseteq Nat \ {0}
        /\ Newlines(b) \subseteq Nat \ {0} /\ \A k \in Newlines(b) : k <= Len(b)
        /\ \A n \in Newlines(t) : n <= m
    BY <1>1 DEF Newlines, Cut
  <1>3. \A n \in Newlines(t) : /\ n \in Newlines(u) /\ Start(u, n) = Start(t, n)
                               /\ \A x, y : Says(u, n, x, y) <=> Says(t, n, x, y)
    BY <1>1, <1>2, LinesKept
  <1>4. \A n \in Newlines(u) : n <= m => n \in Newlines(t)
    BY <1>1, <1>2, LinesKept
  <1>5. ASSUME NEW n \in Newlines(u), ~(n <= m)
        PROVE  \E k \in Newlines(b) : n = m + k
    <2>1. PICK k \in Nat \ {0} : n = m + k
      <3>1. n - m \in Nat \ {0} /\ n = m + (n - m)
        BY <1>1, <1>2, <1>5, SMTT(30)
      <3> QED BY <3>1
    <2> QED BY <1>5, <2>1, LinesAdded
  <1>6. ASSUME NEW k \in Newlines(b)
        PROVE  /\ m + k \in Newlines(u) /\ m + k \in Nat /\ ~(m + k <= m)
               /\ Start(u, m + k) > r => \A x, y : Says(u, m + k, x, y) <=> Says(b, k, x, y)
               /\ (m = 0 \/ m \in Newlines(t) \/ \E j \in Newlines(b) : j < k) => Start(u, m + k) > r
    <2>1. k \in Nat \ {0} /\ m + k \in Nat /\ ~(m + k <= m)
      BY <1>1, <1>2, <1>6
    <2> QED BY <1>6, <2>1, LinesAdded
  <1>7. \A n \in Lines(u) : n > r
    <2>1. ASSUME NEW n \in Newlines(u), Start(u, n) > r
          PROVE  n > r
      <3>1. n \in 1..Len(u)
        BY DEF Newlines
      <3>2. Start(u, n) \in 1..n
        BY <1>1, <3>1, StartFacts DEF IsStart
      <3> QED BY <1>1, <2>1, <3>1, <3>2
    <2> QED BY <2>1
  <1>8. /\ said(t) # {} => o.done_received
        /\ \A n \in told(t) : (\A l \in told(t) : l <= n) => Says(t, n, "usage", o.usage)
        /\ r = 0 => (o.done_received => said(t) # {}) /\ (o.usage # NoUsage => told(t) # {})
    BY DEF Knows
  <1>9. \A n \in Lines(u) : n <= m => n \in Lines(t) /\ (n \in said(u) => n \in said(t))
                                      /\ (n \in told(u) <=> n \in told(t))
    BY <1>3, <1>4 DEF Reports
  <1>10. \A n \in Lines(t) : n \in Lines(u) /\ (n \in said(t) => n \in said(u)) /\ (n \in told(t) => n \in told(u))
    BY <1>3 DEF Reports
  <1>11. /\ o2.done_received <=> (o.done_received \/ \E k \in Newlines(b) : Says(b, k, "[DO", "NE]"))
         /\ \A k \in Newlines(b) :
               Reports(b, k) /\ (\A l \in Newlines(b) : Reports(b, l) => l <= k) => Says(b, k, "usage", o2.usage)
         /\ (\A k \in Newlines(b) : ~Reports(b, k)) => o2.usage = o.usage
    BY <1>2 DEF LearnsLines
  <1>12. said(u) # {} => o2.done_received
    <2>1. ASSUME NEW n \in said(u)
          PROVE  o2.done_received
      <3>1. CASE n <= m
        BY <1>8, <1>9, <1>11, <2>1, <3>1
      <3>2. CASE ~(n <= m)
        <4>1. PICK k \in Newlines(b) : n = m + k
          BY <1>5, <3>2
        <4>2. Says(b, k, "[DO", "NE]")
          BY <1>6, <2>1, <4>1
        <4> QED BY <1>11, <4>2
      <3> QED BY <3>1, <3>2
    <2> QED BY <2>1
  <1>13. ASSUME NEW n \in told(u), \A l \in told(u) : l <= n
         PROVE  Says(u, n, "usage", o2.usage)
    <2>0. n \in Newlines(u) /\ Start(u, n) > r /\ Reports(u, n) /\ n \in Nat /\ n > r
      BY <1>2, <1>7, <1>13
    <2>1. CASE n <= m
      <3>1. n \in told(t) /\ n \in Newlines(t)
        BY <1>4, <1>9, <2>0, <2>1
      <3>2. m \in Newlines(t)
        BY <1>1, <2>0, <2>1
      <3>3. ASSUME NEW k \in Newlines(b), Reports(b, k)
            PROVE  FALSE
        <4>1. m + k \in Newlines(u) /\ Start(u, m + k) > r /\ Reports(u, m + k) /\ ~(m + k <= m) /\ m + k \in Nat
          BY <1>6, <3>2, <3>3 DEF Reports
        <4>2. m + k <= n
          BY <1>13, <4>1
        <4> QED BY <1>1, <2>0, <2>1, <4>1, <4>2
      <3>4. o2.usage = o.usage
        BY <1>11, <3>3
      <3>5. Says(t, n, "usage", o.usage)
        BY <1>8, <1>10, <1>13, <3>1
      <3> QED BY <1>3, <3>1, <3>4, <3>5
    <2>2. CASE ~(n <= m)
      <3>1. PICK k \in Newlines(b) : n = m + k
        BY <1>5, <2>0, <2>2
      <3>2. \A x, y : Says(u, n, x, y) <=> Says(b, k, x, y)
        BY <1>6, <2>0, <3>1
      <3>3. ASSUME NEW l \in Newlines(b), Reports(b, l), ~(l <= k)
            PROVE  FALSE
        <4>1. k \in Nat /\ l \in Nat /\ k < l
          BY <1>2, <3>3
        <4>2. m + l \in Newlines(u) /\ Start(u, m + l) > r /\ Reports(u, m + l)
          BY <1>6, <3>3, <4>1 DEF Reports
        <4>3. m + l <= m + k
          BY <1>13, <3>1, <4>2
        <4> QED BY <1>1, <4>1, <4>3
      <3>4. Reports(b, k)
        BY <2>0, <3>2 DEF Reports
      <3> QED BY <1>11, <3>2, <3>3, <3>4
    <2> QED BY <2>1, <2>2
  <1>14. ASSUME r = 0
         PROVE  (o2.done_received => said(u) # {}) /\ (o2.usage # NoUsage => told(u) # {})
    <2>1. \A k \in Newlines(b) : m + k \in Newlines(u) /\ Start(u, m + k) > r
      BY <1>1, <1>6, <1>14
    <2>2. \A k \in Newlines(b) : \A x, y : Says(u, m + k, x, y) <=> Says(b, k, x, y)
      BY <1>6, <2>1
    <2>3. o.done_received => said(u) # {}
      BY <1>8, <1>10, <1>14
    <2>4. \A k \in Newlines(b) : Says(b, k, "[DO", "NE]") => said(u) # {}
      BY <2>1, <2>2
    <2>5. o.usage # NoUsage => told(u) # {}
      BY <1>8, <1>10, <1>14
    <2>6. \A k \in Newlines(b) : Reports(b, k) => told(u) # {}
      BY <2>1, <2>2 DEF Reports
    <2> QED BY <1>11, <2>3, <2>4, <2>5, <2>6
  <1>15. /\ said(u) # {} => o2.done_received
         /\ \A n \in told(u) : (\A l \in told(u) : l <= n) => Says(u, n, "usage", o2.usage)
         /\ r = 0 => (o2.done_received => said(u) # {}) /\ (o2.usage # NoUsage => told(u) # {})
    <2> HIDE DEF Lines, said, told
    <2> QED BY <1>12, <1>13, <1>14
  <1> QED BY <1>15 DEF Knows

\* What follows the first m symbols.
LEMMA RestFacts ==
    ASSUME NEW t \in Seq(Symbols), NEW m \in 0..Len(t)
    PROVE  /\ SubSeq(t, m + 1, Len(t)) \in Seq(Symbols)
           /\ Len(SubSeq(t, m + 1, Len(t))) = Len(t) - m
           /\ \A i \in 1..Len(t) - m : SubSeq(t, m + 1, Len(t))[i] = t[m + i]
  <1>1. PICK d : d = SubSeq(t, m + 1, Len(t))
    OBVIOUS
  <1>2. Len(t) \in Nat
    BY LenProperties
  <1>3. \A i \in m + 1..Len(t) : t[i] \in Symbols
    BY <1>2, ElementOfSeq
  <1>4. m + 1 \in Int /\ Len(t) \in Int
    BY <1>2
  <1>5. /\ d \in Seq(Symbols) /\ Len(d) = IF m + 1 <= Len(t) THEN Len(t) - (m + 1) + 1 ELSE 0
        /\ \A i \in 1..Len(t) - (m + 1) + 1 : d[i] = t[(m + 1) + i - 1]
    BY <1>1, <1>3, <1>4, SubSeqProperties
  <1>6. Len(d) = Len(t) - m
    BY <1>2, <1>5
  <1>7. \A i \in 1..Len(t) - m : i \in 1..Len(t) - (m + 1) + 1 /\ (m + 1) + i - 1 = m + i
    BY <1>2
  <1> QED BY <1>1, <1>5, <1>6, <1>7

\* The buffer with the new chunk is what follows the last line of the text.
LEMMA ChunkCut ==
    ASSUME NEW t \in Seq(Symbols), NEW r \in 0..Len(t), NEW c \in Seq(Symbols), NEW m,
           m = LineEnd(t, r)
    PROVE  Cut(t, t \o c, SubSeq(t, m + 1, Len(t)) \o c, r, m)
  <1>1. Len(t) \in Nat /\ Len(c) \in Nat
    BY LenProperties
  <1>2. /\ m \in 0..Len(t) /\ (m = r \/ m \in Newlines(t)) /\ r <= m
        /\ \A n \in Newlines(t) : n <= m
    BY EndFacts
  <1>3. PICK u : u = t \o c
    OBVIOUS
  <1>4. /\ u \in Seq(Symbols) /\ Len(u) = Len(t) + Len(c)
        /\ \A i \in 1..Len(t) : u[i] = t[i]
        /\ \A i \in 1..Len(c) : u[Len(t) + i] = c[i]
    BY <1>1, <1>3, ConcatProperties
  <1>5. PICK d : d = SubSeq(t, m + 1, Len(t))
    OBVIOUS
  <1>6. d \in Seq(Symbols) /\ Len(d) = Len(t) - m /\ \A i \in 1..Len(d) : d[i] = t[m + i]
    BY <1>2, <1>5, RestFacts
  <1>7. PICK b : b = d \o c
    OBVIOUS
  <1>8. /\ b \in Seq(Symbols) /\ Len(b) = Len(d) + Len(c)
        /\ \A i \in 1..Len(d) : b[i] = d[i]
        /\ \A i \in 1..Len(c) : b[Len(d) + i] = c[i]
    <2>1. d \in Seq(Symbols)
      BY <1>6
    <2>2. Len(d) \in Nat
      BY <2>1, LenProperties
    <2> QED BY <1>1, <1>7, <2>1, <2>2, ConcatProperties
  <1>9. ASSUME NEW k \in 1..Len(b)
        PROVE  b[k] = u[m + k]
    <2>1. CASE k \in 1..Len(d)
      <3>1. m + k \in 1..Len(t)
        BY <1>1, <1>2, <1>6, <2>1
      <3> QED BY <1>4, <1>6, <1>8, <2>1, <3>1
    <2>2. CASE k \notin 1..Len(d)
      <3>1. PICK i : i = k - Len(d)
        OBVIOUS
      <3>2. i \in 1..Len(c) /\ Len(d) + i = k /\ Len(t) + i = m + k
        <4>1. Len(d) \in Nat /\ Len(d) = Len(t) - m /\ m \in Nat /\ k \in Nat /\ 1 <= k
          BY <1>2, <1>6, LenProperties
        <4>2. k <= Len(d) + Len(c)
          BY <1>8
        <4>3. PICK x, y, z, v, w \in Nat :
                     x = Len(d) /\ y = Len(t) /\ z = Len(c) /\ v = m /\ w = k
          BY <1>1, <4>1
        <4>4. ~(w <= x) /\ w <= x + z /\ x = y - v
          BY <2>2, <4>1, <4>2, <4>3
        <4>5. w - x \in 1..z /\ x + (w - x) = w /\ y + (w - x) = v + w
          BY <4>4
        <4>6. i = w - x
          BY <3>1, <4>3
        <4> QED BY <4>3, <4>5, <4>6
      <3> QED BY <1>4, <1>8, <3>2
    <2> QED BY <2>1, <2>2
  <1>10. Len(u) = m + Len(b) /\ Len(t) <= Len(u)
    BY <1>1, <1>2, <1>4, <1>6, <1>8
  <1>11. Cut(t, u, b, r, m)
    BY <1>2, <1>4, <1>8, <1>9, <1>10 DEF Cut
  <1> QED BY <1>3, <1>5, <1>7, <1>11

\* What the loop leaves in the buffer is what follows the last line of the new text.
LEMMA RestFollows ==
    ASSUME NEW t, NEW u, NEW b, NEW r, NEW m, Cut(t, u, b, r, m)
    PROVE  Unfinished(b) = SubSeq(u, LineEnd(u, r) + 1, Len(u)) /\ r \in 0..Len(u)
  <1>1. /\ t \in Seq(Symbols) /\ u \in Seq(Symbols) /\ b \in Seq(Symbols)
        /\ Len(t) \in Nat /\ Len(u) \in Nat /\ Len(b) \in Nat
        /\ m \in Nat /\ r \in Nat /\ r <= m /\ (m = r \/ m \in Newlines(t))
        /\ m <= Len(t) /\ Len(t) <= Len(u) /\ Len(u) = m + Len(b)
        /\ \A k \in 1..Len(b) : b[k] = u[m + k]
        /\ \A i \in 1..Len(t) : u[i] = t[i]
        /\ \A n \in Newlines(t) : n <= m
    BY LenProperties DEF Cut
  <1> DEFINE T == Newlines(b) \cup {0}
  <1>2. PICK e : e = Max(T)
    OBVIOUS
  <1>3. e \in T /\ \A y \in T : y <= e
    <2>1. T \subseteq 0..Len(b) /\ T # {}
      BY <1>1 DEF Newlines
    <2> HIDE DEF T
    <2> QED BY <1>1, <1>2, <2>1, MaxFacts
  <1>4. e \in 0..Len(b) /\ (e = 0 \/ e \in Newlines(b)) /\ \A k \in Newlines(b) : k <= e
    BY <1>1, <1>3 DEF Newlines
  <1>5. Unfinished(b) = SubSeq(b, e + 1, Len(b))
    BY <1>2 DEF Unfinished
  <1>6. LineEnd(u, r) = m + e
    <2>1. m + e \in 0..Len(u) /\ r \in 0..Len(u) /\ r <= m + e
      BY <1>1, <1>4
    <2>2. m + e = r \/ m + e \in Newlines(u)
      <3>1. CASE e = 0
        <4>1. m \in Newlines(t) => m \in Newlines(u)
          BY <1>1 DEF Newlines
        <4>2. m + e = m
          BY <1>1, <3>1
        <4> QED BY <1>1, <4>1, <4>2
      <3>2. CASE e # 0
        <4>1. e \in Nat \ {0} /\ e \in Newlines(b)
          BY <1>1, <1>4, <3>2
        <4> QED BY <4>1, LinesAdded
      <3> QED BY <3>1, <3>2
    <2>3. ASSUME NEW n \in Newlines(u)
          PROVE  n <= m + e
      <3>1. CASE n <= m
        BY <1>1, <1>4, <3>1 DEF Newlines
      <3>2. CASE ~(n <= m)
        <4>1. PICK k : k = n - m
          OBVIOUS
        <4>2. k \in Nat \ {0} /\ m + k = n
          BY <1>1, <3>2, <4>1 DEF Newlines
        <4>3. k \in Newlines(b)
          BY <4>2, LinesAdded
        <4>4. k <= e
          BY <1>4, <4>3
        <4> QED BY <1>1, <1>4, <4>2, <4>4
      <3> QED BY <3>1, <3>2
    <2>4. PICK z : z = m + e
      OBVIOUS
    <2> QED BY <1>1, <2>1, <2>2, <2>3, <2>4, EndUnique
  <1>7. SubSeq(b, e + 1, Len(b)) = SubSeq(u, m + e + 1, Len(u))
    <2>1. PICK v, w : v = SubSeq(b, e + 1, Len(b)) /\ w = SubSeq(u, m + e + 1, Len(u))
      OBVIOUS
    <2>2. PICK l : l = Len(b) - e
      OBVIOUS
    <2>3. l \in Nat
      BY <1>1, <1>4, <2>2
    <2>4. v \in Seq(Symbols) /\ Len(v) = l /\ \A i \in 1..l : v[i] = b[e + i]
      BY <1>1, <1>4, <2>1, <2>2, RestFacts
    <2>5. w \in Seq(Symbols) /\ Len(w) = l /\ \A i \in 1..l : w[i] = u[m + (e + i)]
      <3>1. PICK z \in 0..Len(u) : z = m + e
        BY <1>1, <1>4
      <3>2. Len(u) - z = l /\ \A i \in 1..l : z + i = m + (e + i)
        <4>1. PICK x, y, v1, v2 \in Nat : x = Len(u) /\ y = Len(b) /\ v1 = m /\ v2 = e
          BY <1>1, <1>4
        <4>2. x = v1 + y /\ z = v1 + v2 /\ l = y - v2
          BY <1>1, <2>2, <3>1, <4>1
        <4>3. x - (v1 + v2) = y - v2 /\ \A i \in 1..l : (v1 + v2) + i = v1 + (v2 + i)
          BY <2>3, <4>2
        <4> QED BY <4>1, <4>2, <4>3
      <3>3. /\ w \in Seq(Symbols) /\ Len(w) = Len(u) - z
            /\ \A i \in 1..Len(u) - z : w[i] = u[z + i]
        BY <1>1, <2>1, <3>1, RestFacts
      <3> QED BY <3>2, <3>3
    <2>6. ASSUME NEW i \in 1..l
          PROVE  v[i] = w[i]
      <3>1. e + i \in 1..Len(b)
        BY <1>1, <1>4, <2>2
      <3> QED BY <1>1, <2>4, <2>5, <3>1
    <2> QED BY <2>1, <2>4, <2>5, <2>6, SeqEqual
  <1>8. r \in 0..Len(u)
    BY <1>1
  <1> QED BY <1>5, <1>6, <1>7, <1>8

\* Only what the observer found counts.
LEMMA KnowsSame ==
    ASSUME NEW o, NEW p, NEW t, NEW r, Knows(o, t, r),
           p.done_received = o.done_received, p.usage = o.usage
    PROVE  Knows(p, t, r)
  BY DEF Knows

\* Another buffer, and nothing else.
LEMMA WithBufferFacts ==
    ASSUME NEW o \in Observers, NEW b \in Seq(Symbols)
    PROVE  /\ WithBuffer(o, b) \in Observers /\ WithBuffer(o, b).buffer = b
           /\ WithBuffer(o, b).done_received = o.done_received /\ WithBuffer(o, b).usage = o.usage
  BY DEF WithBuffer, Observers

\* The observer o has read the text t, and cleared its buffer at r.
UpToDate(o, t, r) ==
    /\ o \in Observers /\ t \in Seq(Symbols) /\ r \in 0..Len(t)
    /\ o.buffer = SubSeq(t, LineEnd(t, r) + 1, Len(t))
    /\ Knows(o, t, r)

\* process_chunk keeps up with the text.
LEMMA ChunkKnown ==
    ASSUME NEW o, NEW t, NEW r, UpToDate(o, t, r), NEW c \in Seq(Symbols)
    PROVE  UpToDate(process_chunk(o, c), t \o c, Resume(t, r, t \o c))
  <1>0. /\ t \in Seq(Symbols) /\ r \in 0..Len(t) /\ o \in Observers
        /\ o.buffer = SubSeq(t, LineEnd(t, r) + 1, Len(t)) /\ Knows(o, t, r)
    BY DEF UpToDate
  <1>1. PICK u, q : u = t \o c /\ q = Resume(t, r, u)
    OBVIOUS
  <1>2. PICK m : m = LineEnd(t, r)
    OBVIOUS
  <1>3. PICK b : b = o.buffer \o c
    OBVIOUS
  <1>4. Cut(t, u, b, r, m)
    BY <1>0, <1>1, <1>2, <1>3, ChunkCut
  <1>5. /\ u \in Seq(Symbols) /\ b \in Seq(Symbols) /\ Len(u) \in Nat /\ Len(b) \in Nat
        /\ m \in Nat /\ Len(u) = m + Len(b) /\ Len(u) - m = Len(b)
    <2>1. /\ u \in Seq(Symbols) /\ b \in Seq(Symbols) /\ t \in Seq(Symbols)
          /\ m \in 0..Len(t) /\ Len(u) = m + Len(b)
      BY <1>4 DEF Cut
    <2>2. Len(u) \in Nat /\ Len(b) \in Nat /\ m \in Nat
      BY <2>1, LenProperties
    <2>3. (m + Len(b)) - m = Len(b)
      BY <2>2
    <2> QED BY <2>1, <2>2, <2>3
  <1>6. CASE Len(b) > BUFFER_CAP
    <2>1. process_chunk(o, c) = WithBuffer(o, << >>) /\ q = Len(u)
      BY <1>1, <1>2, <1>3, <1>5, <1>6 DEF process_chunk, Resume
    <2>2. << >> \in Seq(Symbols)
      OBVIOUS
    <2>3. /\ WithBuffer(o, << >>) \in Observers /\ WithBuffer(o, << >>).buffer = << >>
      BY <1>0, <2>2, WithBufferFacts
    <2>4. LineEnd(u, q) = Len(u) /\ q \in 0..Len(u)
      <3>1. Len(u) \in 0..Len(u) /\ \A n \in Newlines(u) : n <= Len(u)
        BY <1>5 DEF Newlines
      <3>2. PICK e \in 0..Len(u) : e = Len(u)
        BY <3>1
      <3>3. e <= e /\ \A n \in Newlines(u) : n <= e
        BY <1>5, <3>1, <3>2
      <3>4. LineEnd(u, e) = e
        BY <1>5, <3>3, EndUnique
      <3> QED BY <2>1, <3>2, <3>4
    <2>5. SubSeq(u, Len(u) + 1, Len(u)) = << >>
      BY <1>5, SubSeqEmpty
    <2>6. Knows(WithBuffer(o, << >>), u, q)
      <3>1. ASSUME NEW n \in Newlines(u)
            PROVE  ~(Start(u, n) > q)
        <4>1. n \in 1..Len(u)
          BY DEF Newlines
        <4>2. Start(u, n) \in 1..n
          BY <1>5, <4>1, StartFacts DEF IsStart
        <4> QED BY <1>5, <2>1, <4>1, <4>2
      <3>2. q # 0
        BY <1>5, <1>6, <2>1, BufferCapAssumption
      <3> QED BY <3>1, <3>2 DEF Knows
    <2> QED BY <1>1, <1>5, <2>1, <2>3, <2>4, <2>5, <2>6 DEF UpToDate
  <1>7. CASE ~(Len(b) > BUFFER_CAP)
    <2>1. process_chunk(o, c) = DrainLines(WithBuffer(o, b)) /\ q = r
      BY <1>1, <1>2, <1>3, <1>5, <1>7 DEF process_chunk, Resume
    <2>2. PICK p : p = WithBuffer(o, b)
      OBVIOUS
    <2>3. p \in Observers /\ p.buffer = b /\ p.done_received = o.done_received /\ p.usage = o.usage
      BY <1>0, <1>5, <2>2, WithBufferFacts
    <2>4. PICK o2 : o2 = ReadLines(p)
      OBVIOUS
    <2>5. LearnsLines(p, o2, b, Len(b))
      BY <1>5, <2>3, <2>4, ReadLinesFacts
    <2>6. Knows(o2, u, r)
      BY <1>0, <1>4, <2>3, <2>5, KnowsMore
    <2>7. process_chunk(o, c) = WithBuffer(o2, Unfinished(b))
      BY <2>1, <2>2, <2>3, <2>4 DEF DrainLines
    <2>8. Unfinished(b) = SubSeq(u, LineEnd(u, r) + 1, Len(u)) /\ r \in 0..Len(u)
      BY <1>4, RestFollows
    <2>9. Unfinished(b) \in Seq(Symbols) /\ o2 \in Observers
      <3>1. Unfinished(b) \in Seq(Symbols \ {"nl"}) /\ Symbols \ {"nl"} \subseteq Symbols
        BY <1>5, UnfinishedFacts
      <3> QED BY <2>5, <3>1, SeqMonotonic DEF LearnsLines
    <2>10. PICK w \in Seq(Symbols) : w = Unfinished(b)
      BY <2>9
    <2>11. /\ WithBuffer(o2, w) \in Observers /\ WithBuffer(o2, w).buffer = w
           /\ WithBuffer(o2, w).done_received = o2.done_received /\ WithBuffer(o2, w).usage = o2.usage
      BY <2>9, WithBufferFacts
    <2>12. Knows(WithBuffer(o2, w), u, r)
      BY <2>6, <2>11, KnowsSame
    <2> QED BY <1>1, <1>5, <2>1, <2>7, <2>8, <2>10, <2>11, <2>12 DEF UpToDate
  <1> QED BY <1>6, <1>7

\* The end of the stream is the end of its last line.
LEMMA FlushKnown ==
    ASSUME NEW o, NEW t, NEW r, UpToDate(o, t, r), o.buffer \in Seq(Symbols \ {"nl"})
    PROVE  /\ flush_buffer(o) \in Observers /\ flush_buffer(o).buffer = << >>
           /\ Knows(flush_buffer(o), Append(t, "nl"), r)
  <1>0. /\ t \in Seq(Symbols) /\ r \in 0..Len(t) /\ o \in Observers
        /\ o.buffer = SubSeq(t, LineEnd(t, r) + 1, Len(t)) /\ Knows(o, t, r)
    BY DEF UpToDate
  <1>1. PICK c : c = <<"nl">>
    OBVIOUS
  <1>2. /\ "nl" \in Symbols /\ c \in Seq(Symbols) /\ Len(c) = 1 /\ c[1] = "nl"
    BY <1>1 DEF Symbols
  <1>3. PICK m, u, d, b : m = LineEnd(t, r) /\ u = t \o c /\ d = o.buffer /\ b = d \o c
    OBVIOUS
  <1>4. u = Append(t, "nl")
    BY <1>0, <1>1, <1>2, <1>3, AppendIsConcat
  <1>5. Cut(t, u, b, r, m)
    BY <1>0, <1>2, <1>3, ChunkCut
  <1>6. d \in Seq(Symbols) /\ Len(d) \in Nat /\ \A i \in 1..Len(d) : d[i] # "nl"
    <2>1. d \in Seq(Symbols \ {"nl"}) /\ Symbols \ {"nl"} \subseteq Symbols
      BY <1>3
    <2>2. \A i \in 1..Len(d) : d[i] \in Symbols \ {"nl"}
      BY <2>1, ElementOfSeq
    <2> QED BY <2>1, <2>2, SeqMonotonic, LenProperties
  <1>7. /\ b \in Seq(Symbols) /\ Len(b) = Len(d) + 1
        /\ \A i \in 1..Len(d) : b[i] = d[i]
        /\ b[Len(d) + 1] = "nl"
    <2>1. b \in Seq(Symbols) /\ Len(b) = Len(d) + Len(c)
      BY <1>2, <1>3, <1>6, ConcatProperties
    <2>2. \A i \in 1..Len(d) : b[i] = d[i]
      BY <1>2, <1>3, <1>6, ConcatProperties
    <2>3. b[Len(d) + 1] = c[1]
      <3>1. PICK k : k = Len(d) + 1
        OBVIOUS
      <3>2. k \in 1..Len(d) + Len(c) /\ ~(k <= Len(d)) /\ k - Len(d) = 1
        BY <1>2, <1>6, <3>1
      <3>3. b[k] = c[k - Len(d)]
        <4>1. d \in Seq(Symbols) /\ c \in Seq(Symbols) /\ b = d \o c
          BY <1>2, <1>3, <1>6
        <4>2. b[k] = IF k <= Len(d) THEN d[k] ELSE c[k - Len(d)]
          BY <3>2, <4>1, ConcatProperties
        <4> QED BY <3>2, <4>2
      <3> QED BY <3>1, <3>2, <3>3
    <2> QED BY <1>2, <2>1, <2>2, <2>3
  <1>8. PICK e : e = Len(b)
    OBVIOUS
  <1>9. e \in 1..Len(b) /\ e \in Nat /\ e - 1 = Len(d) /\ b[e] = "nl"
    BY <1>6, <1>7, <1>8
  <1>10. \A i \in 1..e - 1 : b[i] # "nl"
    BY <1>6, <1>7, <1>9
  <1>11. Start(b, e) = 1
    <2>1. IsStart(b, e, Start(b, e))
      BY <1>7, <1>9, StartFacts
    <2>2. IsStart(b, e, 1)
      BY <1>9, <1>10 DEF IsStart
    <2> QED BY <1>9, <2>1, <2>2, StartUnique
  <1>12. SubSeq(b, 1, e - 1) = d
    <2>1. PICK v : v = SubSeq(b, 1, Len(d))
      OBVIOUS
    <2>2. /\ v \in Seq(Symbols) /\ Len(v) = Len(d) /\ \A i \in 1..Len(d) : v[i] = b[i]
      <3>1. \A i \in 1..Len(d) : b[i] \in Symbols
        BY <1>6, <1>7, ElementOfSeq
      <3> QED BY <1>6, <2>1, <3>1, SubSeqProperties
    <2>3. \A i \in 1..Len(v) : v[i] = d[i]
      BY <1>7, <2>2
    <2>4. v = d
      BY <1>6, <2>2, <2>3, SeqEqual
    <2> QED BY <1>9, <2>1, <2>4
  <1>13. PICK o2 : o2 = Accept(o, d)
    OBVIOUS
  <1>14. ReadLine(o, b, e) = o2
    BY <1>9, <1>11, <1>12, <1>13 DEF ReadLine
  <1>15. LearnsLines(o, o, b, e - 1)
    <2>1. \A k \in Newlines(b) : ~(k <= e - 1)
      <3>1. ASSUME NEW k \in Newlines(b), k <= e - 1
            PROVE  FALSE
        <4>1. k \in 1..e - 1 /\ b[k] = "nl"
          BY <1>9, <3>1 DEF Newlines
        <4> QED BY <1>10, <4>1
      <3> QED BY <3>1
    <2> QED BY <1>0, <2>1 DEF LearnsLines
  <1>16. LearnsLines(o, o2, b, Len(b))
    <2>1. LearnsLines(o, ReadLine(o, b, e), b, e)
      BY <1>0, <1>7, <1>9, <1>15, ReadLineFacts
    <2> QED BY <1>8, <1>14, <2>1
  <1>17. Knows(o2, u, r)
    BY <1>0, <1>5, <1>16, KnowsMore
  <1>18. flush_buffer(o) = WithBuffer(o2, << >>)
    BY <1>3, <1>13 DEF flush_buffer
  <1>19. /\ WithBuffer(o2, << >>) \in Observers /\ WithBuffer(o2, << >>).buffer = << >>
         /\ WithBuffer(o2, << >>).done_received = o2.done_received
         /\ WithBuffer(o2, << >>).usage = o2.usage
    <2>1. << >> \in Seq(Symbols) /\ o2 \in Observers
      BY <1>16 DEF LearnsLines
    <2> QED BY <2>1, WithBufferFacts
  <1>20. Knows(WithBuffer(o2, << >>), u, r)
    BY <1>17, <1>19, KnowsSame
  <1> QED BY <1>4, <1>18, <1>19, <1>20
-----------------------------------------------------------------------------
(* The relay *)

Item == Seq(Symbols) \cup {Err, Trailing}

\* Item i of all that the provider and the task send.
Sent(i) == IF i <= Len(upstream) THEN upstream[i] ELSE Trailing

\* PassThrough, item by item.
Matched ==
    /\ Len(received) + Len(channel) <= Len(upstream) + 1
    /\ \A i \in 1..Len(received) : received[i] = Sent(i)
    /\ \A i \in 1..Len(channel) : channel[i] = Sent(Len(received) + i)
    /\ Len(received) + Len(channel) > Len(upstream) => ended /\ read = Len(upstream)

\* A prefix, item by item.
LEMMA PrefixFacts ==
    ASSUME NEW S, NEW s \in Seq(S), NEW t \in Seq(S)
    PROVE  IsPrefix(s, t) <=> Len(s) <= Len(t) /\ \A i \in 1..Len(s) : s[i] = t[i]
  <1>1. Len(s) \in Nat /\ Len(t) \in Nat
    BY LenProperties
  <1> SUFFICES ASSUME Len(s) <= Len(t)
               PROVE  SubSeq(s, 1, Len(s)) = SubSeq(t, 1, Len(s)) <=>
                         \A i \in 1..Len(s) : s[i] = t[i]
    BY <1>1 DEF IsPrefix
  <1> DEFINE a == SubSeq(s, 1, Len(s))
             b == SubSeq(t, 1, Len(s))
  <1>2. \A i \in 1..Len(s) : s[i] \in S /\ t[i] \in S
    BY <1>1, ElementOfSeq
  <1>3. a \in Seq(S) /\ Len(a) = Len(s) /\ \A i \in 1..Len(s) : a[i] = s[i]
    BY <1>1, <1>2, SubSeqProperties
  <1>4. b \in Seq(S) /\ Len(b) = Len(s) /\ \A i \in 1..Len(s) : b[i] = t[i]
    BY <1>1, <1>2, SubSeqProperties
  <1> HIDE DEF a, b
  <1>5. a = b => \A i \in 1..Len(s) : s[i] = t[i]
    BY <1>3, <1>4
  <1>6. (\A i \in 1..Len(s) : s[i] = t[i]) => a = b
    BY <1>3, <1>4, SeqEqual
  <1> QED BY <1>5, <1>6 DEF a, b

\* The two forms of PassThrough agree.
LEMMA PassThroughMatched ==
    ASSUME upstream \in Seq(Seq(Symbols) \cup {Err}), channel \in Seq(Item), received \in Seq(Item)
    PROVE  PassThrough <=> Matched
  <1> DEFINE seen == received \o channel
             sent == Append(upstream, Trailing)
  <1>1. Len(upstream) \in Nat /\ Len(channel) \in Nat /\ Len(received) \in Nat
    BY LenProperties
  <1>2. seen \in Seq(Item) /\ Len(seen) = Len(received) + Len(channel)
    BY ConcatProperties
  <1>3. /\ \A i \in 1..Len(received) : seen[i] = received[i]
        /\ \A i \in 1..Len(channel) : seen[Len(received) + i] = channel[i]
    BY <1>1
  <1>4. upstream \in Seq(Item)
    <2>1. Seq(Symbols) \cup {Err} \subseteq Item
      BY DEF Item
    <2> QED BY <2>1, SeqMonotonic
  <1>5. /\ sent \in Seq(Item) /\ Len(sent) = Len(upstream) + 1
        /\ \A i \in 1..Len(upstream) + 1 : sent[i] = Sent(i)
    <2>1. Trailing \in Item
      BY DEF Item
    <2> QED BY <1>1, <1>4, <2>1, AppendProperties DEF Sent
  <1> HIDE DEF seen, sent
  <1>6. (\A i \in 1..Len(seen) : seen[i] = Sent(i)) <=>
           /\ \A i \in 1..Len(received) : received[i] = Sent(i)
           /\ \A i \in 1..Len(channel) : channel[i] = Sent(Len(received) + i)
    <2>1. ASSUME \A i \in 1..Len(seen) : seen[i] = Sent(i)
          PROVE  /\ \A i \in 1..Len(received) : received[i] = Sent(i)
                 /\ \A i \in 1..Len(channel) : channel[i] = Sent(Len(received) + i)
      BY <1>1, <1>2, <1>3, <2>1
    <2>2. ASSUME \A i \in 1..Len(received) : received[i] = Sent(i),
                 \A i \in 1..Len(channel) : channel[i] = Sent(Len(received) + i),
                 NEW i \in 1..Len(seen)
          PROVE  seen[i] = Sent(i)
      <3>1. CASE i <= Len(received)
        BY <1>1, <1>3, <2>2, <3>1
      <3>2. CASE i > Len(received)
        <4>1. i - Len(received) \in 1..Len(channel) /\ Len(received) + (i - Len(received)) = i
          BY <1>1, <1>2, <3>2
        <4> QED BY <1>3, <2>2, <4>1
      <3> QED BY <1>1, <3>1, <3>2
    <2> QED BY <2>1, <2>2
  <1>7. IsPrefix(seen, sent) <=>
           Len(seen) <= Len(sent) /\ \A i \in 1..Len(seen) : seen[i] = sent[i]
    BY <1>2, <1>5, PrefixFacts, ZenonT(40)
  <1>8. Len(seen) <= Len(sent) =>
           ((\A i \in 1..Len(seen) : seen[i] = sent[i]) <=> \A i \in 1..Len(seen) : seen[i] = Sent(i))
    BY <1>1, <1>2, <1>5
  <1>9. PassThrough <=> IsPrefix(seen, sent) /\ (Len(seen) > Len(upstream) => ended /\ read = Len(upstream))
    BY DEF PassThrough, seen, sent
  <1> QED BY <1>2, <1>5, <1>6, <1>7, <1>8, <1>9 DEF Matched

\* The types, with the lengths as numbers.
LEMMA TypeFacts ==
    ASSUME TypeOK
    PROVE  /\ body \in Seq(Symbols) /\ upstream \in Seq(Seq(Symbols) \cup {Err})
           /\ channel \in Seq(Item) /\ received \in Seq(Item)
           /\ Len(body) \in Nat /\ Len(upstream) \in Nat /\ Len(channel) \in Nat
           /\ Len(received) \in Nat /\ read \in Nat /\ read <= Len(upstream)
           /\ PassThrough <=> Matched
  <1>1. /\ body \in Seq(Symbols) /\ upstream \in Seq(Seq(Symbols) \cup {Err})
        /\ channel \in Seq(Item) /\ received \in Seq(Item)
    BY DEF TypeOK, Item
  <1>2. /\ Len(body) \in Nat /\ Len(upstream) \in Nat /\ Len(channel) \in Nat
        /\ Len(received) \in Nat
    BY <1>1, LenProperties
  <1>3. read \in Nat /\ read <= Len(upstream)
    BY <1>2 DEF TypeOK
  <1> QED BY <1>1, <1>2, <1>3, PassThroughMatched

\* The two forms of PassThrough, for the next state too.
LEMMA TypeMatched == TypeOK => (PassThrough <=> Matched)
  BY TypeFacts

\* The observer's part of the invariant.
Watching == BufferIsRest /\ ObserverFaithful

\* The observer of the relay is one.
LEMMA ObserverTyped == TypeOK => observer \in Observers
  <1> SUFFICES ASSUME TypeOK PROVE observer \in Observers
    OBVIOUS
  <1>1. observer.buffer \in Seq(Symbols \ {"nl"}) /\ Symbols \ {"nl"} \subseteq Symbols
    BY DEF TypeOK
  <1>2. observer.buffer \in Seq(Symbols)
    BY <1>1, SeqMonotonic
  <1> QED BY <1>2 DEF TypeOK, Observers

\* What is to be shown of the next state.
LEMMA NextStateIndInv == TypeOK' /\ Matched' /\ InStep' /\ Watching' => IndInv'
  <1>1. (TypeOK => (PassThrough <=> Matched))'
    BY TypeMatched, PTL
  <1> QED BY <1>1 DEF IndInv, Watching

\* Nothing is new to the observer.
LEMMA WatchingStays ==
    ASSUME Watching, UNCHANGED <<text, resume, observer>>, task' = "over" <=> task = "over"
    PROVE  Watching'
  BY DEF Watching, BufferIsRest, ObserverFaithful

\* The connection delivers a chunk or an error.
LEMMA ArrivalPreserves ==
    ASSUME IndInv, (\E n \in 1..Len(body) : ProviderSends(n)) \/ ProviderErrs
    PROVE  IndInv'
  <1>1. TypeOK /\ Matched /\ InStep /\ Watching
    BY TypeFacts DEF IndInv, Watching
  <1>2. /\ body \in Seq(Symbols) /\ upstream \in Seq(Seq(Symbols) \cup {Err})
        /\ Len(body) \in Nat /\ Len(upstream) \in Nat /\ Len(channel) \in Nat
        /\ Len(received) \in Nat /\ read \in Nat /\ read <= Len(upstream)
    BY <1>1, TypeFacts
  <1>3. /\ ~ended
        /\ UNCHANGED <<ended, read, task, connected, channel, client, received, observer, handle, outcome, text, resume>>
    BY DEF ProviderSends, ProviderErrs, history
  <1>4. body' \in Seq(Symbols) /\ \E x \in Seq(Symbols) \cup {Err} : upstream' = Append(upstream, x)
    <2>1. ASSUME NEW n \in 1..Len(body), ProviderSends(n)
          PROVE  /\ SubSeq(body, 1, n) \in Seq(Symbols) /\ upstream' = Append(upstream, SubSeq(body, 1, n))
                 /\ body' \in Seq(Symbols)
      <3>1. \A i \in 1..Len(body) : body[i] \in Symbols
        BY <1>2, ElementOfSeq
      <3>2. SubSeq(body, 1, n) \in Seq(Symbols) /\ SubSeq(body, n + 1, Len(body)) \in Seq(Symbols)
        BY <1>2, <3>1, SubSeqProperties
      <3> QED BY <2>1, <3>2 DEF ProviderSends
    <2>2. CASE ProviderErrs
      BY <1>2, <2>2 DEF ProviderErrs
    <2> QED BY <2>1, <2>2
  <1>5. PICK x \in Seq(Symbols) \cup {Err} : upstream' = Append(upstream, x)
    BY <1>4
  <1>6. /\ upstream' \in Seq(Seq(Symbols) \cup {Err}) /\ Len(upstream') = Len(upstream) + 1
        /\ \A i \in 1..Len(upstream) : upstream'[i] = upstream[i]
    BY <1>2, <1>5, AppendProperties
  <1>7. TypeOK'
    <2>1. read \in 0..Len(upstream')
      BY <1>2, <1>6
    <2> QED BY <1>1, <1>3, <1>4, <1>6, <2>1 DEF TypeOK
  <1>8. Matched'
    <2>1. Len(received) + Len(channel) <= Len(upstream)
      BY <1>1, <1>2, <1>3 DEF Matched
    <2>2. \A i \in 1..Len(upstream) : Sent(i)' = Sent(i)
      BY <1>2, <1>6 DEF Sent
    <2>3. \A i \in 1..Len(received) : received'[i] = Sent(i)'
      BY <1>1, <1>2, <1>3, <2>1, <2>2 DEF Matched
    <2>4. ASSUME NEW i \in 1..Len(channel)
          PROVE  channel'[i] = Sent(Len(received) + i)'
      <3>1. Len(received) + i \in 1..Len(upstream)
        BY <1>2, <2>1
      <3>2. Sent(Len(received) + i)' = Sent(Len(received) + i)
        BY <1>3, <2>2, <3>1
      <3> QED BY <1>1, <1>3, <3>2 DEF Matched
    <2> QED BY <1>2, <1>3, <1>6, <2>1, <2>3, <2>4 DEF Matched
  <1>9. InStep'
    BY <1>1, <1>3 DEF InStep, Delivered
  <1>10. Watching'
    BY <1>1, <1>3, WatchingStays
  <1> QED BY <1>7, <1>8, <1>9, <1>10, NextStateIndInv

\* The provider is done, or the client takes an item or leaves.
LEMMA EndsPreserve ==
    ASSUME IndInv, ProviderEnds \/ ClientReads \/ ClientLeaves
    PROVE  IndInv'
  <1>1. TypeOK /\ Matched /\ InStep /\ Watching
    BY TypeFacts DEF IndInv, Watching
  <1>2. /\ channel \in Seq(Item) /\ received \in Seq(Item)
        /\ Len(upstream) \in Nat /\ Len(channel) \in Nat
        /\ Len(received) \in Nat /\ read \in Nat /\ read <= Len(upstream)
    BY <1>1, TypeFacts
  <1>3. CASE ProviderEnds
    <2>1. /\ ended' = TRUE
          /\ UNCHANGED <<body, upstream, read, task, connected, channel, client, received, observer, handle, outcome, text, resume>>
      BY <1>3 DEF ProviderEnds, history
    <2>2. TypeOK'
      BY <1>1, <2>1 DEF TypeOK
    <2>3. Matched'
      BY <1>1, <2>1 DEF Matched, Sent, ProviderEnds
    <2>4. InStep'
      BY <1>1, <2>1 DEF InStep, Delivered
    <2>5. Watching'
      BY <1>1, <2>1, WatchingStays
    <2> QED BY <2>2, <2>3, <2>4, <2>5, NextStateIndInv
  <1>4. CASE ClientReads
    <2>1. /\ client /\ channel # << >> /\ received' = Append(received, Head(channel))
          /\ channel' = Tail(channel)
          /\ UNCHANGED <<body, upstream, ended, read, task, connected, client, observer, handle, outcome, text, resume>>
      BY <1>4 DEF ClientReads, history
    <2>2. /\ Len(channel) # 0 /\ Head(channel) = channel[1] /\ Head(channel) \in Item
          /\ channel' \in Seq(Item) /\ Len(channel') = Len(channel) - 1
          /\ \A i \in 1..Len(channel') : channel'[i] = channel[i + 1]
      BY <1>2, <2>1, HeadTailProperties, EmptySeq
    <2>3. /\ received' \in Seq(Item) /\ Len(received') = Len(received) + 1
          /\ \A i \in 1..Len(received) : received'[i] = received[i]
          /\ received'[Len(received) + 1] = channel[1]
      BY <1>2, <2>1, <2>2, AppendProperties
    <2>4. TypeOK'
      <3>1. Len(channel') <= CHANNEL_CAPACITY
        BY <1>1, <1>2, <2>2, CapacityAssumption DEF TypeOK
      <3> QED BY <1>1, <2>1, <2>2, <2>3, <3>1 DEF TypeOK, Item
    <2>5. \A i : Sent(i)' = Sent(i)
      BY <2>1 DEF Sent
    <2>6. Matched'
      <3>1. ASSUME NEW i \in 1..Len(received')
            PROVE  received'[i] = Sent(i)
        <4>1. CASE i \in 1..Len(received)
          BY <1>1, <2>3, <4>1 DEF Matched
        <4>2. CASE i = Len(received) + 1
          <5>1. 1 \in 1..Len(channel)
            BY <1>2, <2>2
          <5> QED BY <1>1, <2>3, <4>2, <5>1 DEF Matched
        <4> QED BY <1>2, <2>3, <4>1, <4>2
      <3>2. ASSUME NEW i \in 1..Len(channel')
            PROVE  channel'[i] = Sent(Len(received') + i)
        <4>1. i + 1 \in 1..Len(channel) /\ Len(received) + (i + 1) = Len(received') + i
          BY <1>2, <2>2, <2>3
        <4> QED BY <1>1, <2>2, <4>1 DEF Matched
      <3>3. Len(received') + Len(channel') = Len(received) + Len(channel)
        BY <1>2, <2>2, <2>3
      <3> QED BY <1>1, <2>1, <2>5, <3>1, <3>2, <3>3 DEF Matched
    <2>7. InStep'
      BY <1>1, <1>2, <2>1, <2>2, <2>3 DEF InStep, Delivered
    <2>8. Watching'
      BY <1>1, <2>1, WatchingStays
    <2> QED BY <2>4, <2>6, <2>7, <2>8, NextStateIndInv
  <1>5. CASE ClientLeaves
    <2>1. /\ client' = FALSE /\ channel' = << >>
          /\ UNCHANGED <<body, upstream, ended, read, task, connected, received, observer, handle, outcome, text, resume>>
      BY <1>5 DEF ClientLeaves, history
    <2>2. channel' \in Seq(Item) /\ Len(channel') = 0
      BY <2>1, EmptySeq
    <2>3. TypeOK'
      <3>1. Len(channel') <= CHANNEL_CAPACITY
        BY <2>2, CapacityAssumption
      <3>2. {connected', client'} \subseteq BOOLEAN
        BY <1>1, <2>1 DEF TypeOK
      <3> QED BY <1>1, <2>1, <2>2, <3>1, <3>2 DEF TypeOK, Item
    <2>4. Matched'
      BY <1>1, <1>2, <2>1, <2>2 DEF Matched, Sent
    <2>5. InStep'
      BY <1>1, <2>1 DEF InStep
    <2>6. Watching'
      BY <1>1, <2>1, WatchingStays
    <2> QED BY <2>3, <2>4, <2>5, <2>6, NextStateIndInv
  <1> QED BY <1>3, <1>4, <1>5

\* The task takes the next item; the observer sees it if it is a chunk.
LEMMA TakeChunkPreserves ==
    ASSUME IndInv, TakeChunk
    PROVE  IndInv'
  <1>1. TypeOK /\ Matched /\ InStep /\ Watching
    BY TypeFacts DEF IndInv, Watching
  <1>2. /\ upstream \in Seq(Seq(Symbols) \cup {Err})
        /\ Len(upstream) \in Nat /\ Len(channel) \in Nat
        /\ Len(received) \in Nat /\ read \in Nat /\ read <= Len(upstream)
    BY <1>1, TypeFacts
  <1>3. /\ task = "next" /\ read < Len(upstream) /\ read' = read + 1
        /\ task' = IF connected THEN "forward" ELSE "next"
        /\ observer' = IF upstream[read + 1] = Err THEN observer
                       ELSE process_chunk(observer, upstream[read + 1])
        /\ text' = IF upstream[read + 1] = Err THEN text ELSE text \o upstream[read + 1]
        /\ resume' = Resume(text, resume, text')
        /\ UNCHANGED <<body, upstream, ended, connected, channel, client, received, handle, outcome>>
    BY DEF TakeChunk
  <1>4. /\ UpToDate(observer, text, resume)
         /\ observer.buffer \in Seq(Symbols \ {"nl"}) /\ Len(observer.buffer) <= BUFFER_CAP
    BY <1>1, <1>3, ObserverTyped DEF UpToDate, Watching, BufferIsRest, ObserverFaithful, TypeOK
  <1>5. /\ UpToDate(observer', text', resume')
         /\ observer'.buffer \in Seq(Symbols \ {"nl"}) /\ Len(observer'.buffer) <= BUFFER_CAP
    <2>1. CASE upstream[read + 1] = Err
      <3>1. observer' = observer /\ text' = text
        BY <1>3, <2>1
      <3>2. resume' = resume
        <4>1. PICK m : m = LineEnd(text, resume)
          OBVIOUS
        <4>2. m \in 0..Len(text) /\ Len(text) \in Nat
          BY <1>4, <4>1, EndFacts, LenProperties DEF UpToDate
        <4>3. Len(SubSeq(text, m + 1, Len(text))) = Len(text) - m
          BY <1>4, <4>2, RestFacts DEF UpToDate
        <4>4. Len(text) - m <= BUFFER_CAP
          BY <1>4, <4>1, <4>3 DEF UpToDate
        <4>5. ~(Len(text') - LineEnd(text, resume) > BUFFER_CAP)
          BY <3>1, <4>1, <4>2, <4>4, BufferCapAssumption
        <4> QED BY <1>3, <4>5 DEF Resume
      <3> QED BY <1>4, <3>1, <3>2
    <2>2. CASE upstream[read + 1] # Err
      <3>1. PICK c \in Seq(Symbols) : c = upstream[read + 1]
        <4>1. read + 1 \in 1..Len(upstream)
          BY <1>2, <1>3
        <4>2. upstream[read + 1] \in Seq(Symbols) \cup {Err}
          BY <1>2, <4>1, ElementOfSeq
        <4> QED BY <2>2, <4>2
      <3>2. /\ observer' = process_chunk(observer, c) /\ text' = text \o c
            /\ resume' = Resume(text, resume, text \o c)
        BY <1>3, <2>2, <3>1
      <3>3. UpToDate(process_chunk(observer, c), text \o c, Resume(text, resume, text \o c))
        BY <1>4, <3>1, ChunkKnown
      <3>4. observer.buffer \in Seq(Symbols)
        BY <1>4 DEF UpToDate, Observers
      <3>5. /\ process_chunk(observer, c).buffer \in Seq(Symbols \ {"nl"})
            /\ Len(process_chunk(observer, c).buffer) <= BUFFER_CAP
        BY <3>1, <3>4, ProcessChunkFacts
      <3> QED BY <3>2, <3>3, <3>5
    <2> QED BY <2>1, <2>2
  <1>6. /\ observer' \in [buffer : Seq(Symbols \ {"nl"}), usage : {NoUsage, "1", "2"},
                          finish_reason : BOOLEAN, done_received : BOOLEAN]
        /\ Len(observer'.buffer) <= BUFFER_CAP
        /\ text' \in Seq(Symbols) /\ resume' \in 0..Len(text')
    BY <1>5 DEF UpToDate, Observers
  <1>7. TypeOK'
    <2>1. read' \in 0..Len(upstream)
      BY <1>2, <1>3
    <2>2. task' \in {"next", "forward", "trailing", "settle", "over"}
      BY <1>3
    <2> QED BY <1>1, <1>3, <1>6, <2>1, <2>2 DEF TypeOK
  <1>8. Matched'
    <2>1. Len(received) + Len(channel) <= Len(upstream)
      BY <1>1, <1>2, <1>3 DEF Matched
    <2>2. \A i : Sent(i)' = Sent(i)
      BY <1>3 DEF Sent
    <2> QED BY <1>1, <1>2, <1>3, <2>1, <2>2 DEF Matched
  <1>9. InStep'
    <2>1. client => connected /\ Len(received) + Len(channel) = read
      BY <1>1, <1>3 DEF InStep, Delivered
    <2>2. client => task' = "forward" /\ Delivered' = read
      BY <1>2, <1>3, <2>1 DEF Delivered
    <2>3. ~client => channel = << >>
      BY <1>1 DEF InStep
    <2>4. task' \in {"next", "forward"} /\ read' > 0
      BY <1>2, <1>3
    <2> QED BY <1>3, <2>1, <2>2, <2>3, <2>4 DEF InStep
  <1>10. Watching'
    <2>1. task' # "over"
      BY <1>3
    <2> QED BY <1>5, <2>1 DEF UpToDate, Watching, BufferIsRest, ObserverFaithful
  <1> QED BY <1>7, <1>8, <1>9, <1>10, NextStateIndInv

\* An item goes into the channel, behind all others.
LEMMA ItemSent ==
    ASSUME TypeOK, Matched, NEW x \in Item, channel' = Append(channel, x),
           Len(channel) < CHANNEL_CAPACITY,
           UNCHANGED <<upstream, ended, read, received>>,
           Len(received) + Len(channel) <= Len(upstream),
           x = Sent(Len(received) + Len(channel) + 1),
           Len(received) + Len(channel) = Len(upstream) => ended /\ read = Len(upstream)
    PROVE  /\ channel' \in Seq(Item) /\ Len(channel') <= CHANNEL_CAPACITY
           /\ Len(channel') = Len(channel) + 1 /\ Matched'
  <1>1. /\ channel \in Seq(Item) /\ Len(upstream) \in Nat /\ Len(channel) \in Nat
        /\ Len(received) \in Nat
    BY TypeFacts
  <1>2. /\ channel' \in Seq(Item) /\ Len(channel') = Len(channel) + 1
        /\ \A i \in 1..Len(channel) : channel'[i] = channel[i]
        /\ channel'[Len(channel) + 1] = x
    BY <1>1, AppendProperties
  <1>3. Len(channel') <= CHANNEL_CAPACITY
    BY <1>1, <1>2, CapacityAssumption
  <1>4. \A i : Sent(i)' = Sent(i)
    BY DEF Sent
  <1>5. ASSUME NEW i \in 1..Len(channel')
        PROVE  channel'[i] = Sent(Len(received) + i)
    <2>1. CASE i \in 1..Len(channel)
      BY <1>2, <2>1 DEF Matched
    <2>2. CASE i = Len(channel) + 1
      <3>1. Len(received) + i = Len(received) + Len(channel) + 1
        BY <1>1, <2>2
      <3> QED BY <1>2, <2>2, <3>1
    <2> QED BY <1>1, <1>2, <2>1, <2>2
  <1>6. Len(received) + Len(channel') <= Len(upstream) + 1
    BY <1>1, <1>2
  <1>7. Len(received) + Len(channel') > Len(upstream) => ended /\ read = Len(upstream)
    BY <1>1, <1>2
  <1> QED BY <1>2, <1>3, <1>4, <1>5, <1>6, <1>7 DEF Matched

\* tx.send of a chunk or an error.
LEMMA ForwardPreserves ==
    ASSUME IndInv, Forward
    PROVE  IndInv'
  <1>1. TypeOK /\ Matched /\ InStep /\ Watching
    BY TypeFacts DEF IndInv, Watching
  <1>2. /\ upstream \in Seq(Seq(Symbols) \cup {Err})
        /\ Len(upstream) \in Nat /\ Len(channel) \in Nat
        /\ Len(received) \in Nat /\ read \in Nat /\ read <= Len(upstream)
    BY <1>1, TypeFacts
  <1>3. /\ task = "forward" /\ task' = "next"
        /\ UNCHANGED <<body, upstream, ended, read, client, received, observer, handle, outcome, text, resume>>
    BY DEF Forward, history
  <1>4. Watching'
    BY <1>1, <1>3, WatchingStays
  <1>5. CASE client
    <2>1. /\ Len(channel) < CHANNEL_CAPACITY /\ channel' = Append(channel, upstream[read])
          /\ connected' = connected /\ connected
      BY <1>1, <1>5 DEF Forward, InStep
    <2>2. Len(received) + Len(channel) = read - 1 /\ read > 0
      BY <1>1, <1>3, <1>5 DEF InStep, Delivered
    <2>3. upstream[read] \in Item /\ upstream[read] = Sent(Len(received) + Len(channel) + 1)
      <3>1. read \in 1..Len(upstream)
        BY <1>2, <2>2
      <3>2. upstream[read] \in Seq(Symbols) \cup {Err}
        BY <1>2, <3>1, ElementOfSeq
      <3>3. Len(received) + Len(channel) + 1 = read
        BY <1>2, <2>2
      <3> QED BY <1>2, <3>2, <3>3 DEF Item, Sent
    <2>4. /\ Len(received) + Len(channel) <= Len(upstream)
          /\ Len(received) + Len(channel) # Len(upstream)
      BY <1>2, <2>2
    <2>5. /\ channel' \in Seq(Item) /\ Len(channel') <= CHANNEL_CAPACITY
          /\ Len(channel') = Len(channel) + 1 /\ Matched'
      BY <1>1, <1>3, <2>1, <2>3, <2>4, ItemSent
    <2>6. TypeOK'
      BY <1>1, <1>3, <2>1, <2>5 DEF TypeOK, Item
    <2>7. InStep'
      BY <1>2, <1>3, <1>5, <2>1, <2>2, <2>5 DEF InStep, Delivered
    <2> QED BY <2>5, <2>6, <2>7, <1>4, NextStateIndInv
  <1>6. CASE ~client
    <2>1. connected' = FALSE /\ channel' = channel
      BY <1>6 DEF Forward
    <2>2. TypeOK'
      <3>1. {connected', client'} \subseteq BOOLEAN
        BY <1>1, <1>3, <2>1 DEF TypeOK
      <3> QED BY <1>1, <1>3, <2>1, <3>1 DEF TypeOK
    <2>3. Matched'
      BY <1>1, <1>3, <2>1 DEF Matched, Sent
    <2>4. InStep'
      BY <1>1, <1>3, <1>6, <2>1 DEF InStep
    <2> QED BY <2>2, <2>3, <2>4, <1>4, NextStateIndInv
  <1> QED BY <1>5, <1>6

\* After the loop: the result is read and, at last, the update and the bill.
LEMMA AfterLoopPreserves ==
    ASSUME IndInv, ReadResult \/ UpdateAndBill
    PROVE  IndInv'
  <1>1. TypeOK /\ Matched /\ InStep /\ Watching
    BY TypeFacts DEF IndInv, Watching
  <1>2. UNCHANGED <<body, upstream, ended, read, connected, channel, client, received, text, resume>>
    BY DEF ReadResult, UpdateAndBill, history
  <1>3. Matched'
    BY <1>1, <1>2 DEF Matched, Sent
  <1>4. CASE ReadResult
    <2>1. /\ task = "next" /\ ended /\ read = Len(upstream) /\ task' = "trailing"
          /\ observer' = observer
          /\ outcome' = [outcome EXCEPT !.success = \E r \in handle : r.done_received,
                                        !.cost = \E r \in handle : r.usage # NoUsage]
      BY <1>4 DEF ReadResult
    <2>2. outcome' \in [success : BOOLEAN, cost : BOOLEAN, updated : BOOLEAN,
                        billed : {"none", "settle", "release"}]
      <3>1. /\ (\E r \in handle : r.done_received) \in BOOLEAN
            /\ (\E r \in handle : r.usage # NoUsage) \in BOOLEAN
        OBVIOUS
      <3> QED BY <1>1, <2>1, <3>1 DEF TypeOK
    <2>3. TypeOK'
      BY <1>1, <1>2, <2>1, <2>2 DEF TypeOK
    <2>4. InStep'
      BY <1>1, <1>2, <2>1 DEF InStep, Delivered
    <2>5. Watching'
      BY <1>1, <1>2, <2>1, WatchingStays
    <2> QED BY <1>3, <2>3, <2>4, <2>5, NextStateIndInv
  <1>5. CASE UpdateAndBill
    <2>1. /\ task = "settle" /\ task' = "over" /\ observer' = flush_buffer(observer)
          /\ outcome' = [outcome EXCEPT !.updated = TRUE, !.billed = Billing(outcome)]
      BY <1>5 DEF UpdateAndBill
    <2>2. outcome' \in [success : BOOLEAN, cost : BOOLEAN, updated : BOOLEAN,
                        billed : {"none", "settle", "release"}]
      BY <1>1, <2>1 DEF TypeOK, Billing
    <2>3. /\ observer' \in Observers /\ observer'.buffer = << >>
          /\ Knows(observer', Append(text, "nl"), resume)
      <3>1. UpToDate(observer, text, resume)
        BY <1>1, <2>1, ObserverTyped DEF UpToDate, Watching, BufferIsRest, ObserverFaithful, TypeOK
      <3>2. observer.buffer \in Seq(Symbols \ {"nl"})
        BY <1>1 DEF TypeOK
      <3> QED BY <2>1, <3>1, <3>2, FlushKnown
    <2>4. /\ observer' \in [buffer : Seq(Symbols \ {"nl"}), usage : {NoUsage, "1", "2"},
                            finish_reason : BOOLEAN, done_received : BOOLEAN]
          /\ Len(observer'.buffer) <= BUFFER_CAP
      <3>1. observer'.buffer \in Seq(Symbols \ {"nl"}) /\ Len(observer'.buffer) = 0
        BY <2>3, EmptySeq
      <3>2. Len(observer'.buffer) <= BUFFER_CAP
        BY <3>1, BufferCapAssumption
      <3> QED BY <2>3, <3>1, <3>2 DEF Observers
    <2>5. TypeOK'
      BY <1>1, <1>2, <2>1, <2>2, <2>4 DEF TypeOK
    <2>6. InStep'
      BY <1>1, <1>2, <2>1 DEF InStep, Delivered
    <2>7. Watching'
      BY <1>2, <2>1, <2>3 DEF Watching, BufferIsRest, ObserverFaithful
    <2> QED BY <1>3, <2>5, <2>6, <2>7, NextStateIndInv
  <1> QED BY <1>4, <1>5

\* The trailing event.
LEMMA TrailingPreserves ==
    ASSUME IndInv, SendTrailing
    PROVE  IndInv'
  <1>1. TypeOK /\ Matched /\ InStep /\ Watching
    BY TypeFacts DEF IndInv, Watching
  <1>2. /\ Len(upstream) \in Nat /\ Len(channel) \in Nat
        /\ Len(received) \in Nat /\ read \in Nat
    BY <1>1, TypeFacts
  <1>3. /\ task = "trailing" /\ task' = "settle" /\ ended /\ read = Len(upstream)
        /\ UNCHANGED <<body, upstream, ended, read, connected, client, received, observer, handle, outcome, text, resume>>
    BY <1>1 DEF SendTrailing, InStep, history
  <1>4. Watching'
    BY <1>1, <1>3, WatchingStays
  <1>5. CASE client
    <2>1. /\ connected /\ Len(channel) < CHANNEL_CAPACITY /\ channel' = Append(channel, Trailing)
      BY <1>1, <1>5 DEF SendTrailing, InStep
    <2>2. Len(received) + Len(channel) = Len(upstream)
      BY <1>1, <1>3, <1>5 DEF InStep, Delivered
    <2>3. Trailing \in Item /\ Trailing = Sent(Len(received) + Len(channel) + 1)
      <3>1. ~(Len(received) + Len(channel) + 1 <= Len(upstream))
        BY <1>2, <2>2
      <3> QED BY <3>1 DEF Item, Sent
    <2>4. /\ channel' \in Seq(Item) /\ Len(channel') <= CHANNEL_CAPACITY
          /\ Len(channel') = Len(channel) + 1 /\ Matched'
      BY <1>1, <1>2, <1>3, <2>1, <2>2, <2>3, ItemSent
    <2>5. TypeOK'
      BY <1>1, <1>3, <2>4 DEF TypeOK, Item
    <2>6. InStep'
      BY <1>2, <1>3, <1>5, <2>1, <2>2, <2>4 DEF InStep, Delivered
    <2> QED BY <2>4, <2>5, <2>6, <1>4, NextStateIndInv
  <1>6. CASE ~client
    <2>1. channel' = channel
      BY <1>6 DEF SendTrailing
    <2>2. TypeOK'
      BY <1>1, <1>3, <2>1 DEF TypeOK
    <2>3. Matched'
      BY <1>1, <1>3, <2>1 DEF Matched, Sent
    <2>4. InStep'
      BY <1>1, <1>3, <1>6, <2>1 DEF InStep
    <2> QED BY <2>2, <2>3, <2>4, <1>4, NextStateIndInv
  <1> QED BY <1>5, <1>6

\* Nothing has been sent yet.
LEMMA InitIndInv == Init => IndInv
  <1> SUFFICES ASSUME Init PROVE IndInv
    OBVIOUS
  <1>1. /\ upstream = << >> /\ channel = << >> /\ received = << >> /\ observer.buffer = << >>
        /\ body \in Seq(Symbols)
    BY TranscriptsAssumption DEF Init, NewObserver
  <1>2. /\ upstream \in Seq(Seq(Symbols) \cup {Err}) /\ channel \in Seq(Item) /\ received \in Seq(Item)
        /\ observer.buffer \in Seq(Symbols \ {"nl"})
        /\ Len(upstream) = 0 /\ Len(channel) = 0 /\ Len(received) = 0 /\ Len(observer.buffer) = 0
    BY <1>1, EmptySeq
  <1>3. text = << >> /\ resume = 0 /\ task # "over" /\ observer = NewObserver
    BY DEF Init
  <1>4. TypeOK
    <2>0. /\ observer \in [buffer : Seq(Symbols \ {"nl"}), usage : {NoUsage, "1", "2"},
                           finish_reason : BOOLEAN, done_received : BOOLEAN]
          /\ text \in Seq(Symbols) /\ resume \in 0..Len(text)
      <3>1. text \in Seq(Symbols) /\ resume \in 0..Len(text)
        BY <1>3, EmptySeq
      <3>2. << >> \in Seq(Symbols \ {"nl"})
        BY EmptySeq
      <3> QED BY <1>3, <3>1, <3>2 DEF NewObserver
    <2>1. Len(channel) <= CHANNEL_CAPACITY /\ Len(observer.buffer) <= BUFFER_CAP
      BY <1>2, CapacityAssumption, BufferCapAssumption
    <2>2. outcome \in [success : BOOLEAN, cost : BOOLEAN, updated : BOOLEAN,
                       billed : {"none", "settle", "release"}]
      BY DEF Init, NoOutcome
    <2>3. read \in 0..Len(upstream) /\ task \in {"next", "forward", "trailing", "settle", "over"}
      BY <1>2 DEF Init
    <2>4. ended \in BOOLEAN /\ {connected, client} \subseteq BOOLEAN
      BY Zenon DEF Init
    <2> QED BY <1>1, <1>2, <2>0, <2>1, <2>2, <2>3, <2>4 DEF TypeOK, Item
  <1>5. Matched
    BY <1>2 DEF Matched
  <1>6. InStep
    BY <1>2 DEF Init, InStep, Delivered
  <1>7. Watching
    <2>1. text \in Seq(Symbols) /\ Len(text) = 0 /\ Newlines(text) = {}
      BY <1>3, EmptySeq DEF Newlines
    <2>2. BufferIsRest
      <3>1. LineEnd(text, resume) = 0
        <4>1. resume \in 0..Len(text) /\ 0 \in 0..Len(text) /\ resume = 0
          BY <1>3, <2>1
        <4>2. PICK t \in Seq(Symbols), r \in {resume} : t = text /\ r = resume
          BY <2>1
        <4>3. r \in 0..Len(t) /\ 0 \in 0..Len(t) /\ r <= 0 /\ 0 = r /\ \A n \in Newlines(t) : n <= 0
          BY <2>1, <4>1, <4>2
        <4>4. LineEnd(t, r) = 0
          BY <4>3, EndUnique
        <4> QED BY <4>2, <4>4
      <3>2. SubSeq(text, 0 + 1, Len(text)) = << >>
        BY <2>1, SubSeqEmpty
      <3> QED BY <1>3, <3>1, <3>2 DEF BufferIsRest, NewObserver
    <2>3. ObserverFaithful
      BY <1>3, <2>1 DEF ObserverFaithful, Knows, NewObserver
    <2> QED BY <2>2, <2>3 DEF Watching
  <1> QED BY <1>4, <1>5, <1>6, <1>7, TypeMatched DEF IndInv, Watching

\* Every action keeps the invariant.
LEMMA NextIndInv == IndInv /\ [Next]_vars => IndInv'
  <1> SUFFICES ASSUME IndInv, [Next]_vars PROVE IndInv'
    OBVIOUS
  <1>1. CASE UNCHANGED vars
    <2>1. TypeOK /\ Matched /\ InStep /\ Watching
      BY TypeFacts DEF IndInv, Watching
    <2>2. TypeOK'
      BY <1>1, <2>1 DEF vars, TypeOK
    <2>3. Matched' /\ InStep'
      BY <1>1, <2>1 DEF vars, Matched, Sent, InStep, Delivered
    <2>4. Watching'
      BY <1>1, <2>1, WatchingStays DEF vars
    <2> QED BY <2>2, <2>3, <2>4, NextStateIndInv
  <1> QED BY <1>1, ArrivalPreserves, EndsPreserve, TakeChunkPreserves, ForwardPreserves,
             AfterLoopPreserves, TrailingPreserves DEF Next, Task

\* The relay keeps in step with the provider.
THEOREM Invariance == Spec => []IndInv
  BY InitIndInv, NextIndInv, PTL DEF Spec

\* Channel and buffer keep within their bounds, and the observer never sits on
\* a complete line.
THEOREM TypeCorrect == Spec => []TypeOK
  <1>1. IndInv => TypeOK
    BY DEF IndInv
  <1> QED BY <1>1, Invariance, PTL

\* The client sees what the provider sent, in order and without gaps, and the
\* trailing event after all of it.
THEOREM RelayIsFaithful == Spec => []PassThrough
  <1>1. IndInv => PassThrough
    BY DEF IndInv
  <1> QED BY <1>1, Invariance, PTL

\* However the stream is cut into chunks, the observer finds what its lines
\* say, whatever the lines are and wherever a chunk was too large.
THEOREM ObserverCorrect == Spec => []ObserverFaithful
  <1>1. IndInv => ObserverFaithful
    BY DEF IndInv
  <1> QED BY <1>1, Invariance, PTL
=============================================================================
