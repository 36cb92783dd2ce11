-------------------------- MODULE LogQueries_proofs --------------------------
(***************************************************************************)
(* Proofs about RequestLog and LogQueries, for every set of requests and   *)
(* streams and every capacity of the channel: the log says what happened,  *)
(* and readers who come while it is written miss nothing in it.            *)
(***************************************************************************)
EXTENDS LogQueries, Ordering_proofs
-----------------------------------------------------------------------------
(* The writes *)

\* The two writes of a request are commands, and different ones.
LEMMA CommandFacts ==
    ASSUME NEW r \in Requests
    PROVE  /\ Insert(r) \in Commands /\ Update(r) \in Commands
           /\ \A u \in Requests : Insert(r) # Update(u)
           /\ \A u \in Requests : Insert(r) = Insert(u) => r = u
           /\ \A u \in Requests : Update(r) = Update(u) => r = u
  BY DEF Commands, Insert, Update

\* A command is one of the two writes of its request.
LEMMA CommandForms ==
    ASSUME NEW c \in Commands
    PROVE  /\ c.req \in Requests
           /\ c.kind = "Insert" => c = Insert(c.req)
           /\ c.kind = "UpdateStreamCompletion" => c = Update(c.req)
           /\ c.kind \in {"Insert", "UpdateStreamCompletion"}
  BY DEF Commands, Insert, Update

\* A command sent into the channel comes last; nothing else moves.
LEMMA SentComesLast ==
    ASSUME TypeOK, NEW c \in Commands, queue' = Append(queue, c), current' = current,
           NEW d, NEW k \in Nat
    PROVE  Holds(d, k)' <=> IF k = Len(queue) + 1 THEN d = c ELSE Holds(d, k)
  <1>1. /\ queue \in Seq(Commands) /\ Len(queue) \in Nat
        /\ Len(queue') = Len(queue) + 1
        /\ queue'[Len(queue) + 1] = c
        /\ \A i \in 1..Len(queue) : queue'[i] = queue[i]
    BY AppendProperties, LenProperties DEF TypeOK
  <1>2. CASE k = 0
    BY <1>1, <1>2 DEF Holds
  <1>3. CASE k \in 1..Len(queue)
    BY <1>1, <1>3 DEF Holds
  <1>4. CASE k = Len(queue) + 1
    BY <1>1, <1>4 DEF Holds
  <1>5. CASE k > Len(queue) + 1
    BY <1>1, <1>5 DEF Holds
  <1> QED BY <1>1, <1>2, <1>3, <1>4, <1>5

\* The writer takes the first command and all others move up.
LEMMA ReceivedMovesUp ==
    ASSUME TypeOK, WriterReceives
    PROVE  /\ Len(queue) \in Nat /\ Len(queue') = Len(queue) - 1 /\ Len(queue') \in Nat
           /\ \A d : ~Holds(d, 0)
           /\ \A d : \A k \in 0..Len(queue') : Holds(d, k)' <=> Holds(d, k + 1)
  <1>1. /\ queue \in Seq(Commands) /\ queue # << >> /\ Len(queue) \in Nat
        /\ queue' = Tail(queue) /\ current' = {Head(queue)} /\ current = {}
    BY LenProperties DEF TypeOK, WriterReceives
  <1>2. /\ Len(queue') = Len(queue) - 1 /\ Len(queue) # 0 /\ Head(queue) = queue[1]
        /\ \A i \in 1..Len(Tail(queue)) : Tail(queue)[i] = queue[i + 1]
    BY <1>1, EmptySeq, HeadTailProperties
  <1>3. Len(queue') \in Nat
    BY <1>1, <1>2
  <1>4. ASSUME NEW d, NEW k \in 0..Len(queue')
        PROVE  Holds(d, k)' <=> Holds(d, k + 1)
    <2>1. CASE k = 0
      BY <1>1, <1>2, <2>1 DEF Holds
    <2>2. CASE k # 0
      BY <1>1, <1>2, <1>3, <1>4, <2>2 DEF Holds
    <2> QED BY <2>1, <2>2
  <1>5. \A d : ~Holds(d, 0)
    BY <1>1 DEF Holds
  <1> QED BY <1>1, <1>2, <1>3, <1>4, <1>5

\* The writer is done with its command; the channel does not move.
LEMMA ExecutedIsGone ==
    ASSUME TypeOK, current' = {}, queue' = queue
    PROVE  \A d : \A k \in 0..Len(queue) : Holds(d, k)' <=> k # 0 /\ Holds(d, k)
  BY DEF Holds

\* What sending a new command does to the pipeline.
LEMMA SendEffect ==
    ASSUME TypeOK, OnePlace, NEW c \in Commands, ~Pending(c), TrySend(c), current' = current
    PROVE  /\ queue' \in Seq(Commands) /\ Len(queue') <= DEFAULT_CAPACITY /\ OnePlace'
           /\ lost' = lost \/ lost' = lost \cup {c}
           /\ \A d : d # c => (Pending(d)' <=> Pending(d))
           /\ \A d, e : d # c /\ e # c /\ Ahead(d, e) => Ahead(d, e)'
           /\ \A d : d # c => Ahead(d, c)'
           /\ c \notin lost => (c \in lost' <=> ~Pending(c)')
  <1>0. Len(queue) \in Nat
    BY LenProperties DEF TypeOK
  <1>1. CASE queue' = Append(queue, c) /\ UNCHANGED lost /\ Len(queue) < DEFAULT_CAPACITY
    <2>1. /\ queue' \in Seq(Commands) /\ Len(queue') = Len(queue) + 1
      BY <1>1, AppendProperties DEF TypeOK
    <2>2. \A d : \A k \in Nat : Holds(d, k)' <=> IF k = Len(queue) + 1 THEN d = c ELSE Holds(d, k)
      BY <1>1, SentComesLast
    <2>3. Len(queue') <= DEFAULT_CAPACITY
      BY <1>0, <1>1, <2>1, CapacityAssumption
    <2>4. Pending(c)'
      BY <1>0, <2>1, <2>2 DEF Pending
    <2>5. \A k \in 0..Len(queue) : ~Holds(c, k)
      BY DEF Pending
    <2>6. ASSUME NEW d, d # c
          PROVE  Pending(d)' <=> Pending(d)
      <3>1. \A k \in 0..Len(queue') : Holds(d, k)' => k \in 0..Len(queue) /\ Holds(d, k)
        BY <1>0, <2>1, <2>2, <2>6
      <3>2. \A k \in 0..Len(queue) : Holds(d, k) => k \in 0..Len(queue') /\ Holds(d, k)'
        BY <1>0, <2>1, <2>2, <2>6
      <3> QED BY <3>1, <3>2 DEF Pending
    <2>7. OnePlace'
      <3>1. ASSUME NEW d \in Commands, NEW j \in 0..Len(queue'), NEW k \in 0..Len(queue'),
                   Holds(d, j)', Holds(d, k)'
            PROVE  j = k
        <4>1. CASE d = c
          BY <1>0, <2>1, <2>2, <2>5, <3>1, <4>1
        <4>2. CASE d # c
          BY <1>0, <2>1, <2>2, <3>1, <4>2 DEF OnePlace
        <4> QED BY <4>1, <4>2
      <3> QED BY <3>1 DEF OnePlace
    <2>8. ASSUME NEW d, NEW e, d # c, e # c, Ahead(d, e)
          PROVE  Ahead(d, e)'
      BY <1>0, <2>1, <2>2, <2>8 DEF Ahead
    <2>9. ASSUME NEW d, d # c
          PROVE  Ahead(d, c)'
      BY <1>0, <2>1, <2>2, <2>5, <2>9 DEF Ahead
    <2> QED BY <1>1, <2>1, <2>3, <2>4, <2>6, <2>7, <2>8, <2>9
  <1>2. CASE lost' = lost \cup {c} /\ UNCHANGED queue
    <2>1. \A d, k : Holds(d, k)' <=> Holds(d, k)
      BY <1>2 DEF Holds
    <2>2. OnePlace'
      BY <1>2, <2>1 DEF OnePlace
    <2>3. \A d : Pending(d)' <=> Pending(d)
      BY <1>2, <2>1 DEF Pending
    <2>4. \A d, e : Ahead(d, e)' <=> Ahead(d, e)
      BY <1>2, <2>1 DEF Ahead
    <2>5. \A d : Ahead(d, c)
      BY DEF Ahead, Pending
    <2> QED BY <1>2, <2>2, <2>3, <2>4, <2>5 DEF TypeOK
  <1> QED BY <1>1, <1>2 DEF TrySend

\* The writer's receive changes nothing that is pending, nor its order.
LEMMA ReceiveEffect ==
    ASSUME TypeOK, OnePlace, WriterReceives
    PROVE  /\ queue' \in Seq(Commands) /\ Len(queue') <= DEFAULT_CAPACITY
           /\ current' \subseteq Commands /\ OnePlace'
           /\ \A d : Pending(d)' <=> Pending(d)
           /\ \A d, e : Ahead(d, e) => Ahead(d, e)'
  <1>1. /\ Len(queue) \in Nat /\ Len(queue') = Len(queue) - 1 /\ Len(queue') \in Nat
        /\ \A d : ~Holds(d, 0)
        /\ \A d : \A k \in 0..Len(queue') : Holds(d, k)' <=> Holds(d, k + 1)
    BY ReceivedMovesUp
  <1>2. /\ queue' \in Seq(Commands) /\ current' \subseteq Commands
        /\ \A c, d \in current' : c = d
    BY HeadTailProperties DEF TypeOK, WriterReceives
  <1>3. Len(queue') <= DEFAULT_CAPACITY
    BY <1>1, CapacityAssumption DEF TypeOK
  <1>4. OnePlace'
    <2>1. ASSUME NEW d \in Commands, NEW j \in 0..Len(queue'), NEW k \in 0..Len(queue'),
                 Holds(d, j)', Holds(d, k)'
          PROVE  j = k
      <3>1. j + 1 \in 0..Len(queue) /\ k + 1 \in 0..Len(queue)
        BY <1>1
      <3>2. Holds(d, j + 1) /\ Holds(d, k + 1)
        BY <1>1, <2>1
      <3>3. j + 1 = k + 1
        BY <3>1, <3>2 DEF OnePlace
      <3> QED BY <3>3
    <2> QED BY <1>2, <2>1 DEF OnePlace
  <1>5. ASSUME NEW d
        PROVE  Pending(d)' <=> Pending(d)
    <2>1. ASSUME Pending(d)'
          PROVE  Pending(d)
      <3>1. PICK k \in 0..Len(queue') : Holds(d, k)'
        BY <2>1 DEF Pending
      <3>2. k + 1 \in 0..Len(queue) /\ Holds(d, k + 1)
        BY <1>1, <3>1
      <3> QED BY <3>2 DEF Pending
    <2>2. ASSUME Pending(d)
          PROVE  Pending(d)'
      <3>1. PICK k \in 0..Len(queue) : Holds(d, k)
        BY <2>2 DEF Pending
      <3>2. k # 0
        BY <1>1, <3>1
      <3>3. k - 1 \in 0..Len(queue') /\ (k - 1) + 1 = k
        BY <1>1, <3>2
      <3>4. Holds(d, k - 1)'
        BY <1>1, <3>1, <3>3
      <3> QED BY <3>3, <3>4 DEF Pending
    <2> QED BY <2>1, <2>2
  <1>6. ASSUME NEW d, NEW e, Ahead(d, e)
        PROVE  Ahead(d, e)'
    <2>1. ASSUME NEW j \in 0..Len(queue'), NEW k \in 0..Len(queue'), Holds(d, j)', Holds(e, k)'
          PROVE  j < k
      <3>1. j + 1 \in 0..Len(queue) /\ k + 1 \in 0..Len(queue)
        BY <1>1
      <3>2. Holds(d, j + 1) /\ Holds(e, k + 1)
        BY <1>1, <2>1
      <3>3. j + 1 < k + 1
        BY <1>6, <3>1, <3>2 DEF Ahead
      <3> QED BY <3>3
    <2> QED BY <2>1 DEF Ahead
  <1> QED BY <1>2, <1>3, <1>4, <1>5, <1>6

\* A command that has been executed is out; nothing pending was ahead of it.
LEMMA ExecuteEffect ==
    ASSUME TypeOK, OnePlace, NEW c \in current, current' = {}, queue' = queue
    PROVE  /\ OnePlace' /\ Pending(c) /\ ~Pending(c)'
           /\ \A d : d # c => (Pending(d)' <=> Pending(d))
           /\ \A d, e : Ahead(d, e) => Ahead(d, e)'
           /\ \A d : Pending(d) => ~Ahead(d, c)
  <1>0. Len(queue) \in Nat /\ 0 \in 0..Len(queue)
    BY LenProperties DEF TypeOK
  <1>1. \A d : \A k \in 0..Len(queue) : Holds(d, k)' <=> k # 0 /\ Holds(d, k)
    BY ExecutedIsGone
  <1>2. Holds(c, 0) /\ \A d : Holds(d, 0) => d = c
    BY DEF Holds, OnePlace
  <1>3. c \in Commands
    BY DEF TypeOK
  <1>4. OnePlace'
    BY <1>1 DEF OnePlace
  <1>5. Pending(c) /\ ~Pending(c)'
    BY <1>0, <1>1, <1>2, <1>3 DEF Pending, OnePlace
  <1>6. \A d : d # c => (Pending(d)' <=> Pending(d))
    BY <1>1, <1>2 DEF Pending
  <1>7. \A d, e : Ahead(d, e) => Ahead(d, e)'
    BY <1>1 DEF Ahead
  <1>8. ASSUME NEW d, Pending(d), Ahead(d, c)
        PROVE  FALSE
    <2>1. PICK j \in 0..Len(queue) : Holds(d, j)
      BY <1>8 DEF Pending
    <2>2. j < 0
      BY <1>0, <1>2, <1>8, <2>1 DEF Ahead
    <2> QED BY <1>0, <2>2
  <1> QED BY <1>4, <1>5, <1>6, <1>7, <1>8

\* The handler logs its request.
LEMMA LogWritePreserves ==
    ASSUME IndInv, NEW r \in Requests, LogWrite(r)
    PROVE  IndInv'
  <1> DEFINE c == Insert(r)
  <1>1. TypeOK /\ OnePlace /\ SentOnce /\ InOrder /\ RowFollows
    BY DEF IndInv
  <1>2. /\ handler[r] = "serving" /\ handler' = [handler EXCEPT ![r] = "logged"]
        /\ stamp' = [stamp EXCEPT ![r] = clock \div 2] /\ TrySend(c)
        /\ UNCHANGED <<stream, current, row, table, clock, overtaken>>
    BY DEF LogWrite
  <1>3. ~Pending(c) /\ c \notin lost
    BY <1>1, <1>2 DEF SentOnce
  <1>4. c \in Commands /\ \A u \in Requests : c # Update(u) /\ (u # r => c # Insert(u))
    BY CommandFacts
  <1>5. /\ queue' \in Seq(Commands) /\ Len(queue') <= DEFAULT_CAPACITY /\ OnePlace'
        /\ lost' = lost \/ lost' = lost \cup {c}
        /\ \A d : d # c => (Pending(d)' <=> Pending(d))
        /\ \A d, e : d # c /\ e # c /\ Ahead(d, e) => Ahead(d, e)'
        /\ \A d : d # c => Ahead(d, c)'
        /\ c \in lost' <=> ~Pending(c)'
    BY <1>1, <1>2, <1>3, <1>4, SendEffect
  <1>6. /\ handler \in [Requests -> {"serving", "logged"}] /\ handler'[r] = "logged"
        /\ \A u \in Requests : u # r => handler'[u] = handler[u]
    BY <1>1, <1>2 DEF TypeOK
  <1>7. TypeOK'
    <2>1. clock \div 2 \in 0..clock
      BY <1>1 DEF TypeOK
    <2> QED BY <1>1, <1>2, <1>4, <1>5, <2>1 DEF TypeOK
  <1> HIDE DEF c
  <1>8. SentOnce'
    BY <1>1, <1>2, <1>3, <1>4, <1>5, <1>6 DEF SentOnce, c
  <1>9. InOrder'
    <2>1. ASSUME NEW u \in Requests, u # r
          PROVE  /\ u \in overtaken' => stream'[u] = "over"
                 /\ stream'[u] = "over" /\ handler'[u] = "serving" => u \in overtaken'
                 /\ u \in overtaken' /\ Pending(Update(u))' /\ handler'[u] = "logged"
                       /\ Insert(u) \notin lost' => Pending(Insert(u))' /\ Ahead(Update(u), Insert(u))'
                 /\ u \notin overtaken' /\ Pending(Insert(u))' /\ stream'[u] = "over"
                       /\ Update(u) \notin lost' => Pending(Update(u))' /\ Ahead(Insert(u), Update(u))'
      <3>1. c # Insert(u) /\ c # Update(u)
        BY <1>4, <2>1
      <3> QED BY <1>1, <1>2, <1>5, <1>6, <2>1, <3>1 DEF InOrder
    <2>2. /\ r \in overtaken' => stream'[r] = "over"
          /\ r \notin overtaken' => stream'[r] # "over"
      BY <1>1, <1>2 DEF InOrder
    <2>3. Ahead(Update(r), Insert(r))' /\ (Pending(Insert(r))' \/ Insert(r) \in lost')
      BY <1>4, <1>5 DEF c
    <2> QED BY <1>6, <2>1, <2>2, <2>3 DEF InOrder
  <1>10. RowFollows'
    <2>1. ASSUME NEW u \in Requests, u # r
          PROVE  /\ Pending(Insert(u))' <=> Pending(Insert(u))
                 /\ Pending(Update(u))' <=> Pending(Update(u))
                 /\ Insert(u) \in lost' <=> Insert(u) \in lost
                 /\ Update(u) \in lost' <=> Update(u) \in lost
                 /\ handler'[u] = handler[u]
      BY <1>4, <1>5, <1>6, <2>1
    <2>2. row[r] = "none" /\ (Pending(Insert(r))' \/ Insert(r) \in lost')
      BY <1>1, <1>2, <1>5 DEF RowFollows, c
    <2> QED BY <1>1, <1>2, <2>1, <2>2 DEF RowFollows
  <1> QED BY <1>5, <1>7, <1>8, <1>9, <1>10 DEF IndInv

\* The task of the stream reports its end.
LEMMA CompletionPreserves ==
    ASSUME IndInv, NEW r \in Requests, StreamCompletionUpdate(r)
    PROVE  IndInv'
  <1> DEFINE c == Update(r)
  <1>1. TypeOK /\ OnePlace /\ SentOnce /\ InOrder /\ RowFollows
    BY DEF IndInv
  <1>2. /\ stream[r] = "running" /\ stream' = [stream EXCEPT ![r] = "over"] /\ TrySend(c)
        /\ overtaken' = IF handler[r] = "serving" THEN overtaken \cup {r} ELSE overtaken
        /\ UNCHANGED <<handler, current, row, table, clock, stamp>>
    BY DEF StreamCompletionUpdate
  <1>3. ~Pending(c) /\ c \notin lost /\ r \notin overtaken
    BY <1>1, <1>2 DEF SentOnce, InOrder
  <1>4. c \in Commands /\ \A u \in Requests : c # Insert(u) /\ (u # r => c # Update(u))
    BY CommandFacts
  <1>5. /\ queue' \in Seq(Commands) /\ Len(queue') <= DEFAULT_CAPACITY /\ OnePlace'
        /\ lost' = lost \/ lost' = lost \cup {c}
        /\ \A d : d # c => (Pending(d)' <=> Pending(d))
        /\ \A d, e : d # c /\ e # c /\ Ahead(d, e) => Ahead(d, e)'
        /\ \A d : d # c => Ahead(d, c)'
        /\ c \in lost' <=> ~Pending(c)'
    BY <1>1, <1>2, <1>3, <1>4, SendEffect
  <1>6. /\ stream'[r] = "over"
        /\ \A u \in Requests : u # r => /\ stream'[u] = stream[u]
                                        /\ u \in overtaken' <=> u \in overtaken
        /\ r \in overtaken' <=> handler[r] = "serving"
        /\ handler[r] \in {"serving", "logged"}
    BY <1>1, <1>2, <1>3 DEF TypeOK
  <1>7. TypeOK'
    BY <1>1, <1>2, <1>4, <1>5 DEF TypeOK
  <1> HIDE DEF c
  <1>8. SentOnce'
    BY <1>1, <1>2, <1>3, <1>4, <1>5, <1>6 DEF SentOnce, c
  <1>9. InOrder'
    <2>1. ASSUME NEW u \in Requests, u # r
          PROVE  /\ u \in overtaken' => stream'[u] = "over"
                 /\ stream'[u] = "over" /\ handler'[u] = "serving" => u \in overtaken'
                 /\ u \in overtaken' /\ Pending(Update(u))' /\ handler'[u] = "logged"
                       /\ Insert(u) \notin lost' => Pending(Insert(u))' /\ Ahead(Update(u), Insert(u))'
                 /\ u \notin overtaken' /\ Pending(Insert(u))' /\ stream'[u] = "over"
                       /\ Update(u) \notin lost' => Pending(Update(u))' /\ Ahead(Insert(u), Update(u))'
      <3>1. c # Insert(u) /\ c # Update(u)
        BY <1>4, <2>1
      <3> QED BY <1>1, <1>2, <1>5, <1>6, <2>1, <3>1 DEF InOrder
    <2>2. Ahead(Insert(r), Update(r))' /\ (Pending(Update(r))' \/ Update(r) \in lost')
      BY <1>4, <1>5 DEF c
    <2> QED BY <1>2, <1>6, <2>1, <2>2 DEF InOrder
  <1>10. RowFollows'
    <2>1. \A u \in Requests : /\ Pending(Insert(u))' <=> Pending(Insert(u))
                              /\ Insert(u) \in lost' <=> Insert(u) \in lost
      BY <1>4, <1>5
    <2>2. ASSUME NEW u \in Requests, u # r
          PROVE  /\ Pending(Update(u))' <=> Pending(Update(u))
                 /\ Update(u) \in lost' <=> Update(u) \in lost
                 /\ stream'[u] = stream[u] /\ (u \in overtaken' <=> u \in overtaken)
      BY <1>4, <1>5, <1>6, <2>2
    <2>3. Pending(Update(r))' \/ Update(r) \in lost'
      BY <1>5 DEF c
    <2>4. stream[r] # "over" /\ UNCHANGED <<handler, row>>
      BY <1>2
    <2> QED BY <1>1, <2>1, <2>2, <2>3, <2>4 DEF RowFollows
  <1> QED BY <1>5, <1>7, <1>8, <1>9, <1>10 DEF IndInv

\* The writer takes the next command.
LEMMA ReceivePreserves ==
    ASSUME IndInv, WriterReceives
    PROVE  IndInv'
  <1>1. TypeOK /\ OnePlace /\ SentOnce /\ InOrder /\ RowFollows
    BY DEF IndInv
  <1>2. /\ queue' \in Seq(Commands) /\ Len(queue') <= DEFAULT_CAPACITY
        /\ current' \subseteq Commands /\ OnePlace'
        /\ \A d : Pending(d)' <=> Pending(d)
        /\ \A d, e : Ahead(d, e) => Ahead(d, e)'
    BY <1>1, ReceiveEffect
  <1>3. UNCHANGED <<handler, stream, row, table, clock, stamp, lost, overtaken>>
    BY DEF WriterReceives
  <1>4. TypeOK'
    BY <1>1, <1>2, <1>3 DEF TypeOK
  <1>5. SentOnce'
    BY <1>1, <1>2, <1>3 DEF SentOnce
  <1>6. InOrder'
    BY <1>1, <1>2, <1>3 DEF InOrder
  <1>7. RowFollows'
    BY <1>1, <1>2, <1>3 DEF RowFollows
  <1> QED BY <1>2, <1>4, <1>5, <1>6, <1>7 DEF IndInv

\* The writer executes its command, or fails to.
LEMMA ExecutePreserves ==
    ASSUME IndInv, NEW c \in current, WriterExecutes(c)
    PROVE  IndInv'
  <1> DEFINE r == c.req
  <1>1. TypeOK /\ OnePlace /\ SentOnce /\ InOrder /\ RowFollows
    BY DEF IndInv
  <1>2. /\ current' = {} /\ UNCHANGED <<handler, stream, queue, clock, stamp, overtaken>>
        /\ \/ row' = [row EXCEPT ![r] = Executed(c, row[r])] /\ table' = Inserted(c) /\ lost' = lost
           \/ lost' = lost \cup {c} /\ UNCHANGED <<row, table>>
    BY <1>1 DEF WriterExecutes, TypeOK
  <1>3. /\ c \in Commands /\ r \in Requests
        /\ \/ c.kind = "Insert" /\ c = Insert(r)
           \/ c.kind = "UpdateStreamCompletion" /\ c = Update(r)
    <2>1. c \in Commands
      BY <1>1 DEF TypeOK
    <2> QED BY <2>1, CommandForms
  <1>4. /\ OnePlace' /\ Pending(c) /\ ~Pending(c)'
        /\ \A d : d # c => (Pending(d)' <=> Pending(d))
        /\ \A d, e : Ahead(d, e) => Ahead(d, e)'
        /\ \A d : Pending(d) => ~Ahead(d, c)
    BY <1>1, <1>2, ExecuteEffect
  <1>5. \A d : d # c => (d \in lost' <=> d \in lost)
    BY <1>2
  <1>6. \A u \in Requests : /\ u # r => c # Insert(u) /\ c # Update(u)
                            /\ Insert(u) # Update(r) /\ Insert(r) # Update(u)
    BY <1>3, CommandFacts
  <1>7. TypeOK'
    <2>1. Executed(c, row[r]) \in {"none", "inserted", "completed"}
      BY <1>1, <1>3 DEF Executed, TypeOK
    <2>2. Inserted(c) \in Seq(Requests)
      BY <1>1, <1>3, AppendProperties DEF Inserted, TypeOK
    <2> QED BY <1>1, <1>2, <1>3, <2>1, <2>2 DEF TypeOK
  <1>8. \A u \in Requests : u # r => /\ Pending(Insert(u))' <=> Pending(Insert(u))
                                     /\ Pending(Update(u))' <=> Pending(Update(u))
                                     /\ Insert(u) \in lost' <=> Insert(u) \in lost
                                     /\ Update(u) \in lost' <=> Update(u) \in lost
                                     /\ row'[u] = row[u]
    BY <1>1, <1>2, <1>4, <1>5, <1>6 DEF TypeOK
  <1>9. c \notin lost
    BY <1>1, <1>3, <1>4 DEF SentOnce
  <1> HIDE DEF r
  <1>10. SentOnce'
    BY <1>1, <1>2, <1>3, <1>4, <1>5, <1>8 DEF SentOnce
  <1>11. InOrder'
    <2>1. ASSUME NEW u \in Requests, u # r
          PROVE  /\ u \in overtaken' => stream'[u] = "over"
                 /\ stream'[u] = "over" /\ handler'[u] = "serving" => u \in overtaken'
                 /\ u \in overtaken' /\ Pending(Update(u))' /\ handler'[u] = "logged"
                       /\ Insert(u) \notin lost' => Pending(Insert(u))' /\ Ahead(Update(u), Insert(u))'
                 /\ u \notin overtaken' /\ Pending(Insert(u))' /\ stream'[u] = "over"
                       /\ Update(u) \notin lost' => Pending(Update(u))' /\ Ahead(Insert(u), Update(u))'
      BY <1>1, <1>2, <1>4, <1>8, <2>1 DEF InOrder
    <2>2. /\ r \in overtaken' => stream'[r] = "over"
          /\ stream'[r] = "over" /\ handler'[r] = "serving" => r \in overtaken'
      BY <1>1, <1>2, <1>3 DEF InOrder
    <2>3. CASE c = Insert(r)
      <3>1. ~Pending(Insert(r))'
        BY <1>4, <2>3
      <3>2. ~(r \in overtaken' /\ Pending(Update(r))' /\ handler'[r] = "logged" /\ Insert(r) \notin lost')
        BY <1>1, <1>2, <1>3, <1>4, <1>6, <1>9, <2>3 DEF InOrder
      <3> QED BY <2>1, <2>2, <3>1, <3>2 DEF InOrder
    <2>4. CASE c = Update(r)
      <3>1. ~Pending(Update(r))'
        BY <1>4, <2>4
      <3>2. ~(r \notin overtaken' /\ Pending(Insert(r))' /\ stream'[r] = "over" /\ Update(r) \notin lost')
        BY <1>1, <1>2, <1>3, <1>4, <1>6, <1>9, <2>4 DEF InOrder
      <3> QED BY <2>1, <2>2, <3>1, <3>2 DEF InOrder
    <2> QED BY <1>3, <2>3, <2>4
  <1>12. RowFollows'
    <2> DEFINE Right(u) ==
                 row[u] = IF handler[u] = "serving" \/ Pending(Insert(u)) \/ Insert(u) \in lost
                          THEN "none"
                          ELSE IF stream[u] = "over" /\ ~Pending(Update(u)) /\ Update(u) \notin lost
                                  /\ u \notin overtaken
                          THEN "completed" ELSE "inserted"
    <2>1. \A u \in Requests : u # r => Right(u)'
      BY <1>1, <1>2, <1>8 DEF RowFollows
    <2>2. CASE c = Insert(r)
      <3>1. /\ handler[r] = "logged" /\ row[r] = "none" /\ ~Pending(Insert(r))'
            /\ Pending(Update(r))' <=> Pending(Update(r))
            /\ Update(r) \in lost' <=> Update(r) \in lost
        BY <1>1, <1>3, <1>4, <1>5, <1>6, <2>2 DEF RowFollows, SentOnce
      <3>2. CASE Insert(r) \in lost'
        <4>1. row'[r] = "none"
          BY <1>2, <1>9, <2>2, <3>1, <3>2
        <4> QED BY <2>1, <3>2, <4>1 DEF RowFollows
      <3>3. CASE Insert(r) \notin lost'
        <4>1. row'[r] = "inserted"
          <5>1. c.kind = "Insert"
            BY <1>3, <1>6, <2>2
          <5>2. Executed(c, row[r]) = "inserted"
            BY <5>1 DEF Executed
          <5> QED BY <1>1, <1>2, <1>3, <2>2, <3>3, <5>2 DEF TypeOK
        <4>2. ~(stream[r] = "over" /\ ~Pending(Update(r)) /\ Update(r) \notin lost /\ r \notin overtaken)
          BY <1>1, <1>3, <1>4, <2>2 DEF InOrder
        <4> QED BY <1>2, <2>1, <3>1, <3>3, <4>1, <4>2 DEF RowFollows
      <3> QED BY <3>2, <3>3
    <2>3. CASE c = Update(r)
      <3>1. /\ stream[r] = "over" /\ Pending(Update(r)) /\ ~Pending(Update(r))'
            /\ Update(r) \notin lost
            /\ Pending(Insert(r))' <=> Pending(Insert(r))
            /\ Insert(r) \in lost' <=> Insert(r) \in lost
            /\ handler[r] \in {"serving", "logged"}
        BY <1>1, <1>3, <1>4, <1>5, <1>6, <1>9, <2>3 DEF SentOnce, TypeOK
      <3>2. row[r] = IF handler[r] = "serving" \/ Pending(Insert(r)) \/ Insert(r) \in lost
                     THEN "none" ELSE "inserted"
        BY <1>1, <1>3, <3>1 DEF RowFollows
      <3>3. CASE Update(r) \in lost'
        <4>1. row'[r] = row[r]
          BY <1>2, <3>1, <3>3
        <4> QED BY <1>2, <2>1, <3>1, <3>2, <3>3, <4>1 DEF RowFollows
      <3>4. CASE Update(r) \notin lost'
        <4>1. row'[r] = IF row[r] = "none" THEN "none" ELSE "completed"
          <5>1. c.kind = "UpdateStreamCompletion"
            BY <1>3, <1>6, <2>3
          <5>2. Executed(c, row[r]) = IF row[r] = "none" THEN "none" ELSE "completed"
            BY <5>1 DEF Executed
          <5> QED BY <1>1, <1>2, <1>3, <2>3, <3>4, <5>2 DEF TypeOK
        <4>2. row[r] # "none" => r \notin overtaken
          BY <1>1, <1>3, <3>1, <3>2 DEF InOrder
        <4> QED BY <1>2, <2>1, <3>1, <3>2, <3>4, <4>1, <4>2 DEF RowFollows
      <3> QED BY <3>3, <3>4
    <2> QED BY <1>3, <2>2, <2>3
  <1> QED BY <1>4, <1>7, <1>10, <1>11, <1>12 DEF IndInv

\* The steps that leave the pipeline alone.
LEMMA OthersPreserve ==
    ASSUME IndInv, (\E r \in Requests : StreamStarts(r)) \/ Tick \/ UNCHANGED vars
    PROVE  IndInv'
  <1>1. TypeOK /\ OnePlace /\ SentOnce /\ InOrder /\ RowFollows
    BY DEF IndInv
  <1>2. UNCHANGED <<handler, queue, current, row, table, stamp, lost, overtaken>>
    BY DEF StreamStarts, Tick, vars
  <1>3. \A d, k : Holds(d, k)' <=> Holds(d, k)
    BY <1>2 DEF Holds
  <1>4. /\ \A d : Pending(d)' <=> Pending(d)
        /\ \A d, e : Ahead(d, e)' <=> Ahead(d, e)
    BY <1>2, <1>3 DEF Pending, Ahead
  <1>5. OnePlace'
    BY <1>1, <1>2, <1>3 DEF OnePlace
  <1>6. \A u \in Requests : stream'[u] = stream[u] \/ (stream[u] # "over" /\ stream'[u] # "over")
    <2>1. ASSUME NEW r \in Requests, StreamStarts(r), NEW u \in Requests
          PROVE  stream'[u] = stream[u] \/ (stream[u] # "over" /\ stream'[u] # "over")
      BY <1>1, <2>1 DEF TypeOK, StreamStarts
    <2>2. CASE Tick \/ UNCHANGED vars
      BY <2>2 DEF Tick, vars
    <2> QED BY <2>1, <2>2
  <1>7. SentOnce' /\ RowFollows'
    BY <1>1, <1>2, <1>4, <1>6 DEF SentOnce, RowFollows
  <1>8. InOrder'
    BY <1>1, <1>2, <1>4, <1>6 DEF InOrder
  <1>9. TypeOK'
    <2>1. CASE \E r \in Requests : StreamStarts(r)
      BY <1>1, <2>1 DEF StreamStarts, TypeOK
    <2>2. CASE Tick
      <3>1. clock' \in 0..MaxClock /\ \A n \in 0..clock : n \in 0..clock'
        BY <1>1, <2>2, ClockAssumption DEF Tick, TypeOK
      <3>2. stamp' \in [Requests -> 0..clock']
        BY <1>1, <2>2, <3>1 DEF Tick, TypeOK
      <3> QED BY <1>1, <2>2, <3>1, <3>2 DEF Tick, TypeOK
    <2>3. CASE UNCHANGED vars
      BY <1>1, <2>3 DEF vars, TypeOK
    <2> QED BY <2>1, <2>2, <2>3
  <1> QED BY <1>5, <1>7, <1>8, <1>9 DEF IndInv

\* An empty pipeline and an empty table.
LEMMA InitIndInv == Init => IndInv
  <1> SUFFICES ASSUME Init PROVE IndInv
    OBVIOUS
  <1>1. Len(queue) = 0 /\ queue \in Seq(Commands) /\ table \in Seq(Requests)
    BY EmptySeq DEF Init
  <1>2. \A d : \A k \in 0..Len(queue) : ~Holds(d, k)
    BY <1>1 DEF Init, Holds
  <1>3. \A d : ~Pending(d)
    BY <1>2 DEF Pending
  <1>4. TypeOK
    BY <1>1, CapacityAssumption, ClockAssumption DEF Init, TypeOK
  <1>5. OnePlace
    BY <1>2 DEF OnePlace, Init
  <1> QED BY <1>3, <1>4, <1>5 DEF Init, IndInv, SentOnce, InOrder, RowFollows

\* Every action keeps the invariant.
LEMMA NextIndInv == IndInv /\ [Next]_vars => IndInv'
  BY LogWritePreserves, CompletionPreserves, ReceivePreserves, ExecutePreserves, OthersPreserve
     DEF Next, Writer

\* Every request's row follows its two writes through the pipeline.
THEOREM Invariance == Spec => []IndInv
  BY InitIndInv, NextIndInv, PTL DEF Spec

\* The channel never holds more than its capacity, timestamps never lie in the
\* future.
THEOREM TypeCorrect == Spec => []TypeOK
  <1>1. IndInv => TypeOK
    BY DEF IndInv
  <1> QED BY <1>1, Invariance, PTL

\* A request with nothing pending.
LEMMA FinalRow == IndInv => LogMatchesHistory
  <1> SUFFICES ASSUME IndInv, NEW r \in Requests, Final(r)
               PROVE  row[r] = CASE Insert(r) \in lost -> "none"
                                 [] Insert(r) \notin lost /\ stream[r] = "over"
                                      /\ Update(r) \notin lost /\ r \notin overtaken -> "completed"
                                 [] OTHER -> "inserted"
    BY DEF LogMatchesHistory
  <1>1. ~Pending(Insert(r)) /\ ~Pending(Update(r))
    <2>1. Insert(r).req = r /\ Update(r).req = r
      BY DEF Insert, Update
    <2>2. Len(queue) \in Nat
      BY LenProperties DEF IndInv, TypeOK
    <2> QED BY <2>1, <2>2 DEF Final, Unwritten, Pending, Holds
  <1>2. handler[r] = "logged"
    BY DEF Final
  <1> QED BY <1>1, <1>2 DEF IndInv, RowFollows

\* The log says what happened: a request the writer is done with has its row
\* unless the INSERT was lost, completed unless the UPDATE was lost or came
\* before the INSERT.
THEOREM LogCorrect == Spec => []LogMatchesHistory
  BY FinalRow, Invariance, PTL
-----------------------------------------------------------------------------
(* The queries *)

\* The reader leaves the log alone.
LEMMA ReaderIndInv == IndInv /\ [ReadNext]_allVars => IndInv'
  <1>1. [ReadNext]_allVars => [Next]_vars
    BY DEF ReadNext, allVars
  <1> QED BY <1>1, NextIndInv

\* The invariant of the log with its readers.
THEOREM ReadInvariance == ReadSpec => []IndInv
  <1>1. ReadInit => IndInv
    BY InitIndInv DEF ReadInit
  <1> QED BY <1>1, ReaderIndInv, PTL DEF ReadSpec

\* The types hold under the readers too.
THEOREM ReadTypeCorrect == ReadSpec => []TypeOK
  <1>1. IndInv => TypeOK
    BY DEF IndInv
  <1> QED BY <1>1, ReadInvariance, PTL

\* The log is right under the readers too.
THEOREM ReadLogCorrect == ReadSpec => []LogMatchesHistory
  BY FinalRow, ReadInvariance, PTL
-----------------------------------------------------------------------------
(* The readers *)

\* A row is there only of a request whose handler has logged it, and once.
TableInv ==
    /\ \A i \in DOMAIN table : handler[table[i]] = "logged" /\ row[table[i]] # "none"
    /\ \A i, j \in DOMAIN table : table[i] = table[j] => i = j

ReaderType ==
    \/ reader = Idle
    \/ reader \in [pc : {"count", "page", "walked"}, since : Starts, until : Ends, model : Filters,
                   order : {"ASC", "DESC"}, per_page : PageSizes, page : Nat \ {0}, total : Nat,
                   from : Nat, upto : Nat, seen : SUBSET Nat, must : SUBSET Nat]
    \/ reader \in [pc : {"group", "figures"}, from : Nat, upto : Nat, model : Filters,
                   group_by : {"model", "tier"}, shown : SUBSET Nat, counted : SUBSET Nat]

\* The rows the reader is asking for, and how many of them come before row i.
Asked == Matching(reader.from, reader.upto, reader.model)
RankIn(since, until, model, order, i) ==
    LET rows == Matching(since, until, model)
    IN  Cardinality(Predecessors(rows, ByTime(rows, order), i))
Rank(i) == RankIn(reader.from, reader.upto, reader.model, reader.order, i)

\* What the reader has not seen of the rows it must see is still ahead, on the
\* page it will ask for next or after it; and the offset of that page is less
\* than a page beyond the end of the table.
WalkInv ==
    reader.pc \in {"count", "page", "walked"} =>
        /\ reader.upto <= Until(reader.until)
        /\ reader.pc # "walked" =>
              reader.page = 1 \/ (reader.page - 2) * reader.per_page < Len(table)
        /\ ~reader.since.preset =>
              /\ reader.from = reader.since.at
              /\ reader.must \subseteq Asked
              /\ \A i \in reader.must : Rank(i) < (reader.page - 1) * reader.per_page => i \in reader.seen
              /\ reader.pc = "walked" => reader.must \subseteq reader.seen

\* The rows counted are still there when the groups are.
FiguresInv == reader.pc \in {"group", "figures"} => reader.counted \subseteq Asked

ReadInv == IndInv /\ TableInv /\ ReaderType /\ WalkInv /\ FiguresInv /\ GroupsCoverTotal

\* Rows are only added, at the end; those that are there keep their timestamps;
\* and time does not go back.
LEMMA TableGrows ==
    ASSUME IndInv, TableInv, [Next]_vars
    PROVE  /\ TableInv'
           /\ Len(table) \in Nat /\ Len(table') \in Nat /\ Len(table) <= Len(table')
           /\ DOMAIN table = 1..Len(table) /\ DOMAIN table' = 1..Len(table')
           /\ \A i \in DOMAIN table : /\ table[i] \in Requests /\ table'[i] = table[i]
                                     /\ stamp'[table[i]] = stamp[table[i]]
                                     /\ stamp[table[i]] \in Nat
           /\ clock \in Nat /\ clock' \in Nat /\ clock <= clock'
  <1>0. TypeOK /\ TypeOK'
    BY NextIndInv DEF IndInv
  <1>1. /\ table \in Seq(Requests) /\ Len(table) \in Nat /\ DOMAIN table = 1..Len(table)
        /\ \A i \in DOMAIN table : table[i] \in Requests
        /\ table' \in Seq(Requests) /\ Len(table') \in Nat /\ DOMAIN table' = 1..Len(table')
    BY <1>0, LenProperties, ElementOfSeq DEF TypeOK
  <1>2. /\ clock \in Nat /\ clock' \in Nat /\ stamp \in [Requests -> 0..clock]
        /\ \A r \in Requests : stamp[r] \in Nat
    BY <1>0, ClockAssumption DEF TypeOK
  <1>3. CASE UNCHANGED <<handler, row, table, stamp>> /\ clock <= clock'
    BY <1>1, <1>2, <1>3 DEF TableInv
  <1>4. ASSUME NEW r \in Requests, LogWrite(r)
        PROVE  /\ TableInv' /\ table' = table /\ clock' = clock
               /\ \A i \in DOMAIN table : stamp'[table[i]] = stamp[table[i]]
    <2>1. /\ table' = table /\ row' = row /\ clock' = clock /\ handler[r] = "serving"
          /\ handler' = [handler EXCEPT ![r] = "logged"]
          /\ stamp' = [stamp EXCEPT ![r] = clock \div 2]
      BY <1>4 DEF LogWrite
    <2>2. \A i \in DOMAIN table : table[i] # r
      BY <2>1 DEF TableInv
    <2>3. handler \in [Requests -> {"serving", "logged"}]
      BY <1>0 DEF TypeOK
    <2> QED BY <1>1, <1>2, <2>1, <2>2, <2>3 DEF TableInv
  <1>5. ASSUME NEW c \in current, WriterExecutes(c)
        PROVE  /\ TableInv' /\ clock' = clock /\ stamp' = stamp
               /\ Len(table) <= Len(table') /\ \A i \in DOMAIN table : table'[i] = table[i]
    <2> DEFINE r == c.req
    <2>1. /\ clock' = clock /\ stamp' = stamp /\ handler' = handler
          /\ \/ row' = [row EXCEPT ![r] = Executed(c, row[r])] /\ table' = Inserted(c)
             \/ row' = row /\ table' = table
      BY <1>5 DEF WriterExecutes
    <2>2. c \in Commands /\ r \in Requests /\ row \in [Requests -> {"none", "inserted", "completed"}]
      <3>1. c \in Commands
        BY <1>0 DEF TypeOK
      <3> QED BY <1>0, <3>1, CommandForms DEF TypeOK
    <2>3. CASE row' = row /\ table' = table
      BY <1>1, <2>1, <2>3 DEF TableInv
    <2>4. CASE row' = [row EXCEPT ![r] = Executed(c, row[r])] /\ c.kind = "Insert"
               /\ table' = Append(table, r)
      <3>1. c = Insert(r)
        BY <2>2, <2>4, CommandForms
      <3>2. Pending(Insert(r))
        <4>1. Len(queue) \in Nat /\ 0 \in 0..Len(queue)
          BY <1>0, LenProperties DEF TypeOK
        <4>2. Holds(c, 0)
          BY DEF Holds
        <4> HIDE DEF r
        <4> QED BY <3>1, <4>1, <4>2 DEF Pending
      <3>3. handler[r] = "logged" /\ row[r] = "none"
        BY <2>2, <3>2 DEF IndInv, SentOnce, RowFollows
      <3>4. row'[r] = "inserted" /\ \A u \in Requests : u # r => row'[u] = row[u]
        BY <2>2, <2>4 DEF Executed
      <3>5. \A i \in DOMAIN table : table[i] # r
        BY <3>3 DEF TableInv
      <3>6. /\ Len(table') = Len(table) + 1 /\ table'[Len(table) + 1] = r
            /\ \A i \in 1..Len(table) : table'[i] = table[i]
        BY <1>1, <2>2, <2>4, AppendProperties
      <3>7. DOMAIN table' = DOMAIN table \cup {Len(table) + 1} /\ Len(table) + 1 \notin DOMAIN table
        BY <1>1, <3>6
      <3>8. TableInv'
        BY <1>1, <2>1, <3>3, <3>4, <3>5, <3>6, <3>7 DEF TableInv
      <3> QED BY <1>1, <2>1, <3>6, <3>8
    <2>5. CASE row' = [row EXCEPT ![r] = Executed(c, row[r])] /\ c.kind = "UpdateStreamCompletion"
               /\ table' = table
      <3>1. Executed(c, row[r]) = IF row[r] = "none" THEN "none" ELSE "completed"
        BY <2>5 DEF Executed
      <3>2. \A u \in Requests : row[u] # "none" => row'[u] # "none"
        BY <2>2, <2>5, <3>1
      <3> QED BY <1>1, <2>1, <2>5, <3>2 DEF TableInv
    <2>6. c.kind \in {"Insert", "UpdateStreamCompletion"}
      BY <2>2, CommandForms
    <2> QED BY <2>1, <2>3, <2>4, <2>5, <2>6 DEF Inserted
  <1>6. ASSUME NEW r \in Requests, StreamStarts(r) \/ StreamCompletionUpdate(r)
        PROVE  UNCHANGED <<handler, row, table, stamp>> /\ clock' = clock
    BY <1>6 DEF StreamStarts, StreamCompletionUpdate
  <1>7. CASE WriterReceives \/ Tick \/ UNCHANGED vars
    BY <1>1, <1>2, <1>3, <1>7 DEF WriterReceives, Tick, vars
  <1>8. CASE \E r \in Requests : StreamStarts(r) \/ StreamCompletionUpdate(r)
    BY <1>1, <1>2, <1>3, <1>6, <1>8
  <1>9. CASE \E r \in Requests : LogWrite(r)
    BY <1>1, <1>2, <1>4, <1>9
  <1>10. CASE \E c \in current : WriterExecutes(c)
    BY <1>1, <1>2, <1>5, <1>10
  <1> QED BY <1>7, <1>8, <1>9, <1>10 DEF Next, Writer

\* There are no more rows than requests.
LEMMA TableBounded ==
    ASSUME TypeOK, TableInv
    PROVE  /\ Len(table) \in Nat /\ Cardinality(Requests) \in Nat
           /\ Len(table) <= Cardinality(Requests)
  <1>1. /\ Len(table) \in Nat /\ DOMAIN table = 1..Len(table)
        /\ \A i \in DOMAIN table : table[i] \in Requests
    BY LenProperties, ElementOfSeq DEF TypeOK
  <1>2. table \in Injection(1..Len(table), Requests)
    <2>1. table \in [1..Len(table) -> Requests]
      BY <1>1, LenProperties, SeqDef DEF TypeOK
    <2> QED BY <1>1, <2>1 DEF TableInv, Injection, IsInjective
  <1>3. IsFiniteSet(1..Len(table)) /\ Cardinality(1..Len(table)) = Len(table)
    <2>1. PICK n \in Nat : n = Len(table)
      BY <1>1
    <2>2. IsFiniteSet(1..n) /\ Cardinality(1..n) = IF 1 > n THEN 0 ELSE n - 1 + 1
      BY FS_Interval
    <2> QED BY <2>1, <2>2
  <1>4. IsFiniteSet(Requests) /\ Cardinality(Requests) \in Nat
    BY PagesAssumption, FS_CardinalityType
  <1>5. Cardinality(1..Len(table)) <= Cardinality(Requests)
    BY <1>2, <1>3, <1>4, FS_Injection
  <1> QED BY <1>1, <1>3, <1>4, <1>5

\* ByTime is an order of any set of rows, and the same in any other.
LEMMA TimeOrders ==
    ASSUME TypeOK, NEW S, S \subseteq DOMAIN table, NEW order \in {"ASC", "DESC"}
    PROVE  /\ IsFiniteSet(S) /\ S \subseteq Nat
           /\ Orders(ByTime(S, order), S)
           /\ \A i, j \in S : <<i, j>> \in ByTime(S, order) <=>
                 IF order = "ASC" THEN Older(i, j) ELSE Older(j, i)
  <1>1. Len(table) \in Nat /\ DOMAIN table = 1..Len(table) /\ \A i \in S : stamp[table[i]] \in Nat
    <2>1. \A i \in DOMAIN table : table[i] \in Requests
      BY LenProperties, ElementOfSeq DEF TypeOK
    <2> QED BY <2>1, LenProperties, ClockAssumption DEF TypeOK
  <1>2. IsFiniteSet(S) /\ S \subseteq Nat
    <2>1. IsFiniteSet(1..Len(table))
      BY <1>1, FS_Interval
    <2> QED BY <1>1, <2>1, FS_Subset
  <1>3. \A i, j \in S : <<i, j>> \in ByTime(S, order) <=>
                 IF order = "ASC" THEN Older(i, j) ELSE Older(j, i)
    BY DEF ByTime
  <1>4. /\ \A i \in S : ~Older(i, i)
        /\ \A i, j \in S : i # j => Older(i, j) \/ Older(j, i)
        /\ \A i, j, k \in S : Older(i, j) /\ Older(j, k) => Older(i, k)
    BY <1>1, <1>2 DEF Older
  <1>5. Orders(ByTime(S, order), S)
    BY <1>3, <1>4 DEF Orders
  <1> QED BY <1>2, <1>3, <1>5

\* The rows of a query, as the log is written and its end moves on.
LEMMA MatchingGrows ==
    ASSUME IndInv, TableInv, [Next]_vars, NEW a, NEW b \in Nat, NEW c \in Nat, b <= c, NEW m
    PROVE  /\ Matching(a, b, m) \subseteq DOMAIN table
           /\ Matching(a, b, m) \subseteq Matching(a, c, m)'
           /\ \A i, j \in Matching(a, b, m) : Older(i, j) <=> Older(i, j)'
  <1>1. /\ Len(table) \in Nat /\ Len(table') \in Nat /\ Len(table) <= Len(table')
        /\ DOMAIN table = 1..Len(table) /\ DOMAIN table' = 1..Len(table')
        /\ \A i \in DOMAIN table : /\ table[i] \in Requests /\ table'[i] = table[i]
                                  /\ stamp'[table[i]] = stamp[table[i]]
                                  /\ stamp[table[i]] \in Nat
    BY TableGrows
  <1>2. Matching(a, b, m) \subseteq DOMAIN table
    BY DEF Matching
  <1>3. ASSUME NEW i \in Matching(a, b, m)
        PROVE  i \in Matching(a, c, m)'
    <2>1. i \in DOMAIN table /\ i \in DOMAIN table'
      BY <1>1, <1>2
    <2>2. table'[i] = table[i] /\ stamp'[table'[i]] = stamp[table[i]] /\ stamp[table[i]] \in Nat
      BY <1>1, <2>1
    <2>3. InRange(stamp[table[i]], a, b) => InRange(stamp[table[i]], a, c)
      <3>1. b \div 2 \in Nat /\ c \div 2 \in Nat /\ b \div 2 <= c \div 2
        BY QuotientGrows
      <3> QED BY <2>2, <3>1 DEF InRange
    <2>4. InRange(stamp'[table'[i]], a, c) /\ (m = AnyModel \/ Lower[ModelOf[table'[i]]] = Lower[m])
      BY <2>2, <2>3 DEF Matching
    <2> QED BY <2>1, <2>4 DEF Matching, InRange
  <1>4. \A i, j \in Matching(a, b, m) : Older(i, j) <=> Older(i, j)'
    BY <1>1, <1>2 DEF Older
  <1> QED BY <1>2, <1>3, <1>4

\* A row has no fewer rows before it as rows are added.
LEMMA RankGrows ==
    ASSUME NEW P, NEW Q, P \subseteq Q, IsFiniteSet(Q), NEW R, NEW S,
           \A i, j \in P : <<i, j>> \in R => <<i, j>> \in S, NEW i \in P
    PROVE  /\ Cardinality(Predecessors(P, R, i)) \in Nat
           /\ Cardinality(Predecessors(Q, S, i)) \in Nat
           /\ Cardinality(Predecessors(P, R, i)) <= Cardinality(Predecessors(Q, S, i))
  <1>1. Predecessors(P, R, i) \subseteq Predecessors(Q, S, i) /\ Predecessors(Q, S, i) \subseteq Q
    BY DEF Predecessors
  <1>2. IsFiniteSet(Predecessors(Q, S, i))
    BY <1>1, FS_Subset
  <1> QED BY <1>1, <1>2, CardinalityGrows

\* What a walk knows stays true when rows are added and its end moves on: a row
\* is still asked for, and no fewer rows come before it.
LEMMA WalkKeeps ==
    ASSUME IndInv, TableInv, [Next]_vars, NEW a, NEW b \in Nat, NEW c \in Nat, b <= c, NEW m,
           NEW o \in {"ASC", "DESC"}, NEW i \in Matching(a, b, m)
    PROVE  /\ i \in Matching(a, c, m)'
           /\ RankIn(a, b, m, o, i) \in Nat /\ RankIn(a, c, m, o, i)' \in Nat
           /\ RankIn(a, b, m, o, i) <= RankIn(a, c, m, o, i)'
  <1> DEFINE P == Matching(a, b, m)
             Q == Matching(a, c, m)'
             R == {p \in P \X P : IF o = "ASC" THEN Older(p[1], p[2]) ELSE Older(p[2], p[1])}
             S == {p \in Q \X Q : IF o = "ASC" THEN Older(p[1], p[2])' ELSE Older(p[2], p[1])'}
  <1>1. P \subseteq Q /\ \A j, k \in P : Older(j, k) <=> Older(j, k)'
    BY MatchingGrows
  <1>2. IsFiniteSet(Q)
    <2>1. Len(table') \in Nat /\ DOMAIN table' = 1..Len(table')
      BY TableGrows
    <2>2. Q \subseteq 1..Len(table')
      BY <2>1 DEF Matching
    <2>3. IsFiniteSet(1..Len(table'))
      BY <2>1, FS_Interval
    <2> HIDE DEF Q
    <2> QED BY <2>2, <2>3, FS_Subset
  <1>3. /\ RankIn(a, b, m, o, i) = Cardinality(Predecessors(P, R, i))
        /\ RankIn(a, c, m, o, i)' = Cardinality(Predecessors(Q, S, i))
    BY DEF RankIn, ByTime, Predecessors
  <1>4. \A j, k \in P : <<j, k>> \in R => <<j, k>> \in S
    BY <1>1
  <1> HIDE DEF P, Q, R, S
  <1>5. i \in P
    BY DEF P
  <1>6. /\ Cardinality(Predecessors(P, R, i)) \in Nat /\ Cardinality(Predecessors(Q, S, i)) \in Nat
        /\ Cardinality(Predecessors(P, R, i)) <= Cardinality(Predecessors(Q, S, i))
    BY <1>1, <1>2, <1>4, <1>5, RankGrows
  <1>7. i \in Q
    BY <1>1, <1>5
  <1> QED BY <1>3, <1>6, <1>7 DEF Q

\* The ends of a range are times, and now does not go back.
LEMMA RangeFacts ==
    ASSUME IndInv, TableInv, [Next]_vars, NEW s \in Starts, NEW u \in Ends
    PROVE  /\ Since(s) \in Nat /\ Until(u) \in Nat /\ Until(u)' \in Nat /\ Until(u) <= Until(u)'
           /\ ~s.preset => Since(s) = s.at
  <1>1. clock \in Nat /\ clock' \in Nat /\ clock <= clock'
    BY TableGrows
  <1>2. u \in Nat /\ s.at \in Nat
    BY StartsAssumption
  <1> QED BY <1>1, <1>2 DEF Since, Until

\* The fields of a reader that walks.
LEMMA WalkType ==
    ASSUME ReaderType, reader.pc \in {"count", "page", "walked"}
    PROVE  /\ reader \in [pc : {"count", "page", "walked"}, since : Starts, until : Ends,
                          model : Filters, order : {"ASC", "DESC"}, per_page : PageSizes,
                          page : Nat \ {0}, total : Nat, from : Nat, upto : Nat,
                          seen : SUBSET Nat, must : SUBSET Nat]
           /\ reader.since \in Starts /\ reader.until \in Ends /\ reader.model \in Filters
           /\ reader.from \in Nat /\ reader.upto \in Nat /\ reader.order \in {"ASC", "DESC"}
           /\ reader.page \in Nat \ {0} /\ reader.per_page \in PageSizes
           /\ reader.per_page \in Nat \ {0} /\ reader.seen \subseteq Nat /\ reader.must \subseteq Nat
  <1>1. reader \in [pc : {"count", "page", "walked"}, since : Starts, until : Ends,
                    model : Filters, order : {"ASC", "DESC"}, per_page : PageSizes,
                    page : Nat \ {0}, total : Nat, from : Nat, upto : Nat,
                    seen : SUBSET Nat, must : SUBSET Nat]
    BY DEF ReaderType, Idle
  <1>2. reader.per_page \in PageSizes
    BY <1>1
  <1>3. reader.per_page \in Nat \ {0}
    BY <1>2, PagesAssumption
  <1> QED BY <1>1, <1>3

\* A walk whose range starts where it did: what it has to see is still asked
\* for, and what lies behind it has been seen.
LEMMA WalkHolds ==
    ASSUME ReadInv, [Next]_vars, reader.pc \in {"count", "page", "walked"}, ~reader.since.preset,
           reader'.from = reader.from, reader'.model = reader.model, reader'.order = reader.order,
           reader'.upto \in Nat, reader.upto <= reader'.upto
    PROVE  /\ \A i \in reader.must : i \in Asked'
           /\ \A i \in reader.must : Rank(i)' < (reader.page - 1) * reader.per_page => i \in reader.seen
  <1>0. IndInv /\ TableInv /\ ReaderType /\ WalkInv
    BY DEF ReadInv
  <1>1. /\ reader.from \in Nat /\ reader.upto \in Nat /\ reader.order \in {"ASC", "DESC"}
        /\ reader.page - 1 \in Nat /\ reader.per_page \in Nat /\ reader.must \subseteq Asked
        /\ \A i \in reader.must : Rank(i) < (reader.page - 1) * reader.per_page => i \in reader.seen
    BY <1>0, WalkType DEF WalkInv
  <1>2. PICK a \in Nat, b \in Nat, c \in Nat, m \in {reader.model}, o \in {"ASC", "DESC"} :
            /\ a = reader.from /\ b = reader.upto /\ c = reader'.upto
            /\ m = reader.model /\ o = reader.order
    BY <1>1
  <1>3. /\ Asked = Matching(a, b, m) /\ Asked' = Matching(a, c, m)'
    BY <1>2 DEF Asked, Matching, InRange
  <1>4. \A i : Rank(i) = RankIn(a, b, m, o, i) /\ Rank(i)' = RankIn(a, c, m, o, i)'
    BY <1>2 DEF Rank, RankIn, ByTime, Matching, InRange, Older, Predecessors
  <1>5. ASSUME NEW i \in reader.must
        PROVE  /\ i \in Matching(a, c, m)'
               /\ RankIn(a, b, m, o, i) \in Nat /\ RankIn(a, c, m, o, i)' \in Nat
               /\ RankIn(a, b, m, o, i) <= RankIn(a, c, m, o, i)'
    <2>1. i \in Matching(a, b, m)
      BY <1>1, <1>3
    <2>2. b <= c
      BY <1>2
    <2> QED BY <1>0, <2>1, <2>2, WalkKeeps
  <1>6. PICK n \in Nat : n = (reader.page - 1) * reader.per_page
    BY <1>1
  <1>7. \A i \in reader.must : RankIn(a, c, m, o, i)' < n => i \in reader.seen
    <2>1. \A i \in reader.must : RankIn(a, b, m, o, i) < n => i \in reader.seen
      BY <1>1, <1>4, <1>6
    <2> QED BY <1>5, <2>1
  <1> QED BY <1>3, <1>4, <1>5, <1>6, <1>7

\* The fields of a reader of the figures.
LEMMA FiguresType ==
    ASSUME ReaderType, reader.pc \in {"group", "figures"}
    PROVE  /\ reader \in [pc : {"group", "figures"}, from : Nat, upto : Nat, model : Filters,
                          group_by : {"model", "tier"}, shown : SUBSET Nat, counted : SUBSET Nat]
           /\ reader.from \in Nat /\ reader.upto \in Nat /\ reader.group_by \in {"model", "tier"}
           /\ reader.shown \subseteq Nat /\ reader.counted \subseteq Nat
  BY DEF ReaderType, Idle

\* The answer's rows, by the time of a later step of the log.
LEMMA FiguresKeep ==
    ASSUME IndInv, TableInv, [Next]_vars, NEW a, NEW b \in Nat, NEW m
    PROVE  /\ Cardinality(Matching(a, b, m)) \in Nat /\ Cardinality(Matching(a, b, m)') \in Nat
           /\ Cardinality(Matching(a, b, m)) <= Cardinality(Matching(a, b, m)')
           /\ \A i \in Matching(a, b, m) : i \in Matching(a, b, m)' /\ table'[i] = table[i]
  <1>1. /\ Len(table') \in Nat /\ DOMAIN table' = 1..Len(table')
        /\ \A i \in DOMAIN table : table'[i] = table[i]
    BY TableGrows
  <1>2. b <= b
    OBVIOUS
  <1>3. Matching(a, b, m) \subseteq DOMAIN table /\ Matching(a, b, m) \subseteq Matching(a, b, m)'
    BY <1>2, MatchingGrows
  <1>4. IsFiniteSet(Matching(a, b, m)')
    <2>1. PICK Q : Q = Matching(a, b, m)'
      OBVIOUS
    <2>2. Q \subseteq 1..Len(table')
      BY <1>1, <2>1 DEF Matching
    <2>3. IsFiniteSet(1..Len(table'))
      BY <1>1, FS_Interval
    <2> QED BY <2>1, <2>2, <2>3, FS_Subset
  <1>5. /\ Cardinality(Matching(a, b, m)) \in Nat /\ Cardinality(Matching(a, b, m)') \in Nat
        /\ Cardinality(Matching(a, b, m)) <= Cardinality(Matching(a, b, m)')
    BY <1>3, <1>4, CardinalityGrows
  <1> QED BY <1>1, <1>3, <1>5

\* A step of the log between two statements of a reader.
LEMMA LogKeepsReadInv ==
    ASSUME ReadInv, [Next]_vars, UNCHANGED reader
    PROVE  ReadInv'
  <1>0. IndInv /\ TableInv /\ ReaderType /\ WalkInv /\ FiguresInv /\ GroupsCoverTotal
    BY DEF ReadInv
  <1>1. /\ TableInv' /\ IndInv'
        /\ Len(table) \in Nat /\ Len(table') \in Nat /\ Len(table) <= Len(table')
    BY <1>0, NextIndInv, TableGrows
  <1>2. ReaderType'
    BY <1>0 DEF ReaderType, Idle
  <1>3. WalkInv'
    <2>1. SUFFICES ASSUME reader.pc \in {"count", "page", "walked"} PROVE WalkInv'
      BY DEF WalkInv
    <2>2. /\ reader.since \in Starts /\ reader.until \in Ends
          /\ reader.upto \in Nat /\ reader.page \in Nat \ {0} /\ reader.per_page \in Nat \ {0}
      BY <1>0, <2>1, WalkType
    <2>3. PICK u \in Ends : u = reader.until
      BY <2>2
    <2>4. Until(u) \in Nat /\ Until(u)' \in Nat /\ Until(u) <= Until(u)'
      BY <1>0, <2>2, RangeFacts
    <2>5. reader.upto <= Until(u)'
      BY <1>0, <2>1, <2>2, <2>3, <2>4 DEF WalkInv
    <2>6. Until(reader.until)' = Until(u)'
      BY <2>3 DEF Until
    <2>7. reader.pc # "walked" => reader.page = 1 \/ (reader.page - 2) * reader.per_page < Len(table')
      <3>1. (reader.page - 2) * reader.per_page \in Int
        BY <2>2
      <3>2. reader.pc # "walked" => reader.page = 1 \/ (reader.page - 2) * reader.per_page < Len(table)
        BY <1>0, <2>1 DEF WalkInv
      <3> QED BY <1>1, <3>1, <3>2
    <2>8. ASSUME ~reader.since.preset
          PROVE  /\ \A i \in reader.must : i \in Asked'
                 /\ \A i \in reader.must : Rank(i)' < (reader.page - 1) * reader.per_page => i \in reader.seen
      BY <2>1, <2>2, <2>8, WalkHolds
    <2>9. ~reader.since.preset => /\ reader.from = reader.since.at
                                  /\ reader.pc = "walked" => reader.must \subseteq reader.seen
      BY <1>0, <2>1 DEF WalkInv
    <2> QED BY <2>5, <2>6, <2>7, <2>8, <2>9 DEF WalkInv
  <1>4. FiguresInv' /\ GroupsCoverTotal'
    <2>1. SUFFICES ASSUME reader.pc \in {"group", "figures"} PROVE FiguresInv' /\ GroupsCoverTotal'
      BY DEF FiguresInv, GroupsCoverTotal
    <2>2. reader.from \in Nat /\ reader.upto \in Nat
      BY <1>0, <2>1, FiguresType
    <2>3. PICK a \in Nat, b \in Nat, m \in {reader.model}, g \in {IF reader.group_by = "model" THEN AnyModel ELSE reader.model} :
              /\ a = reader.from /\ b = reader.upto /\ m = reader.model
              /\ g = IF reader.group_by = "model" THEN AnyModel ELSE reader.model
      BY <2>2
    <2>4. Asked = Matching(a, b, m) /\ Asked' = Matching(a, b, m)'
      BY <2>3 DEF Asked, Matching, InRange
    <2>5. Grouped = Matching(a, b, g) /\ Grouped' = Matching(a, b, g)'
      BY <2>3 DEF Grouped, Matching, InRange
    <2>6. /\ \A i \in Asked : i \in Asked' /\ table'[i] = table[i]
          /\ \A i \in Grouped : i \in Grouped' /\ table'[i] = table[i]
      BY <1>0, <2>4, <2>5, FiguresKeep
    <2>7. reader.counted \subseteq Asked
      BY <1>0, <2>1 DEF FiguresInv
    <2>8. FiguresInv'
      BY <2>6, <2>7 DEF FiguresInv
    <2>9. GroupsCoverTotal'
      <3>1. SUFFICES ASSUME reader.pc = "figures" PROVE GroupsCoverTotal'
        BY DEF GroupsCoverTotal
      <3>2. /\ reader.shown \subseteq Grouped
            /\ \A i \in reader.counted \ reader.shown :
                  reader.group_by = "model" /\ \E j \in reader.shown : GaveWay(i, j)
        BY <1>0, <3>1 DEF GroupsCoverTotal
      <3>3. \A i \in reader.counted, j \in reader.shown : GaveWay(i, j) => GaveWay(i, j)'
        BY <2>6, <2>7, <3>2 DEF GaveWay
      <3> QED BY <2>6, <3>2, <3>3 DEF GroupsCoverTotal
    <2> QED BY <2>8, <2>9
  <1> QED BY <1>1, <1>2, <1>3, <1>4 DEF ReadInv

\* The statements of a reader change nothing of the log.
LEMMA ReadsOnly ==
    ASSUME UNCHANGED vars, NEW a, NEW b, NEW m, NEW o, NEW i, NEW s, NEW u
    PROVE  /\ Matching(a, b, m)' = Matching(a, b, m)
           /\ RankIn(a, b, m, o, i)' = RankIn(a, b, m, o, i)
           /\ Since(s)' = Since(s) /\ Until(u)' = Until(u)
  <1>1. table' = table /\ stamp' = stamp /\ clock' = clock
    BY DEF vars
  <1>2. Matching(a, b, m)' = Matching(a, b, m)
    BY <1>1 DEF Matching, InRange
  <1>3. RankIn(a, b, m, o, i)' = RankIn(a, b, m, o, i)
    BY <1>1, <1>2 DEF RankIn, ByTime, Older, Predecessors
  <1>4. Since(s)' = Since(s) /\ Until(u)' = Until(u)
    BY <1>1 DEF Since, Until
  <1> QED BY <1>2, <1>3, <1>4

\* A page whose offset fits holds the rows it is asked for.
LEMMA PageFacts ==
    ASSUME NEW S, NEW n \in Nat, NEW list \in [1..n -> S], NEW page, NEW per_page \in Nat \ {0},
           NEW offset \in Nat, offset = (page - 1) * per_page, offset < U32
    PROVE  /\ offset >= n => Page(list, page, per_page) = << >>
           /\ offset < n => Page(list, page, per_page) # << >>
           /\ ToSet(Page(list, page, per_page)) \subseteq S
           /\ \A k \in 1..n : offset < k /\ k <= offset + per_page =>
                 list[k] \in ToSet(Page(list, page, per_page))
  <1> DEFINE left == IF offset < n THEN n - offset ELSE 0
             size == Min({per_page, left})
             data == [k \in 1..size |-> list[offset + k]]
  <1>1. Len(list) = n
    BY SeqOfFunction
  <1>2. offset % U32 = offset
    BY PagesAssumption
  <1>3. Page(list, page, per_page) = data
    BY <1>1, <1>2 DEF Page
  <1>4. left \in Nat /\ (offset < n => left = n - offset /\ left > 0) /\ (offset >= n => left = 0)
    OBVIOUS
  <1> HIDE DEF left
  <1>5. size \in {per_page, left} /\ size <= per_page /\ size <= left /\ size \in Nat
    <2>1. {per_page, left} \subseteq Nat /\ {per_page, left} # {}
      BY <1>4
    <2> QED BY <2>1, <1>4, MinFacts
  <1> HIDE DEF size
  <1>6. ASSUME offset >= n PROVE data = << >>
    <2>1. size = 0
      BY <1>4, <1>5, <1>6
    <2> QED BY <2>1
  <1>7. ASSUME offset < n PROVE data # << >>
    <2>1. 1 \in 1..size
      BY <1>4, <1>5, <1>7
    <2>2. DOMAIN data = 1..size /\ DOMAIN << >> = {}
      OBVIOUS
    <2> QED BY <2>1, <2>2
  <1>8. ToSet(data) = {list[offset + k] : k \in 1..size}
    BY DEF ToSet
  <1>9. \A k \in 1..size : offset + k \in 1..n
    BY <1>4, <1>5
  <1>10. ASSUME NEW k \in 1..n, offset < k, k <= offset + per_page
         PROVE  list[k] \in ToSet(data)
    <2>1. k - offset \in 1..size /\ offset + (k - offset) = k
      BY <1>4, <1>5, <1>10
    <2> QED BY <1>8, <2>1
  <1> HIDE DEF data
  <1> QED BY <1>3, <1>6, <1>7, <1>8, <1>9, <1>10

\* The first request of a walk.
LEMMA StartKeepsReadInv ==
    ASSUME ReadInv, UNCHANGED vars, NEW s \in Starts, NEW u \in Ends, NEW m \in Filters,
           NEW o \in {"ASC", "DESC"}, NEW pp \in PageSizes, StartWalk(s, u, m, o, pp)
    PROVE  ReaderType' /\ WalkInv' /\ FiguresInv' /\ GroupsCoverTotal'
  <1>0. IndInv /\ TableInv /\ [Next]_vars /\ pp \in Nat
    BY PagesAssumption DEF ReadInv
  <1>1. PICK a \in Nat, b \in Nat : a = Since(s) /\ b = Until(u) /\ (~s.preset => a = s.at)
    BY <1>0, RangeFacts
  <1>2. reader' = [pc |-> "count", since |-> s, until |-> u, model |-> m,
                   order |-> o, per_page |-> pp, page |-> 1, total |-> 0,
                   from |-> a, upto |-> b, seen |-> {}, must |-> Matching(a, b, m)]
    BY <1>1 DEF StartWalk
  <1>3. Matching(a, b, m) \subseteq Nat
    <2>1. Len(table) \in Nat /\ DOMAIN table = 1..Len(table)
      BY <1>0, TableGrows
    <2> QED BY <2>1 DEF Matching
  <1>4. ReaderType'
    BY <1>2, <1>3 DEF ReaderType, Idle
  <1>5. Asked' = Matching(a, b, m)
    <2>1. Asked' = Matching(a, b, m)'
      BY <1>2 DEF Asked, Matching, InRange
    <2> QED BY <2>1, ReadsOnly
  <1>6. \A i \in Matching(a, b, m) : Rank(i)' \in Nat
    <2>1. \A i : Rank(i)' = RankIn(a, b, m, o, i)'
      BY <1>2 DEF Rank, RankIn, ByTime, Matching, InRange, Older, Predecessors
    <2>2. \A i \in Matching(a, b, m) : RankIn(a, b, m, o, i)' \in Nat
      <3>1. b <= b
        OBVIOUS
      <3> QED BY <1>0, <3>1, WalkKeeps
    <2> QED BY <2>1, <2>2
  <1>7. b = Until(u)' /\ Until(reader.until)' = Until(u)'
    BY <1>1, <1>2, ReadsOnly DEF Until
  <1>8. WalkInv'
    <2>1. \A i \in Matching(a, b, m) : ~(Rank(i)' < (1 - 1) * pp)
      BY <1>0, <1>6
    <2>2. /\ reader'.upto = b /\ reader'.page = 1 /\ reader'.per_page = pp /\ reader'.from = a
          /\ reader'.since = s /\ reader'.must = Matching(a, b, m) /\ reader'.pc = "count"
      BY <1>2
    <2>3. b <= Until(reader.until)'
      BY <1>7
    <2> QED BY <1>1, <1>5, <2>1, <2>2, <2>3 DEF WalkInv
  <1> QED BY <1>2, <1>4, <1>8 DEF FiguresInv, GroupsCoverTotal

\* The count of a page.
LEMMA CountKeepsReadInv ==
    ASSUME ReadInv, UNCHANGED vars, CountLogs
    PROVE  ReaderType' /\ WalkInv' /\ FiguresInv' /\ GroupsCoverTotal'
  <1>0. IndInv /\ TableInv /\ ReaderType /\ WalkInv /\ [Next]_vars /\ reader.pc = "count"
    BY DEF ReadInv, CountLogs
  <1>1. /\ reader \in [pc : {"count", "page", "walked"}, since : Starts, until : Ends,
                       model : Filters, order : {"ASC", "DESC"}, per_page : PageSizes,
                       page : Nat \ {0}, total : Nat, from : Nat, upto : Nat,
                       seen : SUBSET Nat, must : SUBSET Nat]
        /\ reader.since \in Starts /\ reader.until \in Ends /\ reader.upto \in Nat
        /\ reader.per_page \in Nat \ {0} /\ reader.page \in Nat \ {0}
    BY <1>0, WalkType
  <1>2. PICK a \in Nat, b \in Nat, s \in Starts, u \in Ends, m \in Filters :
            /\ s = reader.since /\ u = reader.until /\ m = reader.model
            /\ a = Since(s) /\ b = Until(u) /\ (~s.preset => a = s.at)
    BY <1>0, <1>1, RangeFacts
  <1>3. PICK n \in Nat : n = Cardinality(Matching(a, b, m))
    BY <1>0, FiguresKeep
  <1>4. reader' = [reader EXCEPT !.pc = "page", !.from = a, !.upto = b, !.total = n]
    BY <1>2, <1>3 DEF CountLogs
  <1>5. ReaderType'
    <2>1. reader' \in [pc : {"count", "page", "walked"}, since : Starts, until : Ends,
                       model : Filters, order : {"ASC", "DESC"}, per_page : PageSizes,
                       page : Nat \ {0}, total : Nat, from : Nat, upto : Nat,
                       seen : SUBSET Nat, must : SUBSET Nat]
      BY <1>1, <1>4
    <2> QED BY <2>1 DEF ReaderType
  <1>6. /\ reader'.pc = "page" /\ reader'.from = a /\ reader'.upto = b /\ reader'.since = s
        /\ reader'.until = u /\ reader'.model = m /\ reader'.order = reader.order
        /\ reader'.page = reader.page /\ reader'.per_page = reader.per_page
        /\ reader'.must = reader.must /\ reader'.seen = reader.seen
    BY <1>1, <1>2, <1>4
  <1>7. b = Until(reader.until)' /\ reader.upto <= b
    <2>1. Until(reader.until)' = Until(u)' /\ Until(u)' = Until(u)
      BY <1>6, ReadsOnly DEF Until
    <2> QED BY <1>0, <1>2, <2>1 DEF WalkInv
  <1>8. ASSUME ~s.preset
        PROVE  /\ \A i \in reader.must : i \in Asked'
               /\ \A i \in reader.must : Rank(i)' < (reader.page - 1) * reader.per_page => i \in reader.seen
               /\ a = s.at
    <2>1. reader.from = a
      BY <1>0, <1>2, <1>8 DEF WalkInv
    <2> QED BY <1>0, <1>2, <1>6, <1>7, <1>8, <2>1, WalkHolds
  <1>9. reader.page = 1 \/ (reader.page - 2) * reader.per_page < Len(table')
    BY <1>0 DEF WalkInv, vars
  <1>10. WalkInv'
    BY <1>6, <1>7, <1>8, <1>9 DEF WalkInv
  <1> QED BY <1>5, <1>6, <1>10 DEF FiguresInv, GroupsCoverTotal

\* The page a reader is about to ask for: its offset is a u32, its rows are rows
\* of the table, it is empty only beyond the last row, and it has the rows of
\* its ranks.
LEMMA NextPage ==
    ASSUME ReadInv, reader.pc = "page", NEW data,
           data = Page(Sorted(Asked, reader.order), reader.page, reader.per_page),
           NEW offset, offset = (reader.page - 1) * reader.per_page
    PROVE  /\ offset \in Nat
           /\ ToSet(data) \subseteq Nat
           /\ data # << >> => offset < Len(table)
           /\ \A i \in Asked : Rank(i) \in Nat
           /\ data = << >> => \A i \in Asked : Rank(i) < offset
           /\ \A i \in Asked : offset <= Rank(i) /\ Rank(i) < offset + reader.per_page => i \in ToSet(data)
  <1>0. IndInv /\ TypeOK /\ TableInv /\ ReaderType /\ WalkInv
    BY DEF ReadInv, IndInv
  <1>1. /\ reader.order \in {"ASC", "DESC"} /\ reader.page \in Nat \ {0}
        /\ reader.per_page \in PageSizes /\ reader.per_page \in Nat \ {0}
    BY <1>0, WalkType
  <1>2. PICK p \in Nat \ {0}, w \in Nat \ {0}, o \in {"ASC", "DESC"} :
            p = reader.page /\ w = reader.per_page /\ o = reader.order
    BY <1>1
  <1>3. /\ Len(table) \in Nat /\ Cardinality(Requests) \in Nat /\ U32 \in Nat
        /\ Len(table) <= Cardinality(Requests) /\ Cardinality(Requests) + w <= U32
    BY <1>0, <1>1, <1>2, TableBounded, PagesAssumption
  <1>4. offset \in Nat /\ offset < U32
    <2>1. CASE p = 1
      BY <1>2, <1>3, <2>1
    <2>2. CASE p # 1
      <3>1. (p - 2) * w < Len(table)
        BY <1>0, <1>2, <2>2 DEF WalkInv
      <3>2. PICK q \in Nat : q = p - 2
        BY <2>2
      <3>3. (p - 1) * w = q * w + w /\ q * w \in Nat
        BY <3>2
      <3>4. q * w < Len(table) /\ offset = q * w + w
        BY <1>2, <3>1, <3>2, <3>3
      <3>5. PICK x \in Nat : x = q * w
        BY <3>3
      <3>6. x < Len(table) /\ offset = x + w
        BY <3>4, <3>5
      <3> QED BY <1>3, <3>6
    <2> QED BY <2>1, <2>2
  <1> DEFINE R == ByTime(Asked, o)
             n == Cardinality(Asked)
             list == Arranged(Asked, R)
  <1>5. Asked \subseteq DOMAIN table /\ DOMAIN table = 1..Len(table)
    BY <1>0, LenProperties DEF Asked, Matching, TypeOK
  <1>6. IsFiniteSet(Asked) /\ Orders(R, Asked)
    BY <1>0, <1>5, TimeOrders
  <1>7. n \in Nat /\ n <= Len(table)
    <2>1. PICK l \in Nat : l = Len(table)
      BY <1>3
    <2>2. IsFiniteSet(1..l) /\ Cardinality(1..l) = l
      BY FS_Interval
    <2> QED BY <1>5, <2>1, <2>2, CardinalityGrows
  <1>8. \A i : Rank(i) = Cardinality(Predecessors(Asked, R, i))
    BY <1>2 DEF Rank, RankIn, Asked
  <1>9. data = Page(list, p, w)
    BY <1>2 DEF Sorted
  <1> HIDE DEF R
  <1>10. /\ list \in [1..n -> Asked]
         /\ \A i \in Asked : \E k \in 1..n : list[k] = i
         /\ \A k \in 1..n : Cardinality(Predecessors(Asked, R, list[k])) = k - 1
    BY <1>6, ArrangedFacts
  <1> HIDE DEF list, n
  <1>11. /\ offset >= n => data = << >>
         /\ offset < n => data # << >>
         /\ ToSet(data) \subseteq Asked
         /\ \A k \in 1..n : offset < k /\ k <= offset + w => list[k] \in ToSet(data)
    <2>1. offset = (p - 1) * w
      BY <1>2
    <2>2. /\ offset >= n => Page(list, p, w) = << >>
          /\ offset < n => Page(list, p, w) # << >>
          /\ ToSet(Page(list, p, w)) \subseteq Asked
          /\ \A k \in 1..n : offset < k /\ k <= offset + w => list[k] \in ToSet(Page(list, p, w))
      <3>1. n \in Nat /\ list \in [1..n -> Asked] /\ offset \in Nat /\ offset < U32
        BY <1>4, <1>7, <1>10
      <3> QED BY <2>1, <3>1, PageFacts
    <2> QED BY <1>9, <2>2
  <1>12. \A i \in Asked : \E k \in 1..n : list[k] = i /\ Rank(i) = k - 1
    BY <1>8, <1>10
  <1>13. \A i \in Asked : Rank(i) \in Nat /\ Rank(i) < n
    BY <1>7, <1>12
  <1>14. ASSUME NEW i \in Asked, offset <= Rank(i), Rank(i) < offset + w
         PROVE  i \in ToSet(data)
    <2>1. PICK k \in 1..n : list[k] = i /\ Rank(i) = k - 1
      BY <1>12
    <2>2. offset < k /\ k <= offset + w
      BY <1>4, <1>7, <1>14, <2>1
    <2> QED BY <1>11, <2>1, <2>2
  <1>15. ToSet(data) \subseteq Nat
    BY <1>3, <1>5, <1>11
  <1>16. data # << >> => offset < Len(table)
    BY <1>3, <1>4, <1>7, <1>11
  <1>17. data = << >> => \A i \in Asked : Rank(i) < offset
    BY <1>4, <1>7, <1>11, <1>13
  <1> QED BY <1>2, <1>4, <1>13, <1>14, <1>15, <1>16, <1>17

\* The page itself.
LEMMA QueryKeepsReadInv ==
    ASSUME ReadInv, UNCHANGED vars, QueryLogs
    PROVE  ReaderType' /\ WalkInv' /\ FiguresInv' /\ GroupsCoverTotal'
  <1>0. IndInv /\ TableInv /\ ReaderType /\ WalkInv /\ [Next]_vars /\ reader.pc = "page"
    BY DEF ReadInv, QueryLogs
  <1>1. /\ reader \in [pc : {"count", "page", "walked"}, since : Starts, until : Ends,
                       model : Filters, order : {"ASC", "DESC"}, per_page : PageSizes,
                       page : Nat \ {0}, total : Nat, from : Nat, upto : Nat,
                       seen : SUBSET Nat, must : SUBSET Nat]
        /\ reader.since \in Starts /\ reader.until \in Ends /\ reader.upto \in Nat
        /\ reader.per_page \in Nat \ {0} /\ reader.page \in Nat \ {0}
    BY <1>0, WalkType
  <1>2. PICK data : data = Page(Sorted(Asked, reader.order), reader.page, reader.per_page)
    OBVIOUS
  <1>3. PICK offset : offset = (reader.page - 1) * reader.per_page
    OBVIOUS
  <1>4. reader' = [reader EXCEPT !.pc = IF data = << >> THEN "walked" ELSE "count",
                                 !.page = @ + 1, !.seen = @ \cup ToSet(data)]
    BY <1>2 DEF QueryLogs, Asked
  <1>5. /\ offset \in Nat
        /\ ToSet(data) \subseteq Nat
        /\ data # << >> => offset < Len(table)
        /\ \A i \in Asked : Rank(i) \in Nat
        /\ data = << >> => \A i \in Asked : Rank(i) < offset
        /\ \A i \in Asked : offset <= Rank(i) /\ Rank(i) < offset + reader.per_page => i \in ToSet(data)
    BY <1>0, <1>2, <1>3, NextPage
  <1>6. ReaderType'
    <2>1. reader' \in [pc : {"count", "page", "walked"}, since : Starts, until : Ends,
                       model : Filters, order : {"ASC", "DESC"}, per_page : PageSizes,
                       page : Nat \ {0}, total : Nat, from : Nat, upto : Nat,
                       seen : SUBSET Nat, must : SUBSET Nat]
      <3>1. reader.page + 1 \in Nat \ {0} /\ reader.seen \cup ToSet(data) \subseteq Nat
        BY <1>1, <1>5
      <3>2. PICK p \in Nat \ {0}, S \in SUBSET Nat, c \in {"count", "walked"} :
                /\ p = reader.page + 1 /\ S = reader.seen \cup ToSet(data)
                /\ c = IF data = << >> THEN "walked" ELSE "count"
        BY <3>1
      <3>3. reader' = [reader EXCEPT !.pc = c, !.page = p, !.seen = S]
        BY <1>1, <1>4, <3>2
      <3> QED BY <1>1, <3>3
    <2> QED BY <2>1 DEF ReaderType
  <1>7. /\ reader'.pc = (IF data = << >> THEN "walked" ELSE "count")
        /\ reader'.from = reader.from /\ reader'.upto = reader.upto
        /\ reader'.since = reader.since /\ reader'.until = reader.until
        /\ reader'.model = reader.model /\ reader'.order = reader.order
        /\ reader'.page = reader.page + 1 /\ reader'.per_page = reader.per_page
        /\ reader'.must = reader.must /\ reader'.seen = reader.seen \cup ToSet(data)
    BY <1>1, <1>4
  <1>8. reader'.upto <= Until(reader.until)'
    <2>1. Until(reader.until)' = Until(reader.until)
      BY <1>7 DEF Until, vars
    <2> QED BY <1>0, <1>7, <2>1 DEF WalkInv
  <1>9. (reader'.page - 2) * reader'.per_page = offset /\ (reader'.page - 1) * reader'.per_page = offset + reader.per_page
    <2>1. PICK p \in Nat, w \in Nat : p = reader.page /\ w = reader.per_page
      BY <1>1
    <2>2. ((p + 1) - 2) * w = (p - 1) * w /\ ((p + 1) - 1) * w = (p - 1) * w + w
      BY <2>1
    <2> QED BY <1>3, <1>7, <2>1, <2>2
  <1>10. reader'.pc # "walked" => (reader'.page - 2) * reader'.per_page < Len(table')
    <2>1. table' = table
      BY DEF vars
    <2> QED BY <1>5, <1>7, <1>9, <2>1
  <1>11. ASSUME ~reader.since.preset
         PROVE  /\ \A i \in reader.must : i \in Asked'
                /\ reader.from = reader.since.at
                /\ \A i \in reader.must : Rank(i)' < offset + reader.per_page => i \in reader'.seen
                /\ data = << >> => reader.must \subseteq reader'.seen
    <2>1. \A i \in reader.must : i \in Asked'
      BY <1>0, <1>1, <1>7, <1>11, WalkHolds
    <2>2. \A i : Rank(i)' = Rank(i)
      BY <1>7 DEF Rank, RankIn, ByTime, Matching, InRange, Older, Predecessors, vars
    <2>3. /\ reader.must \subseteq Asked /\ reader.from = reader.since.at
          /\ \A i \in reader.must : Rank(i) < offset => i \in reader.seen
      BY <1>0, <1>3, <1>11 DEF WalkInv
    <2>4. \A i \in reader.must : Rank(i) < offset + reader.per_page => i \in reader.seen \cup ToSet(data)
      BY <1>5, <2>3
    <2>5. data = << >> => reader.must \subseteq reader.seen
      BY <1>5, <2>3
    <2> QED BY <1>7, <2>1, <2>2, <2>3, <2>4, <2>5
  <1>12. WalkInv'
    BY <1>7, <1>8, <1>9, <1>10, <1>11 DEF WalkInv
  <1> QED BY <1>6, <1>7, <1>12 DEF FiguresInv, GroupsCoverTotal

\* What the groups show: by tier every row, and by model every row but those of
\* a model that gives way to another.
LEMMA GroupFacts ==
    ASSUME NEW rows
    PROVE  /\ TierFigures(rows) = rows
           /\ ModelFigures(rows) \subseteq rows
           /\ \A i \in rows \ ModelFigures(rows) : \E j \in ModelFigures(rows) : GaveWay(i, j)
  <1> DEFINE groups == {ModelOf[table[i]] : i \in rows}
             kept == {CHOOSE m \in groups : Lower[m] = name : name \in {Lower[m] : m \in groups}}
  <1>1. TierFigures(rows) = rows
    BY DEF TierFigures, InGroups
  <1>2. ModelFigures(rows) = {i \in rows : ModelOf[table[i]] \in kept}
    BY DEF ModelFigures, InGroups
  <1>3. ASSUME NEW i \in rows, ModelOf[table[i]] \notin kept
        PROVE  \E j \in rows : ModelOf[table[j]] \in kept /\ GaveWay(i, j)
    <2> DEFINE g == ModelOf[table[i]]
               c == CHOOSE m \in groups : Lower[m] = Lower[g]
    <2>1. g \in groups
      OBVIOUS
    <2>2. c \in groups /\ Lower[c] = Lower[g]
      BY <2>1
    <2>3. c \in kept
      BY <2>1
    <2>4. c # g
      BY <1>3, <2>3
    <2> HIDE DEF c, kept
    <2>5. PICK j \in rows : ModelOf[table[j]] = c
      BY <2>2
    <2> QED BY <2>2, <2>3, <2>4, <2>5 DEF GaveWay
  <1> HIDE DEF kept
  <1> QED BY <1>1, <1>2, <1>3

\* The totals of the figures.
LEMMA AggregateKeepsReadInv ==
    ASSUME ReadInv, UNCHANGED vars, NEW s \in Starts, NEW u \in Ends, NEW m \in Filters,
           NEW g \in {"model", "tier"}, Aggregate(s, u, m, g)
    PROVE  ReaderType' /\ WalkInv' /\ FiguresInv' /\ GroupsCoverTotal'
  <1>0. IndInv /\ TableInv /\ [Next]_vars
    BY DEF ReadInv
  <1>1. PICK a \in Nat, b \in Nat : a = Since(s) /\ b = Until(u)
    BY <1>0, RangeFacts
  <1>2. reader' = [pc |-> "group", from |-> a, upto |-> b, model |-> m,
                   group_by |-> g, shown |-> {}, counted |-> Matching(a, b, m)]
    BY <1>1 DEF Aggregate
  <1>3. Matching(a, b, m) \subseteq Nat
    <2>1. Len(table) \in Nat /\ DOMAIN table = 1..Len(table)
      BY <1>0, TableGrows
    <2> QED BY <2>1 DEF Matching
  <1>4. ReaderType'
    BY <1>2, <1>3 DEF ReaderType
  <1>5. Asked' = Matching(a, b, m)
    <2>1. Asked' = Matching(a, b, m)'
      BY <1>2 DEF Asked, Matching, InRange
    <2> QED BY <2>1, ReadsOnly
  <1>6. FiguresInv'
    BY <1>2, <1>5 DEF FiguresInv
  <1> QED BY <1>2, <1>4, <1>6 DEF WalkInv, GroupsCoverTotal

\* The groups of the figures.
LEMMA GroupKeepsReadInv ==
    ASSUME ReadInv, UNCHANGED vars, GroupStats
    PROVE  ReaderType' /\ WalkInv' /\ FiguresInv' /\ GroupsCoverTotal'
  <1>0. IndInv /\ TypeOK /\ TableInv /\ ReaderType /\ FiguresInv /\ [Next]_vars /\ reader.pc = "group"
    BY DEF ReadInv, IndInv, GroupStats
  <1>1. /\ reader \in [pc : {"group", "figures"}, from : Nat, upto : Nat, model : Filters,
                       group_by : {"model", "tier"}, shown : SUBSET Nat, counted : SUBSET Nat]
        /\ reader.counted \subseteq Asked /\ reader.group_by \in {"model", "tier"}
    BY <1>0, FiguresType DEF FiguresInv
  <1>2. PICK shown : shown = IF reader.group_by = "model" THEN ModelFigures(Grouped) ELSE TierFigures(Grouped)
    OBVIOUS
  <1>3. reader' = [reader EXCEPT !.pc = "figures", !.shown = shown]
    BY <1>2 DEF GroupStats
  <1>4. /\ reader.counted \subseteq Grouped /\ Grouped \subseteq DOMAIN table
        /\ Grouped \subseteq Nat
    <2>1. Len(table) \in Nat /\ DOMAIN table = 1..Len(table)
      BY <1>0, TableGrows
    <2> QED BY <1>1, <2>1 DEF Asked, Grouped, Matching
  <1>5. /\ shown \subseteq Grouped
        /\ \A i \in reader.counted \ shown :
              reader.group_by = "model" /\ \E j \in shown : GaveWay(i, j)
    BY <1>1, <1>2, <1>4, GroupFacts
  <1>6. ReaderType'
    BY <1>1, <1>3, <1>4, <1>5 DEF ReaderType
  <1>7. /\ reader'.pc = "figures" /\ reader'.shown = shown /\ reader'.counted = reader.counted
        /\ reader'.group_by = reader.group_by /\ reader'.from = reader.from
        /\ reader'.upto = reader.upto /\ reader'.model = reader.model
    BY <1>1, <1>3
  <1>8. Asked' = Asked /\ Grouped' = Grouped
    BY <1>7 DEF Asked, Grouped, Matching, InRange, vars
  <1>9. \A i, j : GaveWay(i, j)' <=> GaveWay(i, j)
    BY DEF GaveWay, vars
  <1>10. FiguresInv'
    BY <1>1, <1>7, <1>8 DEF FiguresInv
  <1>11. GroupsCoverTotal'
    BY <1>5, <1>7, <1>8, <1>9 DEF GroupsCoverTotal
  <1> QED BY <1>6, <1>7, <1>10, <1>11 DEF WalkInv

\* A step of the log or of the reader, whichever comes next.
LEMMA NextReadInv == ReadInv /\ [ReadNext]_allVars => ReadInv'
  <1> SUFFICES ASSUME ReadInv, [ReadNext]_allVars PROVE ReadInv'
    OBVIOUS
  <1>1. CASE [Next]_vars /\ UNCHANGED reader
    BY <1>1, LogKeepsReadInv
  <1>2. CASE Reader /\ UNCHANGED vars
    <2>1. IndInv' /\ TableInv'
      <3>1. IndInv /\ TableInv /\ [Next]_vars
        BY <1>2 DEF ReadInv
      <3> QED BY <3>1, NextIndInv, TableGrows
    <2>2. ReaderType' /\ WalkInv' /\ FiguresInv' /\ GroupsCoverTotal'
      <3>1. CASE \E s \in Starts, u \in Ends, m \in Filters :
                     \E o \in {"ASC", "DESC"}, pp \in PageSizes : StartWalk(s, u, m, o, pp)
        BY <1>2, <3>1, StartKeepsReadInv
      <3>2. CASE \E s \in Starts, u \in Ends, m \in Filters :
                     \E g \in {"model", "tier"} : Aggregate(s, u, m, g)
        BY <1>2, <3>2, AggregateKeepsReadInv
      <3>3. CASE CountLogs
        BY <1>2, <3>3, CountKeepsReadInv
      <3>4. CASE QueryLogs
        BY <1>2, <3>4, QueryKeepsReadInv
      <3>5. CASE GroupStats
        BY <1>2, <3>5, GroupKeepsReadInv
      <3>6. CASE Finish
        <4>1. reader' = Idle /\ reader'.pc = "idle"
          BY <3>6 DEF Finish, Idle
        <4> QED BY <4>1 DEF ReaderType, WalkInv, FiguresInv, GroupsCoverTotal, Idle
      <3> QED BY <1>2, <3>1, <3>2, <3>3, <3>4, <3>5, <3>6 DEF Reader
    <2> QED BY <2>1, <2>2 DEF ReadInv
  <1> QED BY <1>1, <1>2 DEF ReadNext, allVars

\* The log and its reader keep to ReadInv.
THEOREM ReaderInvariance == ReadSpec => []ReadInv
  <1>1. ReadInit => ReadInv
    <2> SUFFICES ASSUME ReadInit PROVE ReadInv
      OBVIOUS
    <2>1. IndInv
      BY InitIndInv DEF ReadInit
    <2>2. table = << >> /\ reader = Idle /\ reader.pc = "idle"
      BY DEF ReadInit, Init, Idle
    <2>3. TableInv
      BY <2>2 DEF TableInv
    <2> QED BY <2>1, <2>2, <2>3 DEF ReadInv, ReaderType, WalkInv, FiguresInv, GroupsCoverTotal
  <1> QED BY <1>1, NextReadInv, PTL DEF ReadSpec

\* However the writer comes in between, for any log, any filter, either order
\* and pages of any size, a walk to the first empty page of GET /v1/requests has
\* shown every row that was there when it began.
THEOREM WalkComplete == ReadSpec => []WalkMissesNothing
  <1>1. ReadInv => WalkMissesNothing
    BY DEF ReadInv, WalkInv, WalkMissesNothing
  <1> QED BY <1>1, ReaderInvariance, PTL

\* However the writer comes in between, the groups of GET /v1/stats show every
\* request its total counts and none that is not in the table, but for the
\* requests of a model that gives way to another of the same name in lower case.
THEOREM FiguresComplete == ReadSpec => []GroupsCoverTotal
  <1>1. ReadInv => GroupsCoverTotal
    BY DEF ReadInv
  <1> QED BY <1>1, ReaderInvariance, PTL
=============================================================================
