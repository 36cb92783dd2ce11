----------------------------- MODULE LogQueries -----------------------------
(***************************************************************************)
(* The endpoints that read the request log while it is being written: the  *)
(* pages of GET /v1/requests (src/proxy/logs.rs, src/storage/logs.rs) and  *)
(* the figures of GET /v1/stats (src/proxy/stats.rs, src/storage/stats.rs).*)
(* Each handler runs two statements, and the writer may come in between.   *)
(*                                                                         *)
(* One reader is modelled: it walks through the pages until it gets an     *)
(* empty one, or asks for the figures.                                     *)
(***************************************************************************)
EXTENDS RequestLog, Ordering, FiniteSets, FiniteSetsExt, SequencesExt

CONSTANTS
    ModelOf,           \* ModelOf[r]: the model of request r
    Lower,             \* Lower[m]: the name of model m in lower case
    TierOf,            \* TierOf[r]: the tier logged for r, or "unknown"
    ConfiguredModels,  \* the models the configuration names
    Filters,           \* values of model: names, or AnyModel
    PageSizes,         \* values of per_page
    Starts,            \* values of since and range
    Ends,              \* values of until, in half seconds
    U32                \* 2^32 in the code

\* Pages are not empty, and the log is small enough for an offset to be a u32.
ASSUME PagesAssumption ==
    /\ IsFiniteSet(Requests)
    /\ PageSizes \subseteq Nat \ {0}
    /\ \A n \in PageSizes : Cardinality(Requests) + n <= U32
    /\ U32 \in Nat

\* A range starts at a moment, or a number of half seconds ago.
ASSUME StartsAssumption == Starts \subseteq [preset : BOOLEAN, at : Nat] /\ Ends \subseteq Nat

AnyModel == "any"    \* no model filter
Now == 1000000       \* until is absent

VARIABLE reader
allVars == <<vars, reader>>

Idle == [pc |-> "idle"]
-----------------------------------------------------------------------------
(* The queries *)

\* timestamp >= ? AND timestamp <= ? compares strings.  A row says "05Z" where
\* the bounds say "05+00:00" or "05.5+00:00", and Z comes after both: since is
\* rounded down, and the rows of the very second of until are left out.
InRange(s, since, until) == s >= since \div 2 /\ s < until \div 2

\* The range of a request: a preset counts back from now, which is also the
\* end when until is absent (resolve_time_range).
Since(since) == IF ~since.preset THEN since.at
                ELSE IF clock > since.at THEN clock - since.at ELSE 0
Until(until) == IF until = Now THEN clock ELSE until

\* The rows of a query, as a set of positions in the table.
Matching(since, until, model) ==
    {i \in DOMAIN table :
        /\ InRange(stamp[table[i]], since, until)
        /\ model = AnyModel \/ Lower[ModelOf[table[i]]] = Lower[model]}

\* ORDER BY timestamp, read off its index, where ids break ties.
Older(i, j) == \/ stamp[table[i]] < stamp[table[j]]
               \/ stamp[table[i]] = stamp[table[j]] /\ i < j

ByTime(rows, order) ==
    {p \in rows \X rows : IF order = "ASC" THEN Older(p[1], p[2]) ELSE Older(p[2], p[1])}

Sorted(rows, order) == Arranged(rows, ByTime(rows, order))

\* LIMIT per_page OFFSET (page - 1) * per_page, in u32.
Page(list, page, per_page) ==
    LET offset == ((page - 1) * per_page) % U32
    IN  [k \in 1..Min({per_page, IF offset < Len(list) THEN Len(list) - offset ELSE 0}) |->
            list[offset + k]]

\* validate_model_filter: a model that is neither configured nor logged is 404.
Known(model) ==
    model # AnyModel =>
        \E m \in ConfiguredModels \cup {ModelOf[table[i]] : i \in DOMAIN table} :
            Lower[m] = Lower[model]
-----------------------------------------------------------------------------
(* GET /v1/requests *)

\* The first request of a walk.  must is history: what a walk has to show.
StartWalk(since, until, model, order, per_page) ==
    /\ reader = Idle
    /\ Known(model)
    /\ reader' = [pc |-> "count", since |-> since, until |-> until, model |-> model,
                  order |-> order, per_page |-> per_page, page |-> 1, total |-> 0,
                  from |-> Since(since), upto |-> Until(until),
                  seen |-> {}, must |-> Matching(Since(since), Until(until), model)]

\* The range is resolved and the rows are counted.
CountLogs ==
    /\ reader.pc = "count"
    /\ LET from == Since(reader.since)
           upto == Until(reader.until)
       IN  reader' = [reader EXCEPT !.pc = "page", !.from = from, !.upto = upto,
                        !.total = Cardinality(Matching(from, upto, reader.model))]

\* Mutated form of QueryLogs: the walk is over when the pages counted are.
QueryLogsCounted ==
    /\ reader.pc = "page"
    /\ LET rows == Matching(reader.from, reader.upto, reader.model)
           data == Page(Sorted(rows, reader.order), reader.page, reader.per_page)
       IN  reader' = [reader EXCEPT
               !.pc = IF reader.page * reader.per_page >= reader.total THEN "walked" ELSE "count",
               !.page = @ + 1, !.seen = @ \cup ToSet(data)]

\* The page is read, and the reader asks for the next one.
QueryLogs ==
    /\ reader.pc = "page"
    /\ LET rows == Matching(reader.from, reader.upto, reader.model)
           data == Page(Sorted(rows, reader.order), reader.page, reader.per_page)
       IN  reader' = [reader EXCEPT !.pc = IF data = << >> THEN "walked" ELSE "count",
                                    !.page = @ + 1, !.seen = @ \cup ToSet(data)]
-----------------------------------------------------------------------------
(* GET /v1/stats *)

\* query_aggregate, over the same range the second statement will use.  For the
\* numbers of an answer the model keeps the rows they count.
Aggregate(since, until, model, group_by) ==
    /\ reader = Idle
    /\ Known(model)
    /\ reader' = [pc |-> "group", from |-> Since(since), upto |-> Until(until), model |-> model,
                  group_by |-> group_by, shown |-> {},
                  counted |-> Matching(Since(since), Until(until), model)]

\* The rows in the groups named in keys.
InGroups(rows, keyOf, keys) == {i \in rows : keyOf[table[i]] \in keys}

\* Mutated form of ModelFigures: models that are not configured are left out.
ConfiguredFigures(rows) == InGroups(rows, ModelOf, ConfiguredModels)

\* query_grouped_by_model's groups are put into a map by their lower-case
\* names, where one of several groups of a name stays; the configured models
\* take theirs out of it, the others stay.
ModelFigures(rows) ==
    LET groups == {ModelOf[table[i]] : i \in rows}
        kept == {CHOOSE m \in groups : Lower[m] = name : name \in {Lower[m] : m \in groups}}
    IN  InGroups(rows, ModelOf, kept)

\* query_grouped_by_tier: the three tiers, and unknown.
TierFigures(rows) == InGroups(rows, TierOf, {TierOf[table[i]] : i \in rows})

\* The rows of the second statement: by model, it takes no model filter.
Grouped ==
    Matching(reader.from, reader.upto, IF reader.group_by = "model" THEN AnyModel ELSE reader.model)

GroupStats ==
    /\ reader.pc = "group"
    /\ reader' = [reader EXCEPT !.pc = "figures",
                    !.shown = IF reader.group_by = "model" THEN ModelFigures(Grouped)
                              ELSE TierFigures(Grouped)]

Finish == reader.pc \in {"walked", "figures"} /\ reader' = Idle

Reader ==
    \/ \E since \in Starts, until \in Ends, model \in Filters :
          \/ \E order \in {"ASC", "DESC"}, per_page \in PageSizes :
                StartWalk(since, until, model, order, per_page)
          \/ \E group_by \in {"model", "tier"} : Aggregate(since, until, model, group_by)
    \/ CountLogs \/ QueryLogs \/ GroupStats \/ Finish

ReadInit == Init /\ reader = Idle
ReadNext == (Next /\ UNCHANGED reader) \/ (Reader /\ UNCHANGED vars)
ReadSpec == ReadInit /\ [][ReadNext]_allVars /\ WF_vars(Writer)
-----------------------------------------------------------------------------
\* A reader who turns the pages until one is empty has seen every row that was
\* there when it began, however many rows the writer has added meanwhile (rows
\* are never deleted and timestamps never change, so a page can only slip
\* back).  The order and the size of the pages do not matter, but the start of
\* the range has to be the reader's own: a preset moves on between two pages,
\* rows drop out in front, and others slip onto a page that was read already.
WalkMissesNothing ==
    reader.pc = "walked" /\ ~reader.since.preset => reader.must \subseteq reader.seen

\* The model of row i gave way to that of row j, the same name in another case.
GaveWay(i, j) ==
    /\ ModelOf[table[i]] # ModelOf[table[j]]
    /\ Lower[ModelOf[table[i]]] = Lower[ModelOf[table[j]]]

\* The groups of /v1/stats show every request that its total counts, and no
\* more than the rows there are by the time of the second statement, with one
\* exception: grouped by model, of the models whose names differ only in case
\* one is shown and the requests of the others are missing (the map of groups
\* is keyed by lower-case names).  A request is missing for no other reason.
GroupsCoverTotal ==
    reader.pc = "figures" =>
        /\ reader.shown \subseteq Grouped
        /\ \A i \in reader.counted \ reader.shown :
              reader.group_by = "model" /\ \E j \in reader.shown : GaveWay(i, j)
=============================================================================
