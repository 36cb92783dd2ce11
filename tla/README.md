# A TLA+ verification of arbstr

arbstr is an HTTP proxy in Rust: it takes OpenAI-style chat completions, picks the
cheapest provider that may serve them, forwards them with retries, fallback and
circuit breakers, bills them through an external vault and logs them in SQLite.
This directory holds TLA+ models of its parts from the configuration file to the
settlement, TLC configurations that check them on small instances, and TLAPS proofs, for
every instance, of all their safety properties. Paths below are relative to the
repository's crate (`proxy/...` is `src/proxy/...`).

## 1. Inventory

| Component | State | Operations | Interacts with |
|---|---|---|---|
| Breaker, `proxy/circuit_breaker.rs` `CircuitBreakerInner` | state, failure count, `opened_at`, trip count, `probe_in_flight` | `check_state`, `record_*` | owned by the registry, under a mutex |
| Registry and `ProbeGuard`, same file | one breaker and one `watch` channel per provider | `acquire_permit` (may wait), `record_*`, guard success / failure / drop | every request handler |
| Chat handler, `proxy/handlers.rs`, `proxy/retry.rs` | per request: tier, permits, probe, attempts, reservation | resolve candidates, reserve, send with retries, report, respond | registry, router, vault, log, stream task |
| Vault client and reconciliation, `proxy/vault.rs` | backpressure flag, table `pending_settlements` | reserve, settle, release, replay pass every 60 s | the vault (another program), handlers, SQLite |
| Streaming relay, `handle_streaming_response` | channel of 32 chunks, result handle | forward, observe, trailing event, log update, settle or release | provider, client, log, vault |
| SSE observer, `proxy/stream.rs` | line buffer, usage, `[DONE]` seen | per chunk; result on drop | lives inside the relay's stream |
| Request log, `storage/writer.rs`, `storage/logging.rs` | channel of 1024 commands, table `requests` | queue INSERT, queue UPDATE, writer loop | handlers, stream tasks, SQLite |
| Router, `router/selector.rs` | none (configuration) | candidates by model, tier, policy, cost | chat handler |
| Complexity scorer, `router/complexity.rs` | none | score of a conversation, tier of a score | chat handler |
| Discovery, `proxy/discovery.rs` | the models of each provider, fixed after startup | fill in the models of a provider | configuration |
| Configuration, `config.rs` | fixed after startup | load, expand variables, validate | everybody |
| Server, `proxy/server.rs`, `main.rs` | up, draining, final pass | start, route table, graceful shutdown | everybody |
| Read-only endpoints (models, health, cost, providers, stats, logs) | none | queries | registry, SQLite |

What is hard here, and what makes each part correct:

* **Breaker and registry.** Many requests share a breaker, and a request reports an
  outcome long after it got its permit. Waiters have no timeout. Correct means: a
  circuit that takes requests is below its threshold, a probe flag never stays set
  without a probe, no waiter misses the result, a waiter is answered by a probe that
  ended during its wait, an Open circuit comes up for a probe.
* **Handler.** A dozen early returns, two paths, a deadline that cuts a retry loop, a
  client that may leave at every await. Correct means: one log row per answer, one vault
  call per reservation and the right one, a probe is an attempt on the probed
  provider and only that provider's answer closes its circuit, every request is answered.
* **Billing.** Calls get lost, are repeated and arrive late; the process may die between
  any two steps; the table survives. Correct means: a reservation ends at most once and
  as the request ended, nothing decided is forgotten, the table drains.
* **Streaming.** A bounded channel between a provider and a client that may stall or
  leave. Correct means: the client sees what the provider sent; after a disconnect
  the stream is still consumed, logged and billed.
* **Observer.** A line may arrive in any number of chunks, and the buffer has a cap. Correct
  means: what is found does not depend on where the chunks end.
* **Log.** Two writers of one row, a channel that drops what does not fit. Correct means:
  the table says what was accepted, and a failing statement stops nothing.
* **Queries.** Endpoints that run two statements while the writer is at work, and compare
  timestamps as strings. Correct means: pages and figures lose no row that was there.
* **Routing.** Filters, a sort and the removal of duplicates in a certain order; a score that
  picks the tier; a reservation made before the provider is known. Correct means: the
  candidates are the eligible providers by cost, all requests ask in compatible orders,
  the reservation covers whoever answers.
* **Shutdown.** The server waits, without limit, for the connections that are open, then gives
  the reconciliation task two seconds. Correct means: it ends once the connections do, and
  loses no more than the tasks under way.

`PROJECT.json` lists the components with their status and the hazards with the lines
where they bite and the properties that watch them.

## 2. Modules

| Module | Models | Checked by |
|---|---|---|
| `CircuitBreaker` | the methods of `CircuitBreakerInner` as operators on a record | through the two modules below |
| `CircuitBreakerRegistry` | `acquire_permit`, the watch channel, `record_*`, `ProbeGuard`, any number of tasks | `registry`, `registry_single_probe`, proofs |
| `ProbeBroadcast` | what waiting for a probe promises (abstract) | implemented by the registry |
| `CircuitBreaker_proofs` | lemmas about the breaker's methods, used by the next two | TLAPS |
| `CircuitBreakerRegistry_proofs` | the theorems about the registry | TLAPS |
| `ChatRequest` | `resolve_candidates`, `chat_completions`, both paths, `retry_with_fallback`, composed with the breakers | `chat_paths`, `chat_one_provider`, `chat_stuck_probe`, `chat_timeouts` |
| `ChatRequest_proofs` | the theorems about the handlers | TLAPS |
| `VaultBilling` | reserve, spawned settle and release, `pending_settlements`, `reconciliation_loop`, backpressure, crash and graceful shutdown | `vault_billing`, `vault_orphan` |
| `ReservationLedger` | what billing promises (abstract) | implemented by `VaultBilling` |
| `VaultBilling_proofs` | the theorems about billing | TLAPS |
| `SseObserver` | `process_chunk`, `process_line`, `process_data`, `flush_buffer`, `build_result` as operators | through `StreamRelay` |
| `StreamRelay` | the task of `handle_streaming_response`, its channel and client, composed with the observer | `stream_relay`, `stream_settle` |
| `StreamRelay_proofs` | the theorems about the relay | TLAPS |
| `RequestLog` | `DbWriter`, `writer_loop` and the two senders | through `LogQueries` |
| `LogQueries` | the readers of the table, `/v1/requests` and `/v1/stats`, composed with the writer | `log_writer` |
| `LogQueries_proofs` | the theorems about the log and its readers | TLAPS |
| `Ordering` | sorting and adding up, in a form that proofs can unfold | through the two below and `LogQueries` |
| `Router` | `select_candidates`, policies, rates, token estimates, complexity scorer as operators | through `Gateway` |
| `Config` | `expand_env_vars_with`, `from_file_with_env` as operators | through `Gateway` |
| `Gateway` | the process from its file through discovery to requests of a conversation, composing `Router` and `Config` | `routing` |
| `Ordering_proofs` | lemmas about sorting, sums, minimum and maximum, used by the relay, the log and the gateway | TLAPS |
| `Gateway_proofs` | the theorems about configuration, routing, scores and estimates | TLAPS |
| `MC...` | small instances | |

### How state and actions correspond to the code

**CircuitBreaker.** Every method runs under the provider's mutex and is one operator
from the old record to the new one. `opened_at` is the time since it was set, cut off
at `OPEN_DURATION`, because `check_state` only asks whether that much has passed.
`RecordFailure` does not look at the state, as in the code.

**CircuitBreakerRegistry.** `AcquirePermit` is `acquire_permit` up to its first await:
`check_state` and `subscribe` happen under one lock. `Wake` is the rest: the task reads
the value that is current when it runs. `task[t].unseen` is the receiver's
has-changed mark. `CancelWait` is the caller's future being dropped. A permit holder
may report any number of successes and failures at any time, since handlers report all
attempts after the fact. `SendAndLeave` is `record_probe_*` followed by the `send`, both
under the lock, and ends the task's probe. `GuardDrop` is the guard's `Drop`.

**ChatRequest.** One action per stretch between two locks or awaits. `pc` is where the
handler stands: `resolve` (loop over candidates), `waiting` (in `acquire_permit`),
`vault`, `send`, `report` (attempts to the breakers), `guard`, `done`, or `gone` (future
dropped). `AskPermit`/`ProbeVerdict` use the breaker operators directly, so requests
interfere through the breakers as in the program. `Escalate` covers both causes of
escalation (no provider in the tier, all circuits open); `RoutingError` the errors
that do not escalate. `Target` and `LastAttempt` are the retry loop: the primary is
tried `MAX_RETRIES + 1` times, the next candidate once, and a status that cannot be
retried ends it. Provider answers are three classes: retried and counted (500, 502,
503, 504), counted only (other 5xx), neither.

**VaultBilling.** `conn` is the set of open connections, `hold[r]` the vault's state of the
reservation, `verdict[r]` how the request ended. `Connect` opens a connection, `Close` ends it:
the answer has been written, or the client leaves. A post may be answered, be refused with a
final status, which leaves the hold as it was (401, 403, 429) or found it ended, or fail with the
call not arrived, arrived, or still on its way (`late`). `JobPost`/`JobSave` are the spawned task,
`RecCount` to `RecBump` one pass of `reconcile_once`, one action per statement or
post. The rows of a pass are replayed in any order (the code uses the order of
creation). `Crash` loses everything but the table and the vault. `Shutdown`, `Drained`
and `Exit` are `run_server` from the signal on: no connection is accepted any more, a handler that
got its permits late still reserves (`Admit`), `Drained` waits until `conn` is empty, the cancel
signal makes the next pass the last one, and two seconds later the process is gone with whatever was
under way; `Exit` may come at any time after `Drained`, because a pass may take longer.
`calm` becomes true once: from then on statements work and the process is neither
crashed nor stopped. `cut` is history: the jobs that ended with a process or a failed
INSERT.

**SseObserver, StreamRelay.** A body is a sequence of symbols, each a run of bytes that
matters as a whole (`data:`, one half of `[DONE]`, `\n`, bytes that are not UTF-8); a chunk
is any stretch of it. `process_chunk` appends, applies the cap to the buffer with the
whole chunk in it, then takes out lines. The `\r` before a newline is cut off, and
`process_data` trims the payload, so white space (`cr`) may stand around it. The result is
written when the wrapped stream is dropped; that stream is pinned in the task, so this is the
last thing that happens (`UpdateAndBill`). `text` and `resume` are history: all text the task has read, and how much of
it had been read when the buffer was last cleared.

**RequestLog.** `TrySend` drops a command that finds no room. `StreamStarts` may precede
`LogWrite`, because the stream's task is spawned inside `send_to_provider`. The clock counts
half seconds; a row's timestamp has whole seconds.

**LogQueries.** A handler is two steps, `CountLogs` then `QueryLogs`, or `Aggregate` then
`GroupStats`, between which the writer may run. `InRange` is the comparison of strings:
`05Z` comes after `05+00:00` and after `05.5+00:00`, so `since` is rounded down and the rows of
the very second of `until` are left out. The figures keep the rows behind the numbers: `counted`
those of the totals, `shown` those of the groups in the answer. The reader turns pages until one is
empty. Every page is a request of its own and resolves its range anew (`Since`, `Until`): a
preset counts back from now, and now is the end if none is given. The rows are positions of
the table, sorted by timestamp and then by id.

**Router, Config, Gateway.** `Gateway` starts with a file, loads it (`LoadConfig`), asks each
provider for its models (`Discover`), and serves one conversation that grows by `Say`.
`Ask` scores it and selects candidates; `Escalate` covers a tier without providers and one
whose circuits are all open; `Reserve` is the estimate at the frontier rates; `Settle` any
candidate's answer, with any numbers of tokens up to the estimate. `Listen` is only the `bind`
that may fail; what `run_server` sets up before it is the other modules'. `cost_estimate` yields
what the endpoint answers: a provider, the tokens assumed and the price. Prices are exact
thousandths; the code truncates from `f64`, so a bill may be a thousandth less. Candidates are positions of the file until they are sorted, because they
are references there and the sort is stable; `Arranged` puts each member of a set where the
number of members before it says. Keys are sequences of brackets and names. A file without
providers is only warned about (`config.rs:423`), so it is served. A score is an integer out of
`SCALE`; the two sigmoids are tables of which only monotonicity is assumed, and the last
value of a table stands for all that follow. Weights and thresholds may have either sign, as
`serde` accepts them, and the score is clamped.

## 3. Runs

All runs finish in about three and a half minutes or less on two cores.

| Run | Expect | Shows |
|---|---|---|
| `registry` | pass | `TypeOK`, `ClosedBelowThreshold`, `NoStuckProbe`, `NoLostWakeup`; liveness `WaitersAnswered`, `OpenRunsOut`; refinement `ImplementsBroadcast` |
| `registry_single_probe` | violation | a late failure reopens a HalfOpen circuit and a second probe starts beside the first |
| `chat_paths` | pass | `BilledByOutcome`, `LoggedOnce`, `ProbeGoesFirst`, `ClosesOnlyOnItsOwnSuccess` over all paths, with vault and disconnects |
| `chat_one_provider` | pass | `NoStuckProbe` and `RequestsAnswered` where the two defects below cannot occur, with clients that leave |
| `chat_stuck_probe` | violation | two probe permits in one request, one guard |
| `chat_timeouts` | violation | an attempt that the deadline cuts off is not reported, so requests that time out in their first attempt never open a circuit |
| `vault_billing` | pass | `ImplementsLedger`, `RowsAreKept`, `NothingForgotten`, `RecordsAgree` with failing statements, crashes, shutdowns, lost and late calls; `TableDrains`, `BackpressureClears` once these cease; `ShutdownEnds` if the open connections close |
| `vault_orphan` | violation | a disconnect between reserve and answer leaves a reservation nobody ends |
| `stream_relay` | pass | `PassThrough`, `ObserverFaithful`, `ReaderGetsAll`, `DrainsAfterDisconnect` |
| `stream_settle` | violation | a completed stream is released, not settled |
| `log_writer` | pass | `LogMatchesHistory`, `WritesGoThrough` with a full channel and failing statements; `WalkMissesNothing`, `GroupsCoverTotal` for readers meanwhile |
| `routing` | pass | `ExpansionAgrees`, `CandidatesMatchReference` against reference definitions; `OrdersAgree`, `ReservationCovers`, `EndpointsAgree`, `TierNeverFalls` |

### Bounds

* `registry`: one provider, three tasks (a prober and two waiters, or two probers and a
  waiter), the code's threshold of 3, `MaxFailures` 4 (one report past the threshold)
  and `MaxTrips` 3 (trip, reopen under a probe, trip again). Breakers of different
  providers share nothing; the theorems hold for any number of both.
* `chat_paths`: two providers of which one is in a lower tier, an empty lowest tier,
  first tiers 1 and 3 so that escalation happens, threshold 1 and one retry so that a
  single request can open a circuit and the next one probes it. Two requests are
  needed for each property: one opens the circuit, one probes.
* `chat_one_provider`: three requests, because a request that waits needs one that probes
  and one that opened the circuit. No vault: one that refuses ends a request with a probe
  permit before its guard exists, and the flag is stuck (hazard at
  `proxy/handlers.rs:599`). Without a vault and with one candidate there is no await
  between the permit and the guard, so clients may leave.
* `vault_*`: two requests, two posts per call, two replays before eviction, backpressure
  from one pending row on. Two rows are still reached, since both requests may be admitted
  before a pass counts.
* `stream_*`: a channel of 2 chunks, four bodies of 10 to 16 symbols cut into up to 3
  chunks at any symbols, one error of the connection, and a buffer of 6 symbols, so that a
  line fits, two do not, and what is left of a cut line can look like a line.
* `log_writer`: three requests, one of them streamed, with up to four writes and a channel
  of 2, so that a write is dropped while two wait; a clock of two half seconds so that rows fall
  into two seconds; pages of one row, both orders, a filter that takes two models and leaves
  one out, a fixed start and a preset, a fixed end and a moving one; model names that differ
  in case and one that is not configured. Longer walks and larger pages are left to the
  theorems.
* `routing`: three served files (three tiers with the Frontier entry cheaper than the
  Standard one; a provider with two entries; models unknown before discovery), one without
  providers, and a checked file for every key of up to four symbols; conversations of up to
  three messages, of which one is too short to be scored. Weights are all equal, one is zero, or
  one is negative: with the last the tier does fall, and `TierNeverFalls` without its guard
  fails on this instance.

The passing runs of the relay, the log and the routing do not check deadlock: a task that
is over, a log of finitely many requests and a process that has exited really stop.
Symmetry is used only in runs without liveness.

### Fairness

* Registry: time passes (`Tick`); a guarded probe ends, because the HTTP client gives up
  after 120 s (`proxy/server.rs`) and a dropped guard counts as an end; a task whose
  receiver has news is scheduled by tokio. No fairness on reports or new requests.
* `ChatRequest`: weak fairness of each handler's next step. Every await but the wait for
  a probe ends by itself (120 s for providers, 30 s for the retry loop, 5 s for the vault);
  the wait has no step enabled until a result is sent, so nothing is assumed about it.
* `VaultBilling`: spawned tasks and the reconciliation task make progress, since every
  post to the vault is cut off after 5 s and passes follow each other every 60 s; `run_server`
  goes on when it can. Nothing is assumed about handlers, streams and clients: the wait in
  `acquire_permit` has no timeout, nor has writing a stream to a client that does not read.
  `ShutdownEnds` is therefore conditional: *if* every connection is closed again and again, a
  process that was told to stop makes way for the next. Nothing is assumed about the
  vault's answers, and nothing forces the system to calm down.
* `StreamRelay`: the provider's body ends or is cut off after 120 s, and the task runs
  when it can. Nothing is assumed about the client, except in `ReaderGetsAll`, which
  is about a client that reads.
* `RequestLog`: the writer runs when it can.

## 4. Proofs

All proofs hold for every value of the constants, the bounds of the model included: any
sets of providers, requests, tasks and transcripts, any thresholds, capacities, retries.
Each component has an inductive invariant `IndInv`, in its own module or, for `Gateway`, next
to the proofs, checked by TLC on the component's run before it was proved; its proof module has
one lemma per action or group of alike actions, then `Invariance` (`Spec => []IndInv`), from
which the rest follows.

| Module | Theorems | Assumptions on constants |
|---|---|---|
| `CircuitBreakerRegistry_proofs` | `TypeCorrect`, `ThresholdCorrect`, `GuardsPreventStuckProbes`, `WakeupsAreNotLost`; refinement `RegistryImplementsBroadcast` | positive threshold, natural duration and bounds, providers are names, `NoProvider` is none |
| `ChatRequest_proofs` | `TypeCorrect`, `OutcomeBilled`, `AnsweredLogged`, `ProbeSentFirst`; action property `ClosedByOwnSuccess`; `ProbesResolved` (with hypotheses) | as above; natural retries; candidates of a tier are a sequence of providers |
| `VaultBilling_proofs` | `TypeCorrect`, `RecordsAlwaysAgree`, `NoReservationForgotten`; action property `RowsStay`; refinement `BillingImplementsLedger` | at least one try of a post, natural attempts and threshold |
| `StreamRelay_proofs` | `TypeCorrect`, `RelayIsFaithful`, `ObserverCorrect` | positive capacities of channel and buffer, transcripts are sequences of symbols |
| `LogQueries_proofs` | `ReadTypeCorrect`, `ReadLogCorrect`, `WalkComplete`, `FiguresComplete` | positive capacity, natural clock bound; finitely many requests, pages that are not empty, a log of fewer than 2^32 rows less a page |
| `Gateway_proofs` | `TypeCorrect`, `ExpansionCorrect`, `SelectionCorrect`, `NoOppositeOrders`, `ReservationSuffices`, `EndpointsTruthful`; action property `TiersRise` | a file's rates and fees are natural numbers, its five weights and its thresholds integers of either sign, values of variables are texts, sigmoids are monotone, a message has finitely many words and files |

The prover has no induction. In its place `Ordering_proofs` derives from the well-foundedness
of `<` that a set of numbers that is not empty has a smallest member (`SmallestExists`), and from
this `GoingUp` and `GoingDown`: a *set* of numbers that contains `n` whenever it contains all
below (above) it is the whole interval. Sums, loops over a text and ranks in a sorted list are
then claims about the set of positions where they hold.

**Registry.** The four invariants are not inductive by themselves: nothing in them
keeps a waiter from waking up to a `Pending` slot, which would send it back to wait
with nothing to read and nobody probing. `NewsIsAResult` excludes this; `IndInv` is the
conjunction of them all. Lemmas in `CircuitBreaker_proofs` say once what each breaker
method does to a record; then there is one lemma per kind of step: a permit
(`AcquirePreserves`), a task that moves alone (`QuietTaskPreserves`, `WakePreserves`), a
report or the clock (`BreakerStepPreserves`), the end of a probe (`EndOfProbePreserves`).
The delicate case is a second probe of the same provider: the end of one clears the flag
while the other runs, which is why `NoStuckProbe` speaks of set flags and HalfOpen circuits
and not of all probes. The refinement uses `IndInv` in two places: a task joins only if
the set flag has a prober behind it, and a verdict that is read is a result.

**Chat handler.** `BilledByOutcome` speaks of finished requests only, so the invariant adds
what has been billed on the way (`BilledSoFar`: nothing but the task of a stream that has
begun) and what a handler's place says about its fields (`Consistent`: nothing reserved or
guarded before the candidates are known, no winner after a deadline, a fallback tried only
if there is one, a probe in front of the list). The last part is `ProbeGoesFirst` before
the guard exists. Requests disturb each other only through `Woken`, which changes one flag
(`RequestMoves`). `ClosedByOwnSuccess` goes through all actions: reports of ordinary
attempts never close a circuit (`OrdinaryBreakers`), permits neither, and the guard's
success needs a winner that is the probed provider.

`ProbesResolved` is the promise of the `ProbeGuard` for the handler, under two hypotheses:
no vault, and at most one candidate per tier. Neither can be dropped: with two
candidates run `chat_stuck_probe` violates it, and with a vault the early return of a refused
reservation does (TLC finds it when `HasVault` is set in `chat_one_provider`). The additional
invariant (`Single`) says that a handler that has not asked its only candidate holds no permit.

**Billing.** `NothingForgotten` and the refinement need to know that all records of a
request's end agree: the spawned task's call, the row, the copy a pass works on and every
call that is still on its way (`OneVerdict`). And the `DELETE` after a replay needs to know
that the copy of the row is not stale and the vault no longer holds the reservation
(`PassFollowsTable`). Together they are `RecordsAgree`, a property of the code in its own
right, which the run checks too.
Crashes keep them because the table and the vault are all that survives. `RowsStay` and the
refinement follow step by step: only the arrival of a call at the vault changes `hold`, and
by `OneVerdict` it moves it the way the verdict says.

**Relay.** `PassThrough` says that client and channel together hold a prefix of what the
provider sent; to extend it by one item one has to know that the item in hand is the next one.
`InStep` counts: what was read, less the item in hand, plus the trailing event, is what the
client has been sent. The type invariant bounds the observer's buffer by its cap, for every
cut into chunks.

**Observer.** `ObserverFaithful` compares the observer with the whole text, of which it never
sees more than a chunk and its buffer. `BufferIsRest` makes it inductive: the buffer is what
follows the last complete line, or the place where it was cleared. So the buffer with a new chunk
in it is the end of the new text, and its lines are the new lines of the text (`ChunkCut`,
`LinesKept`, `LinesAdded`). What the loop learns from them (`ReadLinesFacts`) goes through the
lines upwards, line by line through `Accept`, `process_line` and `process_data`, and joins with
what was known before (`KnowsMore`). At the end of the stream a newline that is not
there closes the last line (`FlushKnown`).

**Log.** `LogMatchesHistory` is about the end. The invariant follows the two writes of a
request through the pipeline of channel and writer: each is in one place (`OnePlace`), sent once
(`SentOnce`), and as long as one is pending they are in the order that `overtaken` says
(`InOrder`); then the row is known at every moment (`RowFollows`). Readers leave the log alone,
so the theorems hold for `ReadSpec`, the specification that `log_writer` checks.

**Readers.** `WalkMissesNothing` is about the end of a walk too. `ReadInv` says what a walk owes
half-way (`WalkInv`): a row it must show and has not shown has at least as many rows
before it as have been on the pages so far. Adding rows and moving the end of the range only
raises that number (`RankGrows`), because rows stay and keep their timestamps (`TableGrows`); and
an empty page has nothing at or behind its offset. That the offset does not wrap around follows
from the size of the table. For the figures it is enough that the rows counted are still there
when the groups are (`FiguresInv`), and that a row is missing from the groups only if a model of
the same name in another case is shown (`GroupFacts`).

**Gateway.** Sorting is a matter of ranks: an order of a finite set gives its members different
numbers of predecessors, and all numbers below the size occur (`RankFacts`), so `Arranged` lists
each member once and in order, and nothing else does (`ArrangedFacts`, `ArrangedUnique`). Sorting
all entries and keeping the first of each name is then listing the best of each name
(`RankedIsBest`), which gives `SelectionCorrect`; and every list is a part of one order, that
of cost and position, which gives `NoOppositeOrders`. For `EndpointsTruthful` the first of all
candidates is also the first of any tier that admits it, and `EstimateCovers` bounds its price.
`IndInv` adds to the types that the answer in hand is the router's, that the reservation is the
estimate at the frontier rates of the model its candidates serve (`ReservationFits`), and
that a conversation would still get the tier it was scored for (`ScoreFits`). The last step of
`ReservationSuffices` is arithmetic (`EstimateCovers`); `TiersRise` goes through
the five signals, each of which grows with the conversation (`SignalsGrow`), the weighted sum,
which grows with them because no weight is negative (`WeightsNotNegative`), and the clamp.

**Configuration.** `ExpansionCorrect` relates a loop that searches for brackets to a scan of the
text symbol by symbol. One turn of the loop is the scan of the text before the bracket
(`ScanPlain`), of the name (`ScanName`), and the rest, for which the claim is known, going down
from the end of the text (`TurnsScan`). `KeysInv` carries the result from `LoadConfig`
through discovery.

Three attempts failed at first, for good reasons that TLC had not shown on its instances:

* `ExpansionAgrees` took an empty list of providers for a sign that loading had failed; a file
  without providers is loaded. It now says so, and `routing` has such a file.
* `WalkMissesNothing` does not hold of presets: the start moves on from page to page. It is
  now about a start of the reader's own; `log_writer` has walks of both kinds (see section 5).
* The definition of a line's payload behind `ObserverFaithful` allowed for one `\r` at the end,
  while `process_data` trims on both sides. It now allows for white space, and
  `stream_relay` has a body with some.

Only model-checked: liveness, which is out of the prover's reach: `WaitersAnswered`,
`OpenRunsOut`, `RequestsAnswered`, `TableDrains`, `BackpressureClears`, `ShutdownEnds`,
`WritesGoThrough`, `ReaderGetsAll`, `DrainsAfterDisconnect`. Every other property of a passing
run is a theorem; `NoStuckProbe` of `ChatRequest` under the hypotheses above.

## 5. Where code and documentation part

The violation runs show (details under `findings` in `PROJECT.json`):

1. `stream_settle`: the observer's result is read before it is written, so streams are
   always logged as incomplete and released.
2. `chat_stuck_probe`: two probe permits in one request leave the first provider's flag set.
   The same happens without a second provider when the handler ends between the permit
   and the guard.
3. `registry_single_probe`: `record_failure` acts in every state, so two probes of one
   provider may run at once. For the same reason `trip_count` also counts failures that
   arrive while the circuit is Open already.
4. `vault_orphan`: a reservation is orphaned when the client leaves before the answer.
5. `chat_timeouts`: the attempt that the 30 s deadline cuts off is not reported to the breaker.
   Attempts before it that failed with a 5xx are, and so is a stream's 502 after the client's
   timeout of 120 s.

Not a run of its own: the stream's UPDATE may be queued before the handler's INSERT
(`overtaken` in `RequestLog`); it then finds no row, and the row keeps what the INSERT
said. `LogMatchesHistory` accounts for it.

Met while modelling, without a run of their own:

* Shutdown waits without limit for open connections (`proxy/server.rs:264`): a client that
  stops reading its stream, or a handler that waits for a probe that never ends, keeps the
  process from stopping. It does not wait for spawned tasks: a settlement whose posts are still
  being retried when the two seconds are over is lost like in a crash (`cut`), and so is the
  task of a stream whose client has left.
* No property covers a client that stays connected and does not read: the relay then waits in
  `tx.send`, which has no timeout.
* A range of `/v1/stats` and `/v1/requests` was planned as "inclusive", with timestamps in a
  "consistent format" (`.planning/milestones/v1.3-phases/11-aggregate-stats-and-filtering/11-RESEARCH.md:678`),
  and the SQL says `timestamp <= ?` (`storage/stats.rs:53`). But rows end in `Z` and bounds in
  `+00:00`, so the rows of the very second of `until` are left out (`InRange`).
* Weights may be negative (`.planning/milestones/v1.7-phases/17-complexity-scorer/17-REVIEW.md:166`);
  a conversation may then fall to a lower tier as it grows. `TierNeverFalls` is about the others.
* `/v1/cost` assumes an answer of 256 tokens if `max_tokens` is absent, the reservation
  `default_reserve_tokens`, so a quote may exceed what is reserved. Its provider need not be the
  one with the lowest price, because candidates are ordered without the input rate.
* If the database cannot be opened the server starts without it (`proxy/server.rs:193`), and
  settlements that fail are then not kept anywhere.
* `estimate_reserve_msats` says it uses the cheapest candidate's rates (`proxy/vault.rs:306`);
  its caller passes the frontier rates. `ReservationCovers` fails with the former (its mutant).
* Provider names are not checked for uniqueness. With two entries of one name requests for
  two models can ask for permits in opposite orders; `OrdersAgree` holds for unique names only.
* A policy the header names but no rule has falls back to keywords. A policy that leaves no
  provider at a low tier ends the request (`NoPolicyMatch` does not escalate).
* Discovery that fails for a provider without models says it "won't match any requests"
  (`proxy/discovery.rs:75`); an empty list of models matches every model.
* Only a provider's `api_key` is expanded; `config.example.toml:25` and `README.md:95` show
  `internal_token = "${VAULT_INTERNAL_TOKEN}"`.
* The buffer cap applies to the whole chunk before its lines are taken out, so a large chunk
  of short lines is dropped, and the rest of a line cut by it is read as a line.
* A row of the current second is in no range that ends now until the next second begins.
* `/v1/stats` with `group_by=model` ignores the model filter, and of names that differ in
  case only one group is shown; `GroupsCoverTotal` says that no row is missing for another reason.
* A reader who pages through a preset range in ascending order may miss rows: `now` is taken
  anew for each page (`proxy/stats.rs:86`), rows drop out in front and others slip onto a page
  that was read already. With `since` it misses none.
* Pages sorted by `cost_sats`, or filtered by `success`, may lose rows, because the stream's
  UPDATE changes both columns; `WalkMissesNothing` is about the default order.

## 6. Not modelled

* **Route table, middleware, database pools and migrations**: wiring that runs once, and
  checks without state.
* **Health and providers**: they format what they read.
* **The provider, success and streaming filters** and the sort columns `cost_sats` and
  `latency_ms` of the queries; the filters are further conjuncts like the model's.
* **TOML, JSON, headers and error bodies**.
* **Amounts beyond the estimate**: a provider that reports more tokens than `max_tokens`.
* **Floating point**: costs are exact multiples of a thousandth here, scores integers.
  NaN weights, which the configuration accepts, are left out.
* **`serve --mock`**: a configuration that is built in.

## 7. What is left

* A run of `ChatRequest` with opposite candidate orders, which duplicate names allow: two
  requests that hold one probe each and wait for the other's.
* The filters and sort columns of the queries that section 6 leaves out. Those that an UPDATE
  changes need a weaker property than `WalkMissesNothing`.
* Proofs of the liveness properties, for a prover that handles fairness.
