------------------------------- MODULE Gateway -------------------------------
(***************************************************************************)
(* The proxy from its configuration file to a routed request: main's Serve *)
(* (src/main.rs), run_server and discover_models, then one client whose    *)
(* conversation grows and who asks again and again.  Composes Config and   *)
(* Router.                                                                 *)
(*                                                                         *)
(* What a request meets on its way through the circuit breakers is         *)
(* ChatRequest's business: here any of its candidates may be out of        *)
(* service, and any of the others may answer it in the end.                *)
(***************************************************************************)
EXTENDS Router, Config

CONSTANTS
    Files,           \* the configuration files, each with the command it is for
    Models,          \* the models clients and endpoints know
    Messages,        \* the messages a conversation is made of
    PolicyNames,     \* values of X-Arbstr-Policy
    MaxTokens,       \* values of max_tokens, 0 if absent
    MaxTurns         \* bound on the messages of a conversation

\* RawProvider and Provider, whatever the api_key is.
IsProvider(p) ==
    p \in [name : STRING, models : SUBSET Models, input_rate : Nat, output_rate : Nat,
           base_fee : Nat, tier : Tiers, auto_discover : BOOLEAN, url : BOOLEAN,
           api_key : {p.api_key}]

IsProviders(ps) ==
    /\ Len(ps) \in Nat /\ DOMAIN ps = 1..Len(ps)
    /\ \A i \in DOMAIN ps : IsProvider(ps[i])

\* What serde accepts, with numbers for f64: validate looks at neither weights
\* nor thresholds, so they have either sign (NaN is left out).  NoPolicyName
\* stands for a header that is not there, so no rule has it.
ASSUME FilesAssumption ==
    \A f \in Files :
        /\ IsProviders(f.providers)
        /\ \A i \in DOMAIN f.providers : f.providers[i].api_key \in Seq(STRING)
        /\ f.rules \in Seq([name : STRING \ {NoPolicyName}, allowed : SUBSET STRING,
                            max_output : Nat, keywords : SUBSET STRING])
        /\ f.weights \in Seq(Int) /\ Len(f.weights) = 5
        /\ f.extra_keywords \in Seq(STRING)
        /\ f.low \in Int /\ f.high \in Int
        /\ f.default_reserve_tokens \in Nat

ASSUME MessagesAssumption ==
    \A m \in Messages :
        /\ m.len \in Nat /\ m.fences \in Nat
        /\ IsFiniteSet(m.files) /\ IsFiniteSet(m.words)

ASSUME TokensAssumption == MaxTokens \subseteq Nat

VARIABLES
    phase,      \* of the process
    file,       \* the configuration file
    providers,  \* config.providers
    found,      \* how many providers discovery has been through
    messages,   \* the conversation so far
    scored,     \* history: the tier the last request was scored, 0 if none was
    req         \* the request in hand

vars == <<phase, file, providers, found, messages, scored, req>>

Idle == [pc |-> "idle"]

Init ==
    /\ phase = "start"
    /\ file \in Files
    /\ providers = << >> /\ found = 0
    /\ messages = << >> /\ scored = 0
    /\ req = Idle
-----------------------------------------------------------------------------
(* Start *)

\* main: a file that cannot be loaded ends the process with an error; check
\* and providers print what they have loaded.  serve --mock, which has a
\* configuration built in, is left out.
LoadConfig ==
    /\ phase = "start"
    /\ LET loaded == from_file_with_env(file)
       IN  /\ phase' = IF loaded.err # "none" THEN "failed"
                       ELSE IF file.command = "serve" THEN "discover" ELSE "exit"
           /\ providers' = loaded.providers
    /\ UNCHANGED <<file, found, messages, scored, req>>

\* discover_models, one provider after the other: the answer replaces the
\* models, whatever it lists; without a usable answer they stay.
Discover ==
    /\ phase = "discover"
    /\ found < Len(providers)
    /\ \/ /\ providers[found + 1].auto_discover
          /\ \E ids \in SUBSET Models :
                providers' = [providers EXCEPT ![found + 1].models = ids]
       \/ UNCHANGED providers
    /\ found' = found + 1
    /\ UNCHANGED <<phase, file, messages, scored, req>>

\* bind may fail.  What run_server sets up before it (the pools, the writer,
\* the reconciliation task) is RequestLog's and VaultBilling's.
Listen ==
    /\ phase = "discover"
    /\ found = Len(providers)
    /\ phase' \in {"serve", "failed"}
    /\ UNCHANGED <<file, providers, found, messages, scored, req>>
-----------------------------------------------------------------------------
(* A request *)

Say(m) ==
    /\ phase = "serve" /\ req = Idle
    /\ Len(messages) < MaxTurns
    /\ messages' = Append(messages, m)
    /\ UNCHANGED <<phase, file, providers, found, scored, req>>

\* Mutated form of ScoreTier: only the last message is scored.
ScoreTierOfLast(ms) ==
    LET last == IF ms = << >> THEN ms ELSE <<Last(ms)>>
    IN  score_to_max_tier(score_complexity(last, file.weights, file.extra_keywords),
                          file.low, file.high)

ScoreTier(ms) ==
    score_to_max_tier(score_complexity(ms, file.weights, file.extra_keywords),
                      file.low, file.high)

\* Too short to be scored, and Frontier for that.
TooShort(ms) == ms = << >> \/ TextLen(ms) < MIN_TEXT_LEN

\* X-Arbstr-Complexity; anything else is as if it was not there.
HeaderTier(h) == CASE h = "low" -> 1 [] h = "medium" -> 2 [] h = "high" -> 3 [] OTHER -> 0

Candidates(model, policy, tier) ==
    select_candidates(providers, file.rules, model, policy, user_prompt(messages), tier)

\* chat_completions up to the first select_candidates.
Ask(model, policy, header, max_tokens) ==
    /\ phase = "serve" /\ req = Idle
    /\ LET tier == IF HeaderTier(header) # 0 THEN HeaderTier(header) ELSE ScoreTier(messages)
       IN  /\ req' = [pc |-> "select", model |-> model, policy |-> policy, tier |-> tier,
                      max_tokens |-> max_tokens, answer |-> Candidates(model, policy, tier)]
           /\ scored' = IF HeaderTier(header) # 0 \/ TooShort(messages) THEN scored ELSE tier
    /\ UNCHANGED <<phase, file, providers, found, messages>>

\* Mutated form of Escalate: beyond Frontier.
EscalateOn ==
    /\ req.pc = "select"
    /\ req.answer.err \in {"NoTierMatch", "none"}
    /\ req' = [req EXCEPT !.tier = @ + 1,
                          !.answer = Candidates(req.model, req.policy, req.tier + 1)]
    /\ UNCHANGED <<phase, file, providers, found, messages, scored>>

\* No provider at the tier, or all its circuits are open.
Escalate ==
    /\ req.pc = "select"
    /\ req.answer.err \in {"NoTierMatch", "none"}
    /\ req.tier < 3
    /\ req' = [req EXCEPT !.tier = @ + 1,
                          !.answer = Candidates(req.model, req.policy, req.tier + 1)]
    /\ UNCHANGED <<phase, file, providers, found, messages, scored>>

\* Any other routing error, or nothing left to escalate to.
Refuse ==
    /\ req.pc = "select"
    /\ req.answer.err \notin {"NoTierMatch", "none"} \/ req.tier = 3
    /\ req' = Idle
    /\ UNCHANGED <<phase, file, providers, found, messages, scored>>

\* max_tokens is set if it is absent.
ReserveTokens(max_tokens) ==
    LET output == IF max_tokens = 0 THEN file.default_reserve_tokens ELSE max_tokens
    IN  estimate_tokens(messages, output, file.default_reserve_tokens)

\* The estimate at the frontier rates is what the vault reserves.
ReserveMsats(model, max_tokens) ==
    estimate_reserve_msats(ReserveTokens(max_tokens).input, ReserveTokens(max_tokens).output,
                           frontier_rates(providers, model))

\* Mutated form of Reserve: at the rates of the first candidate.
ReserveForFirst ==
    /\ req.pc = "select"
    /\ req.answer.err = "none"
    /\ req' = [pc |-> "reserved", model |-> req.model, policy |-> req.policy,
               tier |-> req.tier, answer |-> req.answer,
               tokens |-> ReserveTokens(req.max_tokens),
               msats |-> actual_cost_msats(ReserveTokens(req.max_tokens).input,
                             ReserveTokens(req.max_tokens).output, req.answer.list[1])]
    /\ UNCHANGED <<phase, file, providers, found, messages, scored>>

Reserve ==
    /\ req.pc = "select"
    /\ req.answer.err = "none"
    /\ req' = [pc |-> "reserved", model |-> req.model, policy |-> req.policy,
               tier |-> req.tier, answer |-> req.answer,
               tokens |-> ReserveTokens(req.max_tokens),
               msats |-> ReserveMsats(req.model, req.max_tokens)]
    /\ UNCHANGED <<phase, file, providers, found, messages, scored>>

\* One of the candidates has answered, and says how many tokens it took.
Settle(p, tokens_in, tokens_out) ==
    /\ req.pc = "reserved"
    /\ req' = [pc |-> "settled", reserved |-> req.msats,
               msats |-> actual_cost_msats(tokens_in, tokens_out, p)]
    /\ UNCHANGED <<phase, file, providers, found, messages, scored>>

Done ==
    /\ req.pc = "settled"
    /\ req' = Idle
    /\ UNCHANGED <<phase, file, providers, found, messages, scored>>

Next ==
    \/ LoadConfig \/ Discover \/ Listen
    \/ \E m \in Messages : Say(m)
    \/ \E model \in Models, policy \in PolicyNames, header \in {"low", "medium", "high", "?"},
          max_tokens \in MaxTokens : Ask(model, policy, header, max_tokens)
    \/ Escalate \/ Refuse \/ Reserve \/ Done
    \/ /\ req.pc = "reserved"
       /\ \E p \in ToSet(req.answer.list), tokens_in \in 0..req.tokens.input,
             tokens_out \in 0..req.tokens.output : Settle(p, tokens_in, tokens_out)

Spec == Init /\ [][Next]_vars
-----------------------------------------------------------------------------
(* The endpoints that only read: models, and the cost of a request *)

list_models == UNION {p.models : p \in ToSet(providers)}

DisplayTokens == 256   \* the answer's length, for /v1/cost, if max_tokens is absent

Quote(answer, tokens) ==
    IF answer.err # "none" THEN [err |-> answer.err]
    ELSE [err |-> "none", provider |-> answer.list[1], tokens |-> tokens,
          msats |-> actual_cost_msats(tokens.input, tokens.output, answer.list[1])]

\* Mutated form of cost_estimate: an estimate for the requests scored lowest.
CostEstimateLocal(model, policy, max_tokens) ==
    Quote(Candidates(model, policy, 1), estimate_tokens(messages, max_tokens, DisplayTokens))

\* router.select without a tier, so the first of all candidates, and the bill
\* it would send for the tokens estimated.
cost_estimate(model, policy, max_tokens) ==
    Quote(Candidates(model, policy, NoMaxTier), estimate_tokens(messages, max_tokens, DisplayTokens))
-----------------------------------------------------------------------------
RoutingErrors == {"none", "NoProviders", "NoTierMatch", "BadRequest", "NoPolicyMatch"}
Answers == [err : RoutingErrors, list : Seq({providers[i] : i \in DOMAIN providers})]

TypeOK ==
    /\ phase \in {"start", "discover", "serve", "exit", "failed"}
    /\ file \in Files
    /\ IsProviders(providers) /\ found \in 0..Len(providers)
    /\ messages \in Seq(Messages) /\ scored \in 0..3
    /\ \/ req = Idle
       \/ req \in [pc : {"select"}, model : Models, policy : PolicyNames, tier : Tiers,
                   max_tokens : MaxTokens, answer : Answers]
       \/ req \in [pc : {"reserved"}, model : Models, policy : PolicyNames, tier : Tiers,
                   answer : Answers, tokens : [input : Nat, output : Nat], msats : Nat]
       \/ req \in [pc : {"settled"}, reserved : Nat, msats : Nat]

\* Expansion as a scan, symbol by symbol, by someone who does not search.
Scan(s, c) ==
    CASE s.err # "none" -> s
      [] s.err = "none" /\ ~s.open ->
            IF c = Opening THEN [s EXCEPT !.open = TRUE, !.name = << >>]
            ELSE [s EXCEPT !.value = Append(@, c)]
      [] s.err = "none" /\ s.open ->
            IF c # Closing THEN [s EXCEPT !.name = Append(@, c)]
            ELSE IF s.name = << >> \/ s.name \notin DOMAIN Env THEN [s EXCEPT !.err = "reference"]
            ELSE [s EXCEPT !.open = FALSE, !.value = @ \o Env[s.name]]

Scanned(text) ==
    LET upto[n \in 0..Len(text)] ==
            IF n = 0 THEN [open |-> FALSE, name |-> << >>, value |-> << >>, err |-> "none"]
            ELSE Scan(upto[n - 1], text[n])
    IN  upto[Len(text)]

Wellformed(text) == Scanned(text).err = "none" /\ ~Scanned(text).open

\* A configuration is loaded if and only if every reference in it is closed
\* and names a variable that is set; each key is then the text with the
\* values in place of the references, and what a value contains is not
\* expanded again (expand_env_vars_with, from_raw_with_lookup).
ExpansionAgrees ==
    LET texts == {i \in DOMAIN file.providers : file.providers[i].api_key # Absent}
    IN  /\ phase = "failed" /\ providers = << >> /\ Len(file.providers) > 0 =>
              \/ \E i \in texts : ~Wellformed(file.providers[i].api_key)
              \/ \E i \in DOMAIN file.providers : ~file.providers[i].url
        /\ providers # << >> => \A i \in texts :
              /\ Wellformed(file.providers[i].api_key)
              /\ providers[i].api_key = Scanned(file.providers[i].api_key).value

\* Rule k decides on a request: the first its header names or, if it names
\* none, the first with a word of its prompt.
Decides(k, policy) ==
    LET named(l) == file.rules[l].name = policy
        hinted(l) == file.rules[l].keywords \cap user_prompt(messages) # {}
    IN  IF \E l \in DOMAIN file.rules : named(l)
        THEN named(k) /\ \A l \in 1..(k - 1) : ~named(l)
        ELSE hinted(k) /\ \A l \in 1..(k - 1) : ~hinted(l)

\* The entries a request may be routed to, by definition.
Eligible(model, policy, tier) ==
    {i \in DOMAIN providers :
        /\ Serves(providers[i], model)
        /\ providers[i].tier <= tier
        /\ \A k \in DOMAIN file.rules : Decides(k, policy) =>
              /\ file.rules[k].allowed = {} \/ model \in file.rules[k].allowed
              /\ providers[i].output_rate <= file.rules[k].max_output}

\* Cheaper, or as cheap and earlier in the file.
Before(i, j) ==
    \/ RoutingCost(providers[i]) < RoutingCost(providers[j])
    \/ RoutingCost(providers[i]) = RoutingCost(providers[j]) /\ i <= j

\* Each provider with an eligible entry is a candidate once, with the best of
\* its entries, and the candidates are in the order of these (select_candidates
\* filters, sorts and drops duplicates).
CandidatesMatchReference ==
    req.pc = "select" =>
        LET eligible == Eligible(req.model, req.policy, req.tier)
            best == {i \in eligible : \A j \in eligible :
                        providers[j].name = providers[i].name => Before(i, j)}
        IN  req.answer.list = [k \in 1..Cardinality(best) |->
                providers[CHOOSE i \in best : Cardinality({j \in best : Before(j, i)}) = k]]

UniqueNames == \A i, j \in DOMAIN providers : providers[i].name = providers[j].name => i = j

Queries == Models \X PolicyNames \X Tiers

\* A handler asks for permits in the order of its candidates and keeps a probe
\* while it waits for another request's (handlers.rs, resolve_candidates).  If
\* no two entries share a name, no two requests ask for two providers in
\* opposite orders, whatever models, policies and tiers they have, so they
\* cannot wait for each other.  Once the server listens nothing changes this.
OrdersAgree ==
    phase = "serve" /\ messages = << >> /\ UniqueNames =>
        LET names == [q \in Queries |->
                        LET list == Candidates(q[1], q[2], q[3]).list
                        IN  [k \in DOMAIN list |-> list[k].name]]
        IN  \A q, r \in Queries : \A i, j \in DOMAIN names[q] : \A k, l \in DOMAIN names[r] :
               i < j /\ names[q][i] = names[r][k] /\ names[q][j] = names[r][l] => k < l

\* "if a local request escalates to frontier on circuit break, the reservation
\* already covers it" (handlers.rs:670): whichever candidate answers, of the
\* tier the request came to in the end, its bill is covered as long as it
\* takes no more tokens than estimated.
ReservationCovers == req.pc = "settled" => req.msats <= req.reserved

\* What /v1/models and /v1/cost say holds for a request with the same model,
\* policy and max_tokens: a model that is listed can be routed; the provider
\* that is quoted is the one the request tries first, if its tier admits it;
\* and the price that is quoted, input tokens and base fee included, is at most
\* what the vault reserves, unless it is for a longer answer than is reserved
\* for (cost_estimate assumes 256 tokens, chat_completions the configured
\* default).  The quote need not be the lowest price: candidates are ordered
\* without the input rate.
EndpointsAgree ==
    phase = "serve" /\ req = Idle =>
        /\ \A model \in list_models :
              select_candidates(providers, file.rules, model, NoPolicyName, NoPrompt, 3).err = "none"
        /\ \A q \in Queries, max_tokens \in MaxTokens :
              LET answer == Candidates(q[1], q[2], q[3])
                  quote == cost_estimate(q[1], q[2], max_tokens)
              IN  answer.err = "none" =>
                     /\ quote.err = "none"
                     /\ quote.provider.tier <= q[3] => answer.list[1] = quote.provider
                     /\ quote.tokens.output <= ReserveTokens(max_tokens).output =>
                           quote.msats <= ReserveMsats(q[1], max_tokens)

WeightsNotNegative == \A k \in DOMAIN file.weights : file.weights[k] >= 0

\* With weights that are not negative, a conversation that goes on is never
\* scored for a lower tier than before, so it does not fall back to a weaker
\* model half-way (score_complexity looks at all of its messages); one too
\* short to be scored does not count.  The configuration accepts negative
\* weights, and with them the tier may fall.
TierNeverFalls == [][WeightsNotNegative => scored' >= scored]_vars
=============================================================================
