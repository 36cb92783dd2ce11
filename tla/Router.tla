------------------------------- MODULE Router -------------------------------
(***************************************************************************)
(* The choice of providers: Router of src/router/selector.rs, the scorer   *)
(* of src/router/complexity.rs, and the estimates of src/proxy/types.rs    *)
(* and src/proxy/vault.rs.  The module has no variables; Gateway calls it. *)
(*                                                                         *)
(* A provider is a record of its name, the set of its models, its rates,   *)
(* its tier and what Config adds; a policy rule a record of its name, the  *)
(* set of models it allows, its maximal output rate and its keywords.      *)
(***************************************************************************)
EXTENDS Integers, Sequences, FiniteSets, FiniteSetsExt, SequencesExt, Ordering

CONSTANTS
    MIN_TEXT_LEN,        \* below it a conversation is not scored
    SCALE,               \* a score of 1.0, a multiple of 3
    ContextSignal,       \* signal_context_length's sigmoid, for 0 tokens and up
    DepthSignal,         \* signal_conversation_depth's sigmoid, for 0 messages and up
    DefaultKeywords

ASSUME ScaleAssumption == SCALE \in Nat /\ SCALE % 3 = 0 /\ MIN_TEXT_LEN \in Nat
ASSUME SignalAssumption ==
    \A f \in {ContextSignal, DepthSignal} :
        /\ f \in Seq(Nat) /\ f # << >>
        /\ \A a, b \in DOMAIN f : a <= b => f[a] <= f[b]

Tiers == 1..3   \* Local, Standard, Frontier
NoMaxTier == 4  \* max_tier: None

NoPolicyName == "none"
NoLimit == 1000000  \* max_sats_per_1k_output: None
-----------------------------------------------------------------------------
(* selector.rs *)

Serves(p, model) == p.models = {} \/ model \in p.models

RoutingCost(p) == p.output_rate + p.base_fee

\* By name if the header names a rule, else by the first rule one of whose
\* keywords is in the prompt; a set of at most one rule.
find_policy(rules, policy_name, words) ==
    LET named  == {k \in DOMAIN rules : rules[k].name = policy_name}
        hinted == {k \in DOMAIN rules : rules[k].keywords \cap words # {}}
    IN  IF named # {} THEN {rules[Min(named)]}
        ELSE IF hinted # {} THEN {rules[Min(hinted)]} ELSE {}

\* The candidates are references to entries of the configuration.  Before they
\* are sorted they are in the order of the file, and so the set of their
\* positions in it; afterwards a sequence of positions.

\* candidates.sort_by_key is stable.
ByCost(ps, S) ==
    {p \in S \X S :
        \/ RoutingCost(ps[p[1]]) < RoutingCost(ps[p[2]])
        \/ RoutingCost(ps[p[1]]) = RoutingCost(ps[p[2]]) /\ p[1] < p[2]}

SortByCost(ps, S) == Arranged(S, ByCost(ps, S))

\* seen.insert: the first entry of a name stays.
DedupByName(ps, order) ==
    LET first == {k \in DOMAIN order :
                    \A l \in 1..(k - 1) : ps[order[l]].name # ps[order[k]].name}
        kept  == Arranged(first, Upwards(first))
    IN  [n \in DOMAIN kept |-> order[kept[n]]]

Failed(err) == [err |-> err, list |-> << >>]

\* Mutated form of Ranked: the duplicates go before the sort.
RankedDedupFirst(ps, S) ==
    SortByCost(ps, {i \in S : \A j \in S : ps[j].name = ps[i].name => i <= j})

Ranked(ps, S) == DedupByName(ps, SortByCost(ps, S))

\* apply_policy_constraints, for the policy found, if any.
apply_policy_constraints(ps, S, policy, model) ==
    LET filtered == {i \in S : \A rule \in policy : ps[i].output_rate <= rule.max_output}
    IN  IF \E rule \in policy : rule.allowed # {} /\ model \notin rule.allowed
        THEN [err |-> "BadRequest", kept |-> {}]
        ELSE IF filtered = {} THEN [err |-> "NoPolicyMatch", kept |-> {}]
        ELSE [err |-> "none", kept |-> filtered]

\* Mutated form of select_candidates: the sort is part of the policy's block.
SelectSortedByPolicy(providers, rules, model, policy_name, words, max_tier) ==
    LET served == {i \in DOMAIN providers : Serves(providers[i], model)}
        tiered == {i \in served : providers[i].tier <= max_tier}
        policy == find_policy(rules, policy_name, words)
        passed == apply_policy_constraints(providers, tiered, policy, model)
        order  == IF policy # {} THEN Ranked(providers, passed.kept)
                  ELSE DedupByName(providers, Arranged(passed.kept, Upwards(passed.kept)))
    IN  IF served = {} THEN Failed("NoProviders")
        ELSE IF tiered = {} THEN Failed("NoTierMatch")
        ELSE [err |-> passed.err, list |-> [k \in DOMAIN order |-> providers[order[k]]]]

select_candidates(providers, rules, model, policy_name, words, max_tier) ==
    LET served == {i \in DOMAIN providers : Serves(providers[i], model)}
        tiered == {i \in served : providers[i].tier <= max_tier}
        policy == find_policy(rules, policy_name, words)
        passed == apply_policy_constraints(providers, tiered, policy, model)
        order  == Ranked(providers, passed.kept)
    IN  IF served = {} THEN Failed("NoProviders")
        ELSE IF tiered = {} THEN Failed("NoTierMatch")
        ELSE [err |-> passed.err, list |-> [k \in DOMAIN order |-> providers[order[k]]]]

\* The maximum of each rate on its own, over all providers of the model.
frontier_rates(providers, model) ==
    LET served == {p \in ToSet(providers) : Serves(p, model)}
    IN  [input |-> Max({p.input_rate : p \in served}),
         output |-> Max({p.output_rate : p \in served}),
         base |-> Max({p.base_fee : p \in served})]

\* actual_cost_sats, in thousandths of a satoshi as settle gets it.  The code
\* computes satoshis in f64 and cuts off c * 1000.0, so it may bill a thousandth
\* less, never more.
actual_cost_msats(tokens_in, tokens_out, p) ==
    tokens_in * p.input_rate + tokens_out * p.output_rate + 1000 * p.base_fee

estimate_reserve_msats(tokens_in, tokens_out, rates) ==
    (tokens_in * rates.input * 1000) \div 1000 + (tokens_out * rates.output * 1000) \div 1000
        + rates.base * 1000
-----------------------------------------------------------------------------
(* types.rs: a message is a record of its role, its length in characters,  *)
(* its code fences, the file names and the words in it.                    *)

NoPrompt == {}

\* The words of the last user message.
user_prompt(messages) ==
    LET users == {i \in DOMAIN messages : messages[i].role = "user"}
    IN  IF users = {} THEN NoPrompt ELSE messages[Max(users)].words

Chars(messages) == Total([i \in DOMAIN messages |-> messages[i].len])

\* max_tokens is absent or a number.
estimate_tokens(messages, max_tokens, default_output) ==
    [input |-> Max({1, Chars(messages) \div 4}),
     output |-> IF max_tokens = 0 THEN default_output ELSE max_tokens]
-----------------------------------------------------------------------------
(* complexity.rs *)

\* A sigmoid is flat in the end: the last value stands for all that follow.
Sigmoid(f, n) == f[Min({n + 1, Len(f)})]

Third(count) == Min({count, 3}) * (SCALE \div 3)

\* A block is a pair of fences, wherever in the conversation they are.
signal_code_blocks(messages) ==
    Third(Total([i \in DOMAIN messages |-> messages[i].fences]) \div 2)

signal_multi_file(messages) == Third(Cardinality(UNION {m.files : m \in ToSet(messages)}))

\* An extra keyword counts next to a default one of the same spelling.
signal_reasoning_keywords(messages, extra) ==
    LET words == UNION {m.words : m \in ToSet(messages)}
    IN  Third(Cardinality(words \cap DefaultKeywords)
              + Cardinality({i \in DOMAIN extra : extra[i] \in words}))

\* The text is the contents joined by newlines.
TextLen(messages) == Chars(messages) + Len(messages) - 1

\* clamp(0.0, 1.0)
Clamp(score) == IF score < 0 THEN 0 ELSE IF score > SCALE THEN SCALE ELSE score

\* score_complexity, with weights as a sequence in the order of the signals, in
\* multiples of some unit, of either sign.
score_complexity(messages, weights, extra) ==
    IF messages = << >> \/ TextLen(messages) < MIN_TEXT_LEN THEN SCALE
    ELSE LET signals == << Sigmoid(ContextSignal, TextLen(messages) \div 4),
                           signal_code_blocks(messages),
                           signal_multi_file(messages),
                           signal_reasoning_keywords(messages, extra),
                           Sigmoid(DepthSignal, Len(messages)) >>
             sum == Total([i \in 1..5 |-> signals[i] * weights[i]])
         IN  IF Total(weights) = 0 THEN SCALE
             ELSE IF Total(weights) > 0 THEN Clamp(sum \div Total(weights))
             ELSE Clamp((-sum) \div (-Total(weights)))

score_to_max_tier(score, low, high) ==
    IF score < low THEN 1 ELSE IF score > high THEN 3 ELSE 2
=============================================================================
