--------------------------- MODULE Gateway_proofs ---------------------------
(***************************************************************************)
(* Proofs about Gateway and the modules it is composed of, Router and      *)
(* Config, for every set of configuration files, models, messages and      *)
(* policies, and conversations of any length.                              *)
(***************************************************************************)
EXTENDS Gateway, Ordering_proofs
-----------------------------------------------------------------------------
(* Sorting and removing duplicates *)

\* The costs of providers are numbers.
LEMMA CostType ==
    ASSUME NEW p, IsProvider(p)
    PROVE  RoutingCost(p) \in Nat
  BY DEF IsProvider, RoutingCost

\* ByCost is an order of any set of positions.
LEMMA CostOrders ==
    ASSUME NEW ps, IsProviders(ps), NEW S, S \subseteq DOMAIN ps
    PROVE  /\ IsFiniteSet(S) /\ S \subseteq Nat
           /\ Orders(ByCost(ps, S), S)
           /\ \A i, j \in S : <<i, j>> \in ByCost(ps, S) <=>
                 \/ RoutingCost(ps[i]) < RoutingCost(ps[j])
                 \/ RoutingCost(ps[i]) = RoutingCost(ps[j]) /\ i < j
  <1>0. Len(ps) \in Nat /\ DOMAIN ps = 1..Len(ps)
    BY DEF IsProviders
  <1>1. IsFiniteSet(S) /\ S \subseteq Nat
    <2>1. IsFiniteSet(1..Len(ps))
      BY <1>0, FS_Interval
    <2> QED BY <1>0, <2>1, FS_Subset
  <1>2. \A i \in S : RoutingCost(ps[i]) \in Nat
    BY CostType DEF IsProviders
  <1>3. \A i, j \in S : <<i, j>> \in ByCost(ps, S) <=>
                 \/ RoutingCost(ps[i]) < RoutingCost(ps[j])
                 \/ RoutingCost(ps[i]) = RoutingCost(ps[j]) /\ i < j
    BY DEF ByCost
  <1>4. Orders(ByCost(ps, S), S)
    BY <1>1, <1>2, <1>3 DEF Orders
  <1> QED BY <1>1, <1>3, <1>4

\* The best entry of each name among S.
Best(ps, S) ==
    {i \in S : \A j \in S : ps[j].name = ps[i].name => i = j \/ <<i, j>> \in ByCost(ps, S)}

\* Sorting and then dropping all but the first entry of a name lists the best
\* entry of each name, in their order.
LEMMA RankedIsBest ==
    ASSUME NEW ps, IsProviders(ps), NEW S, S \subseteq DOMAIN ps
    PROVE  Ranked(ps, S) = Arranged(Best(ps, S), ByCost(ps, Best(ps, S)))
  <1> DEFINE R == ByCost(ps, S)
             B == Best(ps, S)
             n == Cardinality(S)
             order == SortByCost(ps, S)
             first == {k \in DOMAIN order :
                         \A l \in 1..(k - 1) : ps[order[l]].name # ps[order[k]].name}
             kept == Arranged(first, Upwards(first))
             m == Cardinality(first)
             d == [k \in DOMAIN kept |-> order[kept[k]]]
  <1>1. IsFiniteSet(S) /\ S \subseteq Nat /\ Orders(R, S)
    BY CostOrders
  <1>2. /\ n \in Nat /\ order \in [1..n -> S]
        /\ \A i \in S : \E k \in 1..n : order[k] = i
        /\ \A k, l \in 1..n : k < l <=> <<order[k], order[l]>> \in R
    BY <1>1, ArrangedFacts DEF SortByCost
  <1>3. first \subseteq 1..n /\ first \subseteq Nat /\ IsFiniteSet(first)
    <2>1. first \subseteq 1..n
      BY <1>2
    <2> HIDE DEF first, n, order
    <2>2. IsFiniteSet(1..n)
      BY <1>2, FS_Interval
    <2>3. IsFiniteSet(first)
      BY <2>1, <2>2, FS_Subset
    <2> QED BY <1>2, <2>1, <2>3
  <1>4. Ranked(ps, S) = d
    BY DEF Ranked, DedupByName
  <1>5. /\ m \in Nat /\ kept \in [1..m -> first]
        /\ \A i \in first : \E k \in 1..m : kept[k] = i
        /\ \A k, l \in 1..m : k < l => kept[k] < kept[l]
    <2>1. Orders(Upwards(first), first) /\ \A i, j \in first : <<i, j>> \in Upwards(first) <=> i < j
      BY <1>3, UpwardsOrders
    <2> HIDE DEF first
    <2>2. /\ m \in Nat /\ kept \in [1..m -> first]
          /\ \A i \in first : \E k \in 1..m : kept[k] = i
          /\ \A k, l \in 1..m : k < l <=> <<kept[k], kept[l]>> \in Upwards(first)
      BY <1>3, <2>1, ArrangedFacts
    <2> HIDE DEF kept, m
    <2> QED BY <2>1, <2>2
  <1>6. ASSUME NEW x \in first
        PROVE  order[x] \in B
    <2>1. x \in 1..n /\ order[x] \in S
      BY <1>2, <1>3
    <2>2. ASSUME NEW j \in S, ps[j].name = ps[order[x]].name
          PROVE  order[x] = j \/ <<order[x], j>> \in R
      <3>1. PICK l \in 1..n : order[l] = j
        BY <1>2
      <3>2. l \notin 1..(x - 1)
        BY <2>2, <3>1
      <3>3. l = x \/ x < l
        BY <2>1, <3>2, <1>2
      <3> QED BY <1>2, <2>1, <3>1, <3>3
    <2> HIDE DEF order, R, first
    <2> QED BY <2>1, <2>2 DEF Best, R
  <1>7. ASSUME NEW i \in B
        PROVE  \E x \in first : order[x] = i
    <2>0. i \in S /\ \A j \in S : ps[j].name = ps[i].name => i = j \/ <<i, j>> \in R
      BY DEF Best
    <2>1. PICK x \in 1..n : order[x] = i
      BY <1>2, <2>0
    <2>2. ASSUME NEW l \in 1..(x - 1), ps[order[l]].name = ps[i].name
          PROVE  FALSE
      <3>1. l \in 1..n /\ l < x /\ ~(x < l)
        BY <1>2
      <3>2. order[l] \in S /\ <<order[l], i>> \in R /\ <<i, order[l]>> \notin R
        BY <1>2, <2>1, <3>1
      <3>3. order[l] # i
        BY <1>1, <3>2 DEF Orders
      <3> QED BY <2>0, <2>2, <3>2, <3>3
    <2>3. x \in DOMAIN order
      BY <1>2
    <2> QED BY <2>1, <2>2, <2>3
  <1> HIDE DEF first, order, kept, m, n, R, B
  <1>8. d \in [1..m -> B] /\ \A k \in 1..m : d[k] = order[kept[k]]
    BY <1>5, <1>6
  <1>9. ASSUME NEW i \in B
        PROVE  \E k \in 1..m : d[k] = i
    BY <1>5, <1>7, <1>8
  <1>10. B \subseteq S
    BY DEF B, Best
  <1>11. ASSUME NEW k \in 1..m, NEW l \in 1..m, k < l
         PROVE  <<d[k], d[l]>> \in ByCost(ps, B)
    <2>1. kept[k] \in 1..n /\ kept[l] \in 1..n /\ kept[k] < kept[l]
      BY <1>3, <1>5, <1>11
    <2>2. <<d[k], d[l]>> \in R
      BY <1>2, <1>8, <2>1
    <2>3. d[k] \in B /\ d[l] \in B
      BY <1>8
    <2> QED BY <2>2, <2>3 DEF ByCost, R
  <1>12. IsFiniteSet(B) /\ Orders(ByCost(ps, B), B)
    BY <1>10, CostOrders
  <1> HIDE DEF d
  <1>13. d = Arranged(B, ByCost(ps, B))
    <2>1. \A i \in B : \E k \in 1..m : d[k] = i
      BY <1>9
    <2>2. \A k, l \in 1..m : k < l => <<d[k], d[l]>> \in ByCost(ps, B)
      BY <1>11
    <2> DEFINE Q == ByCost(ps, B)
    <2> HIDE DEF Q
    <2>3. m \in Nat /\ d \in [1..m -> B] /\ IsFiniteSet(B) /\ Orders(Q, B)
      BY <1>5, <1>8, <1>12 DEF Q
    <2>4. \A k, l \in 1..m : k < l => <<d[k], d[l]>> \in Q
      BY <2>2 DEF Q
    <2>5. d = Arranged(B, Q)
      BY <2>1, <2>3, <2>4, ArrangedUnique
    <2> QED BY <2>5 DEF Q
  <1> QED BY <1>4, <1>13 DEF B
-----------------------------------------------------------------------------
(* Selection *)

\* The entries that pass all filters.
Passing(ps, policy, model, max_tier) ==
    {i \in DOMAIN ps :
        /\ Serves(ps[i], model)
        /\ ps[i].tier <= max_tier
        /\ \A rule \in policy : /\ rule.allowed = {} \/ model \in rule.allowed
                                /\ ps[i].output_rate <= rule.max_output}

\* The entries at the positions of an order.
Listed(ps, B) == [k \in 1..Cardinality(B) |-> ps[Arranged(B, ByCost(ps, B))[k]]]

\* Without entries there is nothing to list.
LEMMA ListedNone ==
    ASSUME NEW ps
    PROVE  Best(ps, {}) = {} /\ Listed(ps, {}) = << >>
  <1>1. Best(ps, {}) = {}
    BY DEF Best
  <1>2. Cardinality({}) = 0
    BY FS_EmptySet
  <1>3. DOMAIN Listed(ps, {}) = 1..0
    BY <1>2 DEF Listed
  <1>4. Listed(ps, {}) = << >>
    BY <1>2, <1>3 DEF Listed
  <1> QED BY <1>1, <1>4

\* What select_candidates answers: an error if and only if no entry passes,
\* and otherwise the best entries of each name that do, in their order.
LEMMA SelectFacts ==
    ASSUME NEW ps, IsProviders(ps), NEW rules, NEW model, NEW policy_name, NEW words, NEW max_tier
    PROVE  LET E == Passing(ps, find_policy(rules, policy_name, words), model, max_tier)
               answer == select_candidates(ps, rules, model, policy_name, words, max_tier)
           IN  /\ answer = [err |-> answer.err, list |-> Listed(ps, Best(ps, E))]
               /\ answer.err \in RoutingErrors
               /\ answer.err = "none" <=> E # {}
  <1> DEFINE policy == find_policy(rules, policy_name, words)
             served == {i \in DOMAIN ps : Serves(ps[i], model)}
             tiered == {i \in served : ps[i].tier <= max_tier}
             filtered == {i \in tiered : \A rule \in policy : ps[i].output_rate <= rule.max_output}
             passed == apply_policy_constraints(ps, tiered, policy, model)
             order == Ranked(ps, passed.kept)
             E == Passing(ps, policy, model, max_tier)
             answer == select_candidates(ps, rules, model, policy_name, words, max_tier)
             listed(S) == [k \in DOMAIN Ranked(ps, S) |-> ps[Ranked(ps, S)[k]]]
  <1>0. answer = IF served = {} THEN Failed("NoProviders")
                 ELSE IF tiered = {} THEN Failed("NoTierMatch")
                 ELSE [err |-> passed.err, list |-> listed(passed.kept)]
    BY DEF select_candidates
  <1>1. E \subseteq filtered /\ filtered \subseteq tiered /\ tiered \subseteq served
    BY DEF Passing
  <1>2. passed = IF \E rule \in policy : rule.allowed # {} /\ model \notin rule.allowed
                 THEN [err |-> "BadRequest", kept |-> {}]
                 ELSE IF filtered = {} THEN [err |-> "NoPolicyMatch", kept |-> {}]
                 ELSE [err |-> "none", kept |-> filtered]
    BY DEF apply_policy_constraints
  <1>3. CASE served = {} \/ tiered = {}
    <2>1. E = {}
      BY <1>1, <1>3
    <2>2. answer = [err |-> answer.err, list |-> << >>] /\ answer.err \in {"NoProviders", "NoTierMatch"}
      BY <1>0, <1>3 DEF Failed
    <2> QED BY <2>1, <2>2, ListedNone DEF RoutingErrors
  <1>4. CASE served # {} /\ tiered # {}
    <2>1. /\ passed.kept = E /\ passed.err \in {"none", "BadRequest", "NoPolicyMatch"}
          /\ passed.err = "none" <=> E # {}
      <3>1. CASE \E rule \in policy : rule.allowed # {} /\ model \notin rule.allowed
        <4>1. E = {}
          BY <3>1 DEF Passing
        <4> HIDE DEF E, filtered, policy, passed
        <4> QED BY <1>2, <3>1, <4>1
      <3>2. CASE ~ \E rule \in policy : rule.allowed # {} /\ model \notin rule.allowed
        <4>1. E = filtered
          BY <3>2 DEF Passing
        <4> HIDE DEF E, filtered, policy, passed
        <4> QED BY <1>2, <3>2, <4>1
      <3> QED BY <3>1, <3>2
    <2>2. listed(E) = Listed(ps, Best(ps, E))
      <3>1. E \subseteq DOMAIN ps
        BY DEF Passing
      <3>2. Ranked(ps, E) = Arranged(Best(ps, E), ByCost(ps, Best(ps, E)))
        BY <3>1, RankedIsBest
      <3> QED BY <3>2 DEF Listed, Arranged
    <2>3. answer = [err |-> passed.err, list |-> listed(passed.kept)]
      BY <1>0, <1>4
    <2> HIDE DEF E, passed, listed, answer
    <2> QED BY <2>1, <2>2, <2>3 DEF answer, E, RoutingErrors
  <1> QED BY <1>3, <1>4

\* The list holds the best entries, each once, and a better one earlier.
LEMMA ListedFacts ==
    ASSUME NEW ps, IsProviders(ps), NEW S, S \subseteq DOMAIN ps
    PROVE  LET B == Best(ps, S)
               n == Cardinality(B)
               order == Arranged(B, ByCost(ps, B))
           IN  /\ n \in Nat /\ order \in [1..n -> B]
               /\ \A i \in B : \E k \in 1..n : order[k] = i
               /\ \A k, l \in 1..n : k < l <=> <<order[k], order[l]>> \in ByCost(ps, B)
               /\ \A k \in 1..n : Listed(ps, B)[k] = ps[order[k]]
               /\ Listed(ps, B) \in [1..n -> {ps[i] : i \in DOMAIN ps}]
  <1> DEFINE B == Best(ps, S)
             n == Cardinality(B)
             order == Arranged(B, ByCost(ps, B))
  <1>1. B \subseteq S /\ B \subseteq DOMAIN ps
    BY DEF Best
  <1>2. IsFiniteSet(B) /\ Orders(ByCost(ps, B), B)
    BY <1>1, CostOrders
  <1>3. /\ n \in Nat /\ order \in [1..n -> B]
        /\ \A i \in B : \E k \in 1..n : order[k] = i
        /\ \A k, l \in 1..n : k < l <=> <<order[k], order[l]>> \in ByCost(ps, B)
    BY <1>2, ArrangedFacts
  <1>4. Listed(ps, B) = [k \in 1..n |-> ps[order[k]]]
    BY DEF Listed
  <1> HIDE DEF B, n, order
  <1>5. Listed(ps, B) \in [1..n -> {ps[i] : i \in DOMAIN ps}]
    BY <1>1, <1>3, <1>4
  <1> QED BY <1>3, <1>4, <1>5 DEF B, n, order
-----------------------------------------------------------------------------
(* Scoring *)

\* A sum over a conversation grows by the part of the message appended.
LEMMA MappedTotal ==
    ASSUME NEW ms \in Seq(Messages), NEW m \in Messages, NEW h \in [Messages -> Nat]
    PROVE  LET longer == Append(ms, m)
           IN  /\ Total([i \in DOMAIN ms |-> h[ms[i]]]) \in Nat
               /\ Total([i \in DOMAIN longer |-> h[longer[i]]])
                    = Total([i \in DOMAIN ms |-> h[ms[i]]]) + h[m]
  <1> DEFINE s == [i \in DOMAIN ms |-> h[ms[i]]]
             longer == Append(ms, m)
             t == [i \in DOMAIN longer |-> h[longer[i]]]
  <1>1. /\ Len(ms) \in Nat /\ DOMAIN ms = 1..Len(ms) /\ \A i \in DOMAIN ms : ms[i] \in Messages
        /\ longer \in Seq(Messages) /\ DOMAIN longer = 1..(Len(ms) + 1)
        /\ \A i \in DOMAIN ms : longer[i] = ms[i]
        /\ longer[Len(ms) + 1] = m
    BY LenProperties, ElementOfSeq, AppendProperties
  <1> HIDE DEF longer
  <1>2. s \in Seq(Nat) /\ Len(s) = Len(ms)
    <2>1. s \in [1..Len(ms) -> Nat]
      BY <1>1
    <2>2. s \in Seq(Nat)
      BY <1>1, <2>1
    <2> QED BY <1>1, <2>1, <2>2
  <1>3. t = Append(s, h[m])
    <2>1. DOMAIN t = 1..(Len(ms) + 1)
      BY <1>1
    <2>2. /\ Append(s, h[m]) \in Seq(Nat)
          /\ Len(Append(s, h[m])) = Len(s) + 1
          /\ Append(s, h[m])[Len(s) + 1] = h[m]
          /\ \A i \in 1..Len(s) : Append(s, h[m])[i] = s[i]
      <3> HIDE DEF s
      <3> QED BY <1>2, AppendProperties, LenProperties
    <2>3. DOMAIN Append(s, h[m]) = 1..(Len(ms) + 1)
      BY <1>2, <2>2, LenProperties
    <2>4. ASSUME NEW i \in 1..(Len(ms) + 1)
          PROVE  t[i] = Append(s, h[m])[i]
      <3>1. CASE i = Len(ms) + 1
        BY <1>1, <1>2, <2>2, <3>1
      <3>2. CASE i \in 1..Len(ms)
        BY <1>1, <1>2, <2>2, <3>2
      <3> QED BY <1>1, <3>1, <3>2
    <2>5. /\ t = [i \in 1..(Len(ms) + 1) |-> t[i]]
          /\ Append(s, h[m]) = [i \in 1..(Len(ms) + 1) |-> Append(s, h[m])[i]]
      BY <2>1, <2>2, <2>3
    <2> HIDE DEF t, s
    <2> QED BY <2>4, <2>5
  <1> HIDE DEF s, t
  <1> QED BY <1>2, <1>3, TotalFacts DEF s, t, longer

\* The number of characters grows with a conversation, and its text.
LEMMA CharsGrow ==
    ASSUME NEW ms \in Seq(Messages), NEW m \in Messages
    PROVE  /\ Chars(ms) \in Nat
           /\ Chars(Append(ms, m)) = Chars(ms) + m.len
           /\ m.len \in Nat
  <1> DEFINE h == [x \in Messages |-> x.len]
  <1>1. h \in [Messages -> Nat] /\ h[m] = m.len
    BY MessagesAssumption
  <1>2. \A s \in Seq(Messages) : [i \in DOMAIN s |-> h[s[i]]] = [i \in DOMAIN s |-> s[i].len]
    BY ElementOfSeq, LenProperties
  <1> HIDE DEF h
  <1>3. Append(ms, m) \in Seq(Messages)
    BY AppendProperties
  <1>4. h[m] \in Nat
    BY <1>1
  <1>5. LET c(s) == Total([i \in DOMAIN s |-> h[s[i]]])
        IN  c(ms) \in Nat /\ c(Append(ms, m)) = c(ms) + h[m]
    BY <1>1, MappedTotal
  <1>6. \A s \in Seq(Messages) : Chars(s) = Total([i \in DOMAIN s |-> h[s[i]]])
    BY <1>2 DEF Chars
  <1> QED BY <1>1, <1>3, <1>4, <1>5, <1>6

\* A sigmoid grows.
LEMMA SigmoidGrows ==
    ASSUME NEW f \in {ContextSignal, DepthSignal}, NEW x \in Nat, NEW y \in Nat, x <= y
    PROVE  Sigmoid(f, x) \in Nat /\ Sigmoid(f, y) \in Nat /\ Sigmoid(f, x) <= Sigmoid(f, y)
  <1>1. /\ f \in Seq(Nat) /\ f # << >>
        /\ \A a, b \in DOMAIN f : a <= b => f[a] <= f[b]
    BY SignalAssumption
  <1>2. Len(f) \in Nat /\ Len(f) > 0 /\ DOMAIN f = 1..Len(f) /\ \A a \in DOMAIN f : f[a] \in Nat
    BY <1>1, LenProperties, ElementOfSeq, EmptySeq
  <1>3. ASSUME NEW n \in Nat
        PROVE  LET k == Min({n + 1, Len(f)})
               IN  /\ k \in {n + 1, Len(f)} /\ k <= n + 1 /\ k <= Len(f)
                   /\ k \in 1..Len(f)
    <2> DEFINE k == Min({n + 1, Len(f)})
    <2>1. k \in {n + 1, Len(f)} /\ \A z \in {n + 1, Len(f)} : k <= z
      <3> DEFINE T == {n + 1, Len(f)}
      <3>1. T \subseteq Nat /\ T # {}
        BY <1>2
      <3> HIDE DEF T
      <3>2. Min(T) \in T /\ \A z \in T : Min(T) <= z
        BY <3>1, MinFacts
      <3> QED BY <3>2 DEF T
    <2> HIDE DEF k
    <2> QED BY <1>2, <2>1 DEF k
  <1>4. Min({x + 1, Len(f)}) <= Min({y + 1, Len(f)})
    BY <1>2, <1>3
  <1> QED BY <1>1, <1>2, <1>3, <1>4 DEF Sigmoid

\* And so does the signal of a count.
LEMMA ThirdGrows ==
    ASSUME NEW x \in Nat, NEW y \in Nat, x <= y
    PROVE  Third(x) \in Nat /\ Third(y) \in Nat /\ Third(x) <= Third(y)
  <1>1. ASSUME NEW n \in Nat
        PROVE  /\ Min({n, 3}) \in Nat /\ Min({n, 3}) <= n /\ Min({n, 3}) <= 3
               /\ Min({n, 3}) = n \/ Min({n, 3}) = 3
    BY MinFacts
  <1>2. Min({x, 3}) <= Min({y, 3})
    BY <1>1
  <1>3. SCALE \div 3 \in Nat
    BY ScaleAssumption
  <1> QED BY <1>1, <1>2, <1>3, ProductGrows DEF Third

\* What occurs in the messages of a conversation is finite, and stays in it.
LEMMA UnionGrows ==
    ASSUME NEW ms \in Seq(Messages), NEW m \in Messages
    PROVE  LET longer == Append(ms, m)
           IN  /\ UNION {x.files : x \in ToSet(ms)} \subseteq UNION {x.files : x \in ToSet(longer)}
               /\ IsFiniteSet(UNION {x.files : x \in ToSet(longer)})
               /\ UNION {x.words : x \in ToSet(ms)} \subseteq UNION {x.words : x \in ToSet(longer)}
               /\ IsFiniteSet(UNION {x.words : x \in ToSet(longer)})
  <1> DEFINE longer == Append(ms, m)
             S == ToSet(longer)
  <1>1. /\ Len(ms) \in Nat /\ DOMAIN ms = 1..Len(ms) /\ \A i \in DOMAIN ms : ms[i] \in Messages
        /\ longer \in Seq(Messages) /\ DOMAIN longer = 1..(Len(ms) + 1)
        /\ \A i \in DOMAIN ms : longer[i] = ms[i]
    BY LenProperties, ElementOfSeq, AppendProperties
  <1>2. \A i \in DOMAIN longer : longer[i] \in Messages
    BY <1>1, ElementOfSeq, LenProperties
  <1> HIDE DEF longer
  <1>3. ToSet(ms) \subseteq S /\ S \subseteq Messages
    BY <1>1, <1>2 DEF ToSet
  <1>4. IsFiniteSet(S)
    <2>1. IsFiniteSet(1..(Len(ms) + 1))
      BY <1>1, FS_Interval
    <2>2. IsFiniteSet({longer[i] : i \in 1..(Len(ms) + 1)})
      BY <2>1, FiniteImage
    <2> QED BY <1>1, <2>2 DEF ToSet
  <1> HIDE DEF S
  <1>5. IsFiniteSet({x.files : x \in S}) /\ IsFiniteSet({x.words : x \in S})
    <2> DEFINE files == [x \in S |-> x.files]
               words == [x \in S |-> x.words]
    <2>1. IsFiniteSet({files[x] : x \in S}) /\ IsFiniteSet({words[x] : x \in S})
      BY <1>4, FiniteImage
    <2> QED BY <2>1
  <1>6. /\ \A T \in {x.files : x \in S} : IsFiniteSet(T)
        /\ \A T \in {x.words : x \in S} : IsFiniteSet(T)
    BY <1>3, MessagesAssumption
  <1>7. /\ IsFiniteSet(UNION {x.files : x \in S})
        /\ IsFiniteSet(UNION {x.words : x \in S})
    BY <1>5, <1>6, FS_UNION
  <1>8. /\ UNION {x.files : x \in ToSet(ms)} \subseteq UNION {x.files : x \in S}
        /\ UNION {x.words : x \in ToSet(ms)} \subseteq UNION {x.words : x \in S}
    BY <1>3
  <1> QED BY <1>7, <1>8 DEF S, longer

\* The signals of a conversation, in the order of their weights.
Signals(ms, extra) ==
    << Sigmoid(ContextSignal, TextLen(ms) \div 4), signal_code_blocks(ms), signal_multi_file(ms),
       signal_reasoning_keywords(ms, extra), Sigmoid(DepthSignal, Len(ms)) >>

\* Every signal of a conversation grows with it.
LEMMA SignalsGrow ==
    ASSUME NEW ms \in Seq(Messages), ms # << >>, NEW m \in Messages, NEW extra \in Seq(STRING)
    PROVE  /\ TextLen(ms) \in Nat /\ TextLen(Append(ms, m)) \in Nat
           /\ TextLen(ms) <= TextLen(Append(ms, m))
           /\ \A i \in 1..5 : /\ Signals(ms, extra)[i] \in Nat
                             /\ Signals(Append(ms, m), extra)[i] \in Nat
                             /\ Signals(ms, extra)[i] <= Signals(Append(ms, m), extra)[i]
  <1> DEFINE longer == Append(ms, m)
  <1>0. Len(ms) \in Nat /\ Len(ms) > 0 /\ Len(longer) = Len(ms) + 1 /\ longer \in Seq(Messages)
    BY LenProperties, EmptySeq, AppendProperties
  <1>1. TextLen(ms) \in Nat /\ TextLen(longer) \in Nat /\ TextLen(ms) <= TextLen(longer)
    <2>1. Chars(ms) \in Nat /\ Chars(longer) = Chars(ms) + m.len /\ m.len \in Nat
      BY CharsGrow
    <2> HIDE DEF longer
    <2> QED BY <1>0, <2>1 DEF TextLen
  <1>2. LET f(x) == Sigmoid(ContextSignal, TextLen(x) \div 4)
        IN  f(ms) \in Nat /\ f(longer) \in Nat /\ f(ms) <= f(longer)
    <2>1. /\ TextLen(ms) \div 4 \in Nat /\ TextLen(longer) \div 4 \in Nat
          /\ TextLen(ms) \div 4 <= TextLen(longer) \div 4
      BY <1>1, QuotientGrows
    <2> QED BY <2>1, SigmoidGrows
  <1>3. LET f(x) == signal_code_blocks(x)
        IN  f(ms) \in Nat /\ f(longer) \in Nat /\ f(ms) <= f(longer)
    <2> DEFINE h == [x \in Messages |-> x.fences]
               t(s) == Total([i \in DOMAIN s |-> s[i].fences])
    <2>1. h \in [Messages -> Nat]
      BY MessagesAssumption
    <2>2. \A s \in Seq(Messages) : [i \in DOMAIN s |-> h[s[i]]] = [i \in DOMAIN s |-> s[i].fences]
      BY ElementOfSeq, LenProperties
    <2> HIDE DEF h
    <2>3. t(ms) \in Nat /\ t(longer) = t(ms) + h[m] /\ h[m] \in Nat
      BY <1>0, <2>1, <2>2, MappedTotal
    <2> HIDE DEF t
    <2>4. t(ms) \div 2 \in Nat /\ t(longer) \div 2 \in Nat /\ t(ms) \div 2 <= t(longer) \div 2
      <3>1. t(longer) \in Nat /\ t(ms) <= t(longer)
        BY <2>3
      <3>2. PICK a \in Nat, b \in Nat : a = t(ms) /\ b = t(longer) /\ a <= b
        BY <2>3, <3>1
      <3>3. a \div 2 \in Nat /\ b \div 2 \in Nat /\ a \div 2 <= b \div 2
        BY <3>2
      <3> QED BY <3>2, <3>3
    <2> QED BY <2>4, ThirdGrows DEF signal_code_blocks, t
  <1>4. LET f(x) == signal_multi_file(x)
        IN  f(ms) \in Nat /\ f(longer) \in Nat /\ f(ms) <= f(longer)
    <2> DEFINE files(s) == UNION {x.files : x \in ToSet(s)}
    <2>1. files(ms) \subseteq files(longer) /\ IsFiniteSet(files(longer))
      BY UnionGrows
    <2> HIDE DEF files
    <2>2. /\ Cardinality(files(ms)) \in Nat /\ Cardinality(files(longer)) \in Nat
          /\ Cardinality(files(ms)) <= Cardinality(files(longer))
      BY <2>1, CardinalityGrows
    <2> QED BY <2>2, ThirdGrows DEF signal_multi_file, files
  <1>5. LET f(x) == signal_reasoning_keywords(x, extra)
        IN  f(ms) \in Nat /\ f(longer) \in Nat /\ f(ms) <= f(longer)
    <2> DEFINE words(s) == UNION {x.words : x \in ToSet(s)}
               default(s) == words(s) \cap DefaultKeywords
               more(s) == {i \in DOMAIN extra : extra[i] \in words(s)}
               c(s) == Cardinality(default(s)) + Cardinality(more(s))
    <2>1. words(ms) \subseteq words(longer) /\ IsFiniteSet(words(longer))
      BY UnionGrows
    <2> HIDE DEF words
    <2>2. default(ms) \subseteq default(longer) /\ IsFiniteSet(default(longer))
      BY <2>1, FS_Subset
    <2>3. more(ms) \subseteq more(longer) /\ IsFiniteSet(more(longer))
      <3>1. Len(extra) \in Nat /\ DOMAIN extra = 1..Len(extra)
        BY LenProperties
      <3>2. IsFiniteSet(1..Len(extra))
        BY <3>1, FS_Interval
      <3> QED BY <2>1, <3>1, <3>2, FS_Subset
    <2> HIDE DEF default, more
    <2>4. /\ Cardinality(default(ms)) \in Nat /\ Cardinality(default(longer)) \in Nat
          /\ Cardinality(default(ms)) <= Cardinality(default(longer))
      BY <2>2, CardinalityGrows
    <2>5. /\ Cardinality(more(ms)) \in Nat /\ Cardinality(more(longer)) \in Nat
          /\ Cardinality(more(ms)) <= Cardinality(more(longer))
      BY <2>3, CardinalityGrows
    <2>6. c(ms) \in Nat /\ c(longer) \in Nat /\ c(ms) <= c(longer)
      BY <2>4, <2>5
    <2> HIDE DEF c
    <2>7. Third(c(ms)) \in Nat /\ Third(c(longer)) \in Nat /\ Third(c(ms)) <= Third(c(longer))
      BY <2>6, ThirdGrows
    <2> QED BY <2>7 DEF signal_reasoning_keywords, c, default, more, words
  <1>6. LET f(x) == Sigmoid(DepthSignal, Len(x))
        IN  f(ms) \in Nat /\ f(longer) \in Nat /\ f(ms) <= f(longer)
    <2>1. Len(longer) \in Nat /\ Len(ms) <= Len(longer)
      BY <1>0
    <2> HIDE DEF longer
    <2> QED BY <1>0, <2>1, SigmoidGrows
  <1> HIDE DEF longer
  <1>7. ASSUME NEW i \in 1..5
        PROVE  /\ Signals(ms, extra)[i] \in Nat
               /\ Signals(longer, extra)[i] \in Nat
               /\ Signals(ms, extra)[i] <= Signals(longer, extra)[i]
    <2>1. i = 1 \/ i = 2 \/ i = 3 \/ i = 4 \/ i = 5
      OBVIOUS
    <2>2. CASE i = 1
      BY <1>2, <2>2 DEF Signals
    <2>3. CASE i = 2
      BY <1>3, <2>3 DEF Signals
    <2>4. CASE i = 3
      BY <1>4, <2>4 DEF Signals
    <2>5. CASE i = 4
      BY <1>5, <2>5 DEF Signals
    <2>6. CASE i = 5
      BY <1>6, <2>6 DEF Signals
    <2> QED BY <2>1, <2>2, <2>3, <2>4, <2>5, <2>6
  <1> QED BY <1>1, <1>7 DEF longer

\* Clamping keeps the order.
LEMMA ClampGrows ==
    ASSUME NEW x \in Nat, NEW y \in Nat, x <= y
    PROVE  Clamp(x) \in Nat /\ Clamp(y) \in Nat /\ Clamp(x) <= Clamp(y)
  <1>1. SCALE \in Nat
    BY ScaleAssumption
  <1>2. \A z \in Nat : Clamp(z) = IF z > SCALE THEN SCALE ELSE z
    BY DEF Clamp
  <1> QED BY <1>1, <1>2

\* The score of a conversation long enough to be scored grows with it, if no
\* weight is negative.
LEMMA ScoreGrows ==
    ASSUME NEW ms \in Seq(Messages), ms # << >>, ~(TextLen(ms) < MIN_TEXT_LEN), NEW m \in Messages,
           NEW weights \in Seq(Nat), Len(weights) = 5, NEW extra \in Seq(STRING)
    PROVE  LET longer == Append(ms, m)
           IN  /\ longer # << >> /\ ~(TextLen(longer) < MIN_TEXT_LEN)
               /\ score_complexity(ms, weights, extra) \in Nat
               /\ score_complexity(longer, weights, extra) \in Nat
               /\ score_complexity(ms, weights, extra) <= score_complexity(longer, weights, extra)
  <1> DEFINE longer == Append(ms, m)
             s(x) == [i \in 1..5 |-> Signals(x, extra)[i] * weights[i]]
             score(x) == IF Total(weights) = 0 THEN SCALE
                         ELSE IF Total(weights) > 0 THEN Clamp(Total(s(x)) \div Total(weights))
                         ELSE Clamp((-Total(s(x))) \div (-Total(weights)))
  <1>1. longer # << >>
    <2>1. Len(longer) = Len(ms) + 1 /\ Len(ms) \in Nat
      BY AppendProperties, LenProperties
    <2> QED BY <2>1
  <1>2. /\ TextLen(ms) \in Nat /\ TextLen(longer) \in Nat /\ TextLen(ms) <= TextLen(longer)
        /\ \A i \in 1..5 : /\ Signals(ms, extra)[i] \in Nat
                          /\ Signals(longer, extra)[i] \in Nat
                          /\ Signals(ms, extra)[i] <= Signals(longer, extra)[i]
    BY SignalsGrow
  <1> HIDE DEF longer
  <1>3. ~(TextLen(longer) < MIN_TEXT_LEN)
    BY <1>2, ScaleAssumption
  <1>4. score_complexity(ms, weights, extra) = score(ms)
    BY DEF score_complexity, Signals
  <1>5. score_complexity(longer, weights, extra) = score(longer)
    BY <1>1, <1>3 DEF score_complexity, Signals
  <1>6. ASSUME NEW i \in 1..5
        PROVE  /\ s(ms)[i] \in Nat /\ s(longer)[i] \in Nat
               /\ s(ms)[i] <= s(longer)[i]
    <2>1. weights[i] \in Nat
      BY ElementOfSeq
    <2> QED BY <1>2, <2>1, ProductGrows
  <1>7. s(ms) \in [1..5 -> Nat] /\ s(longer) \in [1..5 -> Nat]
    BY <1>6
  <1> HIDE DEF s
  <1>8. /\ s(ms) \in Seq(Nat) /\ s(longer) \in Seq(Nat)
        /\ Len(s(ms)) = 5 /\ Len(s(longer)) = 5
    BY <1>7, SeqOfFunction
  <1>9. /\ Total(s(ms)) \in Nat /\ Total(s(longer)) \in Nat
        /\ Total(s(ms)) <= Total(s(longer))
    BY <1>6, <1>8, TotalGrows
  <1>10. Total(weights) \in Nat
    BY TotalFacts
  <1>11. score(ms) \in Nat /\ score(longer) \in Nat /\ score(ms) <= score(longer)
    <2>1. CASE Total(weights) = 0
      BY <2>1, ScaleAssumption
    <2>2. CASE Total(weights) # 0
      <3> DEFINE q(x) == Total(s(x)) \div Total(weights)
      <3>1. q(ms) \in Nat /\ q(longer) \in Nat /\ q(ms) <= q(longer)
        BY <1>9, <1>10, <2>2, QuotientGrows
      <3>2. score(ms) = Clamp(q(ms)) /\ score(longer) = Clamp(q(longer))
        <4>1. Total(weights) > 0
          BY <1>10, <2>2
        <4> QED BY <2>2, <4>1
      <3> HIDE DEF q, score
      <3>3. PICK a \in Nat, b \in Nat : a = q(ms) /\ b = q(longer) /\ a <= b
        BY <3>1
      <3>4. Clamp(a) \in Nat /\ Clamp(b) \in Nat /\ Clamp(a) <= Clamp(b)
        BY <3>3, ClampGrows
      <3> QED BY <3>2, <3>3, <3>4
    <2> QED BY <2>1, <2>2
  <1> HIDE DEF score
  <1> QED BY <1>1, <1>3, <1>4, <1>5, <1>11 DEF longer
-----------------------------------------------------------------------------
(* The inductive invariant *)

\* Nothing is asked before the server listens, and nothing found before the
\* configuration is loaded.
QuietBeforeServe ==
    /\ phase = "start" => found = 0
    /\ phase # "serve" => req = Idle /\ scored = 0

\* What a request is offered is what the router would answer now.
AnswerFits ==
    req.pc = "select" => req.answer = Candidates(req.model, req.policy, req.tier)

\* The reservation is the estimate at rates no candidate exceeds.
ReservationFits ==
    req.pc = "reserved" =>
        /\ \A p \in ToSet(req.answer.list) :
              \E i \in DOMAIN providers : p = providers[i] /\ Serves(p, req.model)
        /\ req.msats = estimate_reserve_msats(req.tokens.input, req.tokens.output,
                                              frontier_rates(providers, req.model))

\* The tier a conversation was scored for is one it would still get, unless a
\* weight is negative.
ScoreFits ==
    scored # 0 => ~TooShort(messages) /\ (WeightsNotNegative => scored <= ScoreTier(messages))

IndInv ==
    /\ TypeOK /\ QuietBeforeServe /\ AnswerFits /\ ReservationFits /\ ReservationCovers
    /\ ScoreFits

\* Loading a configuration changes no more than the keys of its providers.
LEMMA LoadedProviders ==
    ASSUME NEW f \in Files
    PROVE  IsProviders(from_file_with_env(f).providers)
  <1> DEFINE raw == f.providers
             keys == [i \in DOMAIN raw |-> ResolveKey(raw[i])]
             set == [i \in DOMAIN keys |-> [raw[i] EXCEPT !.api_key = keys[i].value]]
  <1>1. Len(raw) \in Nat /\ DOMAIN raw = 1..Len(raw) /\ \A i \in DOMAIN raw : IsProvider(raw[i])
    BY FilesAssumption DEF IsProviders
  <1>2. from_file_with_env(f).providers \in {<< >>, set}
    BY DEF from_file_with_env
  <1>3. IsProviders(<< >>)
    BY DEF IsProviders
  <1>4. IsProviders(set)
    <2>1. ASSUME NEW p, IsProvider(p), NEW v
          PROVE  IsProvider([p EXCEPT !.api_key = v])
      BY <2>1 DEF IsProvider
    <2>2. \A i \in 1..Len(raw) : IsProvider(set[i])
      BY <1>1, <2>1
    <2>3. set \in [1..Len(raw) -> {set[i] : i \in 1..Len(raw)}]
      BY <1>1
    <2> HIDE DEF set
    <2>4. Len(set) = Len(raw) /\ DOMAIN set = 1..Len(raw)
      BY <1>1, <2>3, SeqOfFunction
    <2> QED BY <1>1, <2>2, <2>4 DEF IsProviders
  <1> QED BY <1>2, <1>3, <1>4

\* Discovery changes no more than the models of a provider.
LEMMA DiscoveredProviders ==
    ASSUME NEW ps, IsProviders(ps), NEW i \in DOMAIN ps, NEW ids \in SUBSET Models
    PROVE  LET set == [ps EXCEPT ![i].models = ids]
           IN  IsProviders(set) /\ Len(set) = Len(ps)
  <1> DEFINE set == [ps EXCEPT ![i].models = ids]
  <1>1. Len(ps) \in Nat /\ DOMAIN ps = 1..Len(ps) /\ \A j \in DOMAIN ps : IsProvider(ps[j])
    BY DEF IsProviders
  <1>2. IsProvider([ps[i] EXCEPT !.models = ids])
    BY <1>1 DEF IsProvider
  <1>3. \A j \in 1..Len(ps) : IsProvider(set[j])
    BY <1>1, <1>2
  <1>4. DOMAIN set = 1..Len(ps) /\ set = [j \in 1..Len(ps) |-> set[j]]
    BY <1>1
  <1> HIDE DEF set
  <1>5. set \in [1..Len(ps) -> {set[j] : j \in 1..Len(ps)}]
    BY <1>4
  <1>6. Len(set) = Len(ps)
    BY <1>1, <1>5, SeqOfFunction
  <1> QED BY <1>1, <1>3, <1>4, <1>6 DEF IsProviders, set

\* The candidates for a request are entries of the configuration that serve
\* its model.
LEMMA AnswerType ==
    ASSUME IsProviders(providers), NEW model, NEW policy, NEW tier
    PROVE  LET answer == Candidates(model, policy, tier)
           IN  /\ answer \in Answers
               /\ \A p \in ToSet(answer.list) :
                     \E i \in DOMAIN providers : p = providers[i] /\ Serves(p, model)
  <1> DEFINE answer == Candidates(model, policy, tier)
             E == Passing(providers, find_policy(file.rules, policy, user_prompt(messages)), model, tier)
             B == Best(providers, E)
             n == Cardinality(B)
             order == Arranged(B, ByCost(providers, B))
  <1>1. answer = [err |-> answer.err, list |-> Listed(providers, B)] /\ answer.err \in RoutingErrors
    BY SelectFacts DEF Candidates, RoutingErrors
  <1>2. E \subseteq DOMAIN providers /\ B \subseteq E /\ \A i \in E : Serves(providers[i], model)
    BY DEF Passing, Best
  <1>3. /\ n \in Nat /\ order \in [1..n -> B]
        /\ \A k \in 1..n : Listed(providers, B)[k] = providers[order[k]]
        /\ Listed(providers, B) \in [1..n -> {providers[i] : i \in DOMAIN providers}]
    BY <1>2, ListedFacts
  <1> HIDE DEF B, E, n, order, answer
  <1>4. answer.list \in Seq({providers[i] : i \in DOMAIN providers}) /\ DOMAIN answer.list = 1..n
    BY <1>1, <1>3, SeqOfFunction
  <1>5. answer \in Answers
    BY <1>1, <1>4 DEF Answers
  <1>6. ASSUME NEW p \in ToSet(answer.list)
        PROVE  \E i \in DOMAIN providers : p = providers[i] /\ Serves(p, model)
    <2>1. PICK k \in 1..n : p = answer.list[k]
      BY <1>4 DEF ToSet
    <2>2. p = providers[order[k]] /\ order[k] \in B
      BY <1>1, <1>3, <2>1
    <2> QED BY <1>2, <2>2
  <1> QED BY <1>5, <1>6 DEF answer

\* No provider of a model has a rate above the frontier rates.
LEMMA FrontierFacts ==
    ASSUME NEW ps, IsProviders(ps), NEW model, NEW i \in DOMAIN ps, Serves(ps[i], model)
    PROVE  LET rates == frontier_rates(ps, model)
           IN  /\ rates.input \in Nat /\ rates.output \in Nat /\ rates.base \in Nat
               /\ ps[i].input_rate \in Nat /\ ps[i].output_rate \in Nat /\ ps[i].base_fee \in Nat
               /\ ps[i].input_rate <= rates.input
               /\ ps[i].output_rate <= rates.output
               /\ ps[i].base_fee <= rates.base
  <1> DEFINE served == {p \in ToSet(ps) : Serves(p, model)}
             ins == {p.input_rate : p \in served}
             outs == {p.output_rate : p \in served}
             fees == {p.base_fee : p \in served}
  <1>1. Len(ps) \in Nat /\ DOMAIN ps = 1..Len(ps) /\ \A j \in DOMAIN ps : IsProvider(ps[j])
    BY DEF IsProviders
  <1>2. IsFiniteSet(served) /\ ps[i] \in served /\ \A p \in served : IsProvider(p)
    <2>1. IsFiniteSet(1..Len(ps))
      BY <1>1, FS_Interval
    <2>2. IsFiniteSet({ps[j] : j \in 1..Len(ps)})
      BY <2>1, FiniteImage
    <2>3. IsFiniteSet(ToSet(ps)) /\ served \subseteq ToSet(ps)
      BY <1>1, <2>2 DEF ToSet
    <2>4. IsFiniteSet(served)
      BY <2>3, FS_Subset
    <2> QED BY <1>1, <2>4 DEF ToSet
  <1> HIDE DEF served
  <1>3. IsFiniteSet(ins) /\ IsFiniteSet(outs) /\ IsFiniteSet(fees)
    <2> DEFINE a == [p \in served |-> p.input_rate]
               b == [p \in served |-> p.output_rate]
               c == [p \in served |-> p.base_fee]
    <2>1. /\ IsFiniteSet({a[p] : p \in served}) /\ IsFiniteSet({b[p] : p \in served})
          /\ IsFiniteSet({c[p] : p \in served})
      BY <1>2, FiniteImage
    <2> QED BY <2>1
  <1>4. /\ ins \subseteq Nat /\ outs \subseteq Nat /\ fees \subseteq Nat
        /\ ps[i].input_rate \in ins /\ ps[i].output_rate \in outs /\ ps[i].base_fee \in fees
    BY <1>2 DEF IsProvider
  <1>5. frontier_rates(ps, model) = [input |-> Max(ins), output |-> Max(outs), base |-> Max(fees)]
    BY DEF frontier_rates, served
  <1> HIDE DEF ins, outs, fees
  <1>6. /\ Max(ins) \in ins /\ ps[i].input_rate <= Max(ins)
        /\ Max(outs) \in outs /\ ps[i].output_rate <= Max(outs)
        /\ Max(fees) \in fees /\ ps[i].base_fee <= Max(fees)
    BY <1>3, <1>4, FiniteMaxFacts
  <1>7. /\ Max(ins) \in Nat /\ Max(outs) \in Nat /\ Max(fees) \in Nat
        /\ ps[i].input_rate \in Nat /\ ps[i].output_rate \in Nat /\ ps[i].base_fee \in Nat
    BY <1>4, <1>6
  <1> QED BY <1>5, <1>6, <1>7

\* So the bill of any of them is at most the estimate, for no more tokens.
LEMMA EstimateCovers ==
    ASSUME NEW ps, IsProviders(ps), NEW model, NEW i \in DOMAIN ps, Serves(ps[i], model),
           NEW m \in Nat, NEW n \in Nat, NEW x \in 0..m, NEW y \in 0..n
    PROVE  /\ actual_cost_msats(x, y, ps[i]) \in Nat
           /\ estimate_reserve_msats(m, n, frontier_rates(ps, model)) \in Nat
           /\ actual_cost_msats(x, y, ps[i])
                <= estimate_reserve_msats(m, n, frontier_rates(ps, model))
  <1> DEFINE rates == frontier_rates(ps, model)
             p == ps[i]
  <1>1. /\ rates.input \in Nat /\ rates.output \in Nat /\ rates.base \in Nat
        /\ p.input_rate \in Nat /\ p.output_rate \in Nat /\ p.base_fee \in Nat
        /\ p.input_rate <= rates.input /\ p.output_rate <= rates.output /\ p.base_fee <= rates.base
    BY FrontierFacts
  <1> HIDE DEF rates, p
  <1>2. ASSUME NEW k \in Nat
        PROVE  (k * 1000) \div 1000 = k
    OBVIOUS
  <1>3. ASSUME NEW k \in Nat, NEW z \in 0..k, NEW low \in Nat, NEW high \in Nat, low <= high
        PROVE  z * low \in Nat /\ k * high \in Nat /\ z * low <= k * high
    <2>1. z \in Nat /\ z <= k
      OBVIOUS
    <2>2. z * low \in Nat /\ k * low \in Nat /\ z * low <= k * low
      BY <2>1, ProductGrows
    <2>3. low * k \in Nat /\ high * k \in Nat /\ low * k <= high * k
      BY <1>3, ProductGrows
    <2>4. k * low = low * k /\ k * high = high * k
      OBVIOUS
    <2> QED BY <2>2, <2>3, <2>4
  <1> DEFINE u == m * rates.input
             v == n * rates.output
             s == x * p.input_rate
             t == y * p.output_rate
  <1>4. s \in Nat /\ u \in Nat /\ s <= u
    BY <1>1, <1>3
  <1>5. t \in Nat /\ v \in Nat /\ t <= v
    BY <1>1, <1>3
  <1>6. /\ estimate_reserve_msats(m, n, rates) = u + v + rates.base * 1000
        /\ actual_cost_msats(x, y, p) = s + t + 1000 * p.base_fee
    BY <1>2, <1>4, <1>5 DEF estimate_reserve_msats, actual_cost_msats
  <1> HIDE DEF u, v, s, t
  <1> QED BY <1>1, <1>4, <1>5, <1>6 DEF p, rates

\* A conversation has an estimate, and it depends on max_tokens for the
\* answer's length only.
LEMMA TokensType ==
    ASSUME TypeOK, NEW max_tokens \in Nat, NEW d \in Nat
    PROVE  /\ estimate_tokens(messages, max_tokens, d) \in [input : Nat, output : Nat]
           /\ ReserveTokens(max_tokens) \in [input : Nat, output : Nat]
           /\ estimate_tokens(messages, max_tokens, d).input = ReserveTokens(max_tokens).input
  <1>1. file.default_reserve_tokens \in Nat /\ messages \in Seq(Messages)
    BY FilesAssumption DEF TypeOK
  <1>2. Chars(messages) \in Nat
    <2>1. ASSUME NEW s \in Seq(Messages)
          PROVE  [i \in DOMAIN s |-> s[i].len] \in Seq(Nat)
      <3>1. Len(s) \in Nat /\ DOMAIN s = 1..Len(s) /\ \A i \in DOMAIN s : s[i] \in Messages
        BY LenProperties, ElementOfSeq
      <3>2. [i \in DOMAIN s |-> s[i].len] \in [1..Len(s) -> Nat]
        BY <3>1, MessagesAssumption
      <3> QED BY <3>1, <3>2, SeqOfFunction
    <2> QED BY <1>1, <2>1, TotalFacts DEF Chars
  <1> DEFINE S == {1, Chars(messages) \div 4}
  <1>3. S \subseteq Nat /\ S # {} /\ IsFiniteSet(S)
    <2>1. Chars(messages) \div 4 \in Nat
      BY <1>2
    <2>2. S = {1} \cup {Chars(messages) \div 4}
      OBVIOUS
    <2>3. IsFiniteSet({1}) /\ IsFiniteSet({Chars(messages) \div 4})
      BY FS_Singleton
    <2>4. IsFiniteSet({1} \cup {Chars(messages) \div 4})
      BY <2>3, FS_Union
    <2> QED BY <2>1, <2>2, <2>4
  <1>4. Max(S) \in Nat
    <2> HIDE DEF S
    <2> QED BY <1>3, FiniteMaxFacts
  <1>5. \A t, e : estimate_tokens(messages, t, e) = [input |-> Max(S), output |-> IF t = 0 THEN e ELSE t]
    BY DEF estimate_tokens
  <1> HIDE DEF S
  <1> QED BY <1>1, <1>4, <1>5 DEF ReserveTokens

\* What a tier can be scored.
LEMMA TierType ==
    ASSUME NEW h \in {"low", "medium", "high", "?"}, NEW ms
    PROVE  ScoreTier(ms) \in Tiers /\ HeaderTier(h) \in 0..3
  BY DEF ScoreTier, score_to_max_tier, HeaderTier, Tiers

\* The invariant holds at the start.
LEMMA InitInv == Init => IndInv
  <1> SUFFICES ASSUME Init PROVE IndInv
    OBVIOUS
  <1> USE DEF Init, Idle
  <1>1. IsProviders(providers) /\ found \in 0..Len(providers)
    BY DEF IsProviders
  <1>2. TypeOK
    BY <1>1 DEF TypeOK
  <1> QED BY <1>2 DEF IndInv, QuietBeforeServe, AnswerFits, ReservationFits, ReservationCovers, ScoreFits

\* The steps before the server listens keep it.
LEMMA StartInv ==
    ASSUME IndInv, LoadConfig \/ Discover \/ Listen
    PROVE  IndInv'
  <1>0. phase # "serve" /\ req = Idle /\ scored = 0 /\ req' = req /\ messages' = messages
        /\ scored' = scored /\ file' = file
    BY DEF IndInv, QuietBeforeServe, LoadConfig, Discover, Listen
  <1>1. IsProviders(providers)' /\ (found \in 0..Len(providers))'
    <2>1. CASE LoadConfig
      <3>1. IsProviders(providers')
        BY <2>1, LoadedProviders DEF LoadConfig, IndInv, TypeOK
      <3>2. found' = 0
        BY <2>1 DEF LoadConfig, IndInv, QuietBeforeServe
      <3> QED BY <3>1, <3>2 DEF IsProviders
    <2>2. CASE Discover
      <3>0. IsProviders(providers) /\ found \in 0..Len(providers) /\ found' = found + 1
            /\ found < Len(providers) /\ Len(providers) \in Nat /\ DOMAIN providers = 1..Len(providers)
        BY <2>2 DEF Discover, IndInv, TypeOK, IsProviders
      <3>1. IsProviders(providers') /\ Len(providers') = Len(providers)
        <4>1. CASE providers' = providers
          BY <3>0, <4>1
        <4>2. CASE \E ids \in SUBSET Models : providers' = [providers EXCEPT ![found + 1].models = ids]
          <5>1. found + 1 \in DOMAIN providers
            BY <3>0
          <5>2. PICK ids \in SUBSET Models : providers' = [providers EXCEPT ![found + 1].models = ids]
            BY <4>2
          <5>3. /\ IsProviders([providers EXCEPT ![found + 1].models = ids])
                /\ Len([providers EXCEPT ![found + 1].models = ids]) = Len(providers)
            BY <3>0, <5>1, DiscoveredProviders, Zenon
          <5> QED BY <5>2, <5>3, Zenon
        <4> QED BY <2>2, <4>1, <4>2 DEF Discover
      <3> QED BY <3>0, <3>1
    <2>3. CASE Listen
      BY <2>3 DEF Listen, IndInv, TypeOK
    <2> QED BY <2>1, <2>2, <2>3
  <1>2. phase' \in {"start", "discover", "serve", "exit", "failed"} /\ phase' # "start"
    BY DEF LoadConfig, Discover, Listen
  <1>3. TypeOK'
    BY <1>0, <1>1, <1>2 DEF IndInv, TypeOK, Idle
  <1> QED BY <1>0, <1>2, <1>3 DEF IndInv, QuietBeforeServe, AnswerFits, ReservationFits,
             ReservationCovers, ScoreFits, Idle

\* Integers none of which is negative are natural numbers.
LEMMA NotNegative ==
    ASSUME NEW w \in Seq(Int), \A k \in DOMAIN w : w[k] >= 0
    PROVE  w \in Seq(Nat)
  <1>1. Len(w) \in Nat /\ DOMAIN w = 1..Len(w) /\ w \in [1..Len(w) -> Int]
    BY LenProperties
  <1>2. \A k \in 1..Len(w) : w[k] \in Nat
    BY <1>1
  <1>3. w \in [1..Len(w) -> Nat]
    BY <1>1, <1>2
  <1> QED BY <1>1, <1>3, SeqOfFunction

\* A message keeps it.
LEMMA SayInv ==
    ASSUME IndInv, NEW m \in Messages, Say(m)
    PROVE  IndInv'
  <1>0. /\ req = Idle /\ req' = req /\ scored' = scored /\ file' = file /\ providers' = providers
        /\ phase' = phase /\ phase = "serve" /\ found' = found
        /\ messages \in Seq(Messages) /\ messages' = Append(messages, m)
        /\ file \in Files /\ scored \in 0..3
    BY DEF Say, IndInv, TypeOK
  <1>1. messages' \in Seq(Messages)
    BY <1>0, AppendProperties
  <1>2. TypeOK'
    BY <1>0, <1>1 DEF IndInv, TypeOK, Idle
  <1>3. ScoreFits'
    <2>1. SUFFICES ASSUME scored # 0
                   PROVE  /\ ~TooShort(messages')
                          /\ WeightsNotNegative => scored <= ScoreTier(messages)'
      BY <1>0 DEF ScoreFits, TooShort, WeightsNotNegative
    <2>2. ~TooShort(messages) /\ (WeightsNotNegative => scored <= ScoreTier(messages))
      BY <2>1 DEF IndInv, ScoreFits
    <2>3. /\ messages # << >> /\ ~(TextLen(messages) < MIN_TEXT_LEN)
          /\ file.weights \in Seq(Int) /\ Len(file.weights) = 5
          /\ file.extra_keywords \in Seq(STRING)
          /\ file.low \in Int /\ file.high \in Int
      BY <1>0, <2>2, FilesAssumption DEF TooShort
    <2>4. ~TooShort(messages')
      <3>1. messages' # << >>
        <4>1. Len(messages') = Len(messages) + 1 /\ Len(messages) \in Nat
          BY <1>0, AppendProperties, LenProperties
        <4> QED BY <4>1
      <3>2. /\ TextLen(messages) \in Nat /\ TextLen(messages') \in Nat
            /\ TextLen(messages) <= TextLen(messages')
        BY <1>0, <2>3, SignalsGrow
      <3> QED BY <2>3, <3>1, <3>2, ScaleAssumption DEF TooShort
    <2>5. ASSUME WeightsNotNegative
          PROVE  scored <= ScoreTier(messages)'
      <3> DEFINE s == score_complexity(messages, file.weights, file.extra_keywords)
                 t == score_complexity(messages', file.weights, file.extra_keywords)
      <3>1. file.weights \in Seq(Nat)
        BY <2>3, <2>5, NotNegative DEF WeightsNotNegative
      <3>2. s \in Nat /\ t \in Nat /\ s <= t
        BY <1>0, <2>3, <3>1, ScoreGrows
      <3>3. /\ ScoreTier(messages) = score_to_max_tier(s, file.low, file.high)
            /\ ScoreTier(messages)' = score_to_max_tier(t, file.low, file.high)
        BY <1>0 DEF ScoreTier
      <3> HIDE DEF s, t
      <3>4. /\ ScoreTier(messages) <= ScoreTier(messages)'
            /\ ScoreTier(messages) \in Nat /\ ScoreTier(messages)' \in Nat
        BY <2>3, <3>2, <3>3 DEF score_to_max_tier
      <3> QED BY <1>0, <2>2, <2>5, <3>4
    <2> QED BY <2>4, <2>5
  <1> QED BY <1>0, <1>2, <1>3 DEF IndInv, QuietBeforeServe, AnswerFits, ReservationFits,
             ReservationCovers, Idle

\* So does a request, and what it is offered.
LEMMA AskInv ==
    ASSUME IndInv, NEW model \in Models, NEW policy \in PolicyNames,
           NEW header \in {"low", "medium", "high", "?"}, NEW max_tokens \in MaxTokens,
           Ask(model, policy, header, max_tokens)
    PROVE  IndInv'
  <1> DEFINE tier == IF HeaderTier(header) # 0 THEN HeaderTier(header) ELSE ScoreTier(messages)
  <1>0. /\ phase = "serve" /\ phase' = phase /\ file' = file /\ providers' = providers
        /\ found' = found /\ messages' = messages
        /\ req' = [pc |-> "select", model |-> model, policy |-> policy, tier |-> tier,
                   max_tokens |-> max_tokens, answer |-> Candidates(model, policy, tier)]
        /\ scored' = IF HeaderTier(header) # 0 \/ TooShort(messages) THEN scored ELSE tier
    BY DEF Ask
  <1>1. tier \in Tiers /\ ScoreTier(messages) \in Tiers
    BY TierType DEF Tiers
  <1>2. IsProviders(providers)
    BY DEF IndInv, TypeOK
  <1>3. Candidates(model, policy, tier) \in Answers
    BY <1>2, AnswerType
  <1>4. Answers' = Answers
    BY <1>0 DEF Answers
  <1>5. (Candidates(model, policy, tier) = req.answer /\ model = req.model /\ policy = req.policy
          /\ tier = req.tier)'
    <2> HIDE DEF tier
    <2>1. /\ req'.answer = Candidates(model, policy, tier) /\ req'.model = model
          /\ req'.policy = policy /\ req'.tier = tier
      BY <1>0
    <2> USE DEF tier
    <2>2. tier' = tier
      BY <1>0 DEF ScoreTier, HeaderTier
    <2> HIDE DEF tier
    <2> QED BY <1>0, <2>1, <2>2 DEF Candidates
  <1>6. scored' \in 0..3
    BY <1>0, <1>1 DEF IndInv, TypeOK, Tiers
  <1>7. ScoreFits'
    <2>1. /\ TooShort(messages)' = TooShort(messages) /\ ScoreTier(messages)' = ScoreTier(messages)
          /\ WeightsNotNegative' = WeightsNotNegative
      BY <1>0 DEF TooShort, ScoreTier, WeightsNotNegative
    <2>2. CASE HeaderTier(header) # 0 \/ TooShort(messages)
      BY <1>0, <2>1, <2>2 DEF IndInv, ScoreFits
    <2>3. CASE ~(HeaderTier(header) # 0 \/ TooShort(messages))
      <3>1. scored' = ScoreTier(messages)
        BY <1>0, <2>3
      <3> QED BY <1>1, <2>1, <2>3, <3>1 DEF ScoreFits, Tiers
    <2> QED BY <2>2, <2>3
  <1> HIDE DEF tier
  <1>8. TypeOK'
    <2>1. req' \in [pc : {"select"}, model : Models, policy : PolicyNames, tier : Tiers,
                    max_tokens : MaxTokens, answer : Answers]
      BY <1>0, <1>1, <1>3
    <2> QED BY <1>0, <1>4, <1>6, <2>1 DEF IndInv, TypeOK
  <1>9. req'.pc = "select"
    BY <1>0
  <1>10. AnswerFits'
    BY <1>5 DEF AnswerFits
  <1> QED BY <1>0, <1>7, <1>8, <1>9, <1>10 DEF IndInv, QuietBeforeServe, ReservationFits,
             ReservationCovers

\* And escalation, refusal and the end of a request.
LEMMA SelectInv ==
    ASSUME IndInv, Escalate \/ Refuse \/ Done
    PROVE  IndInv'
  <1>0. /\ phase' = phase /\ file' = file /\ providers' = providers /\ found' = found
        /\ messages' = messages /\ scored' = scored
    BY DEF Escalate, Refuse, Done
  <1>1. ScoreFits'
    BY <1>0 DEF IndInv, ScoreFits, TooShort, ScoreTier, WeightsNotNegative
  <1>2. Answers' = Answers
    BY <1>0 DEF Answers
  <1>3. CASE req' = Idle
    <2>1. TypeOK'
      BY <1>0, <1>3 DEF IndInv, TypeOK, Idle
    <2> QED BY <1>0, <1>1, <1>3, <2>1 DEF IndInv, QuietBeforeServe, AnswerFits, ReservationFits,
               ReservationCovers, Idle
  <1>4. CASE Escalate
    <2>1. req \in [pc : {"select"}, model : Models, policy : PolicyNames, tier : Tiers,
                   max_tokens : MaxTokens, answer : Answers]
      BY <1>4 DEF Escalate, IndInv, TypeOK, Idle
    <2> DEFINE a == Candidates(req.model, req.policy, req.tier + 1)
    <2>2. a \in Answers
      BY AnswerType DEF IndInv, TypeOK
    <2>3. req.tier + 1 \in Tiers
      BY <1>4, <2>1 DEF Escalate, Tiers
    <2>4. req' = [req EXCEPT !.tier = req.tier + 1, !.answer = a]
      BY <1>4 DEF Escalate
    <2> HIDE DEF a
    <2>5. req' \in [pc : {"select"}, model : Models, policy : PolicyNames, tier : Tiers,
                    max_tokens : MaxTokens, answer : Answers]
      BY <2>1, <2>2, <2>3, <2>4
    <2>6. TypeOK'
      BY <1>0, <1>2, <2>5 DEF IndInv, TypeOK
    <2>7. /\ req'.answer = a /\ req'.model = req.model /\ req'.policy = req.policy
          /\ req'.tier = req.tier + 1
      BY <2>1, <2>4
    <2>8. AnswerFits'
      BY <1>0, <2>7 DEF AnswerFits, Candidates, a
    <2>9. req.pc = "select" /\ req'.pc = "select"
      BY <2>1, <2>5
    <2>10. phase = "serve"
      BY <2>9 DEF IndInv, QuietBeforeServe, Idle
    <2> QED BY <1>0, <1>1, <2>6, <2>8, <2>9, <2>10 DEF IndInv, QuietBeforeServe, ReservationFits,
               ReservationCovers
  <1> QED BY <1>3, <1>4 DEF Refuse, Done

\* And the reservation.
LEMMA ReserveInv ==
    ASSUME IndInv, Reserve
    PROVE  IndInv'
  <1> DEFINE tokens == ReserveTokens(req.max_tokens)
             msats == estimate_reserve_msats(tokens.input, tokens.output,
                                             frontier_rates(providers, req.model))
  <1>0. /\ phase' = phase /\ file' = file /\ providers' = providers /\ found' = found
        /\ messages' = messages /\ scored' = scored
        /\ req' = [pc |-> "reserved", model |-> req.model, policy |-> req.policy,
                   tier |-> req.tier, answer |-> req.answer, tokens |-> tokens, msats |-> msats]
    BY DEF Reserve, ReserveMsats
  <1>1. req \in [pc : {"select"}, model : Models, policy : PolicyNames, tier : Tiers,
                 max_tokens : MaxTokens, answer : Answers]
    BY DEF Reserve, IndInv, TypeOK, Idle
  <1>2. TypeOK /\ IsProviders(providers)
    BY DEF IndInv, TypeOK
  <1>3. tokens \in [input : Nat, output : Nat]
    <2>1. req.max_tokens \in Nat
      BY <1>1, TokensAssumption
    <2> QED BY <1>2, <2>1, TokensType
  <1>4. req.answer = Candidates(req.model, req.policy, req.tier) /\ req.answer.err = "none"
    BY DEF Reserve, IndInv, AnswerFits
  <1>5. \A p \in ToSet(req.answer.list) :
           \E i \in DOMAIN providers : p = providers[i] /\ Serves(p, req.model)
    <2>1. LET answer == Candidates(req.model, req.policy, req.tier)
          IN  \A p \in ToSet(answer.list) :
                 \E i \in DOMAIN providers : p = providers[i] /\ Serves(p, req.model)
      BY <1>2, AnswerType
    <2> QED BY <1>4, <2>1
  <1>6. \E i \in DOMAIN providers : Serves(providers[i], req.model)
    <2> DEFINE E == Passing(providers, find_policy(file.rules, req.policy, user_prompt(messages)),
                            req.model, req.tier)
    <2>1. E # {}
      BY <1>2, <1>4, SelectFacts DEF Candidates
    <2> QED BY <2>1 DEF Passing
  <1> HIDE DEF tokens
  <1>7. msats \in Nat
    <2>1. PICK i \in DOMAIN providers : Serves(providers[i], req.model)
      BY <1>6
    <2>2. PICK m \in Nat, n \in Nat : m = tokens.input /\ n = tokens.output
      BY <1>3
    <2>3. m \in 0..m /\ n \in 0..n
      OBVIOUS
    <2> DEFINE model == req.model
    <2> HIDE DEF model
    <2>4. estimate_reserve_msats(m, n, frontier_rates(providers, model)) \in Nat
      BY <1>2, <2>1, <2>3, EstimateCovers DEF model
    <2> QED BY <2>2, <2>4 DEF model
  <1>8. Answers' = Answers
    BY <1>0 DEF Answers
  <1>9. req' \in [pc : {"reserved"}, model : Models, policy : PolicyNames, tier : Tiers,
                  answer : Answers, tokens : [input : Nat, output : Nat], msats : Nat]
    <2> HIDE DEF msats
    <2> QED BY <1>0, <1>1, <1>3, <1>7
  <1>10. TypeOK'
    BY <1>0, <1>8, <1>9 DEF IndInv, TypeOK
  <1>11. ReservationFits'
    <2>1. /\ req'.answer = req.answer /\ req'.model = req.model /\ req'.tokens = tokens
          /\ req'.msats = msats
      BY <1>0
    <2> QED BY <1>0, <1>5, <2>1 DEF ReservationFits
  <1>12. req.pc = "select" /\ req'.pc = "reserved"
    BY <1>1, <1>9
  <1>13. phase = "serve"
    BY <1>12 DEF IndInv, QuietBeforeServe, Idle
  <1>14. ScoreFits'
    BY <1>0 DEF IndInv, ScoreFits, TooShort, ScoreTier, WeightsNotNegative
  <1> QED BY <1>0, <1>10, <1>11, <1>12, <1>13, <1>14 DEF IndInv, QuietBeforeServe, AnswerFits,
             ReservationCovers

\* And the bill of any candidate.
LEMMA SettleInv ==
    ASSUME IndInv, req.pc = "reserved", NEW p \in ToSet(req.answer.list),
           NEW tokens_in \in 0..req.tokens.input, NEW tokens_out \in 0..req.tokens.output,
           Settle(p, tokens_in, tokens_out)
    PROVE  IndInv'
  <1> DEFINE bill == actual_cost_msats(tokens_in, tokens_out, p)
  <1>0. /\ phase' = phase /\ file' = file /\ providers' = providers /\ found' = found
        /\ messages' = messages /\ scored' = scored
        /\ req' = [pc |-> "settled", reserved |-> req.msats, msats |-> bill]
    BY DEF Settle
  <1>1. req.tokens \in [input : Nat, output : Nat] /\ req.msats \in Nat /\ IsProviders(providers)
    BY DEF IndInv, TypeOK, Idle
  <1>2. PICK i \in DOMAIN providers : p = providers[i] /\ Serves(p, req.model)
    BY DEF IndInv, ReservationFits
  <1>3. req.msats = estimate_reserve_msats(req.tokens.input, req.tokens.output,
                                           frontier_rates(providers, req.model))
    BY DEF IndInv, ReservationFits
  <1>4. bill \in Nat /\ bill <= req.msats
    <2>1. PICK m \in Nat, n \in Nat : m = req.tokens.input /\ n = req.tokens.output
      BY <1>1
    <2>2. /\ Serves(providers[i], req.model) /\ bill = actual_cost_msats(tokens_in, tokens_out, providers[i])
          /\ tokens_in \in 0..m /\ tokens_out \in 0..n
      BY <1>2, <2>1
    <2> DEFINE model == req.model
    <2> HIDE DEF bill, model
    <2>3. /\ actual_cost_msats(tokens_in, tokens_out, providers[i]) \in Nat
          /\ actual_cost_msats(tokens_in, tokens_out, providers[i])
               <= estimate_reserve_msats(m, n, frontier_rates(providers, model))
      BY <1>1, <2>2, EstimateCovers DEF model
    <2> QED BY <1>3, <2>1, <2>2, <2>3 DEF model
  <1> HIDE DEF bill
  <1>5. req' = [pc |-> "settled", reserved |-> req.msats, msats |-> bill]
    BY <1>0
  <1>6. req' \in [pc : {"settled"}, reserved : Nat, msats : Nat]
    BY <1>1, <1>4, <1>5
  <1>7. TypeOK'
    BY <1>0, <1>6 DEF IndInv, TypeOK
  <1>8. ReservationCovers'
    BY <1>4, <1>5 DEF ReservationCovers
  <1>9. phase = "serve"
    BY DEF IndInv, QuietBeforeServe, Idle
  <1>10. ScoreFits'
    BY <1>0 DEF IndInv, ScoreFits, TooShort, ScoreTier, WeightsNotNegative
  <1>11. req'.pc = "settled"
    BY <1>5
  <1> QED BY <1>0, <1>7, <1>8, <1>9, <1>10, <1>11 DEF IndInv, QuietBeforeServe, AnswerFits,
             ReservationFits

\* Every step keeps the invariant.
LEMMA StepInv == IndInv /\ [Next]_vars => IndInv'
  <1> SUFFICES ASSUME IndInv, [Next]_vars PROVE IndInv'
    OBVIOUS
  <1>1. CASE LoadConfig \/ Discover \/ Listen
    BY <1>1, StartInv
  <1>2. CASE \E m \in Messages : Say(m)
    BY <1>2, SayInv
  <1>3. CASE \E model \in Models, policy \in PolicyNames, header \in {"low", "medium", "high", "?"},
                max_tokens \in MaxTokens : Ask(model, policy, header, max_tokens)
    BY <1>3, AskInv
  <1>4. CASE Escalate \/ Refuse \/ Done
    BY <1>4, SelectInv
  <1>5. CASE Reserve
    BY <1>5, ReserveInv
  <1>6. CASE /\ req.pc = "reserved"
             /\ \E p \in ToSet(req.answer.list), tokens_in \in 0..req.tokens.input,
                   tokens_out \in 0..req.tokens.output : Settle(p, tokens_in, tokens_out)
    BY <1>6, SettleInv
  <1>7. CASE UNCHANGED vars
    BY <1>7 DEF vars, IndInv, TypeOK, Answers, QuietBeforeServe, AnswerFits, Candidates,
       ReservationFits, ReservationCovers, ScoreFits, TooShort, ScoreTier, WeightsNotNegative
  <1> QED BY <1>1, <1>2, <1>3, <1>4, <1>5, <1>6, <1>7 DEF Next

\* The inductive invariant holds throughout.
THEOREM Invariance == Spec => []IndInv
  BY InitInv, StepInv, PTL DEF Spec
-----------------------------------------------------------------------------
(* What the invariant gives *)

\* The rule find_policy returns is the one that decides, and so what passes
\* the filters is eligible.
LEMMA PassingIsEligible ==
    ASSUME TypeOK, NEW model, NEW policy, NEW tier
    PROVE  Passing(providers, find_policy(file.rules, policy, user_prompt(messages)), model, tier)
             = Eligible(model, policy, tier)
  <1> DEFINE rules == file.rules
             words == user_prompt(messages)
             named == {k \in DOMAIN rules : rules[k].name = policy}
             hinted == {k \in DOMAIN rules : rules[k].keywords \cap words # {}}
             found_ == find_policy(rules, policy, words)
             deciding == {k \in DOMAIN rules : Decides(k, policy)}
  <1>1. Len(rules) \in Nat /\ DOMAIN rules = 1..Len(rules)
    BY FilesAssumption, LenProperties DEF TypeOK
  <1>2. found_ = {rules[k] : k \in deciding}
    <2>1. ASSUME NEW S, S \subseteq DOMAIN rules, S # {}
          PROVE  \A k \in DOMAIN rules : k = Min(S) <=> k \in S /\ \A l \in 1..(k - 1) : l \notin S
      <3>1. S \subseteq Nat
        BY <1>1, <2>1
      <3>2. Min(S) \in S /\ \A y \in S : Min(S) <= y
        BY <2>1, <3>1, MinFacts
      <3> DEFINE m == Min(S)
      <3> HIDE DEF m
      <3>3. ASSUME NEW k \in DOMAIN rules, k \in S, \A l \in 1..(k - 1) : l \notin S
            PROVE  k = m
        <4>1. m \in 1..Len(rules) /\ k \in 1..Len(rules) /\ m <= k
          BY <1>1, <2>1, <3>2, <3>3 DEF m
        <4>2. ~(m \in 1..(k - 1))
          BY <3>2, <3>3 DEF m
        <4> QED BY <1>1, <4>1, <4>2
      <3>4. \A l \in 1..(m - 1) : l \notin S
        <4>1. m \in Nat
          BY <3>1, <3>2 DEF m
        <4>2. ASSUME NEW l \in 1..(m - 1), l \in S
              PROVE  FALSE
          <5>1. m <= l
            BY <3>2, <4>2 DEF m
          <5> QED BY <4>1, <5>1
        <4> QED BY <4>2
      <3> QED BY <3>2, <3>3, <3>4 DEF m
    <2>2. CASE named # {}
      <3>1. found_ = {rules[Min(named)]}
        BY <2>2 DEF find_policy
      <3>2. \A k \in DOMAIN rules : k = Min(named) <=> k \in named /\ \A l \in 1..(k - 1) : l \notin named
        BY <2>1, <2>2
      <3>3. \A k \in DOMAIN rules : Decides(k, policy) <=> k \in named /\ \A l \in 1..(k - 1) : l \notin named
        BY <1>1, <2>2 DEF Decides
      <3>4. Min(named) \in DOMAIN rules
        <4>1. named \subseteq Nat /\ named \subseteq DOMAIN rules
          BY <1>1
        <4> HIDE DEF named
        <4> QED BY <2>2, <4>1, MinFacts
      <3> HIDE DEF found_, named
      <3> QED BY <3>1, <3>2, <3>3, <3>4
    <2>3. CASE named = {} /\ hinted # {}
      <3>1. found_ = {rules[Min(hinted)]}
        BY <2>3 DEF find_policy
      <3>2. \A k \in DOMAIN rules : k = Min(hinted) <=> k \in hinted /\ \A l \in 1..(k - 1) : l \notin hinted
        BY <2>1, <2>3
      <3>3. \A k \in DOMAIN rules : Decides(k, policy) <=> k \in hinted /\ \A l \in 1..(k - 1) : l \notin hinted
        BY <1>1, <2>3 DEF Decides
      <3>4. Min(hinted) \in DOMAIN rules
        <4>1. hinted \subseteq Nat /\ hinted \subseteq DOMAIN rules
          BY <1>1
        <4> HIDE DEF hinted
        <4> QED BY <2>3, <4>1, MinFacts
      <3> HIDE DEF found_, hinted
      <3> QED BY <3>1, <3>2, <3>3, <3>4
    <2>4. CASE named = {} /\ hinted = {}
      <3>1. found_ = {}
        BY <2>4 DEF find_policy
      <3>2. \A k \in DOMAIN rules : ~Decides(k, policy)
        BY <2>4 DEF Decides
      <3> HIDE DEF found_
      <3> QED BY <3>1, <3>2
    <2> QED BY <2>2, <2>3, <2>4
  <1> HIDE DEF found_, deciding
  <1>3. Passing(providers, found_, model, tier) = Eligible(model, policy, tier)
    BY <1>2 DEF Passing, Eligible, deciding
  <1> QED BY <1>3 DEF found_

\* Before is the order that the sort goes by.
LEMMA BeforeIsByCost ==
    ASSUME IsProviders(providers), NEW S, S \subseteq DOMAIN providers
    PROVE  \A i, j \in S : Before(i, j) <=> i = j \/ <<i, j>> \in ByCost(providers, S)
  <1>1. /\ S \subseteq Nat
        /\ \A i, j \in S : <<i, j>> \in ByCost(providers, S) <=>
              \/ RoutingCost(providers[i]) < RoutingCost(providers[j])
              \/ RoutingCost(providers[i]) = RoutingCost(providers[j]) /\ i < j
    BY CostOrders
  <1>2. \A i \in S : RoutingCost(providers[i]) \in Nat
    BY CostType DEF IsProviders
  <1>3. ASSUME NEW i \in S, NEW j \in S
        PROVE  Before(i, j) <=> i = j \/ <<i, j>> \in ByCost(providers, S)
    <2>1. i \in Nat /\ j \in Nat
      BY <1>1
    <2>2. RoutingCost(providers[i]) \in Nat /\ RoutingCost(providers[j]) \in Nat
      BY <1>2
    <2> QED BY <1>1, <2>1, <2>2 DEF Before
  <1> QED BY <1>3

\* The answer of the router is the one the reference defines.
LEMMA ReferenceHolds == IndInv => CandidatesMatchReference
  <1> SUFFICES ASSUME IndInv, req.pc = "select"
               PROVE  CandidatesMatchReference
    BY DEF CandidatesMatchReference
  <1> DEFINE E == Eligible(req.model, req.policy, req.tier)
             best == {i \in E : \A j \in E : providers[j].name = providers[i].name => Before(i, j)}
             B == Best(providers, E)
             R == ByCost(providers, B)
             n == Cardinality(B)
             order == Arranged(B, R)
             ref(S) == [k \in 1..Cardinality(S) |->
                          providers[CHOOSE i \in S : Cardinality({j \in S : Before(j, i)}) = k]]
  <1>1. TypeOK /\ IsProviders(providers)
    BY DEF IndInv, TypeOK
  <1>2. req.answer.list = Listed(providers, B)
    <2>1. req.answer = Candidates(req.model, req.policy, req.tier)
      BY DEF IndInv, AnswerFits
    <2>2. Passing(providers, find_policy(file.rules, req.policy, user_prompt(messages)), req.model, req.tier) = E
      BY <1>1, PassingIsEligible
    <2> HIDE DEF E
    <2> QED BY <1>1, <2>1, <2>2, SelectFacts DEF Candidates
  <1>3. E \subseteq DOMAIN providers /\ B \subseteq E /\ B \subseteq DOMAIN providers
    BY DEF Eligible, Best
  <1>4. best = B
    <2>1. \A i, j \in E : Before(i, j) <=> i = j \/ <<i, j>> \in ByCost(providers, E)
      BY <1>1, <1>3, BeforeIsByCost
    <2> HIDE DEF E
    <2> QED BY <2>1 DEF Best
  <1> HIDE DEF E, B
  <1>5. IsFiniteSet(B) /\ Orders(R, B)
    BY <1>1, <1>3, CostOrders
  <1>6. \A i, j \in B : Before(i, j) <=> i = j \/ <<i, j>> \in R
    BY <1>1, <1>3, BeforeIsByCost
  <1> HIDE DEF R
  <1>7. ASSUME NEW i \in B
        PROVE  Cardinality({j \in B : Before(j, i)}) = Cardinality(Predecessors(B, R, i)) + 1
               /\ Cardinality(Predecessors(B, R, i)) \in Nat
    <2> DEFINE P == Predecessors(B, R, i)
    <2>1. {j \in B : Before(j, i)} = P \cup {i} /\ i \notin P /\ P \subseteq B
      BY <1>5, <1>6 DEF Predecessors, Orders
    <2> HIDE DEF P
    <2>2. IsFiniteSet(P)
      BY <1>5, <2>1, FS_Subset
    <2> QED BY <2>1, <2>2, FS_AddElement, FS_CardinalityType DEF P
  <1>8. /\ n \in Nat /\ order \in [1..n -> B]
        /\ \A k \in 1..n : Cardinality(Predecessors(B, R, order[k])) = k - 1
    BY <1>5, ArrangedFacts
  <1>9. ASSUME NEW k \in 1..n
        PROVE  order[k] = CHOOSE i \in B : Cardinality({j \in B : Before(j, i)}) = k
    <2> DEFINE c(i) == Cardinality({j \in B : Before(j, i)})
    <2> HIDE DEF order, n
    <2>1. order[k] \in B /\ c(order[k]) = k
      BY <1>7, <1>8
    <2>2. ASSUME NEW i \in B, c(i) = k
          PROVE  i = order[k]
      <3>1. Cardinality(Predecessors(B, R, i)) = Cardinality(Predecessors(B, R, order[k]))
        BY <1>7, <1>8, <2>1, <2>2
      <3>2. <<i, order[k]>> \notin R /\ <<order[k], i>> \notin R
        <4>1. \A x, y \in B : <<x, y>> \in R <=>
                 Cardinality(Predecessors(B, R, x)) < Cardinality(Predecessors(B, R, y))
          BY <1>5, RankFacts
        <4> QED BY <1>7, <2>1, <3>1, <4>1
      <3> QED BY <1>5, <2>1, <3>2 DEF Orders
    <2> HIDE DEF c
    <2>3. order[k] = CHOOSE i \in B : c(i) = k
      BY <2>1, <2>2
    <2> QED BY <2>3 DEF c
  <1>10. Listed(providers, B) = ref(B)
    <2>1. Listed(providers, B) = [k \in 1..n |-> providers[order[k]]]
      BY DEF Listed, R
    <2> HIDE DEF order
    <2> QED BY <1>9, <2>1
  <1>11. req.answer.list = [k \in 1..Cardinality(best) |->
            providers[CHOOSE i \in best : Cardinality({j \in best : Before(j, i)}) = k]]
    <2> HIDE DEF ref, best
    <2>1. req.answer.list = ref(best)
      BY <1>2, <1>4, <1>10
    <2> QED BY <2>1 DEF ref
  <1> QED BY <1>11 DEF CandidatesMatchReference, E

\* A candidate of a request, as an entry that passes its filters, is listed
\* in the order of the cost of all entries.
LEMMA CandidatesOrdered ==
    ASSUME TypeOK, NEW model, NEW policy, NEW tier
    PROVE  LET list == Candidates(model, policy, tier).list
               E == Eligible(model, policy, tier)
               all == DOMAIN providers
           IN  \E order \in [DOMAIN list -> all] :
                  /\ \A k \in DOMAIN list : list[k] = providers[order[k]] /\ order[k] \in E
                  /\ DOMAIN list \subseteq Nat
                  /\ \A k, l \in DOMAIN list : k < l <=> <<order[k], order[l]>> \in ByCost(providers, all)
                  /\ E # {} => /\ 1 \in DOMAIN list
                              /\ \A i \in E : \/ order[1] = i
                                              \/ <<order[1], i>> \in ByCost(providers, all)
  <1> DEFINE answer == Candidates(model, policy, tier)
             E == Eligible(model, policy, tier)
             B == Best(providers, E)
             n == Cardinality(B)
             all == DOMAIN providers
             order == Arranged(B, ByCost(providers, B))
  <1>1. IsProviders(providers)
    BY DEF TypeOK
  <1>2. answer.list = Listed(providers, B)
    <2>1. Passing(providers, find_policy(file.rules, policy, user_prompt(messages)), model, tier) = E
      BY PassingIsEligible
    <2> HIDE DEF E
    <2> QED BY <1>1, <2>1, SelectFacts DEF Candidates
  <1>3. E \subseteq all /\ B \subseteq E
    BY DEF Eligible, Best
  <1> HIDE DEF E, answer
  <1>4. /\ n \in Nat /\ order \in [1..n -> B]
        /\ \A i \in B : \E k \in 1..n : order[k] = i
        /\ \A k, l \in 1..n : k < l <=> <<order[k], order[l]>> \in ByCost(providers, B)
        /\ \A k \in 1..n : answer.list[k] = providers[order[k]]
        /\ DOMAIN answer.list = 1..n
    BY <1>1, <1>2, <1>3, ListedFacts
  <1>5. \A i, j \in B : <<i, j>> \in ByCost(providers, B) <=> <<i, j>> \in ByCost(providers, all)
    <2> HIDE DEF B, all
    <2>1. B \subseteq all
      BY <1>3
    <2> QED BY <2>1 DEF ByCost
  <1>6. ASSUME E # {}
        PROVE  \E i \in B : \A j \in E : i = j \/ <<i, j>> \in ByCost(providers, E)
    <2>1. IsFiniteSet(E) /\ Orders(ByCost(providers, E), E)
      BY <1>1, <1>3, CostOrders
    <2> DEFINE R == ByCost(providers, E)
    <2> HIDE DEF R
    <2>2. Cardinality(E) \in Nat /\ Cardinality(E) # 0
      BY <1>6, <2>1, FS_CardinalityType, FS_EmptySet
    <2>3. PICK i \in E : Cardinality(Predecessors(E, R, i)) = 1 - 1
      <3>1. 1 \in 1..Cardinality(E)
        BY <2>2
      <3>2. \A k \in 1..Cardinality(E) : \E i \in E : Cardinality(Predecessors(E, R, i)) = k - 1
        BY <2>1, RankFacts DEF R
      <3> QED BY <3>1, <3>2
    <2>4. \A j \in E : i = j \/ <<i, j>> \in R
      <3>1. /\ \A j \in E : Cardinality(Predecessors(E, R, j)) \in 0..(Cardinality(E) - 1)
            /\ \A x, y \in E : <<x, y>> \in R <=>
                  Cardinality(Predecessors(E, R, x)) < Cardinality(Predecessors(E, R, y))
        BY <2>1, RankFacts DEF R
      <3>2. \A j \in E : <<j, i>> \notin R
        BY <2>2, <2>3, <3>1
      <3> QED BY <2>1, <3>2 DEF Orders, R
    <2>5. i \in B
      BY <2>4 DEF Best, R
    <2> QED BY <2>4, <2>5 DEF R
  <1>11. ASSUME E # {}
         PROVE  /\ 1 \in 1..n
                /\ \A i \in E : order[1] = i \/ <<order[1], i>> \in ByCost(providers, all)
    <2>1. PICK m \in B : \A j \in E : m = j \/ <<m, j>> \in ByCost(providers, E)
      BY <1>6, <1>11
    <2>2. PICK k \in 1..n : order[k] = m
      BY <1>4
    <2>3. \A i, j \in E : <<i, j>> \in ByCost(providers, E) <=>
              \/ RoutingCost(providers[i]) < RoutingCost(providers[j])
              \/ RoutingCost(providers[i]) = RoutingCost(providers[j]) /\ i < j
      BY <1>1, <1>3, CostOrders
    <2>4. \A i \in E : RoutingCost(providers[i]) \in Nat /\ i \in Nat
      BY <1>1, <1>3, CostType DEF IsProviders
    <2>5. \A j \in E : m = j \/ <<m, j>> \in ByCost(providers, all)
      <3>1. ByCost(providers, E) \subseteq ByCost(providers, all)
        <4> HIDE DEF all
        <4> QED BY <1>3 DEF ByCost
      <3> QED BY <2>1, <3>1
    <2> HIDE DEF B, n, order
    <2>6. 1 \in 1..n /\ order[1] \in E
      BY <1>3, <1>4, <2>2
    <2>7. k = 1
      <3>1. ~(1 < k)
        <4>1. SUFFICES ASSUME 1 < k PROVE FALSE
          OBVIOUS
        <4>2. <<order[1], m>> \in ByCost(providers, B)
          BY <1>4, <2>2, <2>6, <4>1
        <4>3. <<order[1], m>> \in ByCost(providers, E) /\ m \in E
          BY <1>3, <4>2 DEF ByCost
        <4>4. m = order[1] \/ <<m, order[1]>> \in ByCost(providers, E)
          BY <2>1, <2>6
        <4> QED BY <2>3, <2>4, <2>6, <4>3, <4>4
      <3> QED BY <1>4, <2>2, <3>1
    <2> QED BY <2>2, <2>5, <2>6, <2>7
  <1> HIDE DEF B, all, n, order
  <1>7. order \in [DOMAIN answer.list -> all]
    BY <1>3, <1>4
  <1>8. \A k \in DOMAIN answer.list : answer.list[k] = providers[order[k]] /\ order[k] \in E
    BY <1>3, <1>4
  <1>9. \A k, l \in DOMAIN answer.list : k < l <=> <<order[k], order[l]>> \in ByCost(providers, all)
    BY <1>4, <1>5
  <1>10. /\ DOMAIN answer.list \subseteq Nat
         /\ E # {} => /\ 1 \in DOMAIN answer.list
                     /\ \A i \in E : order[1] = i \/ <<order[1], i>> \in ByCost(providers, all)
    BY <1>4, <1>11
  <1> QED BY <1>7, <1>8, <1>9, <1>10 DEF answer, E, all

\* No two requests list two providers in opposite orders.
LEMMA OrdersHold == IndInv => OrdersAgree
  <1> DEFINE list(q) == Candidates(q[1], q[2], q[3]).list
             names == [q \in Queries |-> [k \in DOMAIN list(q) |-> list(q)[k].name]]
  <1> SUFFICES ASSUME IndInv, UniqueNames, NEW q \in Queries, NEW r \in Queries,
                      NEW i \in DOMAIN list(q), NEW j \in DOMAIN list(q),
                      NEW k \in DOMAIN list(r), NEW l \in DOMAIN list(r),
                      i < j, list(q)[i].name = list(r)[k].name, list(q)[j].name = list(r)[l].name
               PROVE  k < l
    <2>0. SUFFICES ASSUME IndInv, UniqueNames
                   PROVE  \A q, r \in Queries : \A i, j \in DOMAIN names[q] : \A k, l \in DOMAIN names[r] :
                             i < j /\ names[q][i] = names[r][k] /\ names[q][j] = names[r][l] => k < l
      BY DEF OrdersAgree
    <2>1. SUFFICES ASSUME NEW q \in Queries, NEW r \in Queries,
                          NEW i \in DOMAIN names[q], NEW j \in DOMAIN names[q],
                          NEW k \in DOMAIN names[r], NEW l \in DOMAIN names[r],
                          i < j, names[q][i] = names[r][k], names[q][j] = names[r][l]
                   PROVE  k < l
      <3> HIDE DEF names
      <3> QED OBVIOUS
    <2>2. \A x \in Queries : /\ DOMAIN names[x] = DOMAIN list(x)
                            /\ \A n \in DOMAIN list(x) : names[x][n] = list(x)[n].name
      OBVIOUS
    <2> HIDE DEF list, names
    <2> QED BY <2>0, <2>1, <2>2
  <1> HIDE DEF list
  <1>1. TypeOK
    BY DEF IndInv
  <1> DEFINE all == DOMAIN providers
             R == ByCost(providers, all)
             sorted(x, order) ==
                /\ order \in [DOMAIN list(x) -> all]
                /\ \A n \in DOMAIN list(x) : list(x)[n] = providers[order[n]]
                /\ \A m, n \in DOMAIN list(x) : m < n <=> <<order[m], order[n]>> \in R
  <1>2. ASSUME NEW x \in Queries
        PROVE  \E order : sorted(x, order)
    <2>1. PICK order \in [DOMAIN list(x) -> all] :
             /\ \A n \in DOMAIN list(x) : list(x)[n] = providers[order[n]]
             /\ \A m, n \in DOMAIN list(x) : m < n <=> <<order[m], order[n]>> \in R
      BY <1>1, CandidatesOrdered DEF list
    <2> QED BY <2>1
  <1>3. PICK a : sorted(q, a)
    BY <1>2
  <1>4. PICK b : sorted(r, b)
    BY <1>2
  <1>5. \A x, y \in all : providers[x].name = providers[y].name => x = y
    BY DEF UniqueNames
  <1> HIDE DEF R, all
  <1>6. a[i] = b[k] /\ a[j] = b[l]
    BY <1>3, <1>4, <1>5
  <1>7. <<a[i], a[j]>> \in R
    BY <1>3
  <1> QED BY <1>4, <1>6, <1>7

\* What /v1/models and /v1/cost say is what routing does.
LEMMA EndpointsHold == IndInv => EndpointsAgree
  <1> SUFFICES ASSUME IndInv
               PROVE  EndpointsAgree
    OBVIOUS
  <1>1. TypeOK /\ IsProviders(providers)
    BY DEF IndInv, TypeOK
  <1>2. ASSUME NEW model \in list_models
        PROVE  select_candidates(providers, file.rules, model, NoPolicyName, NoPrompt, 3).err = "none"
    <2>1. PICK i \in DOMAIN providers : model \in providers[i].models
      BY DEF list_models, ToSet
    <2>2. find_policy(file.rules, NoPolicyName, NoPrompt) = {}
      <3>1. \A k \in DOMAIN file.rules : file.rules[k].name # NoPolicyName
        <4> DEFINE Rules == [name : STRING \ {NoPolicyName}, allowed : SUBSET STRING,
                             max_output : Nat, keywords : SUBSET STRING]
        <4>1. file.rules \in Seq(Rules)
          BY <1>1, FilesAssumption DEF TypeOK
        <4>2. \A rule \in Rules : rule.name # NoPolicyName
          OBVIOUS
        <4> HIDE DEF Rules
        <4> QED BY <4>1, <4>2, LenProperties, ElementOfSeq
      <3> QED BY <3>1 DEF find_policy, NoPrompt
    <2>3. providers[i].tier <= 3
      BY <1>1 DEF IsProviders, IsProvider, Tiers
    <2>4. i \in Passing(providers, {}, model, 3)
      BY <2>1, <2>3 DEF Passing, Serves
    <2> QED BY <1>1, <2>2, <2>4, SelectFacts
  <1>3. ASSUME NEW q \in Queries, NEW max_tokens \in MaxTokens,
               Candidates(q[1], q[2], q[3]).err = "none"
        PROVE  LET answer == Candidates(q[1], q[2], q[3])
                   quote == cost_estimate(q[1], q[2], max_tokens)
               IN  /\ quote.err = "none"
                   /\ quote.provider.tier <= q[3] => answer.list[1] = quote.provider
                   /\ quote.tokens.output <= ReserveTokens(max_tokens).output =>
                         quote.msats <= ReserveMsats(q[1], max_tokens)
    <2> DEFINE list == Candidates(q[1], q[2], q[3]).list
               open == Candidates(q[1], q[2], NoMaxTier)
               E == Eligible(q[1], q[2], q[3])
               F == Eligible(q[1], q[2], NoMaxTier)
               all == DOMAIN providers
               R == ByCost(providers, all)
    <2>1. E # {}
      <3>1. Passing(providers, find_policy(file.rules, q[2], user_prompt(messages)), q[1], q[3]) # {}
        BY <1>1, <1>3, SelectFacts DEF Candidates
      <3> QED BY <1>1, <3>1, PassingIsEligible
    <2>2. E \subseteq F /\ F \subseteq all /\ \A i \in F : providers[i].tier <= q[3] => i \in E
      <3>1. \A i \in all : providers[i].tier <= NoMaxTier
        BY <1>1 DEF IsProviders, IsProvider, NoMaxTier, Tiers
      <3> QED BY <3>1 DEF Eligible
    <2>3. open.err = "none"
      <3>1. Passing(providers, find_policy(file.rules, q[2], user_prompt(messages)), q[1], NoMaxTier) # {}
        BY <1>1, <2>1, <2>2, PassingIsEligible
      <3> QED BY <1>1, <3>1, SelectFacts DEF Candidates
    <2>4. PICK a \in all : list[1] = providers[a] /\ a \in E /\ \A i \in E : a = i \/ <<a, i>> \in R
      <3>1. PICK order \in [DOMAIN list -> all] :
               /\ \A k \in DOMAIN list : list[k] = providers[order[k]] /\ order[k] \in E
               /\ E # {} => /\ 1 \in DOMAIN list
                           /\ \A i \in E : order[1] = i \/ <<order[1], i>> \in R
        BY <1>1, CandidatesOrdered
      <3> HIDE DEF list, E, all, R
      <3> QED BY <2>1, <3>1
    <2>5. PICK b \in all : open.list[1] = providers[b] /\ b \in F /\ \A i \in F : b = i \/ <<b, i>> \in R
      <3> DEFINE other == open.list
      <3>1. PICK order \in [DOMAIN other -> all] :
               /\ \A k \in DOMAIN other : other[k] = providers[order[k]] /\ order[k] \in F
               /\ F # {} => /\ 1 \in DOMAIN other
                           /\ \A i \in F : order[1] = i \/ <<order[1], i>> \in R
        BY <1>1, CandidatesOrdered
      <3>2. F # {}
        BY <2>1, <2>2
      <3> HIDE DEF other, F, all, R
      <3>3. order[1] \in all /\ other[1] = providers[order[1]] /\ order[1] \in F
        BY <3>1, <3>2
      <3> QED BY <3>1, <3>2, <3>3 DEF other
    <2>6. ASSUME providers[b].tier <= q[3]
          PROVE  a = b
      <3>1. Orders(R, all)
        BY <1>1, CostOrders
      <3> HIDE DEF R, all, E, F
      <3>2. b \in E /\ a \in F
        BY <2>2, <2>4, <2>5, <2>6
      <3>3. (a = b \/ <<a, b>> \in R) /\ (b = a \/ <<b, a>> \in R)
        BY <2>4, <2>5, <3>2
      <3> QED BY <2>4, <2>5, <3>1, <3>3 DEF Orders
    <2> DEFINE tokens == estimate_tokens(messages, max_tokens, DisplayTokens)
               quote == cost_estimate(q[1], q[2], max_tokens)
               most == ReserveTokens(max_tokens)
    <2>7. quote = [err |-> "none", provider |-> providers[b], tokens |-> tokens,
                   msats |-> actual_cost_msats(tokens.input, tokens.output, providers[b])]
      <3> HIDE DEF tokens
      <3>1. quote = Quote(open, tokens)
        BY DEF cost_estimate, tokens
      <3> HIDE DEF open, quote
      <3> QED BY <2>3, <2>5, <3>1 DEF Quote
    <2>8. /\ tokens \in [input : Nat, output : Nat] /\ most \in [input : Nat, output : Nat]
          /\ tokens.input = most.input
      <3>1. max_tokens \in Nat /\ DisplayTokens \in Nat
        BY TokensAssumption DEF DisplayTokens
      <3> QED BY <1>1, <3>1, TokensType
    <2>9. Serves(providers[b], q[1])
      BY <2>5 DEF Eligible
    <2> HIDE DEF tokens, quote, most, open, list, E, F, R
    <2>10. ASSUME tokens.output <= most.output
           PROVE  quote.msats <= ReserveMsats(q[1], max_tokens)
      <3>1. PICK m \in Nat, n \in Nat, y \in Nat :
               m = most.input /\ n = most.output /\ m = tokens.input /\ y = tokens.output
        BY <2>8
      <3>2. m \in 0..m /\ y \in 0..n
        BY <2>10, <3>1
      <3> DEFINE model == q[1]
      <3> HIDE DEF model
      <3>3. actual_cost_msats(m, y, providers[b])
              <= estimate_reserve_msats(m, n, frontier_rates(providers, model))
        BY <1>1, <2>5, <2>9, <3>2, EstimateCovers DEF model
      <3>4. quote.msats = actual_cost_msats(m, y, providers[b])
        BY <2>7, <3>1
      <3>5. ReserveMsats(q[1], max_tokens) = estimate_reserve_msats(m, n, frontier_rates(providers, model))
        BY <3>1 DEF ReserveMsats, most, model
      <3> QED BY <3>3, <3>4, <3>5
    <2>11. /\ quote.err = "none" /\ quote.tokens = tokens
           /\ quote.provider.tier <= q[3] => list[1] = quote.provider
      BY <2>4, <2>5, <2>6, <2>7
    <2> QED BY <2>10, <2>11 DEF list, quote, most
  <1> QED BY <1>2, <1>3 DEF EndpointsAgree

\* A conversation never falls to a lower tier, if no weight is negative.
LEMMA TierStep == IndInv /\ [Next]_vars => [WeightsNotNegative => scored' >= scored]_vars
  <1> SUFFICES ASSUME IndInv, Next, WeightsNotNegative
               PROVE  scored' >= scored
    BY DEF vars
  <1>0. scored \in 0..3
    BY DEF IndInv, TypeOK
  <1>1. CASE scored' = scored
    BY <1>0, <1>1
  <1>2. CASE \E model \in Models, policy \in PolicyNames, header \in {"low", "medium", "high", "?"},
                max_tokens \in MaxTokens : Ask(model, policy, header, max_tokens)
    <2>1. scored' = scored \/ scored' = ScoreTier(messages)
      BY <1>2 DEF Ask
    <2>2. ScoreTier(messages) \in Tiers
      BY TierType
    <2>3. scored = 0 \/ scored <= ScoreTier(messages)
      BY DEF IndInv, ScoreFits
    <2> QED BY <1>0, <2>1, <2>2, <2>3 DEF Tiers
  <1> QED BY <1>1, <1>2 DEF Next, LoadConfig, Discover, Listen, Say, Escalate, Refuse, Reserve,
             Settle, Done
-----------------------------------------------------------------------------
(* The theorems *)

\* From the configuration file to the bill, every part of the state keeps its
\* type: whatever is loaded and discovered, the candidates are providers of
\* the configuration, tiers stay within Frontier, and the estimates are
\* numbers.
THEOREM TypeCorrect == Spec => []TypeOK
  BY Invariance, PTL DEF IndInv

\* Whichever candidate answers, at whatever tier, its bill for no more tokens
\* than estimated is covered by what was reserved (handlers.rs:670), for any
\* rates and any number of providers.
THEOREM ReservationSuffices == Spec => []ReservationCovers
  BY Invariance, PTL DEF IndInv

\* Filtering, sorting and dropping duplicates compute the reference's list,
\* for any configuration and any policies (select_candidates).
THEOREM SelectionCorrect == Spec => []CandidatesMatchReference
  BY Invariance, ReferenceHolds, PTL

\* Whatever two requests ask for, they wait for providers in the same order
\* (resolve_candidates).
THEOREM NoOppositeOrders == Spec => []OrdersAgree
  BY Invariance, OrdersHold, PTL

\* A model that is listed can be routed; the provider /v1/cost quotes is the
\* first a request tries if its tier admits it; and the price it quotes is
\* reserved for such a request, unless the quote is for a longer answer, for
\* any rates (cost_estimate, estimate_reserve_msats).
THEOREM EndpointsTruthful == Spec => []EndpointsAgree
  BY Invariance, EndpointsHold, PTL

\* A conversation of any length keeps or raises the tier it is scored for
\* (score_complexity, for any weights none of which is negative and any
\* monotone signals).
THEOREM TiersRise == Spec => TierNeverFalls
  BY Invariance, TierStep, PTL DEF Spec, TierNeverFalls
-----------------------------------------------------------------------------
(* Keys and the references in them *)

ScanStart == [open |-> FALSE, name |-> << >>, value |-> << >>, err |-> "none"]
ScanStates == [open : BOOLEAN, name : Seq(STRING), value : Seq(STRING), err : {"none", "reference"}]

\* One symbol.
LEMMA ScanStep ==
    ASSUME NEW s \in ScanStates, NEW c \in STRING
    PROVE  /\ Scan(s, c) \in ScanStates
           /\ s.err # "none" => Scan(s, c) = s
           /\ s.err = "none" /\ ~s.open /\ c # Opening =>
                 Scan(s, c).err = "none" /\ ~Scan(s, c).open /\ Scan(s, c).value = Append(s.value, c)
           /\ s.err = "none" /\ ~s.open /\ c = Opening =>
                 /\ Scan(s, c).err = "none" /\ Scan(s, c).open
                 /\ Scan(s, c).name = << >> /\ Scan(s, c).value = s.value
           /\ s.err = "none" /\ s.open /\ c # Closing =>
                 /\ Scan(s, c).err = "none" /\ Scan(s, c).open
                 /\ Scan(s, c).name = Append(s.name, c) /\ Scan(s, c).value = s.value
           /\ s.err = "none" /\ s.open /\ c = Closing =>
                 IF s.name = << >> \/ s.name \notin DOMAIN Env THEN Scan(s, c).err # "none"
                 ELSE Scan(s, c).err = "none" /\ ~Scan(s, c).open /\ Scan(s, c).value = s.value \o Env[s.name]
  <1>1. s.open \in BOOLEAN /\ s.name \in Seq(STRING) /\ s.value \in Seq(STRING)
    BY DEF ScanStates
  <1>2. CASE s.err # "none"
    BY <1>2 DEF Scan
  <1>3. CASE s.err = "none" /\ ~s.open /\ c = Opening
    <2>1. Scan(s, c) = [s EXCEPT !.open = TRUE, !.name = << >>]
      BY <1>3 DEF Scan
    <2> QED BY <1>3, <2>1, EmptySeq DEF ScanStates
  <1>4. CASE s.err = "none" /\ ~s.open /\ c # Opening
    <2>1. PICK v \in Seq(STRING) : v = Append(s.value, c)
      BY <1>1, AppendProperties
    <2>2. Scan(s, c) = [s EXCEPT !.value = v]
      BY <1>4, <2>1 DEF Scan, ScanStates
    <2> QED BY <1>4, <2>1, <2>2 DEF ScanStates
  <1>5. CASE s.err = "none" /\ s.open /\ c # Closing
    <2>1. PICK v \in Seq(STRING) : v = Append(s.name, c)
      BY <1>1, AppendProperties
    <2>2. Scan(s, c) = [s EXCEPT !.name = v]
      BY <1>5, <2>1 DEF Scan, ScanStates
    <2> QED BY <1>5, <2>1, <2>2 DEF ScanStates
  <1>6. CASE s.err = "none" /\ s.open /\ c = Closing /\ (s.name = << >> \/ s.name \notin DOMAIN Env)
    <2>1. Scan(s, c) = [s EXCEPT !.err = "reference"]
      BY <1>6 DEF Scan
    <2> QED BY <1>6, <2>1 DEF ScanStates
  <1>7. CASE s.err = "none" /\ s.open /\ c = Closing /\ s.name # << >> /\ s.name \in DOMAIN Env
    <2>1. PICK v \in Seq(STRING) : v = s.value \o Env[s.name]
      BY <1>1, <1>7, EnvAssumption, ConcatProperties
    <2>2. Scan(s, c) = [s EXCEPT !.open = FALSE, !.value = v]
      BY <1>7, <2>1 DEF Scan, ScanStates
    <2> QED BY <1>7, <2>1, <2>2 DEF ScanStates
  <1> QED BY <1>1, <1>2, <1>3, <1>4, <1>5, <1>6, <1>7

\* f goes through the text t.
Scans(f, t) ==
    /\ f[0] = ScanStart
    /\ \A n \in 1..Len(t) : f[n] = Scan(f[n - 1], t[n])
    /\ \A n \in 0..Len(t) : f[n] \in ScanStates

\* The scan of a text exists, and Scanned is its end.
LEMMA ScannedIsLast ==
    ASSUME NEW t \in Seq(STRING)
    PROVE  \E f : Scans(f, t) /\ Scanned(t) = f[Len(t)]
  <1>0. Len(t) \in Nat /\ \A n \in 1..Len(t) : t[n] \in STRING
    BY LenProperties, ElementOfSeq
  <1> DEFINE step(m, f) == [n \in 0..m |-> IF n = 0 THEN ScanStart ELSE Scan(f[n - 1], t[n])]
             P == {m \in Nat : \E f : f = step(m, f)}
  <1>1. ASSUME NEW m \in 0..Len(t), \A j \in 0..(m - 1) : j \in P
        PROVE  m \in P
    <2>1. CASE m = 0
      <3> DEFINE g == [n \in 0..0 |-> ScanStart]
      <3>1. g = step(0, g)
        OBVIOUS
      <3> HIDE DEF g, step
      <3> QED BY <2>1, <3>1
    <2>2. CASE m # 0
      <3>1. m - 1 \in P /\ m \in Nat
        <4> HIDE DEF P
        <4>1. m \in Nat /\ m - 1 \in 0..(m - 1)
          BY <1>0, <2>2
        <4> QED BY <1>1, <4>1
      <3>2. PICK g : g = step(m - 1, g)
        BY <3>1
      <3> DEFINE h == [n \in 0..m |-> IF n = m THEN Scan(g[m - 1], t[m]) ELSE g[n]]
      <3>3. g[0] = ScanStart /\ \A n \in 1..(m - 1) : g[n] = Scan(g[n - 1], t[n])
        BY <3>1, <3>2, <2>2
      <3>4. h[0] = ScanStart
        BY <3>1, <3>3, <2>2
      <3>5. ASSUME NEW n \in 1..m
            PROVE  h[n] = Scan(h[n - 1], t[n])
        <4>1. n - 1 \in 0..m /\ n - 1 # m
          BY <3>1
        <4>2. h[n - 1] = g[n - 1]
          BY <4>1
        <4>3. CASE n = m
          BY <4>2, <4>3
        <4>4. CASE n # m
          BY <3>1, <3>3, <4>2, <4>4
        <4> QED BY <4>3, <4>4
      <3>6. h = [n \in 0..m |-> h[n]]
        OBVIOUS
      <3> HIDE DEF h
      <3>7. h = step(m, h)
        <4>1. \A n \in 0..m : h[n] = IF n = 0 THEN ScanStart ELSE Scan(h[n - 1], t[n])
          BY <3>1, <3>4, <3>5
        <4> QED BY <3>6, <4>1
      <3> HIDE DEF step
      <3> QED BY <3>1, <3>7
    <2> QED BY <2>1, <2>2
  <1>2. Len(t) \in P
    <2> HIDE DEF P
    <2>1. \A m \in 0..Len(t) : m \in P
      <3>1. 0 \in Int /\ Len(t) \in Int
        BY <1>0
      <3> QED BY <1>1, <3>1, GoingUp
    <2> QED BY <1>0, <2>1
  <1> DEFINE u == CHOOSE f : f = step(Len(t), f)
  <1>3. u = step(Len(t), u)
    BY <1>2, Zenon
  <1>4. Scanned(t) = u[Len(t)]
    BY DEF Scanned, ScanStart
  <1> HIDE DEF u
  <1>5. u[0] = ScanStart /\ \A n \in 1..Len(t) : u[n] = Scan(u[n - 1], t[n])
    BY <1>0, <1>3
  <1> DEFINE Q == {n \in Nat : u[n] \in ScanStates}
  <1>6. ASSUME NEW n \in 0..Len(t), \A j \in 0..(n - 1) : j \in Q
        PROVE  n \in Q
    <2>1. CASE n = 0
      <3>1. ScanStart \in ScanStates
        BY EmptySeq DEF ScanStart, ScanStates
      <3> QED BY <1>5, <2>1, <3>1
    <2>2. CASE n # 0
      <3>1. n \in 1..Len(t) /\ n \in Nat /\ n - 1 \in 0..(n - 1)
        BY <1>0, <2>2
      <3>2. n - 1 \in Q
        <4> HIDE DEF Q
        <4> QED BY <1>6, <3>1
      <3>3. u[n - 1] \in ScanStates /\ t[n] \in STRING
        BY <1>0, <3>1, <3>2
      <3>4. Scan(u[n - 1], t[n]) \in ScanStates
        BY <3>3, ScanStep
      <3> QED BY <1>5, <3>1, <3>4
    <2> QED BY <2>1, <2>2
  <1>7. \A n \in 0..Len(t) : n \in Q
    <2> HIDE DEF Q
    <2>1. 0 \in Int /\ Len(t) \in Int
      BY <1>0
    <2> QED BY <1>6, <2>1, GoingUp
  <1>8. Scans(u, t)
    BY <1>5, <1>7 DEF Scans
  <1> QED BY <1>4, <1>8

\* One turn of the loop of expand_env_vars_with.
Turn(text, rest, go) ==
    LET opens == {i \in rest..Len(text) : text[i] = Opening}
        start == Min(opens)
        ends  == {i \in start + 1..Len(text) : text[i] = Closing}
        end   == Min(ends)
        name  == SubSeq(text, start + 1, end - 1)
        more  == go[end + 1]
    IN  IF opens = {} THEN Expanded(SubSeq(text, rest, Len(text)))
        ELSE IF ends = {} THEN EnvVarError("unclosed")
        ELSE IF name = << >> THEN EnvVarError("empty")
        ELSE IF name \notin DOMAIN Env THEN EnvVarError("unset")
        ELSE IF more.err # "none" THEN more
        ELSE Expanded(SubSeq(text, rest, start - 1) \o Env[name] \o more.value)

\* What a turn does with the reference from s to e.
Reference(t, r, s, e, go) ==
    LET name == SubSeq(t, s + 1, e - 1)
    IN  IF name = << >> THEN EnvVarError("empty")
        ELSE IF name \notin DOMAIN Env THEN EnvVarError("unset")
        ELSE IF go[e + 1].err # "none" THEN go[e + 1]
        ELSE Expanded(SubSeq(t, r, s - 1) \o Env[name] \o go[e + 1].value)

\* The places in a..b where s has x.
Places(s, x, a, b) == {i \in a..b : s[i] = x}

\* The first of them.
LEMMA FirstPlace ==
    ASSUME NEW a \in Nat, NEW b \in Int, NEW s, NEW x, Places(s, x, a, b) # {}
    PROVE  LET m == Min(Places(s, x, a, b))
           IN  m \in a..b /\ s[m] = x /\ \A i \in a..(m - 1) : s[i] # x
  <1> DEFINE T == Places(s, x, a, b)
  <1>1. T \subseteq Nat
    BY DEF Places
  <1>2. Min(T) \in T /\ \A i \in T : Min(T) <= i
    <2> HIDE DEF T
    <2> QED BY <1>1, MinFacts DEF T
  <1>3. PICK m \in T : m = Min(T)
    BY <1>2
  <1>4. m \in a..b /\ s[m] = x
    BY DEF Places
  <1>5. ASSUME NEW i \in a..(m - 1)
        PROVE  s[i] # x
    <2>1. i \in a..b /\ ~(m <= i)
      BY <1>4
    <2> QED BY <1>2, <1>3, <2>1 DEF Places
  <1> QED BY <1>3, <1>4, <1>5

\* A turn finds no reference, one that is not closed, or the first one.
LEMMA TurnCases ==
    ASSUME NEW t \in Seq(STRING), NEW r \in 1..(Len(t) + 1)
    PROVE  \/ /\ \A i \in r..Len(t) : t[i] # Opening
              /\ \A go : Turn(t, r, go) = Expanded(SubSeq(t, r, Len(t)))
           \/ \E s \in r..Len(t) :
                 /\ t[s] = Opening /\ \A i \in r..(s - 1) : t[i] # Opening
                 /\ \A i \in (s + 1)..Len(t) : t[i] # Closing
                 /\ \A go : Turn(t, r, go) = EnvVarError("unclosed")
           \/ \E s \in r..Len(t) : \E e \in (s + 1)..Len(t) :
                 /\ t[s] = Opening /\ \A i \in r..(s - 1) : t[i] # Opening
                 /\ t[e] = Closing /\ \A i \in (s + 1)..(e - 1) : t[i] # Closing
                 /\ \A go : Turn(t, r, go) = Reference(t, r, s, e, go)
  <1>0. Len(t) \in Nat /\ r \in Nat
    <2>1. Len(t) \in Nat
      BY LenProperties
    <2> QED BY <2>1
  <1> DEFINE opens == {i \in r..Len(t) : t[i] = Opening}
             s == Min(opens)
             ends == {i \in s + 1..Len(t) : t[i] = Closing}
             e == Min(ends)
  <1>1. CASE opens = {}
    BY <1>1 DEF Turn
  <1>2. CASE opens # {}
    <2>2. s \in r..Len(t) /\ t[s] = Opening /\ \A i \in r..(s - 1) : t[i] # Opening
      <3>1. r \in Nat /\ Len(t) \in Int
        BY <1>0
      <3>2. opens = Places(t, Opening, r, Len(t))
        BY DEF Places
      <3> HIDE DEF opens
      <3> QED BY <1>2, <3>1, <3>2, FirstPlace
    <2>3. CASE ends = {}
      <3>1. \A go : Turn(t, r, go) = EnvVarError("unclosed")
        BY <1>2, <2>3 DEF Turn
      <3>2. \A i \in (s + 1)..Len(t) : t[i] # Closing
        BY <2>3
      <3> HIDE DEF s
      <3> QED BY <2>2, <3>1, <3>2
    <2>4. CASE ends # {}
      <3>1. \A go : Turn(t, r, go) = Reference(t, r, s, e, go)
        BY <1>2, <2>4 DEF Turn, Reference
      <3>2. e \in (s + 1)..Len(t) /\ t[e] = Closing /\ \A i \in (s + 1)..(e - 1) : t[i] # Closing
        <4>1. s + 1 \in Nat /\ Len(t) \in Int
          <5>1. s \in r..Len(t)
            BY <2>2, Zenon
          <5> HIDE DEF s
          <5> QED BY <1>0, <5>1
        <4> HIDE DEF s
        <4>2. ends = Places(t, Closing, s + 1, Len(t))
          BY DEF Places
        <4> HIDE DEF ends
        <4> QED BY <2>4, <4>1, <4>2, FirstPlace
      <3> HIDE DEF s, e
      <3> QED BY <2>2, <3>1, <3>2
    <2> QED BY <2>3, <2>4
  <1> QED BY <1>1, <1>2

\* A turn looks only at later turns.
LEMMA TurnLooksAhead ==
    ASSUME NEW t \in Seq(STRING), NEW r \in 1..(Len(t) + 1), NEW g, NEW h,
           \A k \in (r + 1)..(Len(t) + 1) : g[k] = h[k]
    PROVE  Turn(t, r, g) = Turn(t, r, h)
  <1>0. Len(t) \in Nat
    BY LenProperties
  <1>1. ASSUME NEW s \in r..Len(t), NEW e \in (s + 1)..Len(t)
        PROVE  Reference(t, r, s, e, g) = Reference(t, r, s, e, h)
    <2>1. e + 1 \in (r + 1)..(Len(t) + 1)
      BY <1>0
    <2> QED BY <2>1 DEF Reference
  <1>2. CASE \A go : Turn(t, r, go) = Expanded(SubSeq(t, r, Len(t)))
    BY <1>2
  <1>3. CASE \A go : Turn(t, r, go) = EnvVarError("unclosed")
    BY <1>3
  <1>4. CASE \E s \in r..Len(t) : \E e \in (s + 1)..Len(t) :
                 \A go : Turn(t, r, go) = Reference(t, r, s, e, go)
    BY <1>1, <1>4
  <1> HIDE DEF Reference
  <1> QED BY <1>2, <1>3, <1>4, TurnCases

\* The loop ends, and expand_env_vars_with is its first turn.
LEMMA ExpandIsFirst ==
    ASSUME NEW t \in Seq(STRING)
    PROVE  \E go : /\ \A r \in 1..(Len(t) + 1) : go[r] = Turn(t, r, go)
                   /\ expand_env_vars_with(t) = go[1]
  <1>0. Len(t) \in Nat /\ 1 \in Int /\ Len(t) + 1 \in Int
    BY LenProperties
  <1> DEFINE upfrom(m, g) == \A r \in m..(Len(t) + 1) : g[r] = Turn(t, r, g)
             P == {m \in Nat : \E g : upfrom(m, g)}
             step(g) == [r \in 1..Len(t) + 1 |-> Turn(t, r, g)]
             u == CHOOSE g : g = step(g)
  <1>1. ASSUME NEW k \in 1..(Len(t) + 1), \A j \in (k + 1)..(Len(t) + 1) : j \in P
        PROVE  k \in P
    <2>1. PICK g : upfrom(k + 1, g)
      <3>1. CASE k = Len(t) + 1
        BY <1>0, <3>1
      <3>2. CASE k # Len(t) + 1
        <4>1. k + 1 \in (k + 1)..(Len(t) + 1)
          BY <1>0, <3>2
        <4>2. k + 1 \in P
          <5> HIDE DEF P
          <5> QED BY <1>1, <4>1
        <4> QED BY <4>2
      <3> QED BY <3>1, <3>2
    <2> DEFINE h == [r \in k..(Len(t) + 1) |-> IF r = k THEN Turn(t, k, g) ELSE g[r]]
    <2>2. h[k] = Turn(t, k, g) /\ \A r \in (k + 1)..(Len(t) + 1) : h[r] = g[r]
      BY <1>0
    <2> HIDE DEF h
    <2>3. ASSUME NEW r \in k..(Len(t) + 1)
          PROVE  h[r] = Turn(t, r, h)
      <3>1. \A i \in (r + 1)..(Len(t) + 1) : h[i] = g[i]
        BY <1>0, <2>2
      <3>2. Turn(t, r, h) = Turn(t, r, g)
        <4>1. r \in 1..(Len(t) + 1)
          BY <1>0
        <4> QED BY <3>1, <4>1, TurnLooksAhead
      <3>3. h[r] = Turn(t, r, g)
        BY <1>0, <2>1, <2>2
      <3> QED BY <3>2, <3>3
    <2>4. upfrom(k, h)
      BY <2>3
    <2> HIDE DEF upfrom
    <2> QED BY <1>0, <2>4
  <1>2. 1 \in P
    <2> HIDE DEF P
    <2>1. \A k \in 1..(Len(t) + 1) : k \in P
      BY <1>0, <1>1, GoingDown
    <2> QED BY <1>0, <2>1
  <1>3. PICK g : upfrom(1, g)
    BY <1>2
  <1> DEFINE h == [r \in 1..Len(t) + 1 |-> g[r]]
  <1>4. h = step(h)
    <2>1. \A r \in 1..(Len(t) + 1) : h[r] = g[r]
      OBVIOUS
    <2>2. h = [r \in 1..Len(t) + 1 |-> h[r]]
      OBVIOUS
    <2> HIDE DEF h
    <2>3. \A r \in 1..(Len(t) + 1) : h[r] = Turn(t, r, h)
      <3>1. ASSUME NEW r \in 1..(Len(t) + 1)
            PROVE  Turn(t, r, h) = Turn(t, r, g)
        <4>1. \A k \in (r + 1)..(Len(t) + 1) : h[k] = g[k]
          BY <1>0, <2>1
        <4> QED BY <4>1, TurnLooksAhead
      <3> QED BY <1>3, <2>1, <3>1
    <2> QED BY <2>2, <2>3
  <1>5. u = step(u)
    <2> HIDE DEF h
    <2> QED BY <1>4, Zenon
  <1>6. expand_env_vars_with(t) = u[1]
    BY DEF expand_env_vars_with, Turn
  <1> HIDE DEF u
  <1>7. \A r \in 1..(Len(t) + 1) : u[r] = Turn(t, r, u)
    BY <1>5
  <1> QED BY <1>6, <1>7

\* Texts may be put together in any order.
LEMMA TextsAssociate ==
    ASSUME NEW u \in Seq(STRING), NEW v \in Seq(STRING), NEW w \in Seq(STRING)
    PROVE  (u \o v) \o w = u \o (v \o w)
  <1>1. PICK S : S = STRING
    OBVIOUS
  <1> QED BY <1>1, ConcatAssociative

\* Four of them too.
Associate(u, v, w, x) == ((u \o v) \o w) \o x = u \o ((v \o w) \o x)

\* That is so of all texts.
LEMMA FourTexts == \A u, v, w, x \in Seq(STRING) : Associate(u, v, w, x)
  <1> DEFINE Texts == Seq(STRING)
             cat(a, b) == a \o b
  <1>1. \A a, b, c \in Texts : cat(cat(a, b), c) = cat(a, cat(b, c))
    BY TextsAssociate
  <1>2. \A a, b \in Texts : cat(a, b) \in Texts
    BY ConcatProperties
  <1> HIDE DEF Texts, cat
  <1>3. \A u, v, w, x \in Texts : cat(cat(cat(u, v), w), x) = cat(u, cat(cat(v, w), x))
    BY <1>1, <1>2
  <1> QED BY <1>3 DEF Texts, cat, Associate

\* The scan between references: it takes the text as it is.
LEMMA ScanPlain ==
    ASSUME NEW t \in Seq(STRING), NEW f, Scans(f, t), NEW r \in 1..(Len(t) + 1),
           f[r - 1].err = "none", ~f[r - 1].open,
           NEW e \in (r - 1)..Len(t), \A i \in r..e : t[i] # Opening
    PROVE  /\ f[e].err = "none" /\ ~f[e].open
           /\ SubSeq(t, r, e) \in Seq(STRING)
           /\ f[e].value = f[r - 1].value \o SubSeq(t, r, e)
  <1>0. /\ Len(t) \in Nat /\ r \in Nat /\ r - 1 \in Int /\ e \in Int /\ e <= Len(t)
        /\ \A n \in 1..Len(t) : t[n] \in STRING
    <2>1. Len(t) \in Nat /\ \A n \in 1..Len(t) : t[n] \in STRING
      BY LenProperties, ElementOfSeq
    <2> QED BY <2>1
  <1>1. PICK v \in Seq(STRING) : v = f[r - 1].value
    <2>1. r - 1 \in 0..Len(t)
      BY <1>0
    <2> QED BY <2>1 DEF Scans, ScanStates
  <1> DEFINE good(k) == /\ f[k].err = "none" /\ ~f[k].open
                        /\ SubSeq(t, r, k) \in Seq(STRING)
                        /\ f[k].value = v \o SubSeq(t, r, k)
             P == {k \in Int : good(k)}
  <1>2. ASSUME NEW k \in (r - 1)..e, \A j \in (r - 1)..(k - 1) : j \in P
        PROVE  k \in P
    <2>1. CASE k = r - 1
      <3>1. SubSeq(t, r, r - 1) = << >>
        <4>1. r \in Int /\ r - 1 \in Int /\ r - 1 < r
          BY <1>0
        <4> QED BY <4>1, SubSeqEmpty
      <3> QED BY <1>0, <1>1, <2>1, <3>1, EmptySeq, ConcatEmptySeq
    <2>2. CASE k # r - 1
      <3>1. k - 1 \in (r - 1)..(k - 1) /\ k \in 1..Len(t) /\ k \in r..e /\ k - 1 \in 0..Len(t) /\ k \in Int
        BY <1>0, <2>2
      <3>2. good(k - 1)
        <4>1. k - 1 \in P
          <5> HIDE DEF P
          <5> QED BY <1>2, <3>1
        <4> QED BY <4>1
      <3>3. PICK w \in Seq(STRING) : w = SubSeq(t, r, k - 1)
        BY <3>2
      <3>4. /\ f[k] = Scan(f[k - 1], t[k]) /\ f[k - 1] \in ScanStates /\ t[k] \in STRING
            /\ t[k] # Opening
        BY <1>0, <3>1 DEF Scans
      <3>5. f[k].err = "none" /\ ~f[k].open /\ f[k].value = Append(v \o w, t[k])
        <4>1. PICK x \in ScanStates, c \in STRING : x = f[k - 1] /\ c = t[k]
          BY <3>4
        <4>2. x.err = "none" /\ ~x.open /\ c # Opening /\ x.value = v \o w
          BY <3>2, <3>3, <3>4, <4>1
        <4>3. Scan(x, c).err = "none" /\ ~Scan(x, c).open /\ Scan(x, c).value = Append(x.value, c)
          BY <4>2, ScanStep
        <4> QED BY <3>4, <4>1, <4>2, <4>3
      <3>6. SubSeq(t, r, k) = w \o <<t[k]>> /\ <<t[k]>> \in Seq(STRING)
        <4>1. r \in 1..Len(t) /\ k \in r..Len(t)
          BY <1>0, <3>1
        <4>2. SubSeq(t, r, k) = SubSeq(t, r, k - 1) \o <<t[k]>>
          BY <4>1, SubSeqRecursiveSecond
        <4>3. <<t[k]>> \in Seq(STRING)
          BY <3>4
        <4> QED BY <3>3, <4>2, <4>3
      <3>7. Append(v \o w, t[k]) = v \o (w \o <<t[k]>>) /\ w \o <<t[k]>> \in Seq(STRING)
        <4>1. v \o w \in Seq(STRING) /\ w \o <<t[k]>> \in Seq(STRING)
          BY <3>6, ConcatProperties
        <4>2. Append(v \o w, t[k]) = (v \o w) \o <<t[k]>>
          BY <3>4, <4>1, AppendIsConcat
        <4>3. (v \o w) \o <<t[k]>> = v \o (w \o <<t[k]>>)
          <5>1. PICK z \in Seq(STRING) : z = <<t[k]>>
            BY <3>6
          <5>2. (v \o w) \o z = v \o (w \o z)
            BY TextsAssociate
          <5> QED BY <5>1, <5>2
        <4> QED BY <4>1, <4>2, <4>3
      <3>8. good(k)
        BY <3>5, <3>6, <3>7
      <3> HIDE DEF good
      <3> QED BY <3>1, <3>8
    <2> QED BY <2>1, <2>2
  <1>3. e \in P
    <2> HIDE DEF P
    <2>1. \A k \in (r - 1)..e : k \in P
      BY <1>0, <1>2, GoingUp
    <2> QED BY <1>0, <2>1
  <1> QED BY <1>1, <1>3

\* The scan of a name.
LEMMA ScanName ==
    ASSUME NEW t \in Seq(STRING), NEW f, Scans(f, t), NEW s \in 1..Len(t),
           f[s].err = "none", f[s].open, f[s].name = << >>,
           NEW e \in s..Len(t), \A i \in (s + 1)..e : t[i] # Closing
    PROVE  /\ f[e].err = "none" /\ f[e].open
           /\ f[e].name = SubSeq(t, s + 1, e) /\ f[e].value = f[s].value
  <1>0. /\ Len(t) \in Nat /\ s \in Int /\ e \in Int /\ e <= Len(t)
        /\ \A n \in 1..Len(t) : t[n] \in STRING
    <2>1. Len(t) \in Nat /\ \A n \in 1..Len(t) : t[n] \in STRING
      BY LenProperties, ElementOfSeq
    <2> QED BY <2>1
  <1> DEFINE good(k) == /\ f[k].err = "none" /\ f[k].open
                        /\ f[k].name = SubSeq(t, s + 1, k) /\ f[k].value = f[s].value
             P == {k \in Int : good(k)}
  <1>2. ASSUME NEW k \in s..e, \A j \in s..(k - 1) : j \in P
        PROVE  k \in P
    <2>1. CASE k = s
      <3>1. SubSeq(t, s + 1, s) = << >>
        <4>1. s + 1 \in Int /\ s \in Int /\ s < s + 1
          BY <1>0
        <4> QED BY <4>1, SubSeqEmpty
      <3> QED BY <1>0, <2>1, <3>1
    <2>2. CASE k # s
      <3>1. k - 1 \in s..(k - 1) /\ k \in 1..Len(t) /\ k \in (s + 1)..e /\ k - 1 \in 0..Len(t) /\ k \in Int
        BY <1>0, <2>2
      <3>2. good(k - 1)
        <4>1. k - 1 \in P
          <5> HIDE DEF P
          <5> QED BY <1>2, <3>1
        <4> QED BY <4>1
      <3>3. /\ f[k] = Scan(f[k - 1], t[k]) /\ f[k - 1] \in ScanStates /\ t[k] \in STRING
            /\ t[k] # Closing
        BY <1>0, <3>1 DEF Scans
      <3>4. PICK w \in Seq(STRING) : w = f[k - 1].name
        BY <3>3 DEF ScanStates
      <3>5. f[k].err = "none" /\ f[k].open /\ f[k].name = Append(w, t[k]) /\ f[k].value = f[s].value
        <4>1. PICK x \in ScanStates, c \in STRING : x = f[k - 1] /\ c = t[k]
          BY <3>3
        <4>2. x.err = "none" /\ x.open /\ c # Closing /\ x.value = f[s].value /\ x.name = w
          BY <3>2, <3>3, <3>4, <4>1
        <4>3. /\ Scan(x, c).err = "none" /\ Scan(x, c).open
              /\ Scan(x, c).name = Append(x.name, c) /\ Scan(x, c).value = x.value
          BY <4>2, ScanStep
        <4> QED BY <3>3, <4>1, <4>2, <4>3
      <3>6. SubSeq(t, s + 1, k) = w \o <<t[k]>>
        <4>1. s + 1 \in 1..Len(t) /\ k \in (s + 1)..Len(t)
          BY <1>0, <3>1
        <4>2. SubSeq(t, s + 1, k) = SubSeq(t, s + 1, k - 1) \o <<t[k]>>
          BY <4>1, SubSeqRecursiveSecond
        <4> QED BY <3>2, <3>4, <4>2
      <3>7. Append(w, t[k]) = w \o <<t[k]>>
        BY <3>3, AppendIsConcat
      <3>8. good(k)
        BY <3>5, <3>6, <3>7
      <3> HIDE DEF good
      <3> QED BY <3>1, <3>8
    <2> QED BY <2>1, <2>2
  <1>3. e \in P
    <2> HIDE DEF P
    <2>1. \A k \in s..e : k \in P
      BY <1>0, <1>2, GoingUp
    <2> QED BY <1>0, <2>1
  <1> QED BY <1>3

\* An error stays.
LEMMA ScanError ==
    ASSUME NEW t \in Seq(STRING), NEW f, Scans(f, t), NEW s \in 1..Len(t), f[s].err # "none"
    PROVE  f[Len(t)].err # "none"
  <1>0. /\ Len(t) \in Nat /\ s \in Int /\ Len(t) \in Int
        /\ \A n \in 1..Len(t) : t[n] \in STRING
    <2>1. Len(t) \in Nat /\ \A n \in 1..Len(t) : t[n] \in STRING
      BY LenProperties, ElementOfSeq
    <2> QED BY <2>1
  <1> DEFINE P == {k \in Int : f[k].err # "none"}
  <1>1. ASSUME NEW k \in s..Len(t), \A j \in s..(k - 1) : j \in P
        PROVE  k \in P
    <2>1. CASE k = s
      BY <1>0, <2>1
    <2>2. CASE k # s
      <3>1. k - 1 \in s..(k - 1) /\ k \in 1..Len(t) /\ k - 1 \in 0..Len(t) /\ k \in Int
        BY <1>0, <2>2
      <3>2. f[k - 1].err # "none"
        <4>1. k - 1 \in P
          <5> HIDE DEF P
          <5> QED BY <1>1, <3>1
        <4> QED BY <4>1
      <3>3. f[k] = Scan(f[k - 1], t[k]) /\ f[k - 1] \in ScanStates /\ t[k] \in STRING
        BY <1>0, <3>1 DEF Scans
      <3>4. f[k] = f[k - 1]
        BY <3>2, <3>3, ScanStep
      <3> QED BY <3>1, <3>2, <3>4
    <2> QED BY <2>1, <2>2
  <1>2. Len(t) \in P
    <2> HIDE DEF P
    <2>1. \A k \in s..Len(t) : k \in P
      BY <1>0, <1>1, GoingUp
    <2> QED BY <1>0, <2>1
  <1> QED BY <1>2

\* Outside a reference, at the first symbol of the rest.
Outside(s) == s.err = "none" /\ ~s.open

\* What the loop makes of the rest of a text is what the scan makes of it.
LEMMA TurnsScan ==
    ASSUME NEW t \in Seq(STRING), NEW f, Scans(f, t),
           NEW go, \A r \in 1..(Len(t) + 1) : go[r] = Turn(t, r, go),
           NEW r \in 1..(Len(t) + 1), Outside(f[r - 1])
    PROVE  IF go[r].err = "none"
           THEN /\ Outside(f[Len(t)]) /\ go[r].value \in Seq(STRING)
                /\ f[Len(t)].value = f[r - 1].value \o go[r].value
           ELSE ~Outside(f[Len(t)])
  <1>0. /\ Len(t) \in Nat /\ 1 \in Int /\ Len(t) + 1 \in Int
        /\ \A n \in 1..Len(t) : t[n] \in STRING
    BY LenProperties, ElementOfSeq
  <1> DEFINE last == f[Len(t)]
             claim(k) == Outside(f[k - 1]) =>
                             IF go[k].err = "none"
                             THEN /\ Outside(last) /\ go[k].value \in Seq(STRING)
                                  /\ last.value = f[k - 1].value \o go[k].value
                             ELSE ~Outside(last)
             P == {k \in Int : claim(k)}
  <1>1. ASSUME NEW k \in 1..(Len(t) + 1), \A j \in (k + 1)..(Len(t) + 1) : j \in P, Outside(f[k - 1])
        PROVE  IF go[k].err = "none"
               THEN /\ Outside(last) /\ go[k].value \in Seq(STRING)
                    /\ last.value = f[k - 1].value \o go[k].value
               ELSE ~Outside(last)
    <2>0. /\ k \in Nat /\ k - 1 \in 0..Len(t) /\ go[k] = Turn(t, k, go) /\ f[k - 1] \in ScanStates
          /\ f[k - 1].err = "none" /\ ~f[k - 1].open
      BY <1>0, <1>1 DEF Scans, Outside
    <2>1. PICK v \in Seq(STRING) : v = f[k - 1].value
      BY <2>0 DEF ScanStates
    <2>2. CASE /\ \A i \in k..Len(t) : t[i] # Opening
               /\ \A g : Turn(t, k, g) = Expanded(SubSeq(t, k, Len(t)))
      <3>1. go[k] = [err |-> "none", value |-> SubSeq(t, k, Len(t))]
        BY <2>0, <2>2 DEF Expanded
      <3>2. Len(t) \in (k - 1)..Len(t)
        BY <1>0, <2>0
      <3>3. /\ last.err = "none" /\ ~last.open /\ SubSeq(t, k, Len(t)) \in Seq(STRING)
            /\ last.value = f[k - 1].value \o SubSeq(t, k, Len(t))
        BY <2>0, <2>2, <3>2, ScanPlain
      <3>4. go[k].err = "none" /\ go[k].value = SubSeq(t, k, Len(t))
        BY <3>1
      <3> HIDE DEF last
      <3> QED BY <3>3, <3>4 DEF Outside
    <2>3. ASSUME NEW s \in k..Len(t), t[s] = Opening, \A i \in k..(s - 1) : t[i] # Opening
          PROVE  /\ s \in 1..Len(t) /\ SubSeq(t, k, s - 1) \in Seq(STRING)
                 /\ f[s].err = "none" /\ f[s].open /\ f[s].name = << >>
                 /\ f[s].value = v \o SubSeq(t, k, s - 1)
      <3>1. s - 1 \in (k - 1)..Len(t) /\ s - 1 \in 0..Len(t) /\ s \in 1..Len(t)
        BY <1>0, <2>0
      <3>2. /\ f[s - 1].err = "none" /\ ~f[s - 1].open /\ SubSeq(t, k, s - 1) \in Seq(STRING)
            /\ f[s - 1].value = v \o SubSeq(t, k, s - 1)
        <4>1. PICK n \in (k - 1)..Len(t) : n = s - 1
          BY <3>1
        <4>2. /\ Scans(f, t) /\ f[k - 1].err = "none" /\ ~f[k - 1].open
              /\ \A i \in k..n : t[i] # Opening
          BY <2>0, <2>1, <2>3, <4>1
        <4>3. /\ f[n].err = "none" /\ ~f[n].open /\ SubSeq(t, k, n) \in Seq(STRING)
              /\ f[n].value = f[k - 1].value \o SubSeq(t, k, n)
          BY <4>2, ScanPlain
        <4> QED BY <2>1, <4>1, <4>3
      <3>3. PICK x \in ScanStates, c \in STRING : x = f[s - 1] /\ c = t[s]
        BY <1>0, <3>1 DEF Scans
      <3>4. x.err = "none" /\ ~x.open /\ c = Opening /\ f[s] = Scan(x, c)
        BY <2>3, <3>1, <3>2, <3>3 DEF Scans
      <3>5. /\ Scan(x, c).err = "none" /\ Scan(x, c).open
            /\ Scan(x, c).name = << >> /\ Scan(x, c).value = x.value
        BY <3>4, ScanStep
      <3> QED BY <3>1, <3>2, <3>3, <3>4, <3>5
    <2>4. ASSUME NEW s \in k..Len(t), t[s] = Opening, \A i \in k..(s - 1) : t[i] # Opening,
                 \A i \in (s + 1)..Len(t) : t[i] # Closing,
                 \A g : Turn(t, k, g) = EnvVarError("unclosed")
          PROVE  go[k].err # "none" /\ ~Outside(last)
      <3>1. go[k].err # "none"
        BY <2>0, <2>4 DEF EnvVarError
      <3>2. s \in 1..Len(t) /\ f[s].err = "none" /\ f[s].open /\ f[s].name = << >>
        BY <2>3, <2>4
      <3>3. Len(t) \in s..Len(t)
        BY <1>0, <3>2
      <3>4. last.open
        BY <2>4, <3>2, <3>3, ScanName
      <3> QED BY <3>1, <3>4 DEF Outside
    <2>5. ASSUME NEW s \in k..Len(t), NEW e \in (s + 1)..Len(t),
                 t[s] = Opening, \A i \in k..(s - 1) : t[i] # Opening,
                 t[e] = Closing, \A i \in (s + 1)..(e - 1) : t[i] # Closing,
                 \A g : Turn(t, k, g) = Reference(t, k, s, e, g)
          PROVE  IF go[k].err = "none"
                 THEN /\ Outside(last) /\ go[k].value \in Seq(STRING)
                      /\ last.value = v \o go[k].value
                 ELSE ~Outside(last)
      <3>1. /\ s \in 1..Len(t) /\ f[s].err = "none" /\ f[s].open /\ f[s].name = << >>
            /\ f[s].value = v \o SubSeq(t, k, s - 1) /\ SubSeq(t, k, s - 1) \in Seq(STRING)
        BY <2>3, <2>5
      <3>2. PICK w \in Seq(STRING) : w = SubSeq(t, k, s - 1)
        BY <3>1
      <3>3. PICK name : name = SubSeq(t, s + 1, e - 1)
        OBVIOUS
      <3>4. e - 1 \in s..Len(t) /\ e \in 1..Len(t) /\ e - 1 \in 0..Len(t) /\ e + 1 \in (k + 1)..(Len(t) + 1)
        BY <1>0, <2>0, <3>1
      <3>5. f[e - 1].err = "none" /\ f[e - 1].open /\ f[e - 1].name = name /\ f[e - 1].value = v \o w
        <4>1. PICK d \in s..Len(t) : d = e - 1
          BY <3>4
        <4>2. \A i \in (s + 1)..d : t[i] # Closing
          BY <2>5, <4>1
        <4>3. /\ f[d].err = "none" /\ f[d].open
              /\ f[d].name = SubSeq(t, s + 1, d) /\ f[d].value = f[s].value
          BY <3>1, <4>2, ScanName
        <4> QED BY <3>1, <3>2, <3>3, <4>1, <4>3
      <3>6. PICK x \in ScanStates, c \in STRING : x = f[e - 1] /\ c = t[e]
        BY <1>0, <3>4 DEF Scans
      <3>7. x.err = "none" /\ x.open /\ c = Closing /\ x.name = name /\ x.value = v \o w /\ f[e] = Scan(x, c)
        BY <2>5, <3>4, <3>5, <3>6 DEF Scans
      <3>8. IF name = << >> \/ name \notin DOMAIN Env THEN f[e].err # "none"
            ELSE f[e].err = "none" /\ ~f[e].open /\ f[e].value = (v \o w) \o Env[name]
        <4>1. IF x.name = << >> \/ x.name \notin DOMAIN Env THEN Scan(x, c).err # "none"
              ELSE /\ Scan(x, c).err = "none" /\ ~Scan(x, c).open
                   /\ Scan(x, c).value = x.value \o Env[x.name]
          <5>1. x.err = "none" /\ x.open /\ c = Closing
            BY <3>7
          <5> QED BY <5>1, ScanStep
        <4> QED BY <3>7, <4>1
      <3>9. go[k] = IF name = << >> THEN EnvVarError("empty")
                    ELSE IF name \notin DOMAIN Env THEN EnvVarError("unset")
                    ELSE IF go[e + 1].err # "none" THEN go[e + 1]
                    ELSE Expanded(w \o Env[name] \o go[e + 1].value)
        BY <2>0, <2>5, <3>2, <3>3 DEF Reference
      <3>10. CASE name = << >> \/ name \notin DOMAIN Env
        <4>1. go[k].err # "none"
          BY <3>9, <3>10 DEF EnvVarError
        <4>2. last.err # "none"
          BY <3>4, <3>8, <3>10, ScanError
        <4> QED BY <4>1, <4>2 DEF Outside
      <3>11. CASE name # << >> /\ name \in DOMAIN Env
        <4>1. PICK z \in Seq(STRING) : z = Env[name]
          BY <3>11, EnvAssumption
        <4>2. Outside(f[e]) /\ f[e].value = (v \o w) \o z
          BY <3>8, <3>11, <4>1 DEF Outside
        <4>3. PICK d : d = e + 1 /\ d \in P /\ d - 1 = e
          <5>1. e + 1 \in P
            <6> HIDE DEF P
            <6> QED BY <1>1, <3>4
          <5>2. (e + 1) - 1 = e
            BY <1>0, <3>4
          <5> HIDE DEF P
          <5> QED BY <5>1, <5>2
        <4>4. PICK m : m = go[e + 1]
          OBVIOUS
        <4>5. IF m.err = "none"
              THEN Outside(last) /\ m.value \in Seq(STRING) /\ last.value = ((v \o w) \o z) \o m.value
              ELSE ~Outside(last)
          <5>1. claim(d)
            BY <4>3
          <5>2. go[d] = m /\ f[d - 1] = f[e]
            BY <4>3, <4>4
          <5> HIDE DEF P, last
          <5> QED BY <4>2, <5>1, <5>2
        <4>6. go[k] = IF m.err # "none" THEN m ELSE Expanded((w \o z) \o m.value)
          BY <3>9, <3>11, <4>1, <4>4
        <4>7. CASE m.err # "none"
          BY <4>5, <4>6, <4>7
        <4>8. CASE m.err = "none"
          <5>1. PICK y \in Seq(STRING) : y = m.value
            BY <4>5, <4>8
          <5>2. go[k] = [err |-> "none", value |-> (w \o z) \o y]
            BY <4>6, <4>8, <5>1 DEF Expanded
          <5>3. w \o z \in Seq(STRING) /\ z \o y \in Seq(STRING) /\ v \o w \in Seq(STRING)
                /\ (w \o z) \o y \in Seq(STRING)
            <6>1. w \o z \in Seq(STRING) /\ z \o y \in Seq(STRING) /\ v \o w \in Seq(STRING)
              BY ConcatProperties
            <6> QED BY <6>1, ConcatProperties
          <5>4. ((v \o w) \o z) \o y = v \o ((w \o z) \o y)
            <6>1. Associate(v, w, z, y)
              BY FourTexts
            <6> QED BY <6>1, Zenon DEF Associate
          <5>5. PICK a \in Seq(STRING) : a = (w \o z) \o y
            BY <5>3
          <5>6. go[k].err = "none" /\ go[k].value = a
            BY <5>2, <5>5
          <5>7. Outside(last) /\ last.value = v \o a
            <6> HIDE DEF last
            <6> QED BY <4>5, <4>8, <5>1, <5>4, <5>5
          <5> HIDE DEF last
          <5> QED BY <5>6, <5>7
        <4> QED BY <4>7, <4>8
      <3> QED BY <3>10, <3>11
    <2> DEFINE goal == IF go[k].err = "none"
                       THEN /\ Outside(last) /\ go[k].value \in Seq(STRING)
                            /\ last.value = f[k - 1].value \o go[k].value
                       ELSE ~Outside(last)
    <2>6. ASSUME NEW s \in k..Len(t), t[s] = Opening, \A i \in k..(s - 1) : t[i] # Opening,
                 \A i \in (s + 1)..Len(t) : t[i] # Closing,
                 \A g : Turn(t, k, g) = EnvVarError("unclosed")
          PROVE  goal
      BY <2>4, <2>6
    <2>7. ASSUME NEW s \in k..Len(t), NEW e \in (s + 1)..Len(t),
                 t[s] = Opening, \A i \in k..(s - 1) : t[i] # Opening,
                 t[e] = Closing, \A i \in (s + 1)..(e - 1) : t[i] # Closing,
                 \A g : Turn(t, k, g) = Reference(t, k, s, e, g)
          PROVE  goal
      BY <2>1, <2>5, <2>7
    <2>8. ASSUME \A i \in k..Len(t) : t[i] # Opening,
                 \A g : Turn(t, k, g) = Expanded(SubSeq(t, k, Len(t)))
          PROVE  goal
      BY <2>2, <2>8
    <2> HIDE DEF goal, last, P, claim
    <2>9. goal
      <3>1. \/ /\ \A i \in k..Len(t) : t[i] # Opening
               /\ \A g : Turn(t, k, g) = Expanded(SubSeq(t, k, Len(t)))
            \/ \E s \in k..Len(t) :
                  /\ t[s] = Opening /\ \A i \in k..(s - 1) : t[i] # Opening
                  /\ \A i \in (s + 1)..Len(t) : t[i] # Closing
                  /\ \A g : Turn(t, k, g) = EnvVarError("unclosed")
            \/ \E s \in k..Len(t) : \E e \in (s + 1)..Len(t) :
                  /\ t[s] = Opening /\ \A i \in k..(s - 1) : t[i] # Opening
                  /\ t[e] = Closing /\ \A i \in (s + 1)..(e - 1) : t[i] # Closing
                  /\ \A g : Turn(t, k, g) = Reference(t, k, s, e, g)
        BY TurnCases
      <3>2. CASE \E s \in k..Len(t) :
                  /\ t[s] = Opening /\ \A i \in k..(s - 1) : t[i] # Opening
                  /\ \A i \in (s + 1)..Len(t) : t[i] # Closing
                  /\ \A g : Turn(t, k, g) = EnvVarError("unclosed")
        <4>1. PICK s \in k..Len(t) :
                  /\ t[s] = Opening /\ \A i \in k..(s - 1) : t[i] # Opening
                  /\ \A i \in (s + 1)..Len(t) : t[i] # Closing
                  /\ \A g : Turn(t, k, g) = EnvVarError("unclosed")
          BY <3>2
        <4> QED BY <2>6, <4>1
      <3>3. CASE \E s \in k..Len(t) : \E e \in (s + 1)..Len(t) :
                  /\ t[s] = Opening /\ \A i \in k..(s - 1) : t[i] # Opening
                  /\ t[e] = Closing /\ \A i \in (s + 1)..(e - 1) : t[i] # Closing
                  /\ \A g : Turn(t, k, g) = Reference(t, k, s, e, g)
        <4>1. PICK s \in k..Len(t) : \E e \in (s + 1)..Len(t) :
                  /\ t[s] = Opening /\ \A i \in k..(s - 1) : t[i] # Opening
                  /\ t[e] = Closing /\ \A i \in (s + 1)..(e - 1) : t[i] # Closing
                  /\ \A g : Turn(t, k, g) = Reference(t, k, s, e, g)
          BY <3>3
        <4>2. PICK e \in (s + 1)..Len(t) :
                  /\ t[s] = Opening /\ \A i \in k..(s - 1) : t[i] # Opening
                  /\ t[e] = Closing /\ \A i \in (s + 1)..(e - 1) : t[i] # Closing
                  /\ \A g : Turn(t, k, g) = Reference(t, k, s, e, g)
          BY <4>1
        <4> QED BY <2>7, <4>2
      <3> QED BY <2>8, <3>1, <3>2, <3>3
    <2> QED BY <2>9 DEF goal
  <1>2. ASSUME NEW k \in 1..(Len(t) + 1), \A j \in (k + 1)..(Len(t) + 1) : j \in P
        PROVE  k \in P
    <2>1. claim(k)
      <3> HIDE DEF P
      <3> QED BY <1>1, <1>2
    <2> HIDE DEF claim
    <2> QED BY <1>0, <2>1
  <1>3. r \in P
    <2> HIDE DEF P
    <2>1. \A k \in 1..(Len(t) + 1) : k \in P
      BY <1>0, <1>2, GoingDown
    <2> QED BY <2>1
  <1> QED BY <1>3

\* A key resolves if and only if it is well-formed, and to what the scan says.
LEMMA KeyFacts ==
    ASSUME NEW raw, raw.api_key \in Seq(STRING), raw.api_key # Absent
    PROVE  /\ ResolveKey(raw).err = "none" <=> Wellformed(raw.api_key)
           /\ ResolveKey(raw).err = "none" => ResolveKey(raw).value = Scanned(raw.api_key).value
  <1>1. PICK t \in Seq(STRING) : t = raw.api_key
    OBVIOUS
  <1>2. PICK f : Scans(f, t) /\ Scanned(t) = f[Len(t)]
    BY ScannedIsLast
  <1>3. PICK go : /\ \A r \in 1..(Len(t) + 1) : go[r] = Turn(t, r, go)
                  /\ expand_env_vars_with(t) = go[1]
    BY ExpandIsFirst
  <1>4. Len(t) \in Nat /\ DOMAIN t = 1..Len(t)
    BY LenProperties
  <1>5. /\ 1 \in 1..(Len(t) + 1) /\ 1 - 1 = 0 /\ f[0].err = "none" /\ ~f[0].open /\ f[0].value = << >>
        /\ Outside(f[0])
    BY <1>2, <1>4 DEF Scans, ScanStart, Outside
  <1>6. Wellformed(t) <=> Outside(f[Len(t)])
    BY <1>2 DEF Wellformed, Outside
  <1>7. CASE Opening \in ToSet(t)
    <2>1. ResolveKey(raw).err = go[1].err /\ ResolveKey(raw).value = go[1].value
      BY <1>1, <1>3, <1>7 DEF ResolveKey
    <2>2. IF go[1].err = "none"
          THEN /\ Outside(f[Len(t)]) /\ go[1].value \in Seq(STRING)
               /\ f[Len(t)].value = << >> \o go[1].value
          ELSE ~Outside(f[Len(t)])
      <3>1. PICK r \in 1..(Len(t) + 1) : r = 1 /\ r - 1 = 0
        BY <1>5
      <3>2. IF go[r].err = "none"
            THEN /\ Outside(f[Len(t)]) /\ go[r].value \in Seq(STRING)
                 /\ f[Len(t)].value = f[r - 1].value \o go[r].value
            ELSE ~Outside(f[Len(t)])
        <4>1. Outside(f[r - 1])
          BY <1>5, <3>1
        <4> QED BY <1>2, <1>3, <4>1, TurnsScan
      <3> QED BY <1>5, <3>1, <3>2
    <2>3. go[1].err = "none" => << >> \o go[1].value = go[1].value
      BY <2>2, ConcatEmptySeq
    <2> QED BY <1>1, <1>2, <1>6, <2>1, <2>2, <2>3
  <1>8. CASE Opening \notin ToSet(t)
    <2>1. ResolveKey(raw).err = "none" /\ ResolveKey(raw).value = t
      BY <1>1, <1>8 DEF ResolveKey
    <2>2. \A i \in 1..Len(t) : t[i] # Opening
      BY <1>4, <1>8 DEF ToSet
    <2>3. Len(t) \in 0..Len(t)
      BY <1>4
    <2>4. /\ f[Len(t)].err = "none" /\ ~f[Len(t)].open
          /\ f[Len(t)].value = << >> \o SubSeq(t, 1, Len(t))
      <3>1. PICK r \in 1..(Len(t) + 1) : r = 1 /\ r - 1 = 0
        BY <1>5
      <3>2. f[r - 1].err = "none" /\ ~f[r - 1].open /\ Len(t) \in (r - 1)..Len(t)
        BY <1>5, <2>3, <3>1
      <3>3. \A i \in r..Len(t) : t[i] # Opening
        BY <2>2, <3>1
      <3>4. /\ f[Len(t)].err = "none" /\ ~f[Len(t)].open
            /\ f[Len(t)].value = f[r - 1].value \o SubSeq(t, r, Len(t))
        BY <1>2, <3>2, <3>3, ScanPlain
      <3> QED BY <1>5, <3>1, <3>4
    <2>5. << >> \o SubSeq(t, 1, Len(t)) = t
      BY SubSeqFull, ConcatEmptySeq
    <2> QED BY <1>1, <1>2, <1>6, <2>1, <2>4, <2>5 DEF Outside
  <1> QED BY <1>7, <1>8

\* The keys in use are those of the file, resolved, or the file cannot be
\* loaded.
KeysInv ==
    /\ phase = "start" => providers = << >>
    /\ phase # "start" =>
          \/ /\ DOMAIN providers = DOMAIN file.providers
             /\ \A i \in DOMAIN file.providers :
                   /\ ResolveKey(file.providers[i]).err = "none"
                   /\ providers[i].api_key = ResolveKey(file.providers[i]).value
          \/ /\ phase = "failed" /\ providers = << >>
             /\ \E i \in DOMAIN file.providers :
                   ResolveKey(file.providers[i]).err # "none" \/ ~file.providers[i].url

\* What is loaded is resolved.
LEMMA LoadKeys ==
    ASSUME IndInv, LoadConfig
    PROVE  KeysInv'
  <1> DEFINE raw == file.providers
             keys == [i \in DOMAIN raw |-> ResolveKey(raw[i])]
             bad == {i \in DOMAIN keys : keys[i].err # "none"}
             vain == {i \in DOMAIN keys : ~raw[i].url}
             set == [i \in DOMAIN keys |-> [raw[i] EXCEPT !.api_key = keys[i].value]]
             loaded == from_file_with_env(file)
  <1>1. \A i \in DOMAIN raw : IsProvider(raw[i])
    BY FilesAssumption DEF IndInv, TypeOK, IsProviders
  <1>2. file' = file /\ phase' # "start" /\ providers' = loaded.providers
        /\ (loaded.err # "none" => phase' = "failed")
    BY DEF LoadConfig
  <1>3. CASE bad # {}
    <2>1. PICK i \in DOMAIN raw : ResolveKey(raw[i]).err # "none"
      BY <1>3
    <2>2. Min(bad) \in bad
      <3>1. bad \subseteq Nat
        <4>1. Len(raw) \in Nat /\ DOMAIN raw = 1..Len(raw)
          BY FilesAssumption DEF IndInv, TypeOK, IsProviders
        <4> QED BY <4>1
      <3> HIDE DEF bad
      <3> QED BY <1>3, <3>1, MinFacts
    <2>3. loaded.err # "none" /\ loaded.providers = << >>
      BY <1>3, <2>2 DEF from_file_with_env
    <2> QED BY <1>2, <2>1, <2>3 DEF KeysInv
  <1>4. CASE bad = {} /\ vain # {}
    <2>1. PICK i \in DOMAIN raw : ~raw[i].url
      BY <1>4
    <2>2. loaded.err # "none" /\ loaded.providers = << >>
      BY <1>4 DEF from_file_with_env
    <2> QED BY <1>2, <2>1, <2>2 DEF KeysInv
  <1>5. CASE bad = {} /\ vain = {}
    <2>1. loaded.providers = set
      BY <1>5 DEF from_file_with_env
    <2>2. \A i \in DOMAIN raw : ResolveKey(raw[i]).err = "none"
      BY <1>5
    <2>3. DOMAIN set = DOMAIN raw
      OBVIOUS
    <2>4. \A i \in DOMAIN raw : set[i].api_key = ResolveKey(raw[i]).value
      BY <1>1 DEF IsProvider
    <2> HIDE DEF set, loaded
    <2> QED BY <1>2, <2>1, <2>2, <2>3, <2>4 DEF KeysInv
  <1> QED BY <1>3, <1>4, <1>5

\* Discovery leaves the keys alone.
LEMMA DiscoverKeys ==
    ASSUME IndInv, KeysInv, Discover
    PROVE  KeysInv'
  <1>1. /\ phase = "discover" /\ phase' = phase /\ file' = file
        /\ found < Len(providers) /\ found \in Nat /\ IsProviders(providers)
    BY DEF Discover, IndInv, TypeOK, IsProviders
  <1>2. CASE providers' = providers
    BY <1>1, <1>2 DEF KeysInv
  <1>3. CASE \E ids \in SUBSET Models : providers' = [providers EXCEPT ![found + 1].models = ids]
    <2>1. PICK ids \in SUBSET Models : providers' = [providers EXCEPT ![found + 1].models = ids]
      BY <1>3
    <2>2. /\ DOMAIN providers = 1..Len(providers) /\ found + 1 \in DOMAIN providers
          /\ \A i \in DOMAIN providers : IsProvider(providers[i])
      BY <1>1 DEF IsProviders
    <2>3. DOMAIN providers' = DOMAIN providers
      BY <2>1
    <2>4. \A i \in DOMAIN providers : providers'[i].api_key = providers[i].api_key
      BY <2>1, <2>2 DEF IsProvider
    <2> QED BY <1>1, <2>3, <2>4 DEF KeysInv
  <1> QED BY <1>2, <1>3 DEF Discover

\* Nothing else touches them.
LEMMA StepKeys == IndInv /\ KeysInv /\ [Next]_vars => KeysInv'
  <1> SUFFICES ASSUME IndInv, KeysInv, [Next]_vars PROVE KeysInv'
    OBVIOUS
  <1>1. CASE LoadConfig
    BY <1>1, LoadKeys
  <1>2. CASE Discover
    BY <1>2, DiscoverKeys
  <1>3. CASE Listen
    BY <1>3 DEF Listen, KeysInv
  <1>4. CASE UNCHANGED <<phase, file, providers>>
    BY <1>4 DEF KeysInv
  <1>5. CASE UNCHANGED vars
    BY <1>4, <1>5 DEF vars
  <1>6. CASE \E m \in Messages : Say(m)
    BY <1>4, <1>6 DEF Say
  <1>7. CASE \E model \in Models, policy \in PolicyNames, header \in {"low", "medium", "high", "?"},
                max_tokens \in MaxTokens : Ask(model, policy, header, max_tokens)
    BY <1>4, <1>7 DEF Ask
  <1>8. CASE Escalate \/ Refuse \/ Reserve \/ Done
    BY <1>4, <1>8 DEF Escalate, Refuse, Reserve, Done
  <1>9. CASE /\ req.pc = "reserved"
             /\ \E p \in ToSet(req.answer.list), tokens_in \in 0..req.tokens.input,
                   tokens_out \in 0..req.tokens.output : Settle(p, tokens_in, tokens_out)
    BY <1>4, <1>9 DEF Settle
  <1> QED BY <1>1, <1>2, <1>3, <1>5, <1>6, <1>7, <1>8, <1>9 DEF Next

\* Resolved keys are the expanded ones.
LEMMA KeysAgree == IndInv /\ KeysInv => ExpansionAgrees
  <1> SUFFICES ASSUME IndInv, KeysInv PROVE ExpansionAgrees
    OBVIOUS
  <1> DEFINE raw == file.providers
             texts == {i \in DOMAIN raw : raw[i].api_key # Absent}
  <1>1. /\ Len(raw) \in Nat /\ DOMAIN raw = 1..Len(raw)
        /\ \A i \in DOMAIN raw : raw[i].api_key \in Seq(STRING)
    BY FilesAssumption DEF IndInv, TypeOK, IsProviders
  <1>2. \A i \in texts :
            /\ ResolveKey(raw[i]).err = "none" <=> Wellformed(raw[i].api_key)
            /\ ResolveKey(raw[i]).err = "none" => ResolveKey(raw[i]).value = Scanned(raw[i].api_key).value
    BY <1>1, KeyFacts
  <1>3. \A i \in DOMAIN raw : ResolveKey(raw[i]).err # "none" => i \in texts
    BY DEF ResolveKey
  <1>4. ASSUME phase = "failed", providers = << >>, Len(raw) > 0
        PROVE  \/ \E i \in texts : ~Wellformed(raw[i].api_key)
               \/ \E i \in DOMAIN raw : ~raw[i].url
    <2>1. DOMAIN providers # DOMAIN raw
      <3>1. 1 \in DOMAIN raw /\ DOMAIN << >> = {}
        BY <1>1, <1>4
      <3> QED BY <1>4, <3>1
    <2>2. \E i \in DOMAIN raw : ResolveKey(raw[i]).err # "none" \/ ~raw[i].url
      BY <1>4, <2>1 DEF KeysInv
    <2> QED BY <1>2, <1>3, <2>2
  <1>5. ASSUME providers # << >>, NEW i \in texts
        PROVE  /\ Wellformed(raw[i].api_key)
               /\ providers[i].api_key = Scanned(raw[i].api_key).value
    <2>1. ResolveKey(raw[i]).err = "none" /\ providers[i].api_key = ResolveKey(raw[i]).value
      BY <1>5 DEF KeysInv
    <2> QED BY <1>2, <2>1
  <1> QED BY <1>4, <1>5 DEF ExpansionAgrees

\* The configuration of every file is loaded if and only if its references are
\* closed and set, and each key is its text with every reference replaced, once.
THEOREM ExpansionCorrect == Spec => []ExpansionAgrees
  <1>1. Init => KeysInv
    BY DEF Init, KeysInv
  <1>2. Spec => []KeysInv
    BY <1>1, StepKeys, Invariance, PTL DEF Spec
  <1> QED BY <1>2, KeysAgree, Invariance, PTL
=============================================================================
