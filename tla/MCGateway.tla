------------------------------ MODULE MCGateway ------------------------------
(***************************************************************************)
(* A small instance of Gateway.                                            *)
(***************************************************************************)
EXTENDS Gateway

MCContextSignal == <<0, 3, 6, 9, 12, 15, 18, 21, 24, 27>>
MCDepthSignal == <<0, 1, 9, 24>>

\* Bodies of three lengths; a code block takes two messages.
MCMessages ==
    { [role |-> "user", len |-> 1, fences |-> 0, files |-> {}, words |-> {}],
      [role |-> "user", len |-> 8, fences |-> 3, files |-> {"f"}, words |-> {"code"}],
      [role |-> "assistant", len |-> 12, fences |-> 1, files |-> {"f", "g"},
       words |-> {"design", "debug"}] }

\* A is set, to a value that looks like a reference; B is not set.
MCEnv == (<<"A">> :> <<"${", "B", "}">>) @@ (<<"KEY_C">> :> <<"k">>)
MCConventionName == [n \in {"a", "b", "c"} |-> IF n = "c" THEN <<"KEY_C">> ELSE <<"KEY_A">>]

Provider(name, models, input, output, base, tier) ==
    [name |-> name, models |-> models, input_rate |-> input, output_rate |-> output,
     base_fee |-> base, tier |-> tier, auto_discover |-> FALSE, url |-> TRUE, api_key |-> Absent]
Discovered(p) == [p EXCEPT !.auto_discover = TRUE]

Rules == << [name |-> "cheap", allowed |-> {}, max_output |-> 3, keywords |-> {}],
            [name |-> "code", allowed |-> {"m1"}, max_output |-> NoLimit, keywords |-> {"code"}] >>

FileWith(command, ps, weights) ==
    [command |-> command, providers |-> ps, rules |-> Rules, weights |-> weights,
     extra_keywords |-> <<"debug">>, low |-> 12, high |-> 21, default_reserve_tokens |-> 4]
File(command, ps) == FileWith(command, ps, <<1, 1, 1, 1, 1>>)

\* Three tiers with the Frontier cheaper than Standard; a provider with an
\* entry per model, and one price for two; no Local provider, and models
\* that are not known before discovery.  Weights are equal, or one is zero, or
\* one is negative.
ServedFiles ==
    { File("serve", << Provider("b", {"m1", "m2"}, 2, 4, 1, 2), Provider("a", {"m1"}, 1, 2, 0, 1),
                       Discovered(Provider("c", {"m1", "m2"}, 5, 3, 0, 3)) >>),
      FileWith("serve", << Provider("a", {"m1"}, 1, 5, 0, 2), Provider("b", {"m1", "m2"}, 1, 4, 0, 2),
                           Provider("a", {"m1", "m2"}, 3, 3, 1, 3) >>, <<2, 0, 1, 1, 3>>),
      FileWith("serve", << Discovered(Provider("a", {}, 1, 3, 1, 2)), Provider("b", {"m2"}, 9, 4, 0, 3) >>,
               <<1, 1, 1, 1, -2>>) }

KeyTexts == BoundedSeq({"${", "}", "A", "B"}, 4)

\* Files with every kind of key, one without a URL, and one without providers.
CheckedFiles ==
    { File("check", << [Provider("c", {}, 1, 1, 0, 2) EXCEPT !.api_key = t],
                       Provider("c", {}, 1, 1, 0, 2) >>) : t \in KeyTexts }
    \cup { File("check", << [Provider("a", {}, 1, 1, 0, 2) EXCEPT !.url = FALSE] >>) }

MCFiles == ServedFiles \cup CheckedFiles \cup {File("serve", << >>)}
=============================================================================
