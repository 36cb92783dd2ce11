---------------------------- MODULE MCLogQueries ----------------------------
(***************************************************************************)
(* A small instance of LogQueries: two models whose names differ in case,  *)
(* and one that is not configured.                                         *)
(***************************************************************************)
EXTENDS LogQueries

CONSTANTS r1, r2, r3

MCModelOf == (r1 :> "gpt") @@ (r2 :> "GPT") @@ (r3 :> "other")
MCLower == [m \in {"gpt", "GPT", "other"} |-> IF m = "GPT" THEN "gpt" ELSE m]
MCTierOf == (r1 :> "local") @@ (r2 :> "local") @@ (r3 :> "unknown")

\* A fixed start, and a preset so short that it moves on with every second.
MCStarts == {[preset |-> FALSE, at |-> 0], [preset |-> TRUE, at |-> 0]}
=============================================================================
