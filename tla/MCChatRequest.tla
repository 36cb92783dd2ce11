---------------------------- MODULE MCChatRequest ----------------------------
(***************************************************************************)
(* Small instances of ChatRequest: provA is Standard, provB is a cheaper   *)
(* Frontier provider, and no provider is Local.                            *)
(***************************************************************************)
EXTENDS ChatRequest, TLC

CONSTANTS provA, provB

TwoProviders == <<<< >>, <<provA>>, <<provB, provA>>>>
OneProvider == <<<< >>, <<provA>>, <<provA>>>>

RequestSymmetry == Permutations(Requests)
=============================================================================
