------------------------------ MODULE Ordering ------------------------------
(***************************************************************************)
(* Sorting and adding up, for the modules that sort providers or rows and  *)
(* add up messages.  They do what SetToSortSeq and FoldLeft do, in a form  *)
(* that proofs can unfold: a relation is a set of pairs, and a member of a *)
(* set has its place by the number of members before it.                   *)
(***************************************************************************)
EXTENDS Naturals, Sequences, FiniteSets

\* The members of the finite set S in the order of R.
Arranged(S, R) ==
    [k \in 1..Cardinality(S) |->
        CHOOSE i \in S : Cardinality({j \in S : <<j, i>> \in R}) = k - 1]

\* The positions of S from the first to the last.
Upwards(S) == {p \in S \X S : p[1] < p[2]}

\* The sum of a sequence of numbers.
Total(s) ==
    LET upto[n \in 0..Len(s)] == IF n = 0 THEN 0 ELSE upto[n - 1] + s[n]
    IN  upto[Len(s)]
=============================================================================
