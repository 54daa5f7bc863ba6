-------------------------------- MODULE Lists --------------------------------
(***************************************************************************)
(* What a list comprehension with a condition keeps of a list, written     *)
(* without recursion so that it can be proved about.                       *)
(***************************************************************************)
EXTENDS Naturals, Sequences, FiniteSets

\* The elements of a sequence at the positions I, in their order.
Subsequence(s, I) ==
    LET rank(i) == Cardinality({j \in I : j <= i})
    IN  [k \in 1..Cardinality(I) |-> s[CHOOSE i \in I : rank(i) = k]]

=============================================================================
