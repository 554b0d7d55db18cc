----------------------------- MODULE Subsequences -----------------------------
(***************************************************************************)
(* What is left of a sequence when a filter has gone through it.           *)
(***************************************************************************)
EXTENDS Integers, Sequences, FiniteSets

\* The elements of s at the positions in ks, in their order in s.  SelectSeq
\* would do, but nothing can be proved about it.
Subsequence(s, ks) ==
    LET at(n) == CHOOSE k \in ks : Cardinality({j \in ks : j <= k}) = n
    IN  [n \in 1 .. Cardinality(ks) |-> s[at(n)]]

=============================================================================
