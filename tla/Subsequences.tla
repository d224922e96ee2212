----------------------------- MODULE Subsequences ----------------------------
(***************************************************************************)
(* The list that a loop over s leaves, when it appends the elements at the *)
(* indices K to an empty one.  It says what SelectSeq says of a test, but  *)
(* without recursion, so that it can be reasoned about.                    *)
(***************************************************************************)
EXTENDS Naturals, FiniteSets, Sequences

(* The n-th smallest number of K.                                          *)
Nth(K, n) == CHOOSE i \in K : Cardinality({j \in K : j <= i}) = n

Subsequence(s, K) == [n \in 1..Cardinality(K) |-> s[Nth(K, n)]]
=============================================================================
