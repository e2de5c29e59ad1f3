---------------------------- MODULE Subsequence ----------------------------
(***************************************************************************)
(* What a filter leaves of a sequence: SelectSeq by the set of positions   *)
(* that stay, without its recursion.                                       *)
(***************************************************************************)
EXTENDS Integers, Sequences, FiniteSets

(* The k-th position of K.                                                 *)
Place(K, k) == CHOOSE i \in K : Cardinality({j \in K : j <= i}) = k

(* The elements of s at the positions in K, in their order.                *)
Kept(s, K) == [k \in 1 .. Cardinality(K) |-> s[Place(K, k)]]
=============================================================================
