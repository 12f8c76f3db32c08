---------------------------- MODULE Subsequences ----------------------------
(***************************************************************************)
(* The parts of a sequence that erase-remove loops and filters of the      *)
(* source leave, given by the positions or the items they keep.  Keep is   *)
(* SelectSeq with a set for its test, which proofs can reason about.       *)
(***************************************************************************)
EXTENDS Naturals, Sequences, FiniteSets

\* The k-th position in I.
Place(I, k) == CHOOSE i \in I : Cardinality({j \in I : j <= i}) = k

\* The items at the positions in I, in their order.
Subsequence(s, I) == [k \in 1..Cardinality(I) |-> s[Place(I, k)]]

\* The items that are in the set kept, in their order.
Places(s, kept) == {i \in DOMAIN s : s[i] \in kept}
Keep(s, kept) == Subsequence(s, Places(s, kept))
=============================================================================
