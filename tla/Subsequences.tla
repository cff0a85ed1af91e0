----------------------------- MODULE Subsequences -----------------------------
(***************************************************************************)
(* What a filter leaves of a sequence, told by the positions it keeps and  *)
(* without recursion, so that proofs can speak of it.  Keeping(s, I) is    *)
(* SelectSeq(s, Test) when I holds the i for which Test(s[i]).             *)
(***************************************************************************)
EXTENDS Naturals, Sequences, FiniteSets

\* The place of position i among those of I.
Rank(I, i) == Cardinality({j \in I : j <= i})

\* The elements of s at the positions in I, in their order.
Keeping(s, I) == [k \in 1..Cardinality(I) |-> s[CHOOSE i \in I : Rank(I, i) = k]]
=============================================================================
