----------------------------- MODULE Subsequences -----------------------------
(***************************************************************************)
(* The comprehensions [x for x in s if ...] and the loops with continue of  *)
(* the source, as operators on the positions that are kept, and its sorts,  *)
(* as the order they put the positions into.  SelectSeq and SortSeq would   *)
(* do the same, but take an operator and are defined by recursion, and      *)
(* neither can be reasoned about in the proofs about these modules.         *)
(***************************************************************************)
EXTENDS Integers, SequencesExt

\* How many of the positions in I are among the first i.
CountUpTo(I, i) == Cardinality(I \intersect 1..i)

\* The k-th smallest of the positions in I.
Kth(I, k) == CHOOSE i \in I : CountUpTo(I, i) = k

\* The elements of s at the positions in I, in their order.
Subsequence(s, I) == [k \in 1..Cardinality(I) |-> s[Kth(I, k)]]

\* The k-th of the positions in I in the order R, a set of pairs.
Ranked(I, R, k) == CHOOSE i \in I : Cardinality({j \in I : <<j, i>> \in R}) = k - 1

===============================================================================
