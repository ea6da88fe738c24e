------------------------- MODULE MCListControllers -------------------------
(* Small instances of ListControllers for TLC.                             *)
EXTENDS ListControllers

\* The filter and the order of a join that the module states by places are
\* what a scan from the first place to the last one gives.
ASSUME FilterAgrees ==
  \A list \in SeqOf(1 .. 3, 4) : \A S \in SUBSET (1 .. 3) :
    SelectAt(list, {i \in DOMAIN list : list[i] \in S}) = SelectSeq(list, LAMBDA x : x \in S)

ASSUME PairsAgree ==
  \A S \in SUBSET ((1 .. 3) \X (1 .. 2)) :
    InPairOrder(S) = SetToSortSeq(S, LAMBDA p, q : 2 * p[1] + p[2] < 2 * q[1] + q[2])

Symmetry == Permutations(User) \cup Permutations(Chat) \cup Permutations(Request)
=============================================================================
