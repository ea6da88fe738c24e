------------------------------ MODULE Selection ------------------------------
(***************************************************************************)
(* Filters and joins.  The elements of a list that pass a test are those   *)
(* at certain places, in the order of the places; the rows of a join are   *)
(* pairs of rows, in an order of the pairs.  Nothing here is recursive, so *)
(* that what a filter returns can be proved and not only computed.         *)
(***************************************************************************)
EXTENDS Naturals, FiniteSets, Sequences

\* The elements of DOMAIN upto in the order in which upto[x] is the set of all
\* elements up to x, x among them.
Sorted(upto) ==
  [n \in 1 .. Cardinality(DOMAIN upto) |->
     CHOOSE x \in DOMAIN upto : Cardinality(upto[x]) = n]

Ascending(S) == Sorted([i \in S |-> {j \in S : j <= i}])

\* What list has at the places in S: a filter.
SelectAt(list, S) == [n \in 1 .. Cardinality(S) |-> list[Ascending(S)[n]]]

\* A set of pairs of numbers, by the first and then by the second.
InPairOrder(S) ==
  Sorted([p \in S |-> {q \in S : q[1] < p[1] \/ (q[1] = p[1] /\ q[2] <= p[2])}])
=============================================================================
