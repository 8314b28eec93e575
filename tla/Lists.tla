-------------------------------- MODULE Lists --------------------------------
(***************************************************************************)
(* Lists by rank: the n-th of a set of numbers is the one with n - 1 before *)
(* it.                                                                     *)
(***************************************************************************)
EXTENDS Integers, FiniteSets

Nth(S, n) == CHOOSE i \in S : Cardinality({j \in S : j < i}) = n - 1

(* The numbers of S in increasing order.                                   *)
Sorted(S) == [n \in 1..Cardinality(S) |-> Nth(S, n)]

(* The elements of q at the places in I, in the order of q.                *)
AtPlaces(q, I) == [n \in 1..Cardinality(I) |-> q[Nth(I, n)]]
=============================================================================
