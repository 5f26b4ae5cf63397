------------------------------ MODULE Selection ------------------------------
(***************************************************************************)
(* Some entries of a list, in the order they have in it: what is left of a *)
(* list when a loop drops some of its entries.                             *)
(***************************************************************************)
EXTENDS Integers, Sequences, FiniteSets

\* The members of a set of indices up to i, and the k-th of them.
UpTo(keep, i) == {j \in keep : j <= i}
Nth(keep, k) == CHOOSE i \in keep : Cardinality(UpTo(keep, i)) = k

\* The entries with the indices in keep.
Selected(list, keep) == [k \in 1..Cardinality(keep) |-> list[Nth(keep, k)]]
===============================================================================
