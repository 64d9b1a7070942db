------------------------------ MODULE Sublist ------------------------------
(***************************************************************************)
(* Array.prototype.filter on a queue, written on positions instead of by   *)
(* recursion so that it can be reasoned about: Keep(s, K) is the sublist   *)
(* of s that holds the positions in K, in order.                           *)
(***************************************************************************)
EXTENDS Integers, Sequences, FiniteSets

\* The j-th smallest member of a set of positions.
Nth(K, j) == CHOOSE i \in K : Cardinality({k \in K : k <= i}) = j

\* The positions K of s, in order.
Keep(s, K) == [j \in 1 .. Cardinality(K) |-> s[Nth(K, j)]]

=============================================================================
