------------------------------ MODULE Filters ------------------------------
(***************************************************************************)
(* Array.prototype.filter, as the client, the token sweep and the history  *)
(* use it.  What is kept is named by its positions, so that the operator   *)
(* is an expression without recursion.                                     *)
(***************************************************************************)
EXTENDS Naturals, Sequences, FiniteSets

\* The k-th of a set of positions: it has k of them up to itself.
Nth(I, k) == CHOOSE i \in I : Cardinality({j \in I : j <= i}) = k

\* The elements of s at the positions I, in their order.
Filtered(s, I) == [k \in 1..Cardinality(I) |-> s[Nth(I, k)]]
=============================================================================
