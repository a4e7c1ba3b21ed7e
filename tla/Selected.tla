------------------------------ MODULE Selected ------------------------------
(***************************************************************************)
(* The members of a list that are in a set, in their order: what is left   *)
(* of a list that a loop of the code filters.  Without recursion, so that  *)
(* the modules that use it can be proved about.                            *)
(***************************************************************************)
EXTENDS Naturals, Sequences, FiniteSets

\* Where they stand, and where the k-th of them stands.
Places(q, S) == {i \in DOMAIN q : q[i] \in S}
Place(q, S, k) ==
  CHOOSE i \in Places(q, S) : Cardinality({j \in Places(q, S) : j < i}) = k - 1

Selected(q, S) == [k \in 1..Cardinality(Places(q, S)) |-> q[Place(q, S, k)]]
=============================================================================
