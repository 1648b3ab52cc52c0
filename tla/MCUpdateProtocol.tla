-------------------------- MODULE MCUpdateProtocol --------------------------
(* UpdateProtocol on a small instance; keys and points are interchangeable. *)
EXTENDS UpdateProtocol, TLC, FiniteSets, Naturals

Symmetry == Permutations(Key) \cup Permutations(Val)

(* Bound: the broken computations remembered at one time, of which a step  *)
(* may add one more.                                                       *)
MaxTorn == 1

FewTorn == Cardinality({p \in Place \X Key : p[2] \in torn[p[1]]}) <= MaxTorn
=============================================================================
