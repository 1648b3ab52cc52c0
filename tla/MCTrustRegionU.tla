--------------------------- MODULE MCTrustRegionU ---------------------------
(* TrustRegionU on small instances. *)
EXTENDS TrustRegionU, TLC

CONSTANTS Values, Hessians

MCInf == 98
MCNaN == 99

(* Every combination of the evaluation options with the monotone method,   *)
(* and the plainest with the nonmonotone one.                              *)
Monotone ==
  [hess : Hessians, radius : BOOLEAN, inexactValue : BOOLEAN, inexactGradient : BOOLEAN,
   nm : {0}]

Nonmonotone ==
  {[hess |-> "secant", radius |-> FALSE, inexactValue |-> FALSE, inexactGradient |-> FALSE,
    nm |-> 2]}

(* Objectives with any values; the monotone method starts from a value     *)
(* that is no infinity.                                                    *)
MCProblems ==
  {q \in [f : [Val -> Values], x : Val, opt : Monotone] : q.f[q.x] # MCInf}
  \cup [f : [Val -> Values], x : Val, opt : Nonmonotone]

Symmetry == Permutations(Val)
=============================================================================
