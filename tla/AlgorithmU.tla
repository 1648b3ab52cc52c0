----------------------------- MODULE AlgorithmU -----------------------------
(***************************************************************************)
(* What the trust-region and the line-search algorithm of ROL::TypeU have  *)
(* in common: an unconstrained problem, the reduced objective it is posed  *)
(* for, the optimization vector, and the loop that a status test ends.     *)
(* What a step is, and what else an algorithm remembers, is in the modules *)
(* of the two.                                                             *)
(***************************************************************************)
EXTENDS ReducedObjective, Integers

CONSTANT MaxIter   (* iteration limit of the status test                   *)

ASSUME AlgorithmAssumption == MaxIter \in Nat

VARIABLES
  pc,              (* the statement of run() that comes next               *)
  f, opt,          (* the problem and the options, fixed initially         *)
  ro,              (* the objective, whose only parameter is K             *)
  x,               (* the caller's vector                                  *)
  iter             (* state_->iter                                         *)

K == CHOOSE k \in Key : TRUE

(* Every value, gradient and Hessian the algorithm is given belongs to the *)
(* point it asked for, although states, adjoints and the inner problem's   *)
(* data survive trials, reversions and finite-difference probes.           *)
AnswersAreFresh == ro.fresh
=============================================================================
