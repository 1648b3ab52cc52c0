---------------------------- MODULE MCLineSearchU ----------------------------
(* LineSearchU on small instances. *)
EXTENDS LineSearchU, TLC

CONSTANTS Values, Searches, Descents, Curvatures

MCFunctions == [Val -> Values]

(* The curvature condition matters to nonlinear conjugate gradients only.  *)
Choices(acceptLast, acceptMin, fdDeriv) ==
  {o \in [search : Searches, descent : Descents, curvature : Curvatures,
          acceptLast : acceptLast, acceptMin : acceptMin, fdDeriv : fdDeriv] :
     o.descent # "Nonlinear CG" => o.curvature = "Wolfe"}

(* Everything but the acceptance of the smallest value seen.               *)
NoMinimizer == Choices(BOOLEAN, {FALSE}, BOOLEAN)

(* The defaults of the step limit.                                         *)
Default == Choices({FALSE}, {FALSE}, {FALSE})

Symmetry == Permutations(Val)
=============================================================================
