-------------------------- MODULE ReducedConstraint --------------------------
(***************************************************************************)
(* ROL::Reduced_Constraint_SimOpt: the constraint z |-> c(S(z), z), with   *)
(* the same stores and the same lazy notification as the reduced objective *)
(* of ReducedObjective, whose record and state solve it shares (con is     *)
(* conRed_, the state equation, and obj is conVal_).                       *)
(*                                                                         *)
(* What differs is that its adjoint belongs to a multiplier w as well as   *)
(* to a point: the store of adjoints holds pairs of both.                  *)
(***************************************************************************)
EXTENDS ReducedObjective

K == CHOOSE k \in Key : TRUE

(* The field ofMultiplier is history: every adjoint used so far was that   *)
(* of the multiplier asked for.                                            *)
NewReducedConstraint ==
  LET fields == DOMAIN NewReducedObjective \cup {"ofMultiplier"}
  IN [i \in fields |-> IF i = "ofMultiplier" THEN TRUE ELSE NewReducedObjective[i]]

(* update(z, type): both stores are told with objectiveUpdate, as the      *)
(* reduced objective tells its own.                                        *)
UpdateConstraint(r, type, z) == Update(r, type, z)

ConstraintValue(r, z) == Value(r, K, z)

(* applyJacobian: the state, and a sensitivity that is not stored.         *)
Jacobian(r, z) ==
  LET s == SolveState(r, K, z)
      m == [s EXCEPT !.con = Assemble(@, K, z), !.obj = Assemble(@, K, z)]
  IN Answered(m, z, {m.u, Peek(m.con, K), Peek(m.obj, K)})

(* solve_adjoint_equation: a stored adjoint is taken whatever w is.        *)
SolveAdjointFor(r, w, z) ==
  LET hit    == Storage /\ IsComputed(r.adjoint, K)
      m      == IF hit THEN r
                ELSE [r EXCEPT !.con = Assemble(@, K, z), !.obj = Assemble(@, K, z)]
      p      == IF hit THEN Peek(r.adjoint, K)
                ELSE <<Combine(z, {r.u, Peek(m.con, K), Peek(m.obj, K)}), w>>
      looked == Allocate(r.adjoint, K)
  IN [m EXCEPT !.adjoint = IF ~Storage THEN @ ELSE IF hit THEN looked ELSE Set(looked, K, p),
               !.p = p[1], !.ofMultiplier = @ /\ p[2] = w]

(* applyAdjointJacobian, and applyAdjointHessian, which solves for the     *)
(* same state and adjoint, and for sensitivities that are not stored.      *)
(* useFDhessVec_ is off, the default: with it the base class probes a      *)
(* neighbour with a Temp update that no Revert follows, which leaves the   *)
(* stores in the temporary tier.                                           *)
AdjointJacobian(r, w, z) ==
  LET s == SolveAdjointFor(SolveState(r, K, z), w, z)
      m == [s EXCEPT !.con = Assemble(@, K, z), !.obj = Assemble(@, K, z)]
  IN Answered(m, z, {m.u, m.p, Peek(m.con, K), Peek(m.obj, K)})

AdjointHessian(r, w, z) == AdjointJacobian(r, w, z)
=============================================================================
