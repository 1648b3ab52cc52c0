---------------------------- MODULE CompositeStep ----------------------------
(***************************************************************************)
(* ROL::TypeE::CompositeStepAlgorithm: a trust-region SQP method that      *)
(* drives an objective and a constraint together, here a reduced objective *)
(* and a reduced constraint, with stores of their own or with one store of *)
(* states for both.                                                        *)
(*                                                                         *)
(* Steps lead anywhere, and every test of sizes may go either way: what is *)
(* modelled is which function is told what, and asked what, where.  A step *)
(* of the algorithm lists the calls it makes; the next one waits for them. *)
(***************************************************************************)
EXTENDS ReducedConstraint, Sequences

CONSTANTS
  MaxIter,      (* iteration limit of the status test                       *)
  MaxPasses,    (* projections of a tangential step until its tolerance,    *)
                (* reduced by tol_red_tang each time, falls below mintol    *)
  MaxTries      (* ct_max                                                   *)

ASSUME CompositeAssumption ==
  MaxIter \in Nat /\ MaxPasses \in Nat \ {0} /\ MaxTries \in Nat \ {0}

VARIABLES
  pc,            (* "start", "check", "project", "try", "again", "fit",     *)
                 (* "radius" or "done"                                      *)
  shared,        (* one store of states for objective and constraint        *)
  fns,           (* o, the objective, and c, the constraint                 *)
  x, xtrial,
  pass, ct, iter,
  todo, place,   (* calls still to be made, and what they are for           *)
  stale,         (* history: where answers of another point were given      *)
  gaveUp         (* history: the tries ended while x was announced as trial *)

vars == <<pc, shared, fns, x, xtrial, pass, ct, iter, todo, place,
          stale, gaveUp>>

Init ==
  /\ pc = "start" /\ shared \in BOOLEAN
  /\ fns = [o |-> NewReducedObjective, c |-> NewReducedConstraint]
  /\ x \in Val /\ xtrial = x
  /\ pass = 0 /\ ct = 0 /\ iter = 0
  /\ todo = <<>> /\ place = "iterate"
  /\ stale = {} /\ gaveUp = FALSE

-----------------------------------------------------------------------------
(* The objective, or the constraint, of the pair p becomes r.              *)
Obj(p, r) == [o |-> r, c |-> IF shared THEN [p.c EXCEPT !.state = r.state] ELSE p.c]
Con(p, r) == [c |-> r, o |-> IF shared THEN [p.o EXCEPT !.state = r.state] ELSE p.o]

(* A call is a method, the point, and the type or multiplier of the call.  *)
Do(p, call, z, arg) ==
  CASE call = "obj.update"  -> Obj(p, Update(p.o, arg, z))
    [] call = "con.update"  -> Con(p, UpdateConstraint(p.c, arg, z))
    [] call = "value"       -> Obj(p, Value(p.o, K, z))
    [] call = "gradient"    -> Obj(p, Gradient(p.o, K, z))
    [] call = "hessVec"     -> Obj(p, HessVec(p.o, K, z))
    [] call = "con.value"   -> Con(p, ConstraintValue(p.c, z))
    [] call = "jacobian"    -> Con(p, Jacobian(p.c, z))
    [] call = "adjoint"     -> Con(p, AdjointJacobian(p.c, arg, z))
    [] call = "con.hessian" -> Con(p, AdjointHessian(p.c, arg, z))

UpdateBoth(type, z) == <<<<"obj.update", z, type>>, <<"con.update", z, type>>>>

(* Value and gradient of the objective and value of the constraint.        *)
Evaluate(z) == <<<<"value", z, "">>, <<"gradient", z, "">>, <<"con.value", z, "">>>>

(* solveAugmentedSystem: Krylov vectors are multipliers of their own.      *)
AugmentedSystem(z) == <<<<"jacobian", z, "">>, <<"adjoint", z, "krylov">>>>

(* computeLagrangeMultiplier, computeQuasinormalStep (a partial Cauchy     *)
(* step spares the system, whose solves are known by then), the Hessian of *)
(* the Lagrangian, and solveTangentialSubproblem.                          *)
Multiplier(z)  == <<<<"adjoint", z, "l">>>> \o AugmentedSystem(z)
QuasiNormal(z) == <<<<"adjoint", z, "dualc0">>, <<"jacobian", z, "">>>> \o AugmentedSystem(z)
Hessian(z)     == <<<<"hessVec", z, "">>, <<"con.hessian", z, "l">>>>
Tangential(z)  == Hessian(z) \o AugmentedSystem(z)

(* The step just taken makes these calls, whose answers are for `where`.   *)
Begin(calls, where) ==
  /\ todo = <<>> /\ todo' = calls /\ place' = where
  /\ UNCHANGED <<fns, stale>>

Idle == todo = <<>> /\ UNCHANGED <<todo, place, fns, stale>>

Returns == todo # <<>> /\ todo' = Tail(todo)

(* The next call is made. If its answer is of another point, that is noted *)
(* under the name of the place.                                            *)
MakeCall ==
  /\ Returns
  /\ \E p \in {Do(fns, Head(todo)[1], Head(todo)[2], Head(todo)[3])} :
       /\ stale' = IF p.o.fresh /\ p.c.fresh THEN stale ELSE stale \cup {place}
       /\ fns' = [o |-> [p.o EXCEPT !.fresh = TRUE], c |-> [p.c EXCEPT !.fresh = TRUE]]
  /\ UNCHANGED <<pc, shared, x, xtrial, pass, ct, iter, place, gaveUp>>

-----------------------------------------------------------------------------
Initialize ==
  /\ pc = "start" /\ pc' = "check"
  /\ Begin(<<<<"obj.update", x, "Initial">>, <<"value", x, "">>,
             <<"con.update", x, "Initial">>, <<"con.value", x, "">>,
             <<"gradient", x, "">>>> \o Multiplier(x) \o <<<<"adjoint", x, "l">>>>, "iterate")
  /\ UNCHANGED <<shared, x, xtrial, pass, ct, iter, gaveUp>>

Stop ==
  /\ pc = "check" /\ pc' = "done"
  /\ Idle /\ UNCHANGED <<shared, x, xtrial, pass, ct, iter, gaveUp>>

(* computeTrial, up to the loops of accept().                              *)
ComputeTrial ==
  /\ pc = "check" /\ iter < MaxIter /\ pc' = "project"
  /\ Begin(Evaluate(x) \o QuasiNormal(x) \o <<<<"adjoint", x, "l">>>> \o Tangential(x)
             \o <<<<"adjoint", x, "l">>, <<"jacobian", x, "">>>>, "iterate")
  /\ pass' = 1 /\ ct' = 1
  /\ UNCHANGED <<shared, x, xtrial, iter, gaveUp>>

(* One pass of the projection loop, first half: the augmented system and   *)
(* the Hessians, at the iterate.  In a later pass, or try, both functions  *)
(* have been told of a trial point by then.                                *)
Project ==
  /\ pc = "project" /\ pc' = "try"
  /\ Begin(<<<<"jacobian", x, "">>>> \o AugmentedSystem(x) \o Hessian(x),
           IF pass = 1 /\ ct = 1 THEN "iterate" ELSE "repeated")
  /\ UNCHANGED <<shared, x, xtrial, pass, ct, iter, gaveUp>>

(* Faulty variant: only the objective is told of the trial point.          *)
TryObjectiveOnly ==
  /\ pc = "try" /\ pc' = "again"
  /\ \E z \in Val :
       /\ xtrial' = z
       /\ Begin(<<<<"obj.update", z, "Trial">>>> \o Evaluate(z) \o Multiplier(z), "trial")
  /\ UNCHANGED <<shared, x, pass, ct, iter, gaveUp>>

(* Second half: both functions are told of the trial point and evaluated.  *)
TryStep ==
  /\ pc = "try" /\ pc' = "again"
  /\ \E z \in Val :
       /\ xtrial' = z
       /\ Begin(UpdateBoth("Trial", z) \o Evaluate(z) \o Multiplier(z), "trial")
  /\ UNCHANGED <<shared, x, pass, ct, iter, gaveUp>>

(* Faulty variant: the tolerance is not reduced.                           *)
ProjectSame ==
  /\ pc = "again" /\ pass < MaxPasses /\ pc' = "project"
  /\ Idle /\ UNCHANGED <<shared, x, xtrial, pass, ct, iter, gaveUp>>

(* The linearized constraint may be met too badly, for another pass with a *)
(* smaller tolerance unless that falls below mintol.                       *)
ProjectAgain ==
  /\ pc = "again" /\ pass < MaxPasses /\ pc' = "project"
  /\ pass' = pass + 1
  /\ Idle /\ UNCHANGED <<shared, x, xtrial, ct, iter, gaveUp>>

Projected ==
  /\ pc = "again" /\ pc' = "fit"
  /\ Idle /\ UNCHANGED <<shared, x, xtrial, pass, ct, iter, gaveUp>>

(* The step is accepted for the ratio test.                                *)
Fits ==
  /\ pc = "fit" /\ pc' = "radius"
  /\ Idle /\ UNCHANGED <<shared, x, xtrial, pass, ct, iter, gaveUp>>

(* Faulty variant: one try more than ct_max.                               *)
NextTryBeyond ==
  /\ pass' = 1
  /\ IF ct <= MaxTries THEN ct' = ct + 1 /\ pc' = "project" ELSE ct' = ct /\ pc' = "radius"

(* Or it is too large, and the next try starts from the Cauchy point, or   *)
(* from new subproblems at x, which is announced as a trial point.         *)
NextTry ==
  /\ pass' = 1
  /\ IF ct < MaxTries THEN ct' = ct + 1 /\ pc' = "project" ELSE ct' = ct /\ pc' = "radius"

TryCauchy ==
  /\ pc = "fit" /\ NextTry
  /\ Idle /\ UNCHANGED <<shared, x, xtrial, iter, gaveUp>>

Recompute ==
  /\ pc = "fit" /\ NextTry
  /\ Begin(UpdateBoth("Trial", x) \o QuasiNormal(x) \o Tangential(x), "recomputed")
  /\ gaveUp' = (gaveUp \/ ct = MaxTries)
  /\ UNCHANGED <<shared, x, xtrial, iter>>

(* updateRadius: the step is taken or not, and everything is evaluated at  *)
(* the iterate that results.                                               *)
AfterDecision(z) ==
  <<<<"value", z, "">>, <<"gradient", z, "">>>> \o Multiplier(z)
    \o <<<<"adjoint", z, "l">>, <<"con.value", z, "">>>>

Accept ==
  /\ pc = "radius" /\ pc' = "check"
  /\ x' = xtrial
  /\ Begin(UpdateBoth("Accept", xtrial) \o AfterDecision(xtrial), "iterate")
  /\ iter' = iter + 1
  /\ UNCHANGED <<shared, xtrial, pass, ct, gaveUp>>

(* Faulty variant: the constraint is not told of the rejection.            *)
RejectObjectiveOnly ==
  /\ pc = "radius" /\ pc' = "check"
  /\ Begin(<<<<"obj.update", x, "Revert">>>> \o AfterDecision(x), "iterate")
  /\ iter' = iter + 1
  /\ UNCHANGED <<shared, x, xtrial, pass, ct, gaveUp>>

Reject ==
  /\ pc = "radius" /\ pc' = "check"
  /\ Begin(UpdateBoth("Revert", x) \o AfterDecision(x), "iterate")
  /\ iter' = iter + 1
  /\ UNCHANGED <<shared, x, xtrial, pass, ct, gaveUp>>

Decide ==
  \/ Initialize \/ Stop \/ ComputeTrial
  \/ Project \/ TryStep \/ ProjectAgain \/ Projected
  \/ Fits \/ TryCauchy \/ Recompute
  \/ Accept \/ Reject

Next == MakeCall \/ Decide

Spec == Init /\ [][Next]_vars

(* One thread runs the algorithm to its end: its calls return, and it goes *)
(* on after them.                                                          *)
FairSpec == Spec /\ WF_todo(Returns) /\ WF_vars(Decide)

-----------------------------------------------------------------------------
(* The calls the algorithm may have left to make; those without a type or  *)
(* a multiplier have the empty one.                                        *)
Types       == {"Initial", "Trial", "Accept", "Revert"}
Multipliers == {"", "l", "krylov", "dualc0"}
ObjMethods  == {"value", "gradient", "hessVec"}
ConMethods  == {"con.value", "jacobian", "adjoint", "con.hessian"}

Calls == ({"obj.update", "con.update"} \X Val \X Types)
           \cup ((ObjMethods \cup ConMethods) \X Val \X Multipliers)

Places == {"iterate", "repeated", "trial", "recomputed"}

(* Every variable has its type, of the pair of functions the objective,    *)
(* and the loops of accept() keep to their limits.                         *)
TypeOK ==
  /\ pc \in {"start", "check", "project", "try", "again", "fit", "radius", "done"}
  /\ shared \in BOOLEAN /\ fns.o \in ReducedObjectives
  /\ x \in Val /\ xtrial \in Val
  /\ pass \in 0 .. MaxPasses /\ ct \in 0 .. MaxTries /\ iter \in 0 .. MaxIter
  /\ todo \in Seq(Calls) /\ place \in Places
  /\ stale \subseteq Places /\ gaveUp \in BOOLEAN

(* Objective and constraint stay in step, whether or not they share their  *)
(* states: values, gradients and multipliers of iterate and trial point,   *)
(* the first subproblems and those computed anew are all formed at the     *)
(* point they are asked for.  Only a repeated projection may be answered   *)
(* with another point, and nothing is promised once the last try has ended *)
(* in Recompute.                                                           *)
StaleOnlyWhenRepeated == ~gaveUp => stale \subseteq {"repeated"}

(* An accepted step was the last one announced as Trial, to both.          *)
AcceptsTheTrial == [][Accept /\ ~gaveUp => fns.o.cand = x' /\ fns.c.cand = x']_vars

(* Every adjoint of the constraint is that of the multiplier it is applied *)
(* to, as Constraint::applyAdjointJacobian says it returns c'(x)^* v.      *)
AdjointOfMultiplier == fns.c.ofMultiplier

(* The loops of accept() and of run() end.                                 *)
Terminates == <>(pc = "done")
=============================================================================
