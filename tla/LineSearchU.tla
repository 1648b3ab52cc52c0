----------------------------- MODULE LineSearchU -----------------------------
(***************************************************************************)
(* ROL::TypeU::LineSearchAlgorithm minimizing a reduced objective, with    *)
(* the line searches built on LineSearch_U::status (backtracking and cubic *)
(* interpolation) and those that try a single step (iteration scaling and  *)
(* path-based target level).  Directions and step lengths are left out: a  *)
(* step leads from x to some other point, and the decrease that the Armijo *)
(* test demands is an infinitesimal, so that the test holds exactly at     *)
(* points of smaller value.  Whether a point satisfies the curvature       *)
(* condition is left open; opt.curvature is "Wolfe" for the four Wolfe     *)
(* conditions, which ask for the derivative there, "Goldstein" or "Null".  *)
(***************************************************************************)
EXTENDS AlgorithmU

CONSTANTS
  Functions,       (* the objectives considered: functions from Val to Int *)
  Options,         (* records of user choices; see the fields of opt       *)
  Maxit            (* maxit_: function evaluation limit of a search        *)

ASSUME LineSearchAssumption == Maxit \in Nat \ {0}

(* pc is "start", "check", "try", "test", "finish" or "done".              *)
VARIABLES
  trial,           (* xnew_, the point last tried                          *)
  fold, fval,      (* state_->value, and the value at the trial point      *)
  neval,           (* evaluations of this search                           *)
  itcond,          (* itcond_, never reset but by status()                 *)
  least            (* fmin_ and alphaMin_: see NoLeast                     *)

searchVars == <<pc, f, opt, ro, x, trial, fold, fval, neval, iter, itcond, least>>

(* fmin_ and alphaMin_ outlive a search.  The step length leads to `point` *)
(* in the search it was found in, and to some point or other in a later    *)
(* one; alphaMin_ is zero, and fmin_ the largest number, before the first. *)
NoLeast == [fmin |-> 1000, point |-> NoVal, search |-> -1]

SearchInit ==
  /\ pc = "start"
  /\ f \in Functions /\ opt \in Options
  /\ ro = NewReducedObjective
  /\ x \in Val /\ trial = NoVal
  /\ fold = 0 /\ fval = 0 /\ neval = 0 /\ iter = 0
  /\ itcond = FALSE /\ least = NoLeast

-----------------------------------------------------------------------------
InitializeSearch ==
  /\ pc = "start" /\ pc' = "check"
  /\ ro' = Gradient(Value(Update(ro, "Initial", x), K, x), K, x)
  /\ fold' = f[x]
  /\ UNCHANGED <<f, opt, x, trial, fval, neval, iter, itcond, least>>

StopSearch ==
  /\ pc = "check" /\ pc' = "done"
  /\ UNCHANGED <<f, opt, ro, x, trial, fold, fval, neval, iter, itcond, least>>

(* The direction, for which a Newton-Krylov method applies the Hessian at  *)
(* x; and getInitialAlpha, which for some directions evaluates at x + s    *)
(* unless the user has chosen the step length, which is left open.         *)
AsksForAlpha ==
  opt.descent \in {"Steepest Descent", "Nonlinear CG"} /\ opt.search # "Path"

BeginSearch ==
  /\ pc = "check" /\ iter < MaxIter /\ pc' = "try"
  /\ LET r == IF opt.descent = "Newton-Krylov" THEN HessVec(ro, K, x) ELSE ro
     IN \/ ro' = r /\ neval' = 0
        \/ /\ AsksForAlpha
           /\ \E y \in Val \ {x} : ro' = Value(Update(r, "Trial", y), K, y)
           /\ neval' = 1
  /\ fval' = fold
  /\ UNCHANGED <<f, opt, x, trial, fold, iter, itcond, least>>

(* The searches that try a single step and test nothing.                   *)
Single == opt.search \in {"Scaling", "Path"}

TryStep ==
  /\ pc = "try"
  /\ pc' = IF Single THEN "finish" ELSE "test"
  /\ \E y \in Val \ {x} :
       /\ ro' = Value(Update(ro, "Trial", y), K, y)
       /\ trial' = y /\ fval' = f[y]
  /\ neval' = neval + 1
  /\ UNCHANGED <<f, opt, x, fold, iter, itcond, least>>

(* dirDeriv(z, s, alpha): by differences, a second Trial update beyond     *)
(* z + alpha s; else the gradient there, with no update at all.            *)
DirDeriv(r, y) ==
  IF opt.fdDeriv THEN {Value(Update(r, "Trial", w), K, w) : w \in Val \ {y}}
  ELSE {Gradient(r, K, y)}

(* The point z + alpha s that dirDeriv is given: cubic interpolation       *)
(* passes the iterate as z, backtracking the trial point.                  *)
DerivativePoints == IF opt.search = "Cubic" THEN {trial} ELSE Val \ {trial}

Armijo == fval < fold

(* Whether a step that passes the Armijo test is also asked for the slope  *)
(* at its end; those of Goldstein and of no condition are not.             *)
AsksForSlope == opt.descent = "Nonlinear CG" /\ opt.curvature = "Wolfe"

(* What the two tests together may say of the trial point.                 *)
Verdicts ==
  CASE ~Armijo -> {FALSE}
    [] Armijo /\ (opt.descent # "Nonlinear CG" \/ opt.curvature = "Null") -> {TRUE}
    [] OTHER -> BOOLEAN

Status ==
  /\ pc = "test"
  /\ itcond' = (neval >= Maxit)
  /\ least' = IF fval < least.fmin
              THEN [fmin |-> fval, point |-> trial, search |-> iter] ELSE least
  /\ IF Armijo /\ AsksForSlope
     THEN \E y \in DerivativePoints : ro' \in DirDeriv(ro, y)
     ELSE UNCHANGED ro
  /\ \E enough \in Verdicts : pc' = IF enough \/ itcond' THEN "finish" ELSE "try"
  /\ UNCHANGED <<f, opt, x, trial, fold, fval, neval, iter>>

(* Where setMaxitUpdate leads.                                             *)
UsesLeast == itcond /\ ~opt.acceptLast /\ opt.acceptMin

(* Faulty variant: the limit is not looked at.                             *)
AlwaysTrial == {trial}

NextPoints ==
  CASE UsesLeast /\ least.search = iter -> {least.point}
    [] UsesLeast /\ least.search # iter -> IF least = NoLeast THEN {x} ELSE Val
    [] itcond /\ ~opt.acceptLast /\ ~opt.acceptMin -> {x}
    [] ~itcond \/ opt.acceptLast -> {trial}

(* Faulty variant: the objective is told before the step is taken.         *)
FinishEarly ==
  /\ pc = "finish" /\ pc' = "check"
  /\ \E y \in NextPoints :
       /\ x' = y /\ fold' = f[y]
       /\ ro' = Gradient(Value(Update(ro, "Accept", x), K, y), K, y)
  /\ iter' = iter + 1
  /\ UNCHANGED <<f, opt, trial, fval, neval, itcond, least>>

Finish ==
  /\ pc = "finish" /\ pc' = "check"
  /\ \E y \in NextPoints :
       /\ x' = y /\ fold' = f[y]
       /\ ro' = Gradient(Value(Update(ro, "Accept", y), K, y), K, y)
  /\ iter' = iter + 1
  /\ UNCHANGED <<f, opt, trial, fval, neval, itcond, least>>

SearchNext ==
  \/ InitializeSearch \/ StopSearch
  \/ BeginSearch \/ TryStep \/ Status \/ Finish

SearchSpec == SearchInit /\ [][SearchNext]_searchVars

-----------------------------------------------------------------------------
(* Steps in which the objective is asked for values only at trial points,  *)
(* and told to accept no point but the last trial.                         *)
PlainStep == ~AsksForSlope /\ (Finish => NextPoints = {trial})

(* The first stale answer is never given by such a step: states, adjoints  *)
(* and the inner problem's data of the trials of one search do not leak    *)
(* into each other, nor into the new iterate.                              *)
TrialAnswersAreFresh == [][PlainStep /\ ro.fresh => ro'.fresh]_searchVars

(* Nor does such a step accept a point that is not the last trial, or      *)
(* evaluate anywhere but where the last update said.                       *)
TrialsKeepProtocol == [][PlainStep /\ ro.legal => ro'.legal]_searchVars

(* Unless the last step length is accepted whatever its value, no search   *)
(* that tests for decrease ends at a point worse than the one it started   *)
(* from.                                                                   *)
NoAscent ==
  [][Finish /\ ~opt.acceptLast /\ ~Single => f[x'] <= f[x]]_searchVars
=============================================================================
