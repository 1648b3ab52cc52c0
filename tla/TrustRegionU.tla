---------------------------- MODULE TrustRegionU ----------------------------
(***************************************************************************)
(* ROL::TypeU::TrustRegionAlgorithm minimizing a reduced objective.        *)
(* Points are opaque; the objective is a function f from points to values, *)
(* among which the infinity and the NaN of floating-point arithmetic.      *)
(* The subproblem solver returns any step and one of the predicted         *)
(* reductions of PRed.  The safeguard eps of the ratio test is an          *)
(* infinitesimal.  Trust-region radius and stopping tolerances are left    *)
(* out: the status test may stop the loop whenever it is evaluated.        *)
(***************************************************************************)
EXTENDS AlgorithmU

CONSTANTS
  Problems,        (* the triples considered: f, the objective as a        *)
                   (* function from Val; x, the initial guess; opt, the    *)
                   (* user's options                                       *)
  PRed,            (* predicted reductions the subproblem solver returns   *)
  Inf, NaN,        (* two integers above every finite value                *)
  Eta0             (* step acceptance threshold, in percent                *)

ASSUME TrustRegionAssumption ==
  /\ Inf \in Int /\ NaN \in Int /\ Inf # NaN
  /\ Eta0 \in 0 .. 99

(* pc is "start", "check", "trial", "ratio" or "done"; opt.nm is           *)
(* NMstorage_, 0 for a monotone method.                                    *)
VARIABLES
  iterate,         (* state_->iterateVec                                   *)
  gradAt,          (* point of state_->gradientVec                         *)
  value, ftrial, pRed,
  nm               (* nonmonotone data: fr, fc, fmin, sigmac, sigmar, L    *)

vars == <<pc, f, opt, ro, x, iterate, gradAt, value, ftrial, pRed, iter, nm>>

Init ==
  /\ pc = "start"
  /\ \E q \in Problems : f = q.f /\ opt = q.opt /\ x = q.x
  /\ ro = NewReducedObjective
  /\ iterate = NoVal /\ gradAt = NoVal
  /\ value = 0 /\ ftrial = 0 /\ pRed = 0 /\ iter = 0
  /\ nm = [fr |-> 0, fc |-> 0, fmin |-> 0, sigmac |-> 0, sigmar |-> 0, L |-> 0]

-----------------------------------------------------------------------------
(* analyzeRatio.  rho is a fraction <<n, d>> with d >= 0: <<n, 0>> is an   *)
(* infinity of the sign of n, and <<0, 0>> a NaN.                          *)

Less(a, b) == a[1] * b[2] < b[1] * a[2]
AtLeast(a, b) == a # <<0, 0>> /\ b # <<0, 0>> /\ ~Less(a, b)
Percent(e) == <<e, 100>>

Fraction(n, d) == IF d < 0 THEN <<-n, -d>> ELSE <<n, d>>

IsNaN(fold, fnew, pred) == NaN \in {fold, fnew, pred} \/ (fold = Inf /\ fnew = Inf)

Ratio(fold, fnew, pred) ==
  LET aRed == fold - fnew
  IN CASE IsNaN(fold, fnew, pred)  -> [rho |-> <<-1, 1>>, flag |-> "TRNAN"]
       [] fold = Inf /\ fnew # Inf /\ ~IsNaN(fold, fnew, pred)
                                   -> [rho |-> <<0, 0>>, flag |-> "SUCCESS"]
       [] fold # Inf /\ fnew = Inf /\ ~IsNaN(fold, fnew, pred)
                                   -> IF pred >= 0
                                      THEN [rho |-> <<-1, 0>>, flag |-> "NPOSPREDPOS"]
                                      ELSE [rho |-> <<1, 0>>, flag |-> "NPOSPREDNEG"]
       [] OTHER ->
            IF aRed = pred THEN [rho |-> <<1, 1>>, flag |-> "SUCCESS"]
            ELSE [rho  |-> Fraction(aRed, pred),
                  flag |-> CASE pred < 0 /\ aRed >= 0  -> "POSPREDNEG"
                             [] pred >= 0 /\ aRed < 0  -> "NPOSPREDPOS"
                             [] pred < 0 /\ aRed < 0   -> "NPOSPREDNEG"
                             [] pred >= 0 /\ aRed >= 0 -> "SUCCESS"]

(* Faulty variant: the reference of the nonmonotone method is compared     *)
(* whatever the method.                                                    *)
AlwaysNonmonotone ==
  LET mono  == Ratio(value, ftrial, pRed)
      other == Ratio(nm.fr, ftrial, IF pRed = NaN THEN NaN ELSE pRed + nm.sigmar)
  IN IF Less(mono.rho, other.rho) THEN other ELSE mono

(* The ratio the algorithm decides by: the larger of the monotone and the  *)
(* nonmonotone one, with the flag that came with it.                       *)
Decisive ==
  LET mono  == Ratio(value, ftrial, pRed)
      other == Ratio(nm.fr, ftrial, IF pRed = NaN THEN NaN ELSE pRed + nm.sigmar)
  IN IF opt.nm > 0 /\ Less(mono.rho, other.rho) THEN other ELSE mono

Rejects(r) ==
  \/ Less(r.rho, Percent(Eta0)) /\ r.flag = "SUCCESS"
  \/ r.flag \in {"NPOSPREDPOS", "NPOSPREDNEG", "TRNAN"}

Accepts(r) ==
  /\ ~Rejects(r)
  /\ \/ AtLeast(r.rho, Percent(Eta0)) /\ r.flag # "NPOSPREDNEG"
     \/ r.flag = "POSPREDNEG"

-----------------------------------------------------------------------------
(* Applications of the Hessian at z, by a secant (which does not ask the   *)
(* objective), exactly, or by finite differences.                          *)
HessianAt(r, z) ==
  CASE opt.hess = "secant" -> {r}
    [] opt.hess = "exact"  -> {HessVec(r, K, z)}
    [] opt.hess = "fd"     -> {FDHessVec(r, K, z, y) : y \in Val}

(* Faulty variant: the nonmonotone references are not set.                 *)
InitializeNoReference ==
  /\ pc = "start" /\ pc' = "check"
  /\ ro' = Gradient(Value(Update(ro, "Initial", x), K, x), K, x)
  /\ iterate' = x /\ gradAt' = x /\ value' = f[x]
  /\ UNCHANGED <<f, opt, x, ftrial, pRed, iter, nm>>

Initialize ==
  /\ pc = "start" /\ pc' = "check"
  /\ LET first == Gradient(Value(Update(ro, "Initial", x), K, x), K, x)
     IN IF opt.radius   (* initialRadius: the value at a Cauchy point       *)
        THEN \E h \in HessianAt(first, x), y \in Val :
               ro' = Update(Value(Update(h, "Temp", y), K, y), "Revert", x)
        ELSE ro' = first
  /\ iterate' = x /\ gradAt' = x /\ value' = f[x]
  /\ nm' = [nm EXCEPT !.fr = f[x], !.fc = f[x], !.fmin = f[x]]
  /\ UNCHANGED <<f, opt, x, ftrial, pRed, iter>>

Stop ==
  /\ pc = "check" /\ pc' = "done"
  /\ UNCHANGED <<f, opt, ro, x, iterate, gradAt, value, ftrial, pRed, iter, nm>>

(* Faulty variant: one iteration more than the limit.                      *)
SolveOneMore ==
  /\ pc = "check" /\ iter <= MaxIter /\ pc' = "trial"
  /\ x' \in Val /\ pRed' \in PRed
  /\ UNCHANGED <<f, opt, ro, iterate, gradAt, value, ftrial, iter, nm>>

SolveSubproblem ==
  /\ pc = "check" /\ iter < MaxIter /\ pc' = "trial"
  /\ ro' \in HessianAt(ro, x)
  /\ x' \in Val /\ pRed' \in PRed
  /\ UNCHANGED <<f, opt, iterate, gradAt, value, ftrial, iter, nm>>

(* Faulty variant: the objective is not told of the trial point.           *)
ComputeUntold ==
  /\ pc = "trial" /\ pc' = "ratio"
  /\ ro' = Value(ro, K, x)
  /\ ftrial' = f[x]
  /\ UNCHANGED <<f, opt, x, iterate, gradAt, value, pRed, iter, nm>>

(* computeValue; an inexact objective is first asked again, with a new     *)
(* tolerance, for its value at the iterate.                                *)
ComputeValue ==
  /\ pc = "trial" /\ pc' = "ratio"
  /\ LET r == IF opt.inexactValue THEN Value(ro, K, iterate) ELSE ro
     IN ro' = Value(Update(r, "Trial", x), K, x)
  /\ value' = IF opt.inexactValue THEN f[iterate] ELSE value
  /\ ftrial' = f[x]
  /\ UNCHANGED <<f, opt, x, iterate, gradAt, pRed, iter, nm>>

(* Faulty variants: the objective is told of the rejection before the      *)
(* caller's vector is restored, or that vector is not restored at all.     *)
RejectEarly ==
  /\ pc = "ratio" /\ pc' = "check"
  /\ Rejects(Decisive)
  /\ x' = iterate /\ ro' = Update(ro, "Revert", x)
  /\ iter' = iter + 1
  /\ UNCHANGED <<f, opt, iterate, gradAt, value, ftrial, pRed, nm>>

RejectInPlace ==
  /\ pc = "ratio" /\ pc' = "check"
  /\ Rejects(Decisive)
  /\ ro' = Update(ro, "Revert", iterate)
  /\ iter' = iter + 1
  /\ UNCHANGED <<f, opt, x, iterate, gradAt, value, ftrial, pRed, nm>>

(* After a rejection an inexact gradient may have to be computed again.    *)
Reject ==
  /\ pc = "ratio" /\ pc' = "check"
  /\ Rejects(Decisive)
  /\ x' = iterate
  /\ LET r == Update(ro, "Revert", iterate)
     IN \/ ro' = r
        \/ opt.inexactGradient /\ ro' = Gradient(r, K, iterate)
  /\ iter' = iter + 1
  /\ UNCHANGED <<f, opt, iterate, gradAt, value, ftrial, pRed, nm>>

(* The nonmonotone data after an acceptance.                               *)
Remembered(m) ==
  LET c == m.sigmac + pRed
      r == m.sigmar + pRed
  IN IF ftrial < m.fmin
     THEN [m EXCEPT !.fmin = ftrial, !.fc = ftrial, !.sigmac = 0, !.sigmar = r, !.L = 0]
     ELSE LET fc == IF ftrial > m.fc THEN ftrial ELSE m.fc
              sc == IF ftrial > m.fc THEN 0 ELSE c
          IN [m EXCEPT !.L = @ + 1, !.fc = fc, !.sigmac = sc,
                       !.fr     = IF m.L + 1 = opt.nm THEN fc ELSE @,
                       !.sigmar = IF m.L + 1 = opt.nm THEN sc ELSE r]

Accept ==
  /\ pc = "ratio" /\ pc' = "check"
  /\ Accepts(Decisive)
  /\ iterate' = x /\ value' = ftrial
  /\ ro' = Gradient(Update(ro, "Accept", x), K, x)
  /\ gradAt' = x
  /\ nm' = IF opt.nm > 0 THEN Remembered(nm) ELSE nm
  /\ iter' = iter + 1
  /\ UNCHANGED <<f, opt, x, ftrial, pRed>>

(* Neither test holds: the loop goes on from where it is.                  *)
Undecided ==
  /\ pc = "ratio" /\ pc' = "check"
  /\ ~Rejects(Decisive) /\ ~Accepts(Decisive)
  /\ iter' = iter + 1
  /\ UNCHANGED <<f, opt, ro, x, iterate, gradAt, value, ftrial, pRed, nm>>

Next ==
  \/ Initialize \/ Stop
  \/ SolveSubproblem \/ ComputeValue
  \/ Reject \/ Accept \/ Undecided

Spec == Init /\ [][Next]_vars

-----------------------------------------------------------------------------
NMData == [fr : Int, fc : Int, fmin : Int, sigmac : Int, sigmar : Int, L : Nat]

(* Types; in particular the iteration limit is kept.                       *)
TypeOK ==
  /\ pc \in {"start", "check", "trial", "ratio", "done"}
  /\ ro \in ReducedObjectives
  /\ x \in Val /\ iterate \in Content /\ gradAt \in Content
  /\ value \in Int /\ ftrial \in Int /\ pRed \in Int /\ iter \in 0 .. MaxIter
  /\ nm \in NMData

(* Updates come as UpdateType demands: Accept only for the pending trial   *)
(* point, Revert only to the iterate, evaluations only where the last      *)
(* update said.                                                            *)
KeepsProtocol == ro.legal

(* A step is accepted or rejected before the next model is built: whenever *)
(* the loop condition is evaluated, and when run() returns, the caller's   *)
(* vector, the recorded value and the gradient all belong to the iterate.  *)
(* That is as long as the value at the iterate is not infinite: a NaN or   *)
(* infinite trial value, or a NaN predicted reduction, is always rejected, *)
(* and a value that is NaN from the start rejects every step.              *)
IterateAgrees ==
  pc \in {"check", "done"} /\ iterate # NoVal /\ f[iterate] # Inf =>
    x = iterate /\ gradAt = iterate /\ value = f[iterate]

(* Neither branch pays for a state solve: the accepted trial's state was   *)
(* promoted, and the iterate's was kept, also for an inexact gradient.     *)
NoSolveAfterDecision == [][(Reject \/ Accept) /\ Storage => ro'.solves = 0]_vars

(* The monotone method never moves to a larger value.                      *)
Descent == [][opt.nm = 0 /\ iterate' # iterate /\ pc # "start" => value' <= value]_vars

(* The bound that acceptance of the nonmonotone method is measured against *)
(* never rises, although it is moved by a counter over accepted steps.     *)
ReferenceNeverRises == [][pc # "start" => nm'.fr <= nm.fr]_vars
=============================================================================
