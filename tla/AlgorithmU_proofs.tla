-------------------------- MODULE AlgorithmU_proofs --------------------------
(***************************************************************************)
(* Proofs about the unconstrained algorithms, for every set of points,     *)
(* every objective and iteration limit, all the options, with and without  *)
(* storage: the trust-region algorithm with every subproblem solver, then  *)
(* the line-search algorithm with every direction and step length.         *)
(***************************************************************************)
EXTENDS TrustRegionU, LineSearchU, Stores_proofs, TLAPS

(* Options under which the objective is asked for nothing at the iterate   *)
(* between a trial that was neither accepted nor rejected and the next.    *)
Plain(o) == o.hess = "secant" /\ ~o.inexactValue

TrustRegionOptions ==
  [hess : {"secant", "exact", "fd"}, radius : BOOLEAN, inexactValue : BOOLEAN,
   inexactGradient : BOOLEAN, nm : Nat]

(* What is assumed of the constants: types, and a start from a value that  *)
(* is not an infinity unless the options are plain.                        *)
WellPosed ==
  /\ Key # {}
  /\ PRed \subseteq Int
  /\ \A q \in Problems :
       /\ q.f \in [Val -> Int] /\ q.x \in Val /\ q.opt \in TrustRegionOptions
       /\ q.f[q.x] = Inf => Plain(q.opt)

(* What Descent and ReferenceNeverRises assume besides: no step of the     *)
(* subproblem solver is predicted to increase the objective.               *)
Reduces == \A p \in PRed : p = NaN \/ p >= 0

-----------------------------------------------------------------------------
(* The inductive invariant, by parts.                                      *)

Posed ==
  /\ f \in [Val -> Int] /\ opt \in TrustRegionOptions
  /\ pc \in {"trial", "ratio"} => iter < MaxIter /\ pRed \in PRed

(* From the first gradient on, the recorded value and gradient are those   *)
(* of the iterate, which is also where the objective has its iterate.      *)
Recorded ==
  /\ pc = "start" => Fit(ro, K) /\ iterate = NoVal /\ (f[x] = Inf => Plain(opt))
  /\ pc # "start" => /\ iterate \in Val /\ gradAt = iterate /\ value = f[iterate]
                     /\ Usable(ro, K, iterate)

(* An infinite value at the iterate is there from the start, and is never  *)
(* left.                                                                   *)
Bounded ==
  pc # "start" =>
    /\ value = Inf => Plain(opt) /\ nm.fr = Inf
    /\ value # Inf => nm.fr # Inf /\ nm.fc # Inf

(* Where the objective was last asked, and the caller's vector.            *)
Standing ==
  /\ pc \in {"check", "trial", "done"} /\ value # Inf => AtIterate(ro, K, iterate)
  /\ pc \in {"check", "done"} /\ value # Inf => x = iterate
  /\ pc = "ratio" => AtCandidate(ro, K, iterate, x) /\ ftrial = f[x]

IInv == TypeOK /\ Posed /\ Recorded /\ Bounded /\ Standing

(* The nonmonotone data: no value that counts exceeds the reference.       *)
Referenced ==
  /\ nm.sigmac >= 0 /\ nm.sigmar >= 0
  /\ pc # "start" => value <= nm.fr /\ nm.fc <= nm.fr

-----------------------------------------------------------------------------
(* The ratio test.                                                         *)

(* What a ratio can decide: against a value that is not infinite every     *)
(* step is either accepted or rejected, against an infinite one none is    *)
(* accepted, and no accepted step is worse than what it was predicted to   *)
(* improve on.                                                             *)
LEMMA RatioDecides ==
  ASSUME NEW before \in Int, NEW after \in Int, NEW pred \in Int
  PROVE  LET r == Ratio(before, after, pred) IN
         /\ before # Inf => Rejects(r) \/ Accepts(r)
         /\ before = Inf => ~Accepts(r)
         /\ Accepts(r) => after # Inf /\ pred # NaN
         /\ Accepts(r) /\ pred >= 0 => after <= before
<1> DEFINE r    == Ratio(before, after, pred)
           aRed == before - after
<1>1. /\ Percent(Eta0) = <<Eta0, 100>> /\ Eta0 \in 0 .. 99
      /\ Percent(Eta0) # <<0, 0>>
  BY TrustRegionAssumption DEF Percent
<1>2. CASE IsNaN(before, after, pred)
  <2>1. r.flag = "TRNAN"
    BY <1>2 DEF Ratio
  <2> HIDE DEF r
  <2>2. Rejects(r)
    BY <2>1 DEF Rejects
  <2>3. QED BY <2>2 DEF Accepts, r
<1>3. CASE before = Inf /\ after # Inf /\ ~IsNaN(before, after, pred)
  <2>1. r = [rho |-> <<0, 0>>, flag |-> "SUCCESS"]
    BY <1>3 DEF Ratio
  <2>2. r.rho = <<0, 0>> /\ r.flag = "SUCCESS"
    BY <2>1
  <2> HIDE DEF r
  <2>3. ~AtLeast(r.rho, Percent(Eta0))
    BY <2>2 DEF AtLeast
  <2>4. ~Accepts(r)
    BY <2>2, <2>3 DEF Accepts
  <2>5. QED BY <1>3, <2>4 DEF r
<1>4. CASE before # Inf /\ after = Inf /\ ~IsNaN(before, after, pred)
  <2>1. r.flag \in {"NPOSPREDPOS", "NPOSPREDNEG"}
    BY <1>4 DEF Ratio
  <2> HIDE DEF r
  <2>2. Rejects(r)
    BY <2>1 DEF Rejects
  <2>3. QED BY <1>4, <2>2 DEF Accepts, r
<1>5. CASE before # Inf /\ after # Inf /\ ~IsNaN(before, after, pred) /\ aRed = pred
  <2>1. r = [rho |-> <<1, 1>>, flag |-> "SUCCESS"]
    BY <1>5 DEF Ratio
  <2>2. r.rho = <<1, 1>> /\ r.flag = "SUCCESS"
    BY <2>1
  <2> HIDE DEF r
  <2>3. AtLeast(r.rho, Percent(Eta0)) /\ ~Less(r.rho, Percent(Eta0))
    BY <1>1, <2>2 DEF AtLeast, Less
  <2>4. Accepts(r)
    BY <2>2, <2>3 DEF Accepts, Rejects
  <2>5. pred # NaN
    BY <1>5 DEF IsNaN
  <2>6. QED BY <1>5, <2>4, <2>5 DEF r
<1>6. CASE before # Inf /\ after # Inf /\ ~IsNaN(before, after, pred) /\ aRed # pred
  <2> DEFINE flag == CASE pred < 0 /\ aRed >= 0  -> "POSPREDNEG"
                       [] pred >= 0 /\ aRed < 0  -> "NPOSPREDPOS"
                       [] pred < 0 /\ aRed < 0   -> "NPOSPREDNEG"
                       [] pred >= 0 /\ aRed >= 0 -> "SUCCESS"
  <2>1. r = [rho |-> Fraction(aRed, pred), flag |-> flag]
    BY <1>6 DEF Ratio
  <2>2. r.rho = Fraction(aRed, pred) /\ r.flag = flag
    BY <2>1
  <2>3. pred # NaN /\ aRed \in Int
    BY <1>6 DEF IsNaN
  <2>4. Fraction(aRed, pred) # <<0, 0>>
    BY <1>6, <2>3 DEF Fraction
  <2> HIDE DEF r
  <2>5. CASE flag \in {"NPOSPREDPOS", "NPOSPREDNEG"}
    <3>1. Rejects(r)
      BY <2>2, <2>5 DEF Rejects
    <3>2. QED BY <1>6, <3>1 DEF Accepts, r
  <2>6. CASE flag = "POSPREDNEG"
    <3>1. Accepts(r) /\ pred < 0
      BY <2>2, <2>3, <2>6 DEF Accepts, Rejects
    <3>2. QED BY <1>6, <2>3, <3>1 DEF r
  <2>7. CASE flag = "SUCCESS"
    <3>1. pred >= 0 /\ aRed >= 0
      BY <2>3, <2>7
    <3>2. Rejects(r) \/ Accepts(r)
      BY <1>1, <2>2, <2>4, <2>7 DEF Accepts, Rejects, AtLeast
    <3>3. after <= before
      BY <3>1
    <3>4. QED BY <1>6, <2>3, <3>2, <3>3 DEF r
  <2>8. flag \in {"NPOSPREDPOS", "NPOSPREDNEG", "POSPREDNEG", "SUCCESS"}
    BY <2>3
  <2>9. QED BY <2>5, <2>6, <2>7, <2>8
<1>7. before = Inf /\ after = Inf => IsNaN(before, after, pred)
  BY DEF IsNaN
<1>8. QED BY <1>2, <1>3, <1>4, <1>5, <1>6, <1>7

(* The same of the ratio the algorithm decides by.                         *)
LEMMA DecisiveDecides ==
  ASSUME TypeOK, Posed, Bounded, pc # "start"
  PROVE  /\ value # Inf => Rejects(Decisive) \/ Accepts(Decisive)
         /\ Accepts(Decisive) => value # Inf /\ ftrial # Inf /\ pRed # NaN
         /\ Accepts(Decisive) /\ pRed >= 0 /\ opt.nm = 0 => ftrial <= value
         /\ Accepts(Decisive) /\ pRed >= 0 /\ nm.sigmar >= 0 =>
              ftrial <= value \/ ftrial <= nm.fr
<1> DEFINE shifted == IF pRed = NaN THEN NaN ELSE pRed + nm.sigmar
           mono    == Ratio(value, ftrial, pRed)
           other   == Ratio(nm.fr, ftrial, shifted)
<1>1. /\ value \in Int /\ ftrial \in Int /\ pRed \in Int /\ nm.fr \in Int
      /\ nm.sigmar \in Int /\ NaN \in Int /\ shifted \in Int /\ opt.nm \in Nat
  BY TrustRegionAssumption DEF TypeOK, NMData, Posed, TrustRegionOptions
<1>2. /\ shifted # NaN => pRed # NaN
      /\ pRed >= 0 /\ nm.sigmar >= 0 /\ pRed # NaN => shifted >= 0
  BY <1>1
<1>3. \/ Decisive = mono
      \/ Decisive = other /\ opt.nm > 0
  BY DEF Decisive
<1> HIDE DEF shifted
<1>4. /\ value # Inf => Rejects(mono) \/ Accepts(mono)
      /\ value = Inf => ~Accepts(mono)
      /\ Accepts(mono) => ftrial # Inf /\ pRed # NaN
      /\ Accepts(mono) /\ pRed >= 0 => ftrial <= value
  BY <1>1, RatioDecides
<1>5. /\ nm.fr # Inf => Rejects(other) \/ Accepts(other)
      /\ nm.fr = Inf => ~Accepts(other)
      /\ Accepts(other) => ftrial # Inf /\ shifted # NaN
      /\ Accepts(other) /\ shifted >= 0 => ftrial <= nm.fr
  BY <1>1, RatioDecides
<1> HIDE DEF mono, other
<1>6. (value = Inf => nm.fr = Inf) /\ (value # Inf => nm.fr # Inf)
  BY DEF Bounded
<1>7. CASE Decisive = mono
  BY <1>4, <1>7
<1>8. CASE Decisive = other /\ opt.nm > 0
  BY <1>1, <1>2, <1>5, <1>6, <1>8
<1>9. QED BY <1>3, <1>7, <1>8

-----------------------------------------------------------------------------
(* The steps.                                                              *)

(* The only parameter.                                                     *)
LEMMA KInKey == ASSUME WellPosed PROVE K \in Key
  BY DEF WellPosed, K

(* Whatever the Hessian, the objective stays at the iterate.               *)
LEMMA HessianKeeps ==
  ASSUME WellPosed, opt \in TrustRegionOptions, NEW r, NEW z \in Val, AtIterate(r, K, z),
         NEW h \in HessianAt(r, z)
  PROVE  AtIterate(h, K, z)
<1>1. opt.hess \in {"secant", "exact", "fd"}
  BY DEF TrustRegionOptions
<1>2. CASE opt.hess = "secant"
  BY <1>2 DEF HessianAt
<1>3. CASE opt.hess = "exact"
  <2>1. h = Gradient(r, K, z)
    BY <1>3 DEF HessianAt, HessVec
  <2>2. Good(r) /\ r.here = z
    BY DEF AtIterate, Usable, Fit
  <2>3. Evaluated(r, h, K, z)
    BY <2>1, <2>2, KInKey, GradientGood
  <2>4. QED BY <2>3, KInKey, IterateAsked
<1>4. CASE opt.hess = "fd"
  <2>1. PICK y \in Val : h = FDHessVec(r, K, z, y)
    BY <1>4 DEF HessianAt
  <2>2. QED BY <2>1, KInKey, IterateDifferenced
<1>5. QED BY <1>1, <1>2, <1>3, <1>4

(* An objective that is fit is well typed, fresh and legal.                *)
LEMMA FitMeans ==
  ASSUME NEW r, NEW k, Fit(r, k)
  PROVE  r \in ReducedObjectives /\ r.fresh /\ r.legal
  BY DEF Fit, Good

(* A new objective is fit.                                                 *)
LEMMA NewFit == ASSUME NEW k PROVE Fit(NewReducedObjective, k)
<1> DEFINE r == NewReducedObjective
<1>1. Good(r) /\ r.fresh /\ r.legal /\ r.isUpdated
  BY NewGood
<1>2. /\ r.state = NewController /\ r.adjoint = NewController
      /\ r.con = NewController /\ r.obj = NewController
  BY DEF NewReducedObjective
<1>3. Unused(NewController)
  BY DEF Unused, NewController, Absent
<1> HIDE DEF r
<1>4. Fit(r, k)
  BY <1>1, <1>2, <1>3, NewOnly DEF Fit, OnlyKey, NoTrialAdjoint, MayMiss, Unused, Tier
<1>5. QED BY <1>4 DEF r

(* The invariant before the run.                                           *)
LEMMA InitHolds == WellPosed /\ Init => IInv /\ Referenced
<1> SUFFICES ASSUME WellPosed, Init PROVE IInv /\ Referenced
  OBVIOUS
<1>1. PICK q \in Problems : f = q.f /\ opt = q.opt /\ x = q.x
  BY DEF Init
<1>2. /\ pc = "start" /\ ro = NewReducedObjective /\ iterate = NoVal /\ gradAt = NoVal
      /\ value = 0 /\ ftrial = 0 /\ pRed = 0 /\ iter = 0
      /\ nm = [fr |-> 0, fc |-> 0, fmin |-> 0, sigmac |-> 0, sigmar |-> 0, L |-> 0]
  BY DEF Init
<1>3. /\ f \in [Val -> Int] /\ opt \in TrustRegionOptions /\ x \in Val
      /\ f[x] = Inf => Plain(opt)
  BY <1>1 DEF WellPosed
<1>4. Fit(ro, K)
  BY <1>2, NewFit
<1>5. TypeOK
  BY <1>2, <1>3, <1>4, FitMeans, AlgorithmAssumption DEF TypeOK, NMData, Content
<1>6. QED BY <1>2, <1>3, <1>4, <1>5 DEF IInv, Posed, Recorded, Bounded, Standing, Referenced

(* initialize(), with or without a first guess of the radius.              *)
LEMMA InitializeHolds ==
  ASSUME WellPosed, IInv, Initialize
  PROVE  IInv' /\ (Referenced => Referenced')
<1> DEFINE first == Gradient(Value(Update(ro, "Initial", x), K, x), K, x)
<1>1. /\ pc = "start" /\ pc' = "check" /\ iterate' = x /\ gradAt' = x /\ value' = f[x]
      /\ nm' = [nm EXCEPT !.fr = f[x], !.fc = f[x], !.fmin = f[x]]
      /\ f' = f /\ opt' = opt /\ x' = x /\ ftrial' = ftrial /\ pRed' = pRed /\ iter' = iter
  BY DEF Initialize
<1>2. /\ f \in [Val -> Int] /\ opt \in TrustRegionOptions /\ x \in Val
      /\ f[x] \in Int /\ nm \in NMData
      /\ Fit(ro, K) /\ (f[x] = Inf => Plain(opt))
  BY <1>1 DEF IInv, TypeOK, Posed, Recorded
<1>3. AtIterate(first, K, x)
  BY <1>2, KInKey, IterateStarted
<1> HIDE DEF first
<1>4. AtIterate(ro', K, x)
  <2>1. CASE opt.radius
    <3>1. PICK h \in HessianAt(first, x), y \in Val :
            ro' = Update(Value(Update(h, "Temp", y), K, y), "Revert", x)
      BY <2>1 DEF Initialize, first
    <3>2. AtIterate(h, K, x)
      BY <1>2, <1>3, HessianKeeps
    <3>3. QED BY <1>2, <3>1, <3>2, KInKey, IterateProbed
  <2>2. CASE ~opt.radius
    <3>1. ro' = first
      BY <2>2 DEF Initialize, first
    <3>2. QED BY <1>3, <3>1
  <2>3. QED BY <2>1, <2>2
<1>5. Usable(ro', K, x) /\ ro' \in ReducedObjectives
  BY <1>4, FitMeans DEF AtIterate, Usable
<1>6. /\ nm' \in NMData /\ nm'.fr = f[x] /\ nm'.fc = f[x]
      /\ nm'.sigmac = nm.sigmac /\ nm'.sigmar = nm.sigmar
  BY <1>1, <1>2 DEF NMData
<1>7. TypeOK'
  BY <1>1, <1>2, <1>5, <1>6 DEF IInv, TypeOK, Content
<1>8. Posed' /\ Recorded' /\ Bounded' /\ Standing'
  BY <1>1, <1>2, <1>4, <1>5, <1>6 DEF IInv, Posed, Recorded, Bounded, Standing
<1>9. Referenced => Referenced'
  BY <1>1, <1>2, <1>6 DEF Referenced
<1>10. QED BY <1>7, <1>8, <1>9 DEF IInv

(* The status test stops the run.                                          *)
LEMMA StopHolds ==
  ASSUME IInv, Stop
  PROVE  IInv' /\ (Referenced => Referenced')
<1>1. /\ pc = "check" /\ pc' = "done"
      /\ UNCHANGED <<f, opt, ro, x, iterate, gradAt, value, ftrial, pRed, iter, nm>>
  BY DEF Stop
<1>2. TypeOK' /\ Posed' /\ Recorded' /\ Bounded' /\ Standing'
  BY <1>1 DEF IInv, TypeOK, Posed, Recorded, Bounded, Standing
<1>3. QED BY <1>1, <1>2 DEF IInv, Referenced

(* The subproblem solver moves the caller's vector; the objective stays.   *)
LEMMA SolveHolds ==
  ASSUME WellPosed, IInv, SolveSubproblem
  PROVE  IInv' /\ (Referenced => Referenced')
<1>1. /\ pc = "check" /\ iter < MaxIter /\ pc' = "trial"
      /\ ro' \in HessianAt(ro, x) /\ x' \in Val /\ pRed' \in PRed
      /\ UNCHANGED <<f, opt, iterate, gradAt, value, ftrial, iter, nm>>
  BY DEF SolveSubproblem
<1>2. /\ iterate \in Val /\ gradAt = iterate /\ value = f[iterate]
      /\ Usable(ro, K, iterate) /\ opt \in TrustRegionOptions
      /\ value = Inf => Plain(opt)
      /\ value # Inf => AtIterate(ro, K, iterate) /\ x = iterate
  BY <1>1 DEF IInv, Posed, Recorded, Bounded, Standing
<1>3. Usable(ro', K, iterate) /\ (value # Inf => AtIterate(ro', K, iterate))
  <2>1. CASE value = Inf
    <3>1. ro' = ro
      BY <1>1, <1>2, <2>1 DEF Plain, HessianAt
    <3>2. QED BY <1>2, <2>1, <3>1
  <2>2. CASE value # Inf
    <3>1. AtIterate(ro', K, iterate)
      BY <1>1, <1>2, <2>2, HessianKeeps
    <3>2. QED BY <3>1 DEF AtIterate
  <2>3. QED BY <2>1, <2>2
<1>4. ro' \in ReducedObjectives
  BY <1>3, FitMeans DEF Usable
<1>5. TypeOK'
  BY <1>1, <1>4 DEF IInv, TypeOK, WellPosed
<1>6. Posed' /\ Recorded' /\ Bounded' /\ Standing'
  BY <1>1, <1>2, <1>3 DEF IInv, Posed, Recorded, Bounded, Standing
<1>7. Referenced => Referenced'
  BY <1>1 DEF Referenced
<1>8. QED BY <1>5, <1>6, <1>7 DEF IInv

(* computeValue, exact or not.                                             *)
LEMMA ComputeHolds ==
  ASSUME WellPosed, IInv, ComputeValue
  PROVE  IInv' /\ (Referenced => Referenced')
<1> DEFINE r == IF opt.inexactValue THEN Value(ro, K, iterate) ELSE ro
<1>1. /\ pc = "trial" /\ pc' = "ratio"
      /\ ro' = Value(Update(r, "Trial", x), K, x)
      /\ value' = IF opt.inexactValue THEN f[iterate] ELSE value
      /\ ftrial' = f[x]
      /\ UNCHANGED <<f, opt, x, iterate, gradAt, pRed, iter, nm>>
  BY DEF ComputeValue
<1>2. /\ iterate \in Val /\ gradAt = iterate /\ value = f[iterate] /\ x \in Val
      /\ f \in [Val -> Int]
      /\ Usable(ro, K, iterate) /\ opt \in TrustRegionOptions
      /\ value = Inf => Plain(opt)
      /\ value # Inf => AtIterate(ro, K, iterate)
  BY <1>1 DEF IInv, TypeOK, Posed, Recorded, Bounded, Standing
<1>3. Usable(r, K, iterate)
  <2>1. CASE opt.inexactValue
    <3>1. AtIterate(ro, K, iterate)
      BY <1>2, <2>1 DEF Plain
    <3>2. Good(ro) /\ ro.here = iterate
      BY <3>1 DEF AtIterate, Usable, Fit
    <3>3. Evaluated(ro, r, K, iterate)
      BY <1>2, <2>1, <3>2, KInKey, ValueGood
    <3>4. QED BY <3>1, <3>3, KInKey, IterateAsked DEF AtIterate
  <2>2. CASE ~opt.inexactValue
    BY <1>2, <2>2
  <2>3. QED BY <2>1, <2>2
<1> HIDE DEF r
<1>4. AtCandidate(ro', K, iterate, x)
  BY <1>1, <1>2, <1>3, KInKey, CandidateTried
<1>5. Usable(ro', K, iterate) /\ ro' \in ReducedObjectives
  BY <1>4, FitMeans DEF AtCandidate, Usable
<1>6. value' = value /\ f[x] \in Int
  BY <1>1, <1>2
<1>7. TypeOK'
  BY <1>1, <1>5, <1>6 DEF IInv, TypeOK
<1>8. Posed' /\ Recorded' /\ Bounded' /\ Standing'
  BY <1>1, <1>2, <1>4, <1>5, <1>6 DEF IInv, Posed, Recorded, Bounded, Standing
<1>9. Referenced => Referenced'
  BY <1>1, <1>6 DEF Referenced
<1>10. QED BY <1>7, <1>8, <1>9 DEF IInv

(* A rejection: back at the iterate, and no state solve.                   *)
LEMMA RejectHolds ==
  ASSUME WellPosed, IInv, Reject
  PROVE  /\ IInv' /\ (Referenced => Referenced')
         /\ Storage => ro'.solves = 0
         /\ iterate' = iterate /\ nm' = nm
<1> DEFINE r == Update(ro, "Revert", iterate)
<1>1. /\ pc = "ratio" /\ pc' = "check" /\ x' = iterate
      /\ ro' = r \/ ro' = Gradient(r, K, iterate)
      /\ iter' = iter + 1
      /\ UNCHANGED <<f, opt, iterate, gradAt, value, ftrial, pRed, nm>>
  BY DEF Reject
<1>2. /\ iterate \in Val /\ gradAt = iterate /\ value = f[iterate]
      /\ Usable(ro, K, iterate)
  BY <1>1 DEF IInv, Recorded
<1>3. AtIterate(r, K, iterate) /\ r.solves = 0
  BY <1>2, KInKey, CandidateRejected
<1> HIDE DEF r
<1>4. AtIterate(ro', K, iterate) /\ (Storage => ro'.solves = 0)
  <2>1. CASE ro' = r
    BY <1>3, <2>1
  <2>2. CASE ro' = Gradient(r, K, iterate)
    <3>1. Good(r) /\ r.here = iterate
      BY <1>3 DEF AtIterate, Usable, Fit
    <3>2. Evaluated(r, ro', K, iterate)
      BY <1>2, <2>2, <3>1, KInKey, GradientGood
    <3>3. QED BY <1>3, <3>2, KInKey, IterateAsked
  <2>3. QED BY <1>1, <2>1, <2>2
<1>5. Usable(ro', K, iterate) /\ ro' \in ReducedObjectives
  BY <1>4, FitMeans DEF AtIterate, Usable
<1>6. iter' \in 0 .. MaxIter
  BY <1>1, AlgorithmAssumption DEF IInv, TypeOK, Posed
<1>7. TypeOK'
  BY <1>1, <1>2, <1>5, <1>6 DEF IInv, TypeOK
<1>8. Posed' /\ Recorded' /\ Bounded' /\ Standing'
  BY <1>1, <1>2, <1>4, <1>5 DEF IInv, Posed, Recorded, Bounded, Standing
<1>9. Referenced => Referenced'
  BY <1>1 DEF Referenced
<1>10. QED BY <1>1, <1>4, <1>7, <1>8, <1>9 DEF IInv

(* The fields that an accepted step sets: all, or all but the reference.   *)
Stored(m, l, low, c, sc, sr) ==
  [m EXCEPT !.fmin = low, !.fc = c, !.sigmac = sc, !.sigmar = sr, !.L = l]

Counted(m, l, c, sc, r, sr) ==
  [m EXCEPT !.L = l, !.fc = c, !.sigmac = sc, !.fr = r, !.sigmar = sr]

(* A record so changed.                                                    *)
LEMMA SetStored ==
  ASSUME NEW m \in NMData, NEW l \in Nat, NEW low \in Int, NEW c \in Int, NEW sc \in Int,
         NEW sr \in Int
  PROVE  LET n == Stored(m, l, low, c, sc, sr) IN
         /\ n \in NMData
         /\ n.fc = c /\ n.fr = m.fr /\ n.sigmac = sc /\ n.sigmar = sr
  BY DEF NMData, Stored

(* The same.                                                               *)
LEMMA SetCounted ==
  ASSUME NEW m \in NMData, NEW l \in Nat, NEW c \in Int, NEW sc \in Int, NEW r \in Int,
         NEW sr \in Int
  PROVE  LET n == Counted(m, l, c, sc, r, sr) IN
         /\ n \in NMData
         /\ n.fc = c /\ n.fr = r /\ n.sigmac = sc /\ n.sigmar = sr
  BY DEF NMData, Counted

(* The nonmonotone data after an accepted step.                            *)
LEMMA RememberedFacts ==
  ASSUME NEW m \in NMData, ftrial \in Int, pRed \in Int
  PROVE  LET n == Remembered(m) IN
         /\ n \in NMData
         /\ n.fc \in {ftrial, m.fc} /\ n.fr \in {ftrial, m.fr, m.fc}
         /\ pRed >= 0 /\ m.sigmac >= 0 /\ m.sigmar >= 0 /\ m.fc <= m.fr /\ ftrial <= m.fr =>
              /\ n.sigmac >= 0 /\ n.sigmar >= 0
              /\ n.fr <= m.fr /\ n.fc <= n.fr /\ ftrial <= n.fr
<1> DEFINE c  == m.sigmac + pRed
           r  == m.sigmar + pRed
           fc == IF ftrial > m.fc THEN ftrial ELSE m.fc
           sc == IF ftrial > m.fc THEN 0 ELSE c
           n  == Remembered(m)
<1>1. /\ m.fr \in Int /\ m.fc \in Int /\ m.fmin \in Int /\ m.sigmac \in Int /\ m.sigmar \in Int
      /\ m.L \in Nat
  BY DEF NMData
<1>2. CASE ftrial < m.fmin
  <2>1. n = Stored(m, 0, ftrial, ftrial, 0, r)
    BY <1>2 DEF Remembered, Stored
  <2>2. /\ n \in NMData /\ n.fc = ftrial /\ n.fr = m.fr /\ n.sigmac = 0 /\ n.sigmar = r
    <3>1. 0 \in Nat /\ 0 \in Int /\ r \in Int
      BY <1>1
    <3> HIDE DEF r, n
    <3>2. QED BY <2>1, <3>1, SetStored
  <2> HIDE DEF n
  <2>3. QED BY <1>1, <2>2 DEF n
<1>3. CASE ~(ftrial < m.fmin)
  <2> DEFINE fr == IF m.L + 1 = opt.nm THEN fc ELSE m.fr
             sr == IF m.L + 1 = opt.nm THEN sc ELSE r
             l  == m.L + 1
  <2>1. n = Counted(m, l, fc, sc, fr, sr)
    BY <1>3 DEF Remembered, Counted, NMData
  <2>2. fc \in Int /\ sc \in Int /\ r \in Int
    BY <1>1
  <2>3. /\ fc \in {ftrial, m.fc} /\ ftrial <= fc
        /\ pRed >= 0 /\ m.sigmac >= 0 => sc >= 0
        /\ pRed >= 0 /\ m.sigmar >= 0 => r >= 0
    BY <1>1
  <2> HIDE DEF fc, sc, r
  <2>4. /\ n \in NMData /\ n.fc = fc /\ n.sigmac = sc
        /\ n.fr = IF m.L + 1 = opt.nm THEN fc ELSE m.fr
        /\ n.sigmar = IF m.L + 1 = opt.nm THEN sc ELSE r
    <3>1. l \in Nat /\ fr \in Int /\ sr \in Int
      BY <1>1, <2>2
    <3>2. n \in NMData /\ n.fc = fc /\ n.sigmac = sc /\ n.fr = fr /\ n.sigmar = sr
      <4> HIDE DEF n, l, fr, sr
      <4>1. QED BY <2>1, <2>2, <3>1, SetCounted
    <3>3. QED BY <3>2
  <2> HIDE DEF n
  <2>5. QED BY <1>1, <2>2, <2>3, <2>4 DEF n
<1>4. QED BY <1>2, <1>3

(* An acceptance: the trial point becomes the iterate, and no state solve. *)
LEMMA AcceptHolds ==
  ASSUME WellPosed, IInv, Accept
  PROVE  /\ IInv' /\ (Reduces /\ Referenced => Referenced' /\ nm'.fr <= nm.fr)
         /\ Storage => ro'.solves = 0
         /\ Reduces /\ Referenced /\ opt.nm = 0 => value' <= value
<1>1. /\ pc = "ratio" /\ pc' = "check"
      /\ Accepts(Decisive)
      /\ iterate' = x /\ value' = ftrial
      /\ ro' = Gradient(Update(ro, "Accept", x), K, x)
      /\ gradAt' = x
      /\ nm' = IF opt.nm > 0 THEN Remembered(nm) ELSE nm
      /\ iter' = iter + 1
      /\ UNCHANGED <<f, opt, x, ftrial, pRed>>
  BY DEF Accept
<1>2. /\ x \in Val /\ ftrial = f[x] /\ AtCandidate(ro, K, iterate, x)
      /\ ftrial \in Int /\ pRed \in Int /\ nm \in NMData /\ opt \in TrustRegionOptions
      /\ value \in Int
      /\ pRed \in PRed /\ iter < MaxIter
  BY <1>1 DEF IInv, TypeOK, Posed, Standing
<1>3. AtIterate(ro', K, x) /\ (Storage => ro'.solves = 0)
  BY <1>1, <1>2, KInKey, CandidateAccepted
<1>4. Usable(ro', K, x) /\ ro' \in ReducedObjectives
  BY <1>3, FitMeans DEF AtIterate, Usable
<1>5. value # Inf /\ ftrial # Inf /\ pRed # NaN
  BY <1>1, DecisiveDecides DEF IInv
<1>6. nm.fr # Inf /\ nm.fc # Inf
  BY <1>1, <1>5 DEF IInv, Bounded
<1>7. nm' \in NMData /\ nm'.fr # Inf /\ nm'.fc # Inf
  <2>1. CASE opt.nm > 0
    BY <1>1, <1>2, <1>5, <1>6, <2>1, RememberedFacts
  <2>2. CASE ~(opt.nm > 0)
    BY <1>1, <1>2, <1>6, <2>2
  <2>3. QED BY <2>1, <2>2
<1>8. iter' \in 0 .. MaxIter
  BY <1>1, <1>2, AlgorithmAssumption DEF IInv, TypeOK
<1>9. TypeOK'
  BY <1>1, <1>2, <1>4, <1>7, <1>8 DEF IInv, TypeOK, Content
<1>10. Posed' /\ Recorded' /\ Bounded' /\ Standing'
  BY <1>1, <1>2, <1>3, <1>4, <1>5, <1>7 DEF IInv, Posed, Recorded, Bounded, Standing
<1>11. ASSUME Reduces, Referenced
       PROVE  Referenced' /\ nm'.fr <= nm.fr /\ (opt.nm = 0 => value' <= value)
  <2>1. /\ pRed >= 0 /\ nm.sigmac >= 0 /\ nm.sigmar >= 0
        /\ value <= nm.fr /\ nm.fc <= nm.fr
        /\ nm.fr \in Int /\ nm.fc \in Int
    BY <1>1, <1>2, <1>5, <1>11 DEF Reduces, Referenced, NMData
  <2>2. /\ opt.nm = 0 => ftrial <= value
        /\ ftrial <= value \/ ftrial <= nm.fr
    BY <1>1, <2>1, DecisiveDecides DEF IInv
  <2>3. ftrial <= nm.fr
    BY <1>2, <2>1, <2>2
  <2>4. CASE opt.nm > 0
    <3>1. /\ nm'.sigmac >= 0 /\ nm'.sigmar >= 0
          /\ nm'.fr <= nm.fr /\ nm'.fc <= nm'.fr /\ ftrial <= nm'.fr
      BY <1>1, <1>2, <2>1, <2>3, <2>4, RememberedFacts
    <3>2. opt.nm # 0
      BY <2>4
    <3>3. QED BY <1>1, <3>1, <3>2 DEF Referenced
  <2>5. CASE ~(opt.nm > 0)
    BY <1>1, <2>1, <2>2, <2>3, <2>5 DEF Referenced
  <2>6. QED BY <2>4, <2>5
<1>12. QED BY <1>3, <1>9, <1>10, <1>11 DEF IInv

(* Neither: only against an infinite value, which stays.                   *)
LEMMA UndecidedHolds ==
  ASSUME IInv, Undecided
  PROVE  IInv' /\ (Referenced => Referenced')
<1>1. /\ pc = "ratio" /\ pc' = "check" /\ ~Rejects(Decisive) /\ ~Accepts(Decisive)
      /\ iter' = iter + 1
      /\ UNCHANGED <<f, opt, ro, x, iterate, gradAt, value, ftrial, pRed, nm>>
  BY DEF Undecided
<1>2. value = Inf
  BY <1>1, DecisiveDecides DEF IInv
<1>3. iter' \in 0 .. MaxIter
  BY <1>1, AlgorithmAssumption DEF IInv, TypeOK, Posed
<1>4. TypeOK' /\ Posed' /\ Recorded' /\ Bounded' /\ Standing'
  BY <1>1, <1>2, <1>3 DEF IInv, TypeOK, Posed, Recorded, Bounded, Standing
<1>5. QED BY <1>1, <1>4 DEF IInv, Referenced

(* The invariant is inductive.                                             *)
LEMMA NextHolds ==
  ASSUME WellPosed, IInv, [Next]_vars
  PROVE  IInv' /\ (Reduces /\ Referenced => Referenced')
<1>1. CASE UNCHANGED vars
  BY <1>1 DEF vars, IInv, TypeOK, Posed, Recorded, Bounded, Standing, Referenced
<1>2. CASE Next
  BY <1>2, InitializeHolds, StopHolds, SolveHolds, ComputeHolds, RejectHolds, AcceptHolds,
     UndecidedHolds DEF Next
<1>3. QED BY <1>1, <1>2

-----------------------------------------------------------------------------
(* The objective, the recorded data and the caller's vector stay in step   *)
(* through trials, acceptances, rejections and probes.                     *)
THEOREM InvariantOfTrustRegion == ASSUME WellPosed PROVE Spec => []IInv
  BY InitHolds, NextHolds, PTL DEF Spec

(* The reference bounds all that is compared with it.                      *)
THEOREM ReferenceBounds ==
  ASSUME WellPosed, Reduces PROVE Spec => [](IInv /\ Referenced)
  BY InitHolds, NextHolds, PTL DEF Spec

(* TypeOK of TrustRegionU; the iteration limit is kept.                    *)
THEOREM TypeCorrect == ASSUME WellPosed PROVE Spec => []TypeOK
  BY InvariantOfTrustRegion, PTL DEF IInv

(* All answers the algorithm is given belong to the points it asked for.   *)
THEOREM Fresh == ASSUME WellPosed PROVE Spec => []AnswersAreFresh
<1>1. IInv => AnswersAreFresh
  BY FitMeans DEF IInv, Recorded, Usable, AnswersAreFresh
<1>2. QED BY <1>1, InvariantOfTrustRegion, PTL

(* All its updates are those UpdateType allows.                            *)
THEOREM Protocol == ASSUME WellPosed PROVE Spec => []KeepsProtocol
<1>1. IInv => KeepsProtocol
  BY FitMeans DEF IInv, Recorded, Usable, KeepsProtocol
<1>2. QED BY <1>1, InvariantOfTrustRegion, PTL

(* Vector, value and gradient agree whenever the loop condition is         *)
(* evaluated and when run() returns.                                       *)
THEOREM Agreement == ASSUME WellPosed PROVE Spec => []IterateAgrees
<1>1. IInv => IterateAgrees
  BY DEF IInv, Recorded, Standing, IterateAgrees
<1>2. QED BY <1>1, InvariantOfTrustRegion, PTL

(* Neither acceptance nor rejection solves a state equation.               *)
THEOREM DecisionsAreFree == ASSUME WellPosed PROVE Spec => NoSolveAfterDecision
<1>1. WellPosed /\ IInv /\ [Next]_vars => [(Reject \/ Accept) /\ Storage => ro'.solves = 0]_vars
  BY RejectHolds, AcceptHolds
<1>2. QED BY <1>1, InvariantOfTrustRegion, PTL DEF Spec, NoSolveAfterDecision

(* The steps that move the iterate, or the reference.                      *)
LEMMA OnlyAcceptMoves ==
  ASSUME Next, pc # "start"
  PROVE  Accept \/ (iterate' = iterate /\ nm' = nm)
  BY DEF Next, Initialize, Stop, SolveSubproblem, ComputeValue, Reject, Undecided

(* The monotone method descends.                                           *)
THEOREM Descends == ASSUME WellPosed, Reduces PROVE Spec => Descent
<1>1. ASSUME IInv, Referenced, [Next]_vars, opt.nm = 0, iterate' # iterate, pc # "start"
      PROVE  value' <= value
  <2>1. Accept
    BY <1>1, OnlyAcceptMoves DEF vars
  <2>2. QED BY <1>1, <2>1, AcceptHolds
<1>2. IInv /\ Referenced /\ [Next]_vars =>
        [opt.nm = 0 /\ iterate' # iterate /\ pc # "start" => value' <= value]_vars
  BY <1>1
<1>3. QED BY <1>2, ReferenceBounds, PTL DEF Spec, Descent

(* The reference of the nonmonotone method never rises.                    *)
THEOREM ReferenceFalls == ASSUME WellPosed, Reduces PROVE Spec => ReferenceNeverRises
<1>1. ASSUME IInv, Referenced, [Next]_vars, pc # "start"
      PROVE  nm'.fr <= nm.fr
  <2>1. nm.fr \in Int
    BY <1>1 DEF IInv, TypeOK, NMData
  <2>2. CASE Accept
    BY <1>1, <2>2, AcceptHolds
  <2>3. CASE nm' = nm
    BY <2>1, <2>3
  <2>4. QED BY <1>1, <2>2, <2>3, OnlyAcceptMoves DEF vars
<1>2. IInv /\ Referenced /\ [Next]_vars => [pc # "start" => nm'.fr <= nm.fr]_vars
  BY <1>1
<1>3. QED BY <1>2, ReferenceBounds, PTL DEF Spec, ReferenceNeverRises

-----------------------------------------------------------------------------
(* The line-search algorithm, whatever the limit of evaluations and the    *)
(* choice of what follows when it is reached.                              *)

SearchOptions ==
  [search : STRING, descent : STRING, curvature : STRING, acceptLast : BOOLEAN, acceptMin : BOOLEAN,
   fdDeriv : BOOLEAN]

(* What is assumed of the constants: types.                                *)
SearchPosed == Key # {} /\ Functions \subseteq [Val -> Int] /\ Options \subseteq SearchOptions

(* What NoAscent assumes besides: the smallest value seen, which may be    *)
(* that of an earlier search, is not accepted in place of the iterate.     *)
NoMinimum == \A o \in Options : ~o.acceptMin

-----------------------------------------------------------------------------
(* The inductive invariant, by parts.                                      *)

Searching == pc \in {"test", "finish"}

SearchTyped ==
  /\ pc \in {"start", "check", "try", "test", "finish", "done"}
  /\ f \in [Val -> Int] /\ opt \in Options /\ x \in Val
  /\ iter \in Nat /\ itcond \in BOOLEAN /\ Typed(ro)
  /\ Searching => trial \in Val
  /\ least = NoLeast \/ least.point \in Val

(* The values compared are those of the iterate and of the last trial; a   *)
(* search with a test ends at its limit or with a smaller value.           *)
Compared ==
  /\ pc # "start" => fold = f[x]
  /\ pc = "test" => fval = f[trial]
  /\ pc = "finish" /\ ~Single => itcond \/ f[trial] < f[x]

(* Conditions that hold only while the protocol is kept, or the answers    *)
(* are right: an illegal Accept breaks both for good.  The test of the    *)
(* slope at a trial point asks for derivatives where no update has been.   *)
Direct == ~AsksForSlope

Kept ==
  Direct /\ ro.legal =>
    /\ pc # "start" => ro.base = x
    /\ pc \in {"check", "done"} => ro.here = x
    /\ Searching => ro.cand = trial

(* Where the objective stands, if anything is stored.                      *)
Placed ==
  Direct /\ ro.fresh /\ (Storage \/ InnerStores) =>
    /\ pc = "start" => Fit(ro, K)
    /\ pc \in {"check", "done"} => AtIterate(ro, K, x)
    /\ pc = "try" => Usable(ro, K, x)
    /\ Searching => AtCandidate(ro, K, x, trial) /\ ro.con.tier["trial"][K].flag

SearchInv == SearchTyped /\ Compared /\ Kept /\ Placed

-----------------------------------------------------------------------------
(* An update and the value there, and then the gradient.                   *)
LEMMA ValueAfter ==
  ASSUME NEW r, Typed(r), NEW type \in UpdateType, NEW z \in Val, NEW k \in Key
  PROVE  LET v == Value(Update(r, type, z), k, z) IN
         /\ Typed(v) /\ v.here = z
         /\ v.base = BaseAfter(type, z, r.base) /\ v.cand = CandAfter(type, z, r.cand)
         /\ v.fresh => r.fresh
         /\ v.legal <=> r.legal /\ LegalUpdate(r, type, z)
         /\ ~Storage /\ ~InnerStores => (v.fresh <=> r.fresh)
<1> DEFINE t == Update(r, type, z)
           v == Value(t, k, z)
<1>1. Typed(t)
  BY UpdateTyped
<1>2. /\ t.here = z /\ t.base = BaseAfter(type, z, r.base)
      /\ t.cand = CandAfter(type, z, r.cand) /\ t.fresh = r.fresh
      /\ t.legal <=> r.legal /\ LegalUpdate(r, type, z)
  BY UpdateFields DEF Typed
<1> HIDE DEF t
<1>3. Typed(v)
  BY <1>1, ValueTyped
<1>4. /\ v.here = t.here /\ v.base = t.base /\ v.cand = t.cand
      /\ v.fresh => t.fresh
      /\ v.legal <=> t.legal /\ t.here = z
      /\ ~Storage /\ ~InnerStores => (v.fresh <=> t.fresh)
  BY <1>1, ValuePoints
<1> HIDE DEF v
<1>5. QED BY <1>2, <1>3, <1>4 DEF v, t

(* The same.                                                               *)
LEMMA GradientAfter ==
  ASSUME NEW r, Typed(r), NEW type \in UpdateType, NEW z \in Val, NEW k \in Key
  PROVE  LET v == Value(Update(r, type, z), k, z)
             g == Gradient(v, k, z)
         IN
         /\ Typed(g) /\ g.here = z
         /\ g.base = BaseAfter(type, z, r.base) /\ g.cand = CandAfter(type, z, r.cand)
         /\ g.fresh => v.fresh /\ r.fresh
         /\ g.legal <=> r.legal /\ LegalUpdate(r, type, z)
         /\ ~Storage /\ ~InnerStores => (g.fresh <=> r.fresh)
<1> DEFINE v == Value(Update(r, type, z), k, z)
           g == Gradient(v, k, z)
<1>1. /\ Typed(v) /\ v.here = z
      /\ v.base = BaseAfter(type, z, r.base) /\ v.cand = CandAfter(type, z, r.cand)
      /\ v.fresh => r.fresh
      /\ v.legal <=> r.legal /\ LegalUpdate(r, type, z)
      /\ ~Storage /\ ~InnerStores => (v.fresh <=> r.fresh)
  BY ValueAfter
<1> HIDE DEF v
<1>2. Typed(g)
  BY <1>1, GradientTyped
<1>3. /\ g.here = v.here /\ g.base = v.base /\ g.cand = v.cand
      /\ g.fresh => v.fresh
      /\ g.legal <=> v.legal /\ v.here = z
      /\ ~Storage /\ ~InnerStores => (g.fresh <=> v.fresh)
  BY <1>1, GradientPoints
<1> HIDE DEF g
<1>4. QED BY <1>1, <1>2, <1>3 DEF g, v

(* The only parameter.                                                     *)
LEMMA SearchKey == ASSUME SearchPosed PROVE K \in Key
  BY DEF SearchPosed, K

(* The invariant before the run.                                           *)
LEMMA SearchInitHolds == ASSUME SearchPosed, SearchInit PROVE SearchInv
<1>1. /\ pc = "start" /\ f \in [Val -> Int] /\ opt \in Options /\ x \in Val
      /\ ro = NewReducedObjective /\ iter = 0 /\ itcond = FALSE /\ least = NoLeast
  BY DEF SearchInit, SearchPosed
<1>2. Typed(ro)
  BY <1>1, NewTyped
<1>3. Fit(ro, K)
  BY <1>1, NewFit
<1>4. SearchTyped
  <2>1. iter \in Nat /\ itcond \in BOOLEAN
    BY <1>1
  <2>2. QED BY <1>1, <1>2, <2>1 DEF SearchTyped, Searching
<1>5. QED BY <1>1, <1>3, <1>4 DEF SearchInv, Compared, Kept, Placed, Searching

(* initialize().                                                           *)
LEMMA InitializeSearchHolds ==
  ASSUME SearchPosed, SearchInv, InitializeSearch
  PROVE  SearchInv' /\ (ro'.fresh => ro.fresh) /\ (ro.legal => ro'.legal)
<1>1. /\ pc = "start" /\ pc' = "check" /\ fold' = f[x]
      /\ ro' = Gradient(Value(Update(ro, "Initial", x), K, x), K, x)
      /\ UNCHANGED <<f, opt, x, trial, fval, neval, iter, itcond, least>>
  BY DEF InitializeSearch
<1>2. /\ x \in Val /\ Typed(ro) /\ K \in Key /\ "Initial" \in UpdateType
  BY SearchKey DEF SearchInv, SearchTyped, UpdateType
<1>3. /\ Typed(ro') /\ ro'.here = x /\ ro'.base = x
      /\ ro'.fresh => ro.fresh
      /\ ro'.legal <=> ro.legal
  <2>1. LegalUpdate(ro, "Initial", x)
    BY DEF LegalUpdate
  <2>2. BaseAfter("Initial", x, ro.base) = x
    BY DEF BaseAfter
  <2>3. QED BY ONLY <1>1, <1>2, <2>1, <2>2, GradientAfter
<1>4. Fit(ro, K) => AtIterate(ro', K, x)
  BY <1>1, <1>2, IterateStarted
<1>5. SearchTyped'
  BY <1>1, <1>3 DEF SearchInv, SearchTyped, Searching
<1>6. Placed'
  BY <1>1, <1>3, <1>4 DEF SearchInv, Placed, Direct, AsksForSlope, Searching
<1>7. Compared' /\ Kept'
  BY <1>1, <1>3 DEF Compared, Kept, Searching
<1>8. QED BY <1>3, <1>5, <1>6, <1>7 DEF SearchInv

(* The status test stops the run.                                          *)
LEMMA StopSearchHolds == ASSUME SearchInv, StopSearch PROVE SearchInv'
  BY DEF StopSearch, SearchInv, SearchTyped, Compared, Kept, Placed, Direct, AsksForSlope,
         Searching, Single

(* A trial from the iterate or from another trial.                         *)
LEMMA TrialPoint ==
  ASSUME NEW r, Typed(r), K \in Key, NEW y \in Val
  PROVE  LET v == Value(Update(r, "Trial", y), K, y) IN
         /\ Typed(v) /\ v.base = r.base /\ v.cand = y
         /\ v.fresh => r.fresh
         /\ v.legal <=> r.legal /\ r.base # NoVal
         /\ ~Storage /\ ~InnerStores => (v.fresh <=> r.fresh)
         /\ x \in Val /\ Usable(r, K, x) =>
              /\ AtCandidate(v, K, x, y) /\ v.con.tier["trial"][K].flag
              /\ Usable(v, K, x) /\ v.fresh
<1> DEFINE v == Value(Update(r, "Trial", y), K, y)
<1>1. "Trial" \in UpdateType
  BY DEF UpdateType
<1>2. LegalUpdate(r, "Trial", y) <=> r.base # NoVal
  BY DEF LegalUpdate
<1>3. BaseAfter("Trial", y, r.base) = r.base /\ CandAfter("Trial", y, r.cand) = y
  BY DEF BaseAfter, CandAfter
<1>4. /\ Typed(v) /\ v.base = BaseAfter("Trial", y, r.base)
      /\ v.cand = CandAfter("Trial", y, r.cand)
      /\ v.fresh => r.fresh
      /\ v.legal <=> r.legal /\ LegalUpdate(r, "Trial", y)
      /\ ~Storage /\ ~InnerStores => (v.fresh <=> r.fresh)
  BY <1>1, ValueAfter
<1>5. x \in Val /\ Usable(r, K, x) => AtCandidate(v, K, x, y) /\ v.con.tier["trial"][K].flag
  BY CandidateTried
<1> HIDE DEF v
<1>6. AtCandidate(v, K, x, y) => Usable(v, K, x) /\ v.fresh
  BY DEF AtCandidate, Usable, Fit
<1>7. QED BY <1>2, <1>3, <1>4, <1>5, <1>6 DEF v

(* The Hessian at the iterate, for directions that need it.                *)
LEMMA HessianAsked ==
  ASSUME SearchPosed, SearchInv, pc = "check"
  PROVE  LET r == IF opt.descent = "Newton-Krylov" THEN HessVec(ro, K, x) ELSE ro IN
         /\ Typed(r) /\ r.base = ro.base
         /\ r.fresh => ro.fresh
         /\ Direct /\ ro.legal => r.legal
         /\ r.legal => ro.legal
         /\ ~Storage /\ ~InnerStores => (r.fresh <=> ro.fresh)
         /\ Direct /\ ro.fresh /\ (Storage \/ InnerStores) => AtIterate(r, K, x)
<1> DEFINE h == Gradient(ro, K, x)
           r == IF opt.descent = "Newton-Krylov" THEN HessVec(ro, K, x) ELSE ro
<1>1. /\ x \in Val /\ Typed(ro) /\ K \in Key
      /\ Direct /\ ro.legal => ro.here = x
      /\ Direct /\ ro.fresh /\ (Storage \/ InnerStores) => AtIterate(ro, K, x)
  BY SearchKey DEF SearchInv, SearchTyped, Kept, Placed
<1>2. CASE opt.descent # "Newton-Krylov"
  BY <1>1, <1>2
<1>3. CASE opt.descent = "Newton-Krylov"
  <2>1. r = h
    BY <1>3 DEF HessVec
  <2>2. Typed(h)
    BY <1>1, GradientTyped
  <2>3. /\ h.base = ro.base
        /\ h.fresh => ro.fresh
        /\ h.legal <=> ro.legal /\ ro.here = x
        /\ ~Storage /\ ~InnerStores => (h.fresh <=> ro.fresh)
    BY <1>1, GradientPoints
  <2>4. ASSUME AtIterate(ro, K, x) PROVE AtIterate(h, K, x)
    <3>1. Good(ro) /\ ro.here = x
      BY <2>4 DEF AtIterate, Usable, Fit
    <3>2. Evaluated(ro, h, K, x)
      BY <1>1, <3>1, GradientGood
    <3> HIDE DEF h
    <3>3. QED BY <1>1, <2>4, <3>2, IterateAsked
  <2> HIDE DEF h, r
  <2>5. QED BY <1>1, <2>1, <2>2, <2>3, <2>4 DEF r
<1>4. QED BY <1>2, <1>3

(* What a step that does not leave the iterate is shown to do besides: no  *)
(* answer is stale, and no update illegal, for the first time.             *)
Sound == Direct => (ro.fresh => ro'.fresh) /\ (ro.legal => ro'.legal)

(* The direction and the first step length.                                *)
LEMMA BeginSearchHolds ==
  ASSUME SearchPosed, SearchInv, BeginSearch
  PROVE  SearchInv' /\ Sound
<1> DEFINE r == IF opt.descent = "Newton-Krylov" THEN HessVec(ro, K, x) ELSE ro
<1>1. /\ pc = "check" /\ pc' = "try"
      /\ ro' = r \/ \E y \in Val \ {x} : ro' = Value(Update(r, "Trial", y), K, y)
      /\ UNCHANGED <<f, opt, x, trial, fold, iter, itcond, least>>
  BY DEF BeginSearch
<1>2. /\ Typed(r) /\ r.base = ro.base
      /\ r.fresh => ro.fresh
      /\ Direct /\ ro.legal => r.legal
      /\ r.legal => ro.legal
      /\ ~Storage /\ ~InnerStores => (r.fresh <=> ro.fresh)
      /\ Direct /\ ro.fresh /\ (Storage \/ InnerStores) => AtIterate(r, K, x)
  BY <1>1, HessianAsked
<1>3. /\ x \in Val /\ K \in Key /\ x # NoVal
      /\ Direct /\ ro.legal => ro.base = x
  BY <1>1, SearchKey, NoValAssumption DEF SearchInv, SearchTyped, Kept
<1> HIDE DEF r
<1>4. AtIterate(r, K, x) => Usable(r, K, x) /\ r.fresh
  BY DEF AtIterate, Usable, Fit
<1>5. /\ Typed(ro') /\ ro'.base = ro.base
      /\ ro'.fresh => ro.fresh
      /\ Direct => (ro.fresh => ro'.fresh) /\ (ro'.legal <=> ro.legal)
      /\ Direct /\ ro.fresh /\ (Storage \/ InnerStores) => Usable(ro', K, x)
  <2>1. CASE ro' = r
    BY <1>2, <1>4, <2>1
  <2>2. CASE \E y \in Val : ro' = Value(Update(r, "Trial", y), K, y)
    <3>1. PICK y \in Val : ro' = Value(Update(r, "Trial", y), K, y)
      BY <2>2
    <3>2. /\ Typed(ro') /\ ro'.base = r.base
          /\ ro'.fresh => r.fresh
          /\ ro'.legal <=> r.legal /\ r.base # NoVal
          /\ ~Storage /\ ~InnerStores => (ro'.fresh <=> r.fresh)
          /\ x \in Val /\ Usable(r, K, x) => Usable(ro', K, x) /\ ro'.fresh
      BY <1>2, <1>3, <3>1, TrialPoint
    <3>3. QED BY <1>2, <1>3, <1>4, <3>2
  <2>3. QED BY <1>1, <2>1, <2>2
<1>6. SearchTyped'
  BY <1>1, <1>5 DEF SearchInv, SearchTyped, Searching
<1>7. Compared' /\ Kept' /\ Placed'
  BY <1>1, <1>3, <1>5 DEF SearchInv, Compared, Kept, Placed, Direct, AsksForSlope, Searching
<1>8. QED BY <1>5, <1>6, <1>7 DEF SearchInv, Sound

(* The value at a trial point.                                             *)
LEMMA TryStepHolds ==
  ASSUME SearchPosed, SearchInv, TryStep
  PROVE  SearchInv' /\ Sound
<1>1. PICK y \in Val :
        /\ pc = "try" /\ pc' = IF Single THEN "finish" ELSE "test"
        /\ ro' = Value(Update(ro, "Trial", y), K, y)
        /\ trial' = y /\ fval' = f[y]
        /\ UNCHANGED <<f, opt, x, fold, iter, itcond, least>>
  BY DEF TryStep
<1>2. /\ x \in Val /\ K \in Key /\ x # NoVal /\ Typed(ro)
      /\ Direct /\ ro.legal => ro.base = x
      /\ Direct /\ ro.fresh /\ (Storage \/ InnerStores) => Usable(ro, K, x)
  BY <1>1, SearchKey, NoValAssumption DEF SearchInv, SearchTyped, Kept, Placed
<1>3. /\ Typed(ro') /\ ro'.base = ro.base /\ ro'.cand = y
      /\ ro'.fresh => ro.fresh
      /\ ro'.legal <=> ro.legal /\ ro.base # NoVal
      /\ ~Storage /\ ~InnerStores => (ro'.fresh <=> ro.fresh)
      /\ Usable(ro, K, x) =>
           AtCandidate(ro', K, x, y) /\ ro'.con.tier["trial"][K].flag /\ ro'.fresh
  BY ONLY <1>1, <1>2, TrialPoint
<1>4. SearchTyped'
  BY <1>1, <1>3 DEF SearchInv, SearchTyped, Searching
<1>5. Compared'
  BY <1>1 DEF SearchInv, Compared, Single
<1>6. Kept' /\ Placed'
  BY <1>1, <1>2, <1>3 DEF Kept, Placed, Direct, AsksForSlope, Searching
<1>7. Sound
  BY <1>2, <1>3 DEF Sound
<1>8. QED BY <1>4, <1>5, <1>6, <1>7 DEF SearchInv

(* The derivative beyond a trial point.                                    *)
LEMMA DerivativeTyped ==
  ASSUME SearchPosed, Typed(ro), NEW y \in Val, NEW v \in DirDeriv(ro, y)
  PROVE  Typed(v)
<1>1. K \in Key /\ "Trial" \in UpdateType
  BY SearchKey DEF UpdateType
<1>2. CASE opt.fdDeriv
  <2>1. PICK w \in Val : v = Value(Update(ro, "Trial", w), K, w)
    BY <1>2 DEF DirDeriv
  <2>2. QED BY <1>1, <2>1, ValueAfter
<1>3. CASE ~opt.fdDeriv
  <2>1. v = Gradient(ro, K, y)
    BY <1>3 DEF DirDeriv
  <2>2. QED BY <1>1, <2>1, GradientTyped
<1>4. QED BY <1>2, <1>3

(* The tests of LineSearch_U::status.                                      *)
LEMMA StatusHolds ==
  ASSUME SearchPosed, SearchInv, Status
  PROVE  SearchInv' /\ Sound
<1>1. /\ pc = "test" /\ itcond' = (neval >= Maxit)
      /\ least' = IF fval < least.fmin
                  THEN [fmin |-> fval, point |-> trial, search |-> iter] ELSE least
      /\ UNCHANGED <<f, opt, x, trial, fold, fval, iter>>
  BY DEF Status
<1>2. /\ x \in Val /\ trial \in Val /\ Typed(ro) /\ fold = f[x] /\ fval = f[trial]
      /\ least = NoLeast \/ least.point \in Val
  BY <1>1 DEF SearchInv, SearchTyped, Compared, Searching
<1>3. /\ Typed(ro') /\ pc' \in {"try", "finish"}
      /\ pc' = "finish" => itcond' \/ f[trial] < f[x]
      /\ Direct => ro' = ro
  <2>1. Typed(ro') /\ (Direct => ro' = ro)
    <3>1. CASE Armijo /\ AsksForSlope
      <4>1. PICK y \in DerivativePoints : ro' \in DirDeriv(ro, y)
        BY <3>1 DEF Status
      <4>2. y \in Val
        BY <1>2 DEF DerivativePoints
      <4>3. QED BY <1>2, <3>1, <4>1, <4>2, DerivativeTyped DEF Direct
    <3>2. CASE ~(Armijo /\ AsksForSlope)
      BY <1>2, <3>2 DEF Status
    <3>3. QED BY <3>1, <3>2
  <2>2. PICK enough \in Verdicts : pc' = IF enough \/ itcond' THEN "finish" ELSE "try"
    BY DEF Status
  <2>3. enough => f[trial] < f[x]
    BY <1>2, <2>2 DEF Verdicts, Armijo
  <2>4. QED BY <2>1, <2>2, <2>3
<1>4. SearchTyped'
  <2>1. least' = NoLeast \/ least'.point \in Val
    BY <1>1, <1>2
  <2>2. itcond' \in BOOLEAN
    BY <1>1
  <2>3. QED BY <1>1, <1>2, <1>3, <2>1, <2>2 DEF SearchInv, SearchTyped
<1>5. Compared'
  BY <1>1, <1>2, <1>3 DEF Compared
<1>6. Kept'
  BY <1>1, <1>3 DEF SearchInv, Kept, Direct, AsksForSlope, Searching
<1>7. Placed'
  <2>1. AtCandidate(ro, K, x, trial) => Usable(ro, K, x)
    BY DEF AtCandidate
  <2>2. QED BY <1>1, <1>3, <2>1 DEF SearchInv, Placed, Direct, AsksForSlope, Searching
<1>8. Sound
  BY <1>3 DEF Sound
<1>9. QED BY <1>4, <1>5, <1>6, <1>7, <1>8 DEF SearchInv

(* The point a search ends at, chosen by setMaxitUpdate, is a point.       *)
LEMMA NextPointsFacts ==
  ASSUME SearchPosed, SearchInv, pc = "finish"
  PROVE  /\ NextPoints \subseteq Val
         /\ NoMinimum /\ ~opt.acceptLast => NextPoints = IF itcond THEN {x} ELSE {trial}
<1>1. /\ x \in Val /\ trial \in Val /\ iter \in Nat
      /\ least = NoLeast \/ least.point \in Val
      /\ opt \in Options /\ itcond \in BOOLEAN
  BY DEF SearchInv, SearchTyped, Searching
<1>2. opt.acceptLast \in BOOLEAN /\ opt.acceptMin \in BOOLEAN
  BY <1>1 DEF SearchPosed, SearchOptions
<1>3. least.search = iter => least # NoLeast
  BY <1>1 DEF NoLeast
<1>4. CASE UsesLeast /\ least.search = iter
  <2>1. NextPoints = {least.point}
    BY <1>2, <1>4 DEF NextPoints, UsesLeast
  <2>2. QED BY <1>1, <1>3, <1>4, <2>1 DEF NoMinimum, UsesLeast
<1>5. CASE UsesLeast /\ least.search # iter
  <2>1. NextPoints = IF least = NoLeast THEN {x} ELSE Val
    BY <1>2, <1>5 DEF NextPoints, UsesLeast
  <2>2. QED BY <1>1, <1>5, <2>1 DEF NoMinimum, UsesLeast
<1>6. CASE itcond /\ ~opt.acceptLast /\ ~opt.acceptMin
  <2>1. ~UsesLeast
    BY <1>6 DEF UsesLeast
  <2>2. NextPoints = {x}
    BY <1>6, <2>1 DEF NextPoints
  <2>3. QED BY <1>1, <1>6, <2>2
<1>7. CASE ~itcond \/ opt.acceptLast
  <2>1. ~UsesLeast
    BY <1>7 DEF UsesLeast
  <2>2. NextPoints = {trial}
    BY <1>7, <2>1 DEF NextPoints
  <2>3. QED BY <1>1, <1>7, <2>2
<1>8. QED BY <1>1, <1>2, <1>4, <1>5, <1>6, <1>7 DEF UsesLeast

(* The step is taken: an objective that was told to accept another point   *)
(* than the last trial has given a stale answer, if anything is stored.    *)
LEMMA FinishHolds ==
  ASSUME SearchPosed, SearchInv, Finish
  PROVE  /\ SearchInv'
         /\ NextPoints = {trial} => Sound
         /\ NoMinimum /\ ~opt.acceptLast /\ ~Single => f[x'] <= f[x]
<1> DEFINE At(y) == Gradient(Value(Update(ro, "Accept", y), K, y), K, y)
<1>1. PICK y \in NextPoints :
        /\ pc = "finish" /\ pc' = "check"
        /\ x' = y /\ fold' = f[y] /\ ro' = At(y)
        /\ iter' = iter + 1
        /\ UNCHANGED <<f, opt, trial, fval, neval, itcond, least>>
  BY DEF Finish
<1>2. /\ x \in Val /\ trial \in Val /\ K \in Key /\ Typed(ro) /\ trial # NoVal
      /\ f \in [Val -> Int]
      /\ "Accept" \in UpdateType
      /\ Direct /\ ro.legal => ro.cand = trial
      /\ Direct /\ ro.fresh /\ (Storage \/ InnerStores) =>
           AtCandidate(ro, K, x, trial) /\ ro.con.tier["trial"][K].flag
      /\ ~Single => itcond \/ f[trial] < f[x]
  BY <1>1, SearchKey, NoValAssumption
  DEF SearchInv, SearchTyped, Compared, Kept, Placed, Searching, UpdateType
<1>3. y \in Val
  BY <1>1, NextPointsFacts
<1>4. /\ Typed(ro') /\ ro'.here = y /\ ro'.base = y
      /\ ro'.fresh => Value(Update(ro, "Accept", y), K, y).fresh /\ ro.fresh
      /\ ro'.legal <=> ro.legal /\ LegalUpdate(ro, "Accept", y)
      /\ ~Storage /\ ~InnerStores => (ro'.fresh <=> ro.fresh)
  <2>1. BaseAfter("Accept", y, ro.base) = y
    BY DEF BaseAfter
  <2>2. ro' = At(y)
    BY <1>1
  <2>3. QED BY ONLY <1>2, <1>3, <2>1, <2>2, GradientAfter
<1>5. AtCandidate(ro, K, x, trial) => AtIterate(At(trial), K, trial)
  BY <1>2, CandidateTaken
<1>6. ASSUME AtCandidate(ro, K, x, trial), ro.con.tier["trial"][K].flag,
             Storage \/ InnerStores, y # trial
      PROVE  ~Value(Update(ro, "Accept", y), K, y).fresh
  BY <1>2, <1>3, <1>6, WrongAccept
<1> HIDE DEF At
<1>7. SearchTyped'
  <2>1. iter' \in Nat
    BY <1>1 DEF SearchInv, SearchTyped
  <2>2. QED BY <1>1, <1>3, <1>4, <2>1 DEF SearchInv, SearchTyped, Searching
<1>8. Compared' /\ Kept'
  BY <1>1, <1>4 DEF Compared, Kept, Searching
<1>9. Placed'
  <2>1. ASSUME Direct, ro'.fresh, Storage \/ InnerStores PROVE AtIterate(ro', K, y)
    <3>1. AtCandidate(ro, K, x, trial) /\ ro.con.tier["trial"][K].flag
      BY <1>2, <1>4, <2>1
    <3>2. y = trial
      BY <1>4, <1>6, <2>1, <3>1
    <3>3. QED BY <1>1, <1>5, <3>1, <3>2
  <2>2. QED BY <1>1, <2>1 DEF Placed, Direct, AsksForSlope, Searching
<1>10. ASSUME NextPoints = {trial} PROVE Sound
  <2>1. y = trial /\ ro' = At(trial)
    BY <1>1, <1>10
  <2>2. Direct /\ ro.legal => LegalUpdate(ro, "Accept", y)
    BY <1>2, <2>1 DEF LegalUpdate
  <2>3. AtIterate(ro', K, y) => ro'.fresh
    BY DEF AtIterate, Usable, Fit
  <2>4. Direct /\ ro.fresh => ro'.fresh
    BY <1>2, <1>4, <1>5, <2>1, <2>3
  <2>5. QED BY <1>4, <2>2, <2>4 DEF Sound
<1>11. ASSUME NoMinimum, ~opt.acceptLast, ~Single PROVE f[x'] <= f[x]
  <2>1. y = IF itcond THEN x ELSE trial
    BY <1>1, <1>11, NextPointsFacts
  <2>2. f[x] \in Int /\ f[trial] \in Int
    BY <1>2
  <2>3. QED BY <1>1, <1>2, <1>11, <2>1, <2>2
<1>12. QED BY <1>7, <1>8, <1>9, <1>10, <1>11 DEF SearchInv

(* The invariant is inductive.                                             *)
LEMMA SearchNextHolds ==
  ASSUME SearchPosed, SearchInv, [SearchNext]_searchVars
  PROVE  SearchInv'
<1>1. CASE UNCHANGED searchVars
  <2>1. UNCHANGED <<pc, f, opt, ro, x, iter, trial, fold, fval, itcond, least>>
    BY <1>1 DEF searchVars
  <2>2. SearchTyped' /\ Compared'
    BY <2>1 DEF SearchInv, SearchTyped, Compared, Searching, Single
  <2>3. Kept' /\ Placed'
    BY <2>1 DEF SearchInv, Kept, Placed, Direct, AsksForSlope, Searching
  <2>4. QED BY <2>2, <2>3 DEF SearchInv
<1>2. CASE SearchNext
  BY <1>2, InitializeSearchHolds, StopSearchHolds, BeginSearchHolds, TryStepHolds, StatusHolds,
     FinishHolds DEF SearchNext
<1>3. QED BY <1>1, <1>2

(* With neither store, what is asked after an update is fresh.             *)
AskedFresh(r, type, z, k) ==
  /\ Value(Update(r, type, z), k, z).fresh <=> r.fresh
  /\ Gradient(Value(Update(r, type, z), k, z), k, z).fresh <=> r.fresh

(* The same.                                                               *)
LEMMA UnstoredFresh ==
  ASSUME ~Storage, ~InnerStores, NEW r, Typed(r), NEW type \in UpdateType, NEW z \in Val,
         NEW k \in Key
  PROVE  AskedFresh(r, type, z, k)
<1>1. Value(Update(r, type, z), k, z).fresh <=> r.fresh
  BY ValueAfter
<1>2. Gradient(Value(Update(r, type, z), k, z), k, z).fresh <=> r.fresh
  BY GradientAfter
<1>3. QED BY <1>1, <1>2 DEF AskedFresh

(* Steps that leave the iterate, or take the last trial, are sound.        *)
LEMMA PlainStepSound ==
  ASSUME SearchPosed, SearchInv, SearchNext, PlainStep
  PROVE  Sound
<1>1. CASE InitializeSearch
  <2>1. ASSUME Direct, ro.fresh PROVE ro'.fresh
    <3>1. /\ pc = "start" /\ x \in Val /\ K \in Key /\ Typed(ro)
          /\ ro' = Gradient(Value(Update(ro, "Initial", x), K, x), K, x)
          /\ "Initial" \in UpdateType
      BY <1>1, SearchKey DEF InitializeSearch, SearchInv, SearchTyped, UpdateType
    <3>2. CASE Storage \/ InnerStores
      <4>1. Fit(ro, K)
        BY <2>1, <3>1, <3>2 DEF SearchInv, Placed
      <4>2. AtIterate(ro', K, x)
        BY <3>1, <4>1, IterateStarted
      <4>3. QED BY <4>2 DEF AtIterate, Usable, Fit
    <3>3. CASE ~Storage /\ ~InnerStores
      BY <2>1, <3>1, <3>3, GradientAfter
    <3>4. QED BY <3>2, <3>3
  <2>2. QED BY <1>1, <2>1, InitializeSearchHolds DEF Sound
<1>2. CASE StopSearch
  BY <1>2 DEF StopSearch, Sound
<1>3. CASE BeginSearch
  BY <1>3, BeginSearchHolds
<1>4. CASE TryStep
  BY <1>4, TryStepHolds
<1>5. CASE Status
  BY <1>5, StatusHolds
<1>6. CASE Finish
  BY <1>6, FinishHolds DEF PlainStep
<1>7. QED BY <1>1, <1>2, <1>3, <1>4, <1>5, <1>6 DEF SearchNext

-----------------------------------------------------------------------------
(* While the protocol is kept the objective has its iterate where the      *)
(* search has, and while its answers are right so do all its stores.       *)
THEOREM InvariantOfLineSearch == ASSUME SearchPosed PROVE SearchSpec => []SearchInv
  BY SearchInitHolds, SearchNextHolds, PTL DEF SearchSpec

(* TrialAnswersAreFresh of LineSearchU: no step of a search that ends at   *)
(* its last trial gives the first stale answer, with any kind of storage.  *)
THEOREM TrialsFresh == ASSUME SearchPosed PROVE SearchSpec => TrialAnswersAreFresh
<1>1. ASSUME SearchInv, [SearchNext]_searchVars
      PROVE  [PlainStep /\ ro.fresh => ro'.fresh]_searchVars
  BY <1>1, PlainStepSound DEF Sound, Direct, PlainStep
<1>2. QED BY <1>1, InvariantOfLineSearch, PTL DEF SearchSpec, TrialAnswersAreFresh

(* TrialsKeepProtocol of LineSearchU: nor does it break the protocol of    *)
(* UpdateType.                                                             *)
THEOREM TrialsProtocol == ASSUME SearchPosed PROVE SearchSpec => TrialsKeepProtocol
<1>1. ASSUME SearchInv, [SearchNext]_searchVars
      PROVE  [PlainStep /\ ro.legal => ro'.legal]_searchVars
  BY <1>1, PlainStepSound DEF Sound, Direct, PlainStep
<1>2. QED BY <1>1, InvariantOfLineSearch, PTL DEF SearchSpec, TrialsKeepProtocol

(* NoAscent of LineSearchU: a search with a test that reaches its limit    *)
(* stays where it is, and one that does not finds a smaller value.         *)
THEOREM NeverAscends == ASSUME SearchPosed, NoMinimum PROVE SearchSpec => NoAscent
<1>1. ASSUME SearchInv
      PROVE  [Finish /\ ~opt.acceptLast /\ ~Single => f[x'] <= f[x]]_searchVars
  BY <1>1, FinishHolds
<1>2. QED BY <1>1, InvariantOfLineSearch, PTL DEF SearchSpec, NoAscent

(* What is stale is stale by storage: with neither store every answer      *)
(* belongs to the point asked for, whichever point is accepted.            *)
THEOREM FreshUnstored ==
  ASSUME SearchPosed, ~Storage, ~InnerStores PROVE SearchSpec => []AnswersAreFresh
<1>1. SearchInit => AnswersAreFresh
  BY DEF SearchInit, NewReducedObjective, AnswersAreFresh
<1>2. ASSUME SearchInv, AnswersAreFresh, [SearchNext]_searchVars
      PROVE  AnswersAreFresh'
  <2> USE DEF AnswersAreFresh
  <2>1. /\ x \in Val /\ K \in Key /\ Typed(ro)
        /\ Searching => trial \in Val
        /\ UpdateType = {"Initial", "Accept", "Revert", "Trial", "Temp"}
    BY <1>2, SearchKey DEF SearchInv, SearchTyped, UpdateType
  <2>2. \A r, type, z : Typed(r) /\ type \in UpdateType /\ z \in Val => AskedFresh(r, type, z, K)
    BY <2>1, UnstoredFresh
  <2> USE DEF AskedFresh
  <2>3. CASE InitializeSearch
    BY <1>2, <2>1, <2>2, <2>3 DEF InitializeSearch
  <2>4. CASE BeginSearch
    <3> DEFINE r == IF opt.descent = "Newton-Krylov" THEN HessVec(ro, K, x) ELSE ro
    <3>1. Typed(r) /\ r.fresh
      BY <1>2, <2>4, HessianAsked DEF BeginSearch
    <3>2. ro' = r \/ \E y \in Val : ro' = Value(Update(r, "Trial", y), K, y)
      BY <2>4 DEF BeginSearch
    <3> HIDE DEF r
    <3>3. QED BY <2>1, <2>2, <3>1, <3>2
  <2>5. CASE TryStep
    BY <1>2, <2>1, <2>2, <2>5 DEF TryStep
  <2>6. CASE Status
    <3>1. CASE ro' = ro
      BY <1>2, <3>1
    <3>2. CASE ro' # ro
      <4>1. PICK y \in DerivativePoints : ro' \in DirDeriv(ro, y)
        BY <2>6, <3>2 DEF Status
      <4>2. y \in Val
        BY <2>1, <2>6 DEF DerivativePoints, Searching, Status
      <4>3. Gradient(ro, K, y).fresh
        BY <1>2, <2>1, <4>2, GradientPoints
      <4>4. QED BY <1>2, <2>1, <2>2, <4>1, <4>3 DEF DirDeriv
    <3>3. QED BY <3>1, <3>2
  <2>7. CASE Finish
    <3>1. pc = "finish"
      BY <2>7 DEF Finish
    <3>2. PICK y \in NextPoints : ro' = Gradient(Value(Update(ro, "Accept", y), K, y), K, y)
      BY <2>7 DEF Finish
    <3>3. y \in Val
      BY <1>2, <3>1, NextPointsFacts
    <3>4. QED BY <1>2, <2>1, <2>2, <3>2, <3>3
  <2>8. CASE StopSearch \/ UNCHANGED searchVars
    BY <1>2, <2>8 DEF StopSearch, searchVars
  <2>9. QED BY <1>2, <2>3, <2>4, <2>5, <2>6, <2>7, <2>8 DEF SearchNext
<1>3. QED BY <1>1, <1>2, InvariantOfLineSearch, PTL DEF SearchSpec
=============================================================================
