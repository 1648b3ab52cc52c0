------------------------ MODULE ReducedProtocol_proofs ------------------------
(***************************************************************************)
(* Proofs about a reduced objective under the protocol of UpdateType, for  *)
(* every set of samples and of points, with and without storage: answers   *)
(* are fresh and the state equation is solved once per point and sample,   *)
(* provided every update other than a Revert is followed by an evaluation  *)
(* (Prompt).                                                               *)
(***************************************************************************)
EXTENDS ReducedProtocol, Stores_proofs, TLAPS

(* The objective's history is the optimizer's.                             *)
SamePoints == ro.here = here /\ ro.base = base /\ ro.cand = cand

(* The tier that answers is the one for where the optimizer stands.        *)
Placed ==
  /\ at = CASE ActiveTier(ro.state) = "main"  -> "base"
            [] ActiveTier(ro.state) = "trial" -> "cand"
            [] ActiveTier(ro.state) = "temp"  -> "probe"
  /\ at = "base" => here = base /\ cand = NoVal
  /\ here # NoVal => base # NoVal

(* Back at the iterate nothing is known of another point.                  *)
Forgotten == at = "base" => known["cand"] = {} /\ known["probe"] = {}

(* Of every sample known somewhere, the state is stored there.             *)
Paid ==
  Storage =>
    /\ \A k \in known["base"]  : ro.state.tier["main"][k].flag
    /\ \A k \in known["cand"]  : ro.state.tier["trial"][k].flag
    /\ \A k \in known["probe"] : ro.state.tier["temp"][k].flag

(* The inductive invariant.                                                *)
IInv == TypeOK /\ Good(ro) /\ ro.fresh /\ SamePoints /\ Placed /\ Forgotten /\ Paid

-----------------------------------------------------------------------------
(* The invariant before the first update.                                  *)
LEMMA InitHolds == Init => IInv
<1> SUFFICES ASSUME Init PROVE IInv
  OBVIOUS
<1>1. /\ Good(ro) /\ ro.fresh /\ ro.here = NoVal /\ ro.base = NoVal /\ ro.cand = NoVal
      /\ ro \in ReducedObjectives
  BY NewGood DEF Init, Good
<1>2. /\ here = NoVal /\ base = NoVal /\ cand = NoVal /\ at = "base"
      /\ known = [w \in Memo!Where |-> {}]
  BY DEF Init, Memo!Init
<1>3. ActiveTier(ro.state) = "main"
  BY DEF Init, NewReducedObjective, NewController, ActiveTier
<1>4. TypeOK
  BY <1>1, <1>2 DEF TypeOK, Memo!Where, Content
<1>5. Paid /\ Forgotten
  BY <1>2 DEF Paid, Forgotten, Memo!Where
<1>6. SamePoints /\ Placed
  BY <1>1, <1>2, <1>3 DEF SamePoints, Placed
<1>7. QED BY <1>1, <1>4, <1>5, <1>6 DEF IInv

(* The fields of the objective that the updates need.                      *)
LEMMA Parts ==
  ASSUME IInv
  PROVE  /\ ro \in ReducedObjectives /\ Good(ro)
         /\ ro.state \in Controller /\ ro.adjoint \in Controller
         /\ ro.con \in Controller /\ ro.obj \in Controller
         /\ ~ro.state.conUpdated /\ ~ro.adjoint.conUpdated
         /\ ~ro.con.conUpdated /\ ~ro.obj.conUpdated
         /\ ro.here = here /\ ro.base = base /\ ro.cand = cand
         /\ ro.solves \in 0 .. MaxSolves
         /\ known["base"] \subseteq Key /\ known["cand"] \subseteq Key
         /\ known["probe"] \subseteq Key /\ known \in [Memo!Where -> SUBSET Key]
         /\ Honest(ro.state)
  BY DEF IInv, TypeOK, Good, Matches, TiersMatch, SamePoints, ReducedObjectives, Memo!Where

(* A new start, in either form of update().                                *)
LEMMA StartHolds ==
  ASSUME IInv, Prompt, NEW z \in Val, UpdateInitial(z) \/ UpdateFlag(z)
  PROVE  IInv' /\ ro'.solves = 0
<1>1. MayMiss(ro) /\ Memo!Start(z)
  BY DEF UpdateInitial, UpdateFlag, MayUpdate, MayMiss
<1>2. /\ Good(ro') /\ ro'.here = z /\ ro'.base = z /\ ro'.cand = NoVal
      /\ ro'.solves = 0 /\ ro'.fresh = ro.fresh /\ ActiveTier(ro'.state) = "main"
  <2>1. CASE UpdateFlag(z)
    BY <1>1, <2>1, Parts, UpdateDeprecatedGood DEF UpdateFlag
  <2>2. CASE UpdateInitial(z)
    <3>1. ro' = Update(ro, "Initial", z)
      BY <2>2 DEF UpdateInitial
    <3>2. Good(ro')
      BY <1>1, <3>1, Parts, UpdateGood DEF UpdateType
    <3>3. /\ ro'.here = z /\ ro'.base = z /\ ro'.cand = NoVal
          /\ ro'.solves = 0 /\ ro'.fresh = ro.fresh
          /\ ro'.state = ObjectiveUpdate(ro.state, "Initial")
      BY <3>1, Parts, UpdateFields DEF UpdateType, BaseAfter, CandAfter
    <3>4. ActiveTier(ro'.state) = "main"
      BY <3>3, Parts, UpdateTiers DEF UpdateType
    <3>5. QED BY <3>2, <3>3, <3>4
  <2>3. QED BY <2>1, <2>2
<1>3. /\ here' = z /\ base' = z /\ cand' = NoVal /\ at' = "base"
      /\ known' = [w \in Memo!Where |-> {}]
  BY <1>1 DEF Memo!Start
<1>4. TypeOK'
  BY <1>2, <1>3 DEF TypeOK, Memo!Where, Content, Good
<1>5. Paid' /\ Forgotten'
  BY <1>3 DEF Paid, Forgotten, Memo!Where
<1>6. SamePoints' /\ Placed'
  BY <1>2, <1>3 DEF SamePoints, Placed
<1>7. QED BY <1>2, <1>4, <1>5, <1>6 DEF IInv

(* A trial point: nothing is known of it, and the iterate's tier stays.    *)
LEMMA TrialHolds ==
  ASSUME IInv, Prompt, NEW z \in Val, UpdateTrial(z)
  PROVE  IInv' /\ ro'.solves = 0
<1>1. MayMiss(ro) /\ Memo!Try(z) /\ ro' = Update(ro, "Trial", z)
  BY DEF UpdateTrial, MayUpdate, MayMiss
<1>2. Good(ro')
  BY <1>1, Parts, UpdateGood DEF UpdateType
<1>3. /\ ro'.here = z /\ ro'.base = base /\ ro'.cand = z
      /\ ro'.solves = 0 /\ ro'.fresh = ro.fresh
      /\ ro'.state = ObjectiveUpdate(ro.state, "Trial")
  BY <1>1, Parts, UpdateFields DEF UpdateType, BaseAfter, CandAfter
<1>4. /\ ActiveTier(ro'.state) = "trial"
      /\ ro'.state.tier["main"] = ro.state.tier["main"]
  BY <1>3, Parts, UpdateTiers DEF UpdateType
<1>5. /\ base # NoVal /\ here' = z /\ base' = base /\ cand' = z /\ at' = "cand"
      /\ known' = [known EXCEPT !["cand"] = {}, !["probe"] = {}]
  BY <1>1 DEF Memo!Try
<1>6. /\ known' \in [Memo!Where -> SUBSET Key]
      /\ known'["base"] = known["base"] /\ known'["cand"] = {} /\ known'["probe"] = {}
  BY <1>5, Parts DEF Memo!Where
<1>7. TypeOK'
  BY <1>2, <1>5, <1>6 DEF IInv, TypeOK, Memo!Where, Content, Good
<1>8. Paid' /\ Forgotten'
  BY <1>4, <1>5, <1>6 DEF Paid, Forgotten, IInv
<1>9. SamePoints' /\ Placed'
  BY <1>3, <1>4, <1>5 DEF SamePoints, Placed
<1>10. QED BY <1>2, <1>3, <1>7, <1>8, <1>9 DEF IInv

(* A temporary point: the tiers of the iterate and the candidate stay.     *)
LEMMA TempHolds ==
  ASSUME IInv, Prompt, NEW z \in Val, UpdateTemp(z)
  PROVE  IInv' /\ ro'.solves = 0
<1>1. MayMiss(ro) /\ Memo!Probe(z) /\ ro' = Update(ro, "Temp", z)
  BY DEF UpdateTemp, MayUpdate, MayMiss
<1>2. Good(ro')
  BY <1>1, Parts, UpdateGood DEF UpdateType
<1>3. /\ ro'.here = z /\ ro'.base = base /\ ro'.cand = cand
      /\ ro'.solves = 0 /\ ro'.fresh = ro.fresh
      /\ ro'.state = ObjectiveUpdate(ro.state, "Temp")
  BY <1>1, Parts, UpdateFields DEF UpdateType, BaseAfter, CandAfter
<1>4. /\ ActiveTier(ro'.state) = "temp"
      /\ ro'.state.tier["main"] = ro.state.tier["main"]
      /\ ro'.state.tier["trial"] = ro.state.tier["trial"]
  BY <1>3, Parts, UpdateTiers DEF UpdateType
<1>5. /\ base # NoVal /\ here' = z /\ base' = base /\ cand' = cand /\ at' = "probe"
      /\ known' = [known EXCEPT !["probe"] = {}]
  BY <1>1 DEF Memo!Probe
<1>6. /\ known' \in [Memo!Where -> SUBSET Key]
      /\ known'["base"] = known["base"] /\ known'["cand"] = known["cand"]
      /\ known'["probe"] = {}
  BY <1>5, Parts DEF Memo!Where
<1>7. TypeOK'
  BY <1>2, <1>5, <1>6 DEF IInv, TypeOK, Memo!Where, Content, Good
<1>8. Paid' /\ Forgotten'
  BY <1>4, <1>5, <1>6 DEF Paid, Forgotten, IInv
<1>9. SamePoints' /\ Placed'
  BY <1>3, <1>4, <1>5 DEF SamePoints, Placed
<1>10. QED BY <1>2, <1>3, <1>7, <1>8, <1>9 DEF IInv

(* Revert gives back all that was known of the iterate.                    *)
LEMMA RevertHolds ==
  ASSUME IInv, Prompt, UpdateRevert
  PROVE  IInv' /\ ro'.solves = 0
<1>1. MayMiss(ro) /\ Memo!GiveUp /\ ro' = Update(ro, "Revert", base)
  BY DEF UpdateRevert, MayUpdate, MayMiss
<1>2. /\ base # NoVal /\ here' = base /\ base' = base /\ cand' = NoVal /\ at' = "base"
      /\ known' = [w \in Memo!Where |-> IF w = "base" THEN known["base"] ELSE {}]
  BY <1>1 DEF Memo!GiveUp
<1>3. base \in Val
  BY <1>2 DEF IInv, TypeOK, Content
<1>4. Good(ro')
  BY <1>1, <1>3, Parts, UpdateGood DEF UpdateType
<1>5. /\ ro'.here = base /\ ro'.base = base /\ ro'.cand = NoVal
      /\ ro'.solves = 0 /\ ro'.fresh = ro.fresh
      /\ ro'.state = ObjectiveUpdate(ro.state, "Revert")
  BY <1>1, <1>3, Parts, UpdateFields DEF UpdateType, BaseAfter, CandAfter
<1>6. ActiveTier(ro'.state) = "main" /\ ro'.state.tier = ro.state.tier
  BY <1>5, Parts, UpdateTiers DEF UpdateType
<1>7. /\ known' \in [Memo!Where -> SUBSET Key]
      /\ known'["base"] = known["base"] /\ known'["cand"] = {} /\ known'["probe"] = {}
  BY <1>2, Parts DEF Memo!Where
<1>8. TypeOK'
  BY <1>2, <1>3, <1>4, <1>7 DEF TypeOK, Memo!Where, Content, Good
<1>9. Paid' /\ Forgotten'
  BY <1>6, <1>7 DEF Paid, Forgotten, IInv
<1>10. SamePoints' /\ Placed'
  BY <1>2, <1>5, <1>6 DEF SamePoints, Placed
<1>11. QED BY <1>4, <1>5, <1>8, <1>9, <1>10 DEF IInv

(* Accept promotes nothing that does not belong to the candidate, and all  *)
(* that was known of it.                                                   *)
LEMMA AcceptHolds ==
  ASSUME IInv, Prompt, UpdateAccept
  PROVE  IInv' /\ ro'.solves = 0
<1>1. MayMiss(ro) /\ Memo!Take /\ ro' = Update(ro, "Accept", cand)
  BY DEF UpdateAccept, MayUpdate, MayMiss
<1>2. /\ cand # NoVal /\ here' = cand /\ base' = cand /\ cand' = NoVal /\ at' = "base"
      /\ known' = [w \in Memo!Where |-> IF w = "base" THEN known["cand"] ELSE {}]
  BY <1>1 DEF Memo!Take
<1>3. cand \in Val
  BY <1>2 DEF IInv, TypeOK, Content
<1>4. AllPromotable(ro, cand)
  <2>1. /\ TiersMatch(ro.state, base, cand) /\ TiersMatch(ro.adjoint, base, cand)
        /\ TiersMatch(ro.con, base, cand) /\ TiersMatch(ro.obj, base, cand)
    BY <1>1, Parts, ToldTiers DEF Good, Matches
  <2>2. Complete(ro.state) /\ Complete(ro.adjoint) /\ Complete(ro.con) /\ Complete(ro.obj)
    BY DEF UpdateAccept
  <2>3. QED BY <1>2, <2>1, <2>2 DEF AllPromotable, Promotable, Complete, TiersMatch
<1>5. Good(ro')
  BY <1>1, <1>3, <1>4, Parts, UpdateGood DEF UpdateType
<1>6. /\ ro'.here = cand /\ ro'.base = cand /\ ro'.cand = NoVal
      /\ ro'.solves = 0 /\ ro'.fresh = ro.fresh
      /\ ro'.state = ObjectiveUpdate(ro.state, "Accept")
  BY <1>1, <1>3, Parts, UpdateFields DEF UpdateType, BaseAfter, CandAfter
<1>7. /\ ActiveTier(ro'.state) = "main"
      /\ \A k \in Key : ro'.state.tier["main"][k].flag <=> ro.state.tier["trial"][k].alloc
  BY <1>6, Parts, UpdateTiers DEF UpdateType
<1>8. /\ known' \in [Memo!Where -> SUBSET Key]
      /\ known'["base"] = known["cand"] /\ known'["cand"] = {} /\ known'["probe"] = {}
  BY <1>2, Parts DEF Memo!Where
<1>9. TypeOK'
  BY <1>2, <1>3, <1>5, <1>8 DEF TypeOK, Memo!Where, Content, Good
<1>10. Paid' /\ Forgotten'
  BY <1>7, <1>8, Parts DEF Paid, Forgotten, IInv, Honest, Tier
<1>11. SamePoints' /\ Placed'
  BY <1>2, <1>6, <1>7 DEF SamePoints, Placed
<1>12. QED BY <1>5, <1>6, <1>9, <1>10, <1>11 DEF IInv

(* An evaluation is fresh and, for a sample known here, solves nothing.    *)
LEMMA EvaluateHolds ==
  ASSUME IInv, NEW k \in Key, Evaluate(k)
  PROVE  IInv' /\ (Storage /\ known' = known => ro'.solves = ro.solves)
<1>1. /\ here # NoVal /\ here \in Val
      /\ known' = [known EXCEPT ![at] = @ \cup {k}]
      /\ here' = here /\ base' = base /\ cand' = cand /\ at' = at
  BY DEF Evaluate, Memo!Learn, IInv, TypeOK, Content
<1>2. Evaluated(ro, ro', k, here)
  BY <1>1, Parts, ValueGood, GradientGood DEF Evaluate
<1>3. /\ Good(ro') /\ ro'.here = here /\ ro'.base = base /\ ro'.cand = cand
      /\ ro'.fresh = ro.fresh
      /\ ActiveTier(ro'.state) = ActiveTier(ro.state)
      /\ \A t \in Tier, j \in Key :
           ro.state.tier[t][j].flag => ro'.state.tier[t][j].flag
      /\ Storage => ro'.state.tier[ActiveTier(ro.state)][k].flag
      /\ Storage /\ ro.state.tier[ActiveTier(ro.state)][k].flag => ro'.solves = ro.solves
  <2>1. /\ Good(ro') /\ ro'.here = here /\ ro'.base = base /\ ro'.cand = cand
        /\ ro'.fresh = ro.fresh
        /\ Grows(ro.state, ro'.state, k)
        /\ Storage => IsComputed(ro'.state, k)
        /\ Storage /\ IsComputed(ro.state, k) => ro'.solves = ro.solves
    BY <1>2, Parts DEF Evaluated
  <2>2. /\ ActiveTier(ro'.state) = ActiveTier(ro.state)
        /\ \A t \in Tier, j \in Key :
             ro.state.tier[t][j].flag => ro'.state.tier[t][j].flag
    BY <2>1 DEF Grows
  <2>3. QED BY <2>1, <2>2 DEF IsComputed, SlotOf
<1>4. /\ ActiveTier(ro.state) \in Tier
      /\ at = "base" <=> ActiveTier(ro.state) = "main"
      /\ at = "cand" <=> ActiveTier(ro.state) = "trial"
      /\ at = "probe" <=> ActiveTier(ro.state) = "temp"
  BY ActiveTierType DEF IInv, Placed, Tier
<1>5. /\ at \in Memo!Where /\ known' \in [Memo!Where -> SUBSET Key]
      /\ \A w \in Memo!Where \ {at} : known'[w] = known[w]
      /\ known'[at] = known[at] \cup {k}
  BY <1>1, Parts DEF IInv, TypeOK
<1>6. TypeOK'
  BY <1>1, <1>3, <1>5 DEF IInv, TypeOK, Good
<1>7. Paid' /\ Forgotten'
  BY <1>1, <1>3, <1>4, <1>5, Parts DEF IInv, Paid, Forgotten, Memo!Where, Tier
<1>8. SamePoints' /\ Placed'
  BY <1>1, <1>3 DEF IInv, SamePoints, Placed
<1>9. Storage /\ known' = known => ro'.solves = ro.solves
  <2> SUFFICES ASSUME Storage, known' = known PROVE ro.state.tier[ActiveTier(ro.state)][k].flag
    BY <1>3
  <2>1. k \in known[at]
    BY <1>5
  <2>2. QED BY <1>4, <1>5, <2>1 DEF IInv, Paid, Memo!Where, Tier
<1>10. QED BY <1>3, <1>6, <1>7, <1>8, <1>9 DEF IInv

(* So is a finite-difference Hessian, whatever points it visits.           *)
LEMMA EvaluateFDHolds ==
  ASSUME IInv, NEW k \in Key, EvaluateFD(k)
  PROVE  IInv' /\ (Storage /\ known' = known => ro'.solves = ro.solves)
<1>1. /\ at = "base" /\ here # NoVal /\ here \in Val /\ here = base /\ cand = NoVal
      /\ known' = [known EXCEPT !["base"] = @ \cup {k}]
      /\ here' = here /\ base' = base /\ cand' = cand /\ at' = at
  BY DEF EvaluateFD, Memo!Learn, IInv, TypeOK, Content, Placed
<1>2. PICK z \in Val : ro' = FDHessVec(ro, k, here, z)
  BY DEF EvaluateFD
<1>3. ActiveTier(ro.state) = "main"
  BY <1>1, ActiveTierType DEF IInv, Placed, Tier
<1>4. /\ Good(ro') /\ ro'.fresh = ro.fresh
      /\ ro'.here = here /\ ro'.base = here /\ ro'.cand = NoVal
      /\ ActiveTier(ro'.state) = "main"
      /\ \A j \in Key : ro.state.tier["main"][j].flag => ro'.state.tier["main"][j].flag
      /\ Storage => ro'.state.tier["main"][k].flag
      /\ Storage /\ ro.state.tier["main"][k].flag => ro'.solves = ro.solves
  BY <1>1, <1>2, <1>3, Parts, FDHessVecGood
<1>5. /\ known' \in [Memo!Where -> SUBSET Key]
      /\ known'["cand"] = known["cand"] /\ known'["probe"] = known["probe"]
      /\ known'["base"] = known["base"] \cup {k}
  BY <1>1, Parts DEF Memo!Where
<1>6. TypeOK'
  BY <1>1, <1>4, <1>5 DEF IInv, TypeOK, Good
<1>7. Paid' /\ Forgotten'
  BY <1>1, <1>4, <1>5, Parts DEF IInv, Paid, Forgotten
<1>8. SamePoints' /\ Placed'
  BY <1>1, <1>3, <1>4 DEF SamePoints, Placed, IInv
<1>9. Storage /\ known' = known => ro'.solves = ro.solves
  BY <1>4, <1>5 DEF IInv, Paid
<1>10. QED BY <1>4, <1>6, <1>7, <1>8, <1>9 DEF IInv

-----------------------------------------------------------------------------
(* The invariant is inductive.                                             *)
LEMMA NextHolds == ASSUME Prompt, IInv, [Next]_vars PROVE IInv'
<1>1. CASE \E z \in Val : UpdateInitial(z) \/ UpdateFlag(z)
  BY <1>1, StartHolds
<1>2. CASE \E z \in Val : UpdateTrial(z) \/ UpdateTemp(z)
  BY <1>2, TrialHolds, TempHolds
<1>3. CASE UpdateAccept \/ UpdateRevert
  BY <1>3, AcceptHolds, RevertHolds
<1>4. CASE \E k \in Key : Evaluate(k) \/ EvaluateFD(k)
  BY <1>4, EvaluateHolds, EvaluateFDHolds
<1>5. CASE UNCHANGED vars
  BY <1>5 DEF vars, IInv, TypeOK, SamePoints, Placed, Forgotten, Paid
<1>6. QED BY <1>1, <1>2, <1>3, <1>4, <1>5 DEF Next

(* The reduced objective, its stores and its inner problem stay in order   *)
(* under the protocol, and nothing that has been paid for is lost.         *)
THEOREM InvariantOfProtocol == ASSUME Prompt PROVE Spec => []IInv
  BY InitHolds, NextHolds, PTL DEF Spec

(* TypeOK of ReducedProtocol.                                              *)
THEOREM TypeCorrect == ASSUME Prompt PROVE Spec => []TypeOK
  BY InvariantOfProtocol, PTL DEF IInv

(* Every value, gradient and Hessian that is returned belongs to the point *)
(* it was asked for, for any number of samples and of points.              *)
THEOREM Fresh == ASSUME Prompt PROVE Spec => []AnswersAreFresh
  BY InvariantOfProtocol, PTL DEF IInv, AnswersAreFresh

(* The state equation is solved once per point and sample.                 *)
THEOREM SolvedOnce == ASSUME Prompt PROVE Spec => OneSolvePerPoint
<1>1. ASSUME IInv, [Next]_vars, Storage, known' = known
      PROVE  ro'.solves <= ro.solves
  <2>1. ro.solves \in Nat
    BY <1>1, Parts DEF MaxSolves
  <2>2. CASE \E z \in Val : \/ UpdateInitial(z) \/ UpdateFlag(z)
                           \/ UpdateTrial(z) \/ UpdateTemp(z)
    BY <1>1, <2>1, <2>2, StartHolds, TrialHolds, TempHolds
  <2>3. CASE UpdateAccept \/ UpdateRevert
    BY <1>1, <2>1, <2>3, AcceptHolds, RevertHolds
  <2>4. CASE \E k \in Key : Evaluate(k) \/ EvaluateFD(k)
    BY <1>1, <2>1, <2>4, EvaluateHolds, EvaluateFDHolds
  <2>5. CASE UNCHANGED vars
    BY <2>1, <2>5 DEF vars
  <2>6. QED BY <1>1, <2>2, <2>3, <2>4, <2>5 DEF Next
<1>2. IInv /\ [Next]_vars => [Storage /\ known' = known => ro'.solves <= ro.solves]_vars
  BY <1>1
<1>3. QED BY <1>2, InvariantOfProtocol, PTL DEF Spec, OneSolvePerPoint
=============================================================================
