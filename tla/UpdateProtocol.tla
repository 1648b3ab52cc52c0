--------------------------- MODULE UpdateProtocol ---------------------------
(***************************************************************************)
(* A VectorController driven by any objective and any optimizer that keep  *)
(* the protocol of ROL::UpdateType: Accept and Trial come in that order,   *)
(* Accept at the point of the last Trial, Revert at the iterate, Temp      *)
(* anywhere.  Between two updates the objective evaluates any of its keys, *)
(* looking in the controller first and storing what it had to compute.  A  *)
(* computation may throw; the exception reaches the optimizer, which may   *)
(* go on with any update, or ask again.                                    *)
(*                                                                         *)
(* A stored vector is represented by the point it was computed at, so that *)
(* a stale answer is one whose value is not `here`.                        *)
(***************************************************************************)
EXTENDS VectorController

(* TRUE: a candidate is accepted only when every key the trial tier holds  *)
(* has been recomputed since the last Trial update.  FALSE: whatever the   *)
(* comments of UpdateType allow.                                           *)
CONSTANT CompleteTrials

ASSUME CompleteTrialsAssumption == CompleteTrials \in BOOLEAN

VARIABLES
  store,   (* the controller                                               *)
  here,    (* point of the last update, where evaluations happen           *)
  base,    (* the iterate: point of the last Initial or Accept             *)
  cand,    (* point of the last Trial not yet accepted or reverted         *)
  torn     (* history: the keys that a computation in place was broken off *)
           (* for, at the iterate, at the candidate and at a probe         *)

vars == <<store, here, base, cand, torn>>

Place == {"base", "cand", "probe"}

Unbroken == [w \in Place |-> {}]

(* Which of the three the controller is switched to.                       *)
At ==
  CASE ActiveTier(store) = "main"  -> "base"
    [] ActiveTier(store) = "trial" -> "cand"
    [] ActiveTier(store) = "temp"  -> "probe"

Init ==
  /\ store = NewController
  /\ here = NoVal /\ base = NoVal /\ cand = NoVal
  /\ torn = Unbroken

-----------------------------------------------------------------------------
(* The optimizer's updates, as they reach the controller.                  *)

UpdateInitial(z) ==
  /\ store' = ObjectiveUpdate(store, "Initial")
  /\ here' = z /\ base' = z /\ cand' = NoVal
  /\ torn' = Unbroken

UpdateFlag(z) ==
  /\ store' = ObjectiveUpdateFlag(store, TRUE)
  /\ here' = z /\ base' = z /\ cand' = NoVal
  /\ torn' = Unbroken

UpdateTrial(z) ==
  /\ base # NoVal
  /\ store' = ObjectiveUpdate(store, "Trial")
  /\ here' = z /\ cand' = z
  /\ torn' = [torn EXCEPT !["cand"] = {}, !["probe"] = {}]
  /\ UNCHANGED base

TrialIsComplete ==
  \A k \in Key : store.tier["trial"][k].alloc => store.tier["trial"][k].flag

UpdateAccept ==
  /\ cand # NoVal
  /\ CompleteTrials => TrialIsComplete
  /\ store' = ObjectiveUpdate(store, "Accept")
  /\ here' = cand /\ base' = cand /\ cand' = NoVal
  /\ torn' = [Unbroken EXCEPT !["base"] = torn["cand"]]

UpdateRevert ==
  /\ base # NoVal
  /\ store' = ObjectiveUpdate(store, "Revert")
  /\ here' = base /\ cand' = NoVal
  /\ torn' = [Unbroken EXCEPT !["base"] = torn["base"]]
  /\ UNCHANGED base

UpdateTemp(z) ==
  /\ base # NoVal
  /\ store' = ObjectiveUpdate(store, "Temp")
  /\ here' = z
  /\ torn' = [torn EXCEPT !["probe"] = {}]
  /\ UNCHANGED <<base, cand>>

(* The objective evaluates key k: it copies the vector out of the store,   *)
(* or computes it and copies it in.                                        *)
EvaluateByCopy(k) ==
  /\ here # NoVal
  /\ store' = IF IsComputed(store, k) THEN Allocate(store, k)
              ELSE Set(Allocate(store, k), k, here)
  /\ UNCHANGED <<here, base, cand, torn>>

(* Faulty variant: isNull is not asked, and set(k) does not mind.          *)
FillUnallocated(s, k, v) == Overwrite(Claim(s, k), k, v)

(* The same with the vector filled where it lies: isNull, allocate, set(k) *)
(* and the computation, in the order getObjectiveGradient calls them, so   *)
(* that the vector is marked computed before it is.                        *)
FillInPlace(s, k, v) ==
  LET a == IF IsNull(s, k) THEN Allocate(s, k) ELSE s
  IN Overwrite(Claim(a, k), k, v)

EvaluateInPlace(k) ==
  /\ here # NoVal /\ ~IsComputed(store, k)
  /\ store' = FillInPlace(store, k, here)
  /\ UNCHANGED <<here, base, cand, torn>>

(* The computation throws. The vector holds what it held before, all of    *)
(* the result, or neither, and is marked computed all the same.            *)
ThrowInPlace(k) ==
  /\ here # NoVal /\ ~IsComputed(store, k)
  /\ \E v \in {Peek(store, k), here, NoVal} : store' = FillInPlace(store, k, v)
  /\ torn' = [torn EXCEPT ![At] = @ \cup {k}]
  /\ UNCHANGED <<here, base, cand>>

(* A look into the store that is not followed by a computation, such as    *)
(* one whose solve threw: get() leaves a slot behind.                      *)
LookUp(k) ==
  /\ here # NoVal
  /\ store' = Allocate(store, k)
  /\ UNCHANGED <<here, base, cand, torn>>

Next ==
  \/ \E z \in Val : \/ UpdateInitial(z) \/ UpdateFlag(z)
                    \/ UpdateTrial(z) \/ UpdateTemp(z)
  \/ UpdateAccept \/ UpdateRevert
  \/ \E k \in Key : \/ EvaluateByCopy(k) \/ LookUp(k)
                    \/ EvaluateInPlace(k) \/ ThrowInPlace(k)

Spec == Init /\ [][Next]_vars

-----------------------------------------------------------------------------
Marked(t) == {k \in Key : store.tier[t][k].flag}

(* All a tier marks computed was computed at z, but what was broken off.   *)
Holds(t, w, z) == \A k \in Marked(t) \ torn[w] : store.tier[t][k].val = z

(* Types; and no tier marks computed what it has no vector for.            *)
TypeOK ==
  /\ store \in Controller
  /\ here \in Content /\ base \in Content /\ cand \in Content
  /\ torn \in [Place -> SUBSET Key]
  /\ \A t \in Tier : \A k \in Marked(t) : store.tier[t][k].alloc

(* The inductive invariant: the tier that answers is the one of the point  *)
(* asked about, and each tier's computed slots belong to its point, but    *)
(* those of a computation broken off at that very point.                   *)
Coherent ==
  /\ ActiveTier(store) = "main"  => here = base
  /\ ActiveTier(store) = "trial" => here = cand /\ cand # NoVal
  /\ ActiveTier(store) = "temp"  => here # NoVal
  /\ cand # NoVal => base # NoVal
  /\ ~store.conUpdated
  /\ Holds("main", "base", base)
  /\ cand # NoVal => Holds("trial", "cand", cand)
  /\ store.temp => Holds("temp", "probe", here)

(* What the controller reports as computed was computed at the point the   *)
(* optimizer stands at, however trials, reverts, probes and evaluations    *)
(* were interleaved, unless its computation in place threw at this point:  *)
(* an exception at a trial or temporary point is forgotten with a Revert,  *)
(* and one at an earlier iterate with the point.  (get and isComputed as   *)
(* used in solve_state_equation and getObjectiveGradient.)                 *)
NoStaleRead ==
  here # NoVal => \A k \in Key \ torn[At] : IsComputed(store, k) => SlotOf(store, k).val = here

(* The price of set(k) raising the flag first: what threw is not computed  *)
(* again, as long as its point is kept, be it over trials, probes and an   *)
(* Accept; asking again is answered with what the exception left.          *)
BrokenIsNotRetried ==
  here # NoVal => \A k \in torn[At] : IsComputed(store, k)

(* A Revert or an Accept never discards what is known of the point it      *)
(* moves to: the state solve of a rejected or accepted step is not redone. *)
NothingRecomputed ==
  [][ /\ (UpdateRevert /\ base # NoVal) =>
           \A k \in Key : store.tier["main"][k].flag => IsComputed(store', k)
      /\ UpdateAccept =>
           \A k \in Key : store.tier["trial"][k].flag => IsComputed(store', k) ]_vars

(* The mapping to IterateMemo, which knows nothing of what was broken off. *)
MemoKnown ==
  [w \in Place |->
     CASE w = "base"  -> (IF base = NoVal THEN {} ELSE Marked("main")) \ torn[w]
       [] w = "cand"  -> (IF cand = NoVal THEN {} ELSE Marked("trial")) \ torn[w]
       [] w = "probe" -> (IF store.temp THEN Marked("temp") ELSE {}) \ torn[w]]

Memo == INSTANCE IterateMemo WITH
  Point <- Val, NoPoint <- NoVal, at <- At, known <- MemoKnown

(* Refinement: every behaviour of the controller under the protocol, with  *)
(* complete trials, is one of the ideal memo: it neither answers from the  *)
(* wrong point nor forgets what it should still know.  An exception is a   *)
(* step in which the memo learns nothing.                                  *)
ImplementsMemo == Memo!Spec
=============================================================================
