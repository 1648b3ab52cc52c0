------------------------- MODULE SharedStore_proofs -------------------------
(***************************************************************************)
(* Proofs about a VectorController under the protocol of UpdateType, for   *)
(* every set of keys and every set of points: first with one client        *)
(* (UpdateProtocol), then shared by an objective and at most one           *)
(* constraint (SharedStore).  With two constraints the pairing of updates  *)
(* gets out of step, and the theorems on sharing are false.                *)
(***************************************************************************)
EXTENDS SharedStore, Stores_proofs, TLAPS

-----------------------------------------------------------------------------
(* Filling a vector in place: the slot counts as computed, whatever was    *)
(* written, and no other is touched.                                       *)
LEMMA FillInPlaceFacts ==
  ASSUME store \in Controller, NEW k \in Key, NEW v \in Content
  PROVE  LET r == FillInPlace(store, k, v)
             a == ActiveTier(store) IN
         /\ r \in Controller
         /\ r.temp = store.temp /\ r.trial = store.trial /\ r.conUpdated = store.conUpdated
         /\ r.tier[a][k] = Written(v)
         /\ \A t \in Tier, j \in Key : t # a \/ j # k => r.tier[t][j] = store.tier[t][j]
<1> DEFINE a == ActiveTier(store)
           Same(s) == /\ s \in Controller /\ s.temp = store.temp /\ s.trial = store.trial
                      /\ s.conUpdated = store.conUpdated /\ ActiveTier(s) = a
                      /\ \A t \in Tier, j \in Key :
                           t # a \/ j # k => s.tier[t][j] = store.tier[t][j]
<1>1. PICK m : Same(m) /\ m.tier[a][k].alloc /\ FillInPlace(store, k, v) = Overwrite(Claim(m, k), k, v)
  <2>1. CASE IsNull(store, k)
    <3>1. FillInPlace(store, k, v) = Overwrite(Claim(Allocate(store, k), k), k, v)
      BY <2>1 DEF FillInPlace
    <3>2. Same(Allocate(store, k)) /\ Allocate(store, k).tier[a][k].alloc
      BY AllocateFacts
    <3>3. QED BY <3>1, <3>2
  <2>2. CASE ~IsNull(store, k)
    <3>1. FillInPlace(store, k, v) = Overwrite(Claim(store, k), k, v)
      BY <2>2 DEF FillInPlace
    <3>2. Same(store) /\ store.tier[a][k].alloc
      BY <2>2 DEF IsNull, SlotOf
    <3>3. QED BY <3>1, <3>2
  <2>3. QED BY <2>1, <2>2
<1> DEFINE claimed == [SlotOf(m, k) EXCEPT !.flag = TRUE]
           c == Fill(m, k, claimed)
           filled == [SlotOf(c, k) EXCEPT !.val = v]
<1>2. SlotOf(m, k) \in Slot /\ SlotOf(m, k).alloc
  BY <1>1, ActiveTierType DEF SlotOf, Controller
<1>3. claimed \in Slot /\ claimed.alloc /\ claimed.flag
  BY <1>2 DEF Slot
<1> HIDE DEF claimed
<1>4. Same(c) /\ SlotOf(c, k) = claimed
  BY <1>1, <1>3, FillFacts DEF SlotOf
<1>5. Claim(m, k) = c
  BY DEF Claim, claimed
<1> HIDE DEF c
<1>6. filled = Written(v)
  <2>1. claimed.alloc = TRUE /\ claimed.flag = TRUE
    BY <1>3 DEF Slot
  <2>2. PICK al \in BOOLEAN, fl \in BOOLEAN, c0 \in Content :
          claimed = [alloc |-> al, flag |-> fl, val |-> c0]
    BY <1>3 DEF Slot
  <2>3. [claimed EXCEPT !.val = v] = [alloc |-> al, flag |-> fl, val |-> v]
    BY <2>2
  <2>4. al = TRUE /\ fl = TRUE
    BY <2>1, <2>2
  <2>5. QED BY <1>4, <2>3, <2>4 DEF Written
<1>7. FillInPlace(store, k, v) = Fill(c, k, Written(v))
  BY <1>1, <1>5, <1>6 DEF Overwrite
<1>8. QED BY <1>4, <1>7, WrittenFacts, FillFacts

(* An evaluation leaves all but one slot alone. That one is as it was, but *)
(* perhaps allocated, or was not computed and now holds what was written.  *)
Evaluation(k) == EvaluateByCopy(k) \/ EvaluateInPlace(k) \/ ThrowInPlace(k) \/ LookUp(k)

LEMMA EvaluateFacts ==
  ASSUME store \in Controller, here \in Content, NEW k \in Key, Evaluation(k)
  PROVE  /\ store' \in Controller
         /\ store'.temp = store.temp /\ store'.trial = store.trial
         /\ store'.conUpdated = store.conUpdated
         /\ \A t \in Tier, j \in Key :
              t # ActiveTier(store) \/ j # k => store'.tier[t][j] = store.tier[t][j]
         /\ here # NoVal /\ UNCHANGED <<here, base, cand>>
         /\ LET old == store.tier[ActiveTier(store)][k]
                new == store'.tier[ActiveTier(store)][k]
            IN \/ new.alloc /\ new.flag = old.flag /\ new.val = old.val /\ torn' = torn
               \/ /\ ~old.flag
                  /\ \E v \in Content : new = Written(v)
                                        /\ \/ v = here /\ torn' = torn
                                           \/ torn' = [torn EXCEPT ![At] = @ \cup {k}]
<1> DEFINE a == ActiveTier(store)
           st == Allocate(store, k)
<1>0. here # NoVal /\ UNCHANGED <<here, base, cand>>
  BY DEF Evaluation, EvaluateByCopy, EvaluateInPlace, ThrowInPlace, LookUp
<1>1. /\ st \in Controller /\ st.temp = store.temp /\ st.trial = store.trial
      /\ st.conUpdated = store.conUpdated /\ ActiveTier(st) = a
      /\ st.tier[a][k].alloc
      /\ st.tier[a][k].flag = store.tier[a][k].flag
      /\ st.tier[a][k].val = store.tier[a][k].val
      /\ \A t \in Tier, j \in Key : t # a \/ j # k => st.tier[t][j] = store.tier[t][j]
  BY AllocateFacts
<1>2. Written(here) \in Slot /\ Peek(store, k) \in Content /\ NoVal \in Content
  BY WrittenFacts, ActiveTierType DEF Peek, SlotOf, Controller, Slot, Content
<1>3. CASE store' = st /\ torn' = torn
  BY <1>0, <1>1, <1>3
<1>4. CASE ~IsComputed(store, k) /\ store' = Set(st, k, here) /\ torn' = torn
  <2>1. store' = Fill(st, k, Written(here))
    BY <1>4 DEF Set
  <2>2. /\ store' \in Controller /\ store'.temp = store.temp /\ store'.trial = store.trial
        /\ store'.conUpdated = store.conUpdated
        /\ store'.tier[a][k] = Written(here)
        /\ \A t \in Tier, j \in Key : t # a \/ j # k => store'.tier[t][j] = store.tier[t][j]
    BY <1>1, <1>2, <2>1, FillFacts
  <2>3. ~store.tier[a][k].flag
    BY <1>4 DEF IsComputed, SlotOf
  <2>4. QED BY <1>0, <1>4, <2>2, <2>3
<1>5. ASSUME NEW v \in Content, ~IsComputed(store, k), store' = FillInPlace(store, k, v),
             \/ v = here /\ torn' = torn
             \/ torn' = [torn EXCEPT ![At] = @ \cup {k}]
      PROVE  /\ store' \in Controller
             /\ store'.temp = store.temp /\ store'.trial = store.trial
             /\ store'.conUpdated = store.conUpdated
             /\ \A t \in Tier, j \in Key : t # a \/ j # k => store'.tier[t][j] = store.tier[t][j]
             /\ ~store.tier[a][k].flag /\ store'.tier[a][k] = Written(v)
  BY <1>5, FillInPlaceFacts DEF IsComputed, SlotOf
<1>6. CASE EvaluateByCopy(k)
  BY <1>3, <1>4, <1>6 DEF EvaluateByCopy
<1>7. CASE EvaluateInPlace(k)
  BY <1>0, <1>5, <1>7 DEF EvaluateInPlace
<1>8. CASE ThrowInPlace(k)
  <2>1. PICK v \in Content : store' = FillInPlace(store, k, v)
    BY <1>2, <1>8 DEF ThrowInPlace
  <2>2. ~IsComputed(store, k) /\ torn' = [torn EXCEPT ![At] = @ \cup {k}]
    BY <1>8 DEF ThrowInPlace
  <2>3. QED BY <1>0, <1>5, <2>1, <2>2
<1>9. CASE LookUp(k)
  BY <1>3, <1>9 DEF LookUp
<1>10. QED BY <1>6, <1>7, <1>8, <1>9 DEF Evaluation

-----------------------------------------------------------------------------
(* The invariant of the protocol.  An Accept promotes what the trial tier  *)
(* holds, computed or not, so that flags mean something only for a client  *)
(* that completes its trials.  The rest of the argument is that each tier  *)
(* belongs to one point; and since a broken computation left its flag up,  *)
(* its key is among those its point's tier marks, and never filled again.  *)

BrokenAreMarked ==
  /\ torn["base"] \subseteq Marked("main")
  /\ cand # NoVal => torn["cand"] \subseteq Marked("trial")
  /\ store.temp => torn["probe"] \subseteq Marked("temp")

IInv == TypeOK /\ Coherent /\ BrokenAreMarked

(* The invariant holds of a new controller.                                *)
LEMMA InitInv == Init => IInv
<1> SUFFICES ASSUME Init PROVE IInv
  OBVIOUS
<1>1. store \in Controller /\ here = NoVal /\ base = NoVal /\ cand = NoVal
  BY NewControllerType DEF Init
<1>2. /\ ~store.temp /\ ~store.trial /\ ~store.conUpdated
      /\ \A t \in Tier, k \in Key : ~store.tier[t][k].flag
  BY DEF Init, NewController, Absent
<1>3. torn = Unbroken /\ torn \in [Place -> SUBSET Key]
  BY DEF Init, Unbroken
<1>4. TypeOK
  BY <1>1, <1>2, <1>3 DEF TypeOK, Marked, Content
<1>5. Coherent
  BY <1>1, <1>2 DEF Coherent, ActiveTier, Holds, Marked, Tier
<1>6. BrokenAreMarked
  BY <1>1, <1>2, <1>3 DEF BrokenAreMarked, Unbroken, Place
<1>7. QED BY <1>4, <1>5, <1>6 DEF IInv

(* An update that starts at a new iterate, either form of it.              *)
LEMMA StartFacts ==
  ASSUME IInv, NEW z \in Val, UpdateInitial(z) \/ UpdateFlag(z)
  PROVE  /\ store' \in Controller /\ ~store'.temp /\ ~store'.trial /\ ~store'.conUpdated
         /\ store'.tier["main"] = Lower(store.tier["main"])
         /\ store'.tier["trial"] = store.tier["trial"]
         /\ store'.tier["temp"] = store.tier["temp"]
         /\ Marked("main")' = {}
         /\ here' = z /\ base' = z /\ cand' = NoVal /\ torn' = Unbroken
<1>1. store \in Controller /\ ~store.conUpdated /\ store.tier["main"] \in [Key -> Slot]
  BY DEF IInv, TypeOK, Coherent, Controller, Tier
<1>2. /\ store' \in Controller /\ ~store'.temp /\ ~store'.trial /\ ~store'.conUpdated
      /\ store'.tier["main"] = Lower(store.tier["main"])
      /\ store'.tier["trial"] = store.tier["trial"]
      /\ store'.tier["temp"] = store.tier["temp"]
  <2>1. CASE store' = ObjectiveUpdate(store, "Initial")
    BY <1>1, <2>1, SwitchInitial, ObjectiveUpdateFacts DEF UpdateType
  <2>2. CASE store' = ObjectiveUpdateFlag(store, TRUE)
    <3>1. LET q == Switch(store, "Initial") IN
          /\ store' \in Controller /\ store'.tier = q.tier
          /\ store'.temp = q.temp /\ store'.trial = q.trial /\ ~store'.conUpdated
      BY <1>1, <2>2, ObjectiveUpdateFlagFacts
    <3>2. QED BY <1>1, <3>1, SwitchInitial
  <2>3. QED BY <2>1, <2>2 DEF UpdateInitial, UpdateFlag
<1>3. Marked("main")' = {}
  BY <1>1, <1>2, LowerFacts DEF Marked
<1>4. here' = z /\ base' = z /\ cand' = NoVal /\ torn' = Unbroken
  BY DEF UpdateInitial, UpdateFlag
<1>5. QED BY <1>2, <1>3, <1>4

(* A trial, a probe, an Accept and a Revert, likewise.                     *)
LEMMA TrialFacts ==
  ASSUME IInv, NEW z \in Val, UpdateTrial(z)
  PROVE  /\ store' \in Controller /\ ~store'.temp /\ store'.trial /\ ~store'.conUpdated
         /\ store'.tier["trial"] = Lower(store.tier["trial"])
         /\ store'.tier["main"] = store.tier["main"]
         /\ store'.tier["temp"] = store.tier["temp"]
         /\ Marked("trial")' = {} /\ Marked("main")' = Marked("main")
         /\ base # NoVal /\ z # NoVal /\ here' = z /\ base' = base /\ cand' = z
         /\ torn' = [torn EXCEPT !["cand"] = {}, !["probe"] = {}]
<1>1. store \in Controller /\ ~store.conUpdated /\ store.tier["trial"] \in [Key -> Slot]
  BY DEF IInv, TypeOK, Coherent, Controller, Tier
<1>2. /\ store' \in Controller /\ ~store'.temp /\ store'.trial /\ ~store'.conUpdated
      /\ store'.tier["trial"] = Lower(store.tier["trial"])
      /\ store'.tier["main"] = store.tier["main"]
      /\ store'.tier["temp"] = store.tier["temp"]
  BY <1>1, SwitchTrial, ObjectiveUpdateFacts DEF UpdateTrial, UpdateType
<1>3. Marked("trial")' = {} /\ Marked("main")' = Marked("main")
  BY <1>1, <1>2, LowerFacts DEF Marked
<1>4. QED BY <1>2, <1>3, NoValAssumption DEF UpdateTrial

LEMMA TempFacts ==
  ASSUME IInv, NEW z \in Val, UpdateTemp(z)
  PROVE  /\ store' \in Controller /\ store'.temp /\ ~store'.trial /\ ~store'.conUpdated
         /\ store'.tier["temp"] = Lower(store.tier["temp"])
         /\ store'.tier["main"] = store.tier["main"]
         /\ store'.tier["trial"] = store.tier["trial"]
         /\ Marked("temp")' = {} /\ Marked("main")' = Marked("main")
         /\ Marked("trial")' = Marked("trial")
         /\ base # NoVal /\ z # NoVal /\ here' = z /\ base' = base /\ cand' = cand
         /\ torn' = [torn EXCEPT !["probe"] = {}]
<1>1. store \in Controller /\ ~store.conUpdated /\ store.tier["temp"] \in [Key -> Slot]
  BY DEF IInv, TypeOK, Coherent, Controller, Tier
<1>2. /\ store' \in Controller /\ store'.temp /\ ~store'.trial /\ ~store'.conUpdated
      /\ store'.tier["temp"] = Lower(store.tier["temp"])
      /\ store'.tier["main"] = store.tier["main"]
      /\ store'.tier["trial"] = store.tier["trial"]
  BY <1>1, SwitchTemp, ObjectiveUpdateFacts DEF UpdateTemp, UpdateType
<1>3. /\ Marked("temp")' = {} /\ Marked("main")' = Marked("main")
      /\ Marked("trial")' = Marked("trial")
  BY <1>1, <1>2, LowerFacts DEF Marked
<1>4. QED BY <1>2, <1>3, NoValAssumption DEF UpdateTemp

LEMMA AcceptFacts ==
  ASSUME CompleteTrials, IInv, UpdateAccept
  PROVE  /\ store' \in Controller /\ ~store'.temp /\ ~store'.trial /\ ~store'.conUpdated
         /\ \A k \in Key : store'.tier["main"][k].flag =>
              /\ store'.tier["main"][k].alloc
              /\ store'.tier["main"][k].val = store.tier["trial"][k].val
         /\ store'.tier["trial"] = store.tier["trial"]
         /\ store'.tier["temp"] = store.tier["temp"]
         /\ Marked("main")' = Marked("trial")
         /\ here' = cand /\ base' = cand /\ cand' = NoVal /\ cand # NoVal
         /\ torn' = [Unbroken EXCEPT !["base"] = torn["cand"]]
<1>1. /\ store \in Controller /\ ~store.conUpdated
      /\ \A k \in Marked("trial") : store.tier["trial"][k].alloc
  BY DEF IInv, TypeOK, Coherent, Tier
<1>2. /\ store' \in Controller /\ ~store'.temp /\ ~store'.trial /\ ~store'.conUpdated
      /\ \A k \in Key :
            /\ store'.tier["main"][k].flag <=> store.tier["trial"][k].alloc
            /\ store'.tier["main"][k].flag =>
                 /\ store'.tier["main"][k].alloc
                 /\ store'.tier["main"][k].val = store.tier["trial"][k].val
      /\ store'.tier["trial"] = store.tier["trial"]
      /\ store'.tier["temp"] = store.tier["temp"]
  BY <1>1, SwitchAccept, ObjectiveUpdateFacts DEF UpdateAccept, UpdateType
<1>3. Marked("main")' = Marked("trial")
  BY <1>1, <1>2 DEF UpdateAccept, TrialIsComplete, Marked
<1>4. QED BY <1>2, <1>3 DEF UpdateAccept

LEMMA RevertFacts ==
  ASSUME IInv, UpdateRevert
  PROVE  /\ store' \in Controller /\ ~store'.temp /\ ~store'.trial /\ ~store'.conUpdated
         /\ store'.tier = store.tier /\ \A t \in Tier : Marked(t)' = Marked(t)
         /\ base # NoVal /\ here' = base /\ base' = base /\ cand' = NoVal
         /\ torn' = [Unbroken EXCEPT !["base"] = torn["base"]]
<1>1. store \in Controller /\ ~store.conUpdated
  BY DEF IInv, TypeOK, Coherent
<1>2. /\ store' \in Controller /\ ~store'.temp /\ ~store'.trial /\ ~store'.conUpdated
      /\ store'.tier = store.tier
  BY <1>1, SwitchRevert, ObjectiveUpdateFacts DEF UpdateRevert, UpdateType
<1>3. QED BY <1>2 DEF UpdateRevert, Marked

(* The updates preserve the invariant.                                     *)
LEMMA UpdateInv ==
  ASSUME CompleteTrials, IInv,
         \/ \E z \in Val : UpdateInitial(z) \/ UpdateFlag(z) \/ UpdateTrial(z) \/ UpdateTemp(z)
         \/ UpdateAccept \/ UpdateRevert
  PROVE  IInv'
<1> USE DEF Tier, Place
<1>1. /\ here \in Content /\ base \in Content /\ cand \in Content
      /\ store \in Controller /\ torn \in [Place -> SUBSET Key]
      /\ \A t \in Tier, k \in Key : store.tier[t][k].flag => store.tier[t][k].alloc
      /\ Coherent /\ BrokenAreMarked
  BY DEF IInv, TypeOK, Marked
<1>2. \A t \in Tier : /\ Lower(store.tier[t]) \in [Key -> Slot]
                      /\ \A k \in Key : ~Lower(store.tier[t])[k].flag
  BY <1>1, LowerFacts DEF Controller
<1>3. Unbroken \in [Place -> SUBSET Key] /\ Unbroken["base"] = {}
      /\ \A w \in Place : Unbroken[w] = {}
  BY DEF Unbroken
<1>4. ASSUME NEW z \in Val, UpdateInitial(z) \/ UpdateFlag(z) PROVE IInv'
  <2>1. TypeOK'
    BY <1>1, <1>2, <1>3, <1>4, StartFacts DEF TypeOK, Marked, Content
  <2>2. Coherent'
    BY <1>4, StartFacts DEF Coherent, ActiveTier, Holds
  <2>3. BrokenAreMarked'
    BY <1>3, <1>4, StartFacts DEF BrokenAreMarked
  <2>4. QED BY <2>1, <2>2, <2>3 DEF IInv
<1>5. ASSUME NEW z \in Val, UpdateTrial(z) PROVE IInv'
  <2>1. TypeOK'
    BY <1>1, <1>2, <1>5, TrialFacts DEF TypeOK, Marked, Content
  <2>2. Coherent'
    BY <1>1, <1>5, TrialFacts DEF Coherent, ActiveTier, Holds
  <2>3. BrokenAreMarked'
    BY <1>1, <1>5, TrialFacts DEF BrokenAreMarked
  <2>4. QED BY <2>1, <2>2, <2>3 DEF IInv
<1>6. ASSUME NEW z \in Val, UpdateTemp(z) PROVE IInv'
  <2>1. TypeOK'
    BY <1>1, <1>2, <1>6, TempFacts DEF TypeOK, Marked, Content
  <2>2. Coherent'
    BY <1>1, <1>6, TempFacts DEF Coherent, ActiveTier, Holds
  <2>3. BrokenAreMarked'
    BY <1>1, <1>6, TempFacts DEF BrokenAreMarked
  <2>4. QED BY <2>1, <2>2, <2>3 DEF IInv
<1>7. ASSUME UpdateAccept PROVE IInv'
  <2>1. torn'["base"] = torn["cand"] /\ torn' \in [Place -> SUBSET Key]
    BY <1>1, <1>3, <1>7, AcceptFacts
  <2>2. TypeOK'
    BY <1>1, <1>7, <2>1, AcceptFacts DEF TypeOK, Marked, Content
  <2>3. Coherent'
    <3>1. \A k \in Marked("trial") \ torn["cand"] : store.tier["trial"][k].val = cand
      BY <1>1, <1>7, AcceptFacts DEF Coherent, Holds
    <3>2. Holds("main", "base", base)'
      BY <1>7, <2>1, <3>1, AcceptFacts DEF Holds, Marked
    <3>3. QED BY <1>1, <1>7, <3>2, AcceptFacts DEF Coherent, ActiveTier
  <2>4. BrokenAreMarked'
    BY <1>1, <1>7, <2>1, AcceptFacts DEF BrokenAreMarked
  <2>5. QED BY <2>2, <2>3, <2>4 DEF IInv
<1>8. ASSUME UpdateRevert PROVE IInv'
  <2>1. torn'["base"] = torn["base"] /\ torn' \in [Place -> SUBSET Key]
    BY <1>1, <1>3, <1>8, RevertFacts
  <2>2. TypeOK'
    BY <1>1, <1>8, <2>1, RevertFacts DEF TypeOK, Content, Marked
  <2>3. Coherent'
    BY <1>1, <1>8, <2>1, RevertFacts DEF Coherent, ActiveTier, Holds
  <2>4. BrokenAreMarked'
    BY <1>1, <1>8, <2>1, RevertFacts DEF BrokenAreMarked
  <2>5. QED BY <2>2, <2>3, <2>4 DEF IInv
<1>9. QED BY <1>4, <1>5, <1>6, <1>7, <1>8

(* Evaluations, broken off or not, and look-ups preserve the invariant.    *)
LEMMA EvaluateInv == ASSUME IInv, NEW k \in Key, Evaluation(k) PROVE IInv'
<1>0. PICK a \in Tier : a = ActiveTier(store)
  BY ActiveTierType
<1>1. /\ store \in Controller /\ here \in Content /\ base \in Content /\ cand \in Content
      /\ torn \in [Place -> SUBSET Key] /\ Coherent /\ BrokenAreMarked
      /\ \A t \in Tier, j \in Key : store.tier[t][j].flag => store.tier[t][j].alloc
  BY DEF IInv, TypeOK, Marked
<1>2. /\ store' \in Controller
      /\ store'.temp = store.temp /\ store'.trial = store.trial
      /\ store'.conUpdated = store.conUpdated
      /\ \A t \in Tier, j \in Key : t # a \/ j # k => store'.tier[t][j] = store.tier[t][j]
      /\ here # NoVal /\ here' = here /\ base' = base /\ cand' = cand
  BY <1>0, <1>1, EvaluateFacts
<1>3. \/ /\ store'.tier[a][k].alloc /\ torn' = torn
         /\ store'.tier[a][k].flag = store.tier[a][k].flag
         /\ store'.tier[a][k].val = store.tier[a][k].val
      \/ /\ store'.tier[a][k].alloc /\ store'.tier[a][k].flag
         /\ \/ store'.tier[a][k].val = here /\ torn' = torn
            \/ torn' = [torn EXCEPT ![At] = @ \cup {k}]
  BY <1>0, <1>1, EvaluateFacts, WrittenFacts
<1>4. \/ a = "main" /\ At = "base" /\ here = base
      \/ a = "trial" /\ At = "cand" /\ here = cand /\ cand # NoVal
      \/ a = "temp" /\ At = "probe" /\ store.temp
  BY <1>0, <1>1 DEF ActiveTier, At, Coherent
<1>5. a \in Tier /\ At \in Place /\ ActiveTier(store') = a
  BY <1>0, <1>2, <1>4 DEF ActiveTier, Tier, Place
<1>6. /\ torn' \in [Place -> SUBSET Key]
      /\ \A w \in Place \ {At} : torn'[w] = torn[w]
      /\ torn[At] \subseteq torn'[At] /\ torn'[At] \subseteq torn[At] \cup {k}
  BY <1>1, <1>3, <1>5
<1>7. TypeOK'
  <2>1. \A t \in Tier, j \in Key : store'.tier[t][j].flag => store'.tier[t][j].alloc
    BY <1>1, <1>2, <1>3
  <2>2. QED BY <1>1, <1>2, <1>6, <2>1 DEF TypeOK, Marked
<1>8. ASSUME NEW t \in Tier, NEW w \in Place, NEW z, Holds(t, w, z),
             t = a => z = here /\ w = At, t # a => w # At
      PROVE  \A j \in Key : store'.tier[t][j].flag /\ j \notin torn'[w] => store'.tier[t][j].val = z
  <2> SUFFICES ASSUME NEW j \in Key, store'.tier[t][j].flag, j \notin torn'[w]
               PROVE  store'.tier[t][j].val = z
    OBVIOUS
  <2>1. j \notin torn[w]
    BY <1>6
  <2>2. CASE t # a \/ j # k
    BY <1>2, <1>8, <2>1, <2>2 DEF Holds, Marked
  <2>3. CASE t = a /\ j = k
    BY <1>1, <1>3, <1>5, <1>8, <2>1, <2>3 DEF Holds, Marked
  <2>4. QED BY <2>2, <2>3
<1>9. Coherent'
  <2>1. Holds("main", "base", base)'
    <3>1. Holds("main", "base", base) /\ "main" \in Tier /\ "base" \in Place
      BY <1>1 DEF Coherent, Tier, Place
    <3>2. \A j \in Key : store'.tier["main"][j].flag /\ j \notin torn'["base"]
                          => store'.tier["main"][j].val = base
      BY <1>4, <1>8, <3>1
    <3>3. QED BY <1>2, <3>2 DEF Holds, Marked
  <2>2. ASSUME cand # NoVal PROVE Holds("trial", "cand", cand)'
    <3>1. Holds("trial", "cand", cand) /\ "trial" \in Tier /\ "cand" \in Place
      BY <1>1, <2>2 DEF Coherent, Tier, Place
    <3>2. \A j \in Key : store'.tier["trial"][j].flag /\ j \notin torn'["cand"]
                          => store'.tier["trial"][j].val = cand
      BY <1>4, <1>8, <3>1
    <3>3. QED BY <1>2, <3>2 DEF Holds, Marked
  <2>3. ASSUME store.temp PROVE Holds("temp", "probe", here)'
    <3>1. Holds("temp", "probe", here) /\ "temp" \in Tier /\ "probe" \in Place /\ a = "temp"
      BY <1>0, <1>1, <2>3 DEF Coherent, Tier, Place, ActiveTier
    <3>2. \A j \in Key : store'.tier["temp"][j].flag /\ j \notin torn'["probe"]
                          => store'.tier["temp"][j].val = here
      BY <1>4, <1>8, <3>1
    <3>3. QED BY <1>2, <3>2 DEF Holds, Marked
  <2>4. QED BY <1>0, <1>1, <1>2, <1>5, <2>1, <2>2, <2>3 DEF Coherent
<1>10. BrokenAreMarked'
  <2>1. \A t \in Tier : Marked(t) \subseteq Marked(t)'
    BY <1>2, <1>3 DEF Marked
  <2>2. torn'[At] # torn[At] => k \in Marked(a)'
    BY <1>3 DEF Marked
  <2>3. QED BY <1>1, <1>2, <1>4, <1>6, <2>1, <2>2 DEF BrokenAreMarked, Tier, Place
<1>11. QED BY <1>7, <1>9, <1>10 DEF IInv

(* Every step preserves the invariant.                                     *)
LEMMA StepInv == ASSUME CompleteTrials, IInv, [Next]_vars PROVE IInv'
<1>1. CASE UNCHANGED vars
  BY <1>1 DEF vars, IInv, TypeOK, Coherent, BrokenAreMarked, Holds, Marked
<1>2. CASE Next
  BY <1>2, UpdateInv, EvaluateInv DEF Next, Evaluation
<1>3. QED BY <1>1, <1>2

-----------------------------------------------------------------------------
(* For every set of keys and points: types, one point per tier, and flags  *)
(* up for what was broken off, through every update and every evaluation.  *)
THEOREM InvariantOfProtocol == ASSUME CompleteTrials PROVE Spec => []IInv
<1>1. IInv /\ [Next]_vars => IInv'
  BY StepInv
<1>2. QED BY <1>1, InitInv, PTL DEF Spec

(* The types of the controller and the optimizer's points; and no tier     *)
(* marks computed what it has no vector for, broken computations included. *)
THEOREM TypeCorrect == ASSUME CompleteTrials PROVE Spec => []TypeOK
<1>1. IInv => TypeOK
  BY DEF IInv
<1>2. QED BY <1>1, InvariantOfProtocol, PTL

(* One point per tier: the tier that answers is that of the point asked    *)
(* about, and what a tier marks computed was computed at its point.        *)
THEOREM StaysCoherent == ASSUME CompleteTrials PROVE Spec => []Coherent
<1>1. IInv => Coherent
  BY DEF IInv
<1>2. QED BY <1>1, InvariantOfProtocol, PTL

(* What isComputed vouches for was computed at the point the optimizer     *)
(* stands at, except what was broken off there: no objective that trusts   *)
(* it returns a vector of another point unless it threw at this one.       *)
THEOREM NeverStale == ASSUME CompleteTrials PROVE Spec => []NoStaleRead
<1>1. IInv => NoStaleRead
  BY DEF IInv, Coherent, NoStaleRead, At, ActiveTier, Holds, Marked, IsComputed, SlotOf
<1>2. QED BY <1>1, InvariantOfProtocol, PTL

(* A computation in place that threw is not done again while its point is  *)
(* kept (set(key) before gradient, AugmentedLagrangianObjective).          *)
THEOREM BrokenStays == ASSUME CompleteTrials PROVE Spec => []BrokenIsNotRetried
<1>1. IInv => BrokenIsNotRetried
  BY DEF IInv, Coherent, BrokenAreMarked, BrokenIsNotRetried, At, ActiveTier, Marked,
         IsComputed, SlotOf
<1>2. QED BY <1>1, InvariantOfProtocol, PTL

(* No Revert and no Accept costs a recomputation at the point moved to.    *)
THEOREM NeverRecomputed == ASSUME CompleteTrials PROVE Spec => NothingRecomputed
<1> DEFINE Keeps ==
      /\ (UpdateRevert /\ base # NoVal) =>
           \A k \in Key : store.tier["main"][k].flag => IsComputed(store', k)
      /\ UpdateAccept =>
           \A k \in Key : store.tier["trial"][k].flag => IsComputed(store', k)
<1>1. ASSUME IInv, UpdateRevert, NEW k \in Key, store.tier["main"][k].flag
      PROVE  IsComputed(store', k)
  BY <1>1, RevertFacts DEF IsComputed, SlotOf, ActiveTier
<1>2. ASSUME CompleteTrials, IInv, UpdateAccept, NEW k \in Key, store.tier["trial"][k].flag
      PROVE  IsComputed(store', k)
  BY <1>2, AcceptFacts DEF IsComputed, SlotOf, ActiveTier, Marked
<1>3. IInv => Keeps
  BY <1>1, <1>2
<1>4. QED BY <1>3, InvariantOfProtocol, PTL DEF NothingRecomputed

-----------------------------------------------------------------------------
(* The refinement of IterateMemo.                                          *)

(* The mapped `known`, place by place.                                     *)
LEMMA KnownFacts ==
  /\ MemoKnown = [w \in Memo!Where |-> MemoKnown[w]]
  /\ MemoKnown["base"] = (IF base = NoVal THEN {} ELSE Marked("main")) \ torn["base"]
  /\ MemoKnown["cand"] = (IF cand = NoVal THEN {} ELSE Marked("trial")) \ torn["cand"]
  /\ MemoKnown["probe"] = (IF store.temp THEN Marked("temp") ELSE {}) \ torn["probe"]
  BY DEF MemoKnown, Memo!Where, Place

(* Initial states map to initial states of the memo.                       *)
LEMMA MemoInit == Init => Memo!Init
<1> SUFFICES ASSUME Init PROVE Memo!Init
  OBVIOUS
<1>1. here = NoVal /\ base = NoVal /\ cand = NoVal /\ ~store.temp /\ ~store.trial
  BY DEF Init, NewController
<1>2. At = "base"
  BY <1>1 DEF At, ActiveTier
<1>3. MemoKnown = [w \in Memo!Where |-> {}]
  BY <1>1 DEF MemoKnown, Memo!Where, Place
<1>4. QED BY <1>1, <1>2, <1>3 DEF Memo!Init

(* Every step maps to a step of the memo or to a stutter.                  *)
LEMMA MemoStep == ASSUME CompleteTrials, IInv, [Next]_vars PROVE [Memo!Next]_(Memo!vars)
<1> USE DEF Tier, Place
<1>1. store \in Controller /\ torn \in [Place -> SUBSET Key] /\ Coherent /\ BrokenAreMarked
  BY DEF IInv, TypeOK
<1>2. \A w \in Place : Unbroken[w] = {}
  BY DEF Unbroken
<1>3. ASSUME NEW z \in Val, UpdateInitial(z) \/ UpdateFlag(z) PROVE Memo!Start(z)
  <2>1. MemoKnown' = [w \in Memo!Where |-> {}]
    BY <1>2, <1>3, StartFacts DEF MemoKnown, Memo!Where
  <2>2. At' = "base"
    BY <1>3, StartFacts DEF At, ActiveTier
  <2>3. QED BY <1>3, <2>1, <2>2, StartFacts DEF Memo!Start
<1>4. ASSUME NEW z \in Val, UpdateTrial(z) PROVE Memo!Try(z)
  <2>1. MemoKnown' = [MemoKnown EXCEPT !["cand"] = {}, !["probe"] = {}]
    BY <1>1, <1>4, TrialFacts DEF MemoKnown, Memo!Where
  <2>2. At' = "cand"
    BY <1>4, TrialFacts DEF At, ActiveTier
  <2>3. QED BY <1>4, <2>1, <2>2, TrialFacts DEF Memo!Try
<1>5. ASSUME NEW z \in Val, UpdateTemp(z) PROVE Memo!Probe(z)
  <2>1. MemoKnown' = [MemoKnown EXCEPT !["probe"] = {}]
    BY <1>1, <1>5, TempFacts DEF MemoKnown, Memo!Where
  <2>2. At' = "probe"
    BY <1>5, TempFacts DEF At, ActiveTier
  <2>3. QED BY <1>5, <2>1, <2>2, TempFacts DEF Memo!Probe
<1>6. ASSUME UpdateAccept PROVE Memo!Take
  <2>1. MemoKnown["cand"] = Marked("trial") \ torn["cand"]
    BY <1>6, KnownFacts, AcceptFacts
  <2>2. torn'["base"] = torn["cand"] /\ torn'["cand"] = {} /\ torn'["probe"] = {}
    BY <1>2, <1>6, AcceptFacts DEF Unbroken
  <2>3. MemoKnown' = [w \in Memo!Where |-> IF w = "base" THEN MemoKnown["cand"] ELSE {}]
    BY <1>6, <2>1, <2>2, AcceptFacts DEF MemoKnown, Memo!Where
  <2>4. At' = "base"
    BY <1>6, AcceptFacts DEF At, ActiveTier
  <2>5. QED BY <1>6, <2>3, <2>4, AcceptFacts DEF Memo!Take
<1>7. ASSUME UpdateRevert PROVE Memo!GiveUp
  <2>1. MemoKnown["base"] = Marked("main") \ torn["base"]
    BY <1>7, KnownFacts, RevertFacts
  <2>2. torn'["base"] = torn["base"] /\ torn'["cand"] = {} /\ torn'["probe"] = {}
    BY <1>2, <1>7, RevertFacts DEF Unbroken
  <2>3. MemoKnown' = [w \in Memo!Where |-> IF w = "base" THEN MemoKnown["base"] ELSE {}]
    BY <1>7, <2>1, <2>2, RevertFacts DEF MemoKnown, Memo!Where
  <2>4. At' = "base"
    BY <1>7, RevertFacts DEF At, ActiveTier
  <2>5. QED BY <1>7, <2>3, <2>4, RevertFacts DEF Memo!GiveUp
<1>8. ASSUME NEW k \in Key, Evaluation(k) PROVE Memo!Learn(k) \/ UNCHANGED Memo!vars
  <2>0. PICK a \in Tier : a = ActiveTier(store)
    BY ActiveTierType
  <2>1. /\ store'.temp = store.temp /\ store'.trial = store.trial
        /\ \A t \in Tier, j \in Key : t # a \/ j # k => store'.tier[t][j] = store.tier[t][j]
        /\ here # NoVal /\ here' = here /\ base' = base /\ cand' = cand
        /\ \/ store'.tier[a][k].flag = store.tier[a][k].flag /\ torn' = torn
           \/ /\ ~store.tier[a][k].flag /\ store'.tier[a][k].flag
              /\ torn' = torn \/ torn' = [torn EXCEPT ![At] = @ \cup {k}]
    BY <1>8, <2>0, EvaluateFacts, WrittenFacts DEF IInv, TypeOK
  <2>2. /\ a \in Tier /\ At \in Place /\ At' = At
        /\ \/ a = "main" /\ At = "base" /\ base # NoVal
           \/ a = "trial" /\ At = "cand" /\ cand # NoVal
           \/ a = "temp" /\ At = "probe" /\ store.temp
    BY <1>1, <2>0, <2>1 DEF At, ActiveTier, Coherent
  <2>3. MemoKnown[At] = Marked(a) \ torn[At] /\ torn[At] \subseteq Marked(a)
    BY <1>1, <2>2, KnownFacts DEF BrokenAreMarked
  <2>4. MemoKnown'[At] = Marked(a)' \ torn'[At]
    BY <2>1, <2>2 DEF MemoKnown
  <2>5. \A w \in Place \ {At} : MemoKnown'[w] = MemoKnown[w]
    <3>1. \A t \in Tier \ {a} : Marked(t)' = Marked(t)
      BY <2>1 DEF Marked
    <3>2. \A w \in Place \ {At} : torn'[w] = torn[w]
      BY <1>1, <2>1, <2>2
    <3>3. QED BY <2>1, <2>2, <3>1, <3>2 DEF MemoKnown
  <2>6. /\ MemoKnown = [w \in Place |-> MemoKnown[w]]
        /\ MemoKnown' = [w \in Place |-> MemoKnown'[w]]
    BY DEF MemoKnown
  <2>7. CASE MemoKnown'[At] = MemoKnown[At]
    <3>1. MemoKnown' = MemoKnown
      BY <2>2, <2>5, <2>6, <2>7
    <3>2. QED BY <2>1, <2>2, <3>1 DEF Memo!vars
  <2>8. CASE MemoKnown'[At] = MemoKnown[At] \cup {k}
    <3>1. MemoKnown' = [MemoKnown EXCEPT ![At] = MemoKnown[At] \cup {k}]
      BY <2>2, <2>5, <2>6, <2>8
    <3>2. QED BY <2>1, <2>2, <3>1 DEF Memo!Learn
  <2>9. CASE store'.tier[a][k].flag = store.tier[a][k].flag /\ torn' = torn
    <3>1. Marked(a)' = Marked(a)
      BY <2>1, <2>9 DEF Marked
    <3>2. QED BY <2>3, <2>4, <2>7, <2>9, <3>1
  <2>10. CASE ~store.tier[a][k].flag /\ store'.tier[a][k].flag
    <3>1. k \notin Marked(a) /\ Marked(a)' = Marked(a) \cup {k}
      BY <2>1, <2>10 DEF Marked
    <3>2. CASE torn' = torn
      BY <2>3, <2>4, <2>8, <3>1, <3>2
    <3>3. CASE torn' = [torn EXCEPT ![At] = @ \cup {k}]
      <4>1. torn'[At] = torn[At] \cup {k}
        BY <1>1, <2>2, <3>3
      <4>2. QED BY <2>3, <2>4, <2>7, <3>1, <4>1
    <3>4. QED BY <2>1, <2>10, <3>2, <3>3
  <2>11. QED BY <2>1, <2>9, <2>10
<1>9. CASE UNCHANGED vars
  BY <1>9 DEF vars, Memo!vars, MemoKnown, At, Marked
<1>10. CASE Next
  BY <1>3, <1>4, <1>5, <1>6, <1>7, <1>8, <1>10 DEF Next, Memo!Next, Evaluation
<1>11. QED BY <1>9, <1>10

(* A controller under the protocol is the ideal memo: every update and     *)
(* every evaluation is a step of IterateMemo or changes nothing it sees;   *)
(* from a computation that threw the memo learns nothing.                  *)
THEOREM RefinesMemo == ASSUME CompleteTrials PROVE Spec => ImplementsMemo
<1>1. IInv /\ [Next]_vars => [Memo!Next]_(Memo!vars)
  BY MemoStep
<1>2. QED BY <1>1, MemoInit, InvariantOfProtocol, PTL DEF Spec, ImplementsMemo, Memo!Spec

-----------------------------------------------------------------------------
(* The shared store.                                                       *)

Paired == NumCon \in {0, 1} /\ Key # {}

(* The store belongs to the optimizer's points; its image is there         *)
(* whenever a point is; a pending candidate's image is what an Accept      *)
(* would promote; and in the middle of a round the pair is open, so that   *)
(* the constraint's update will not act a second time.                     *)
StoreInv ==
  /\ Matches(store, here, base, cand)
  /\ Only(store, K)
  /\ here # NoVal => IsComputed(store, K)
  /\ cand # NoVal => store.tier["trial"][K].flag

RoundInv ==
  /\ here \in Content /\ base \in Content /\ cand \in Content
  /\ turn \in 1 .. NumCon + 1 /\ kind \in Kind
  /\ told \in [Function -> Content]
  /\ turn <= NumCon => here # NoVal
  /\ turn <= NumCon /\ kind # "Temp" => store.objUpdated
  /\ turn <= NumCon /\ kind = "Temp" => ~store.objUpdated
  /\ turn <= NumCon =>
       ActiveTier(store) = CASE kind = "Trial" -> "trial" [] kind = "Temp" -> "temp"
                             [] OTHER -> "main"
  /\ UpdatedHere

SharedInv == StoreInv /\ RoundInv

-----------------------------------------------------------------------------
(* There is a key.                                                         *)
LEMMA KeyK == ASSUME Paired PROVE K \in Key
  BY DEF Paired, K

(* The image is computed unless it is there, and then it is there.         *)
LEMMA TransformFacts ==
  ASSUME Paired, NEW s, NEW h \in Val, NEW b, NEW c, Matches(s, h, b, c), Only(s, K)
  PROVE  LET r == Transform(s, h) IN
         /\ Matches(r, h, b, c) /\ Only(r, K) /\ Grows(s, r, K)
         /\ IsComputed(r, K) /\ Peek(r, K) = h
<1> DEFINE m == Allocate(s, K)
<1>1. K \in Key
  BY KeyK
<1>2. CASE IsComputed(s, K)
  <2>1. Transform(s, h) = s
    BY <1>2 DEF Transform
  <2>2. Grows(s, s, K)
    BY <1>1, GrowsNot DEF Matches
  <2>3. QED BY <1>1, <1>2, <2>1, <2>2, ReadMatches
<1>3. CASE ~IsComputed(s, K)
  <2>1. Matches(m, h, b, c) /\ Grows(s, m, K)
    BY <1>1, AllocateMatches
  <2> HIDE DEF m
  <2>2. /\ Matches(Set(m, K, h), h, b, c) /\ Grows(m, Set(m, K, h), K)
        /\ IsComputed(Set(m, K, h), K) /\ Peek(Set(m, K, h), K) = h
    BY <1>1, <2>1, SetMatches DEF Content
  <2>3. Transform(s, h) = Set(m, K, h)
    BY <1>3 DEF Transform, m
  <2>4. Grows(s, Set(m, K, h), K)
    BY <1>1, <2>1, <2>2, GrowsTwice
  <2>5. QED BY <1>1, <2>2, <2>3, <2>4, GrowsOnly
<1>4. QED BY <1>2, <1>3

(* The objective's update opens a round: it finds the pair closed.         *)
LEMMA ObjectiveTold ==
  ASSUME Paired, SharedInv, NEW type \in Kind, NEW z \in Val, Moves(type, z)
  PROVE  LET r == Tell(store, 0, type) IN
         /\ Matches(r, z, base', cand') /\ Only(r, K)
         /\ r.objUpdated <=> type # "Temp"
         /\ ActiveTier(r) = CASE type = "Trial" -> "trial" [] type = "Temp" -> "temp"
                              [] OTHER -> "main"
         /\ cand' # NoVal => type = "Trial" \/ r.tier["trial"] = store.tier["trial"]
<1> DEFINE r == Tell(store, 0, type)
<1>1. /\ store \in Controller /\ ~store.conUpdated /\ Honest(store)
      /\ TiersMatch(store, base, cand) /\ Only(store, K) /\ K \in Key
  BY KeyK DEF SharedInv, StoreInv, Matches, TiersMatch
<1>2. CASE type = "Flag"
  <2>1. r = ObjectiveUpdateFlag(store, TRUE)
    BY <1>2 DEF Tell
  <2>2. base' = z /\ cand' = NoVal
    BY <1>2 DEF Moves
  <2> HIDE DEF r
  <2>3. /\ Matches(r, z, z, NoVal) /\ r.objUpdated /\ ActiveTier(r) = "main"
        /\ \A t \in Tier, j \in Key : r.tier[t][j].alloc = store.tier[t][j].alloc
    BY <1>1, <2>1, UpdateFlagMatches
  <2>4. Only(r, K)
    BY <1>1, <2>3 DEF Only
  <2>5. QED BY <1>2, <2>2, <2>3, <2>4 DEF r
<1>3. CASE type # "Flag"
  <2>1. type \in UpdateType
    BY <1>3 DEF Kind
  <2>2. r = ObjectiveUpdate(store, type)
    BY <1>3 DEF Tell
  <2>3. type = "Accept" => Promotable(store, z)
    <3>1. SUFFICES ASSUME type = "Accept" PROVE Promotable(store, z)
      OBVIOUS
    <3>2. z = cand /\ cand # NoVal
      BY <3>1 DEF Moves
    <3>3. store.tier["trial"][K].flag /\ store.tier["trial"][K].val = z
      BY <1>1, <3>2 DEF SharedInv, StoreInv, TiersMatch
    <3>4. QED BY <1>1, <3>3 DEF Promotable, Only, Tier
  <2>4. type = "Revert" => z = base
    BY DEF Moves
  <2>5. base' = BaseAfter(type, z, base) /\ cand' = CandAfter(type, z, cand)
    BY <2>1 DEF Moves, BaseAfter, CandAfter, UpdateType
  <2>6. Matches(r, z, base', cand')
    BY <1>1, <2>1, <2>2, <2>3, <2>4, <2>5, UpdateMatches
  <2>7. Only(r, K)
    BY <1>1, <2>1, <2>2, UpdateOnly
  <2>8. /\ r.objUpdated <=> type # "Temp"
        /\ ActiveTier(r) = CASE type = "Trial" -> "trial" [] type = "Temp" -> "temp"
                             [] OTHER -> "main"
        /\ type # "Trial" => r.tier["trial"] = store.tier["trial"]
    BY <1>1, <2>1, <2>2, UpdateTiers
  <2>9. QED BY <2>6, <2>7, <2>8
<1>4. QED BY <1>2, <1>3

(* The constraint's update only closes the pair, except after a probe,     *)
(* which both act on.                                                      *)
LEMMA ConstraintTold ==
  ASSUME Paired, SharedInv, turn \in 1 .. NumCon
  PROVE  LET r == Tell(store, turn, kind) IN
         /\ Matches(r, here, base, cand) /\ Only(r, K)
         /\ ActiveTier(r) = ActiveTier(store)
         /\ kind # "Temp" => r.tier = store.tier
         /\ r.tier["trial"] = store.tier["trial"]
<1> DEFINE r == Tell(store, turn, kind)
<1>1. /\ store \in Controller /\ ~store.conUpdated /\ Matches(store, here, base, cand)
      /\ TiersMatch(store, base, cand) /\ Only(store, K) /\ K \in Key
      /\ turn \in Nat /\ turn > 0 /\ turn # 0 /\ kind \in Kind /\ here # NoVal /\ here \in Val
      /\ kind # "Temp" => store.objUpdated
      /\ ActiveTier(store) = CASE kind = "Trial" -> "trial" [] kind = "Temp" -> "temp"
                               [] OTHER -> "main"
  <2>1. turn \in Nat /\ turn > 0 /\ turn # 0 /\ turn <= NumCon
    BY NumConAssumption
  <2>2. QED BY <2>1, KeyK DEF SharedInv, StoreInv, RoundInv, Matches, Content
<1>2. CASE kind = "Temp"
  <2>1. r = Pair(Switch(store, "Temp"), FALSE, FALSE)
    <3>1. r = ConstraintUpdate(store, "Temp")
      BY <1>1, <1>2 DEF Tell
    <3>2. QED BY <3>1 DEF ConstraintUpdate
  <2>2. r = ObjectiveUpdate(store, "Temp")
    BY <2>1 DEF ObjectiveUpdate
  <2> HIDE DEF r
  <2>3. Matches(r, here, base, cand)
    BY <1>1, <2>2, UpdateMatches DEF UpdateType, BaseAfter, CandAfter
  <2>4. Only(r, K)
    BY <1>1, <2>2, UpdateOnly DEF UpdateType
  <2>5. ActiveTier(r) = "temp" /\ r.tier["trial"] = store.tier["trial"]
    BY <1>1, <2>2, UpdateTiers DEF UpdateType
  <2>6. QED BY <1>1, <1>2, <2>3, <2>4, <2>5 DEF r
<1>3. CASE kind = "Flag"
  <2> DEFINE m == Select(store, FALSE, FALSE)
  <2>1. r = Pair(m, FALSE, FALSE)
    <3>1. r = ConstraintUpdateFlag(store, TRUE)
      BY <1>1, <1>3 DEF Tell
    <3>2. QED BY <1>1, <1>3, <3>1 DEF ConstraintUpdateFlag
  <2>a. m \in Controller /\ m.tier = store.tier /\ ~m.temp /\ ~m.trial
    BY <1>1, SelectFacts
  <2> HIDE DEF r, m
  <2>2. /\ r \in Controller /\ r.tier = store.tier /\ ~r.temp /\ ~r.trial /\ ~r.conUpdated
    BY <2>1, <2>a, PairFacts
  <2>3. ActiveTier(r) = ActiveTier(store)
    BY <1>1, <1>3, <2>2 DEF ActiveTier
  <2>4. QED BY <1>1, <2>2, <2>3 DEF Matches, TiersMatch, Honest, Selected, Only, r
<1>4. CASE kind \notin {"Temp", "Flag"}
  <2>1. r = Pair(store, FALSE, FALSE)
    <3>1. r = ConstraintUpdate(store, kind)
      BY <1>1, <1>4 DEF Tell
    <3>2. QED BY <1>1, <1>4, <3>1 DEF ConstraintUpdate
  <2> HIDE DEF r
  <2>2. /\ r \in Controller /\ r.tier = store.tier /\ r.temp = store.temp
        /\ r.trial = store.trial /\ ~r.conUpdated
    BY <1>1, <2>1, PairFacts
  <2>3. ActiveTier(r) = ActiveTier(store)
    BY <2>2 DEF ActiveTier
  <2>4. QED BY <1>1, <2>2, <2>3 DEF Matches, TiersMatch, Honest, Selected, Only, r
<1>5. QED BY <1>2, <1>3, <1>4

-----------------------------------------------------------------------------
(* The invariant holds of a new store.                                     *)
LEMMA SharedInitInv == ASSUME Paired, SharedInit PROVE SharedInv
<1>1. StoreInv
  BY NewMatches, NewOnly DEF SharedInit, Init, StoreInv
<1>2. RoundInv
  BY NumConAssumption DEF SharedInit, Init, RoundInv, Kind, UpdateType, Content, Function, UpdatedHere
<1>3. QED BY <1>1, <1>2 DEF SharedInv

(* A round opens.                                                          *)
LEMMA ObjectiveInv == ASSUME Paired, SharedInv, UpdateObjective PROVE SharedInv'
<1>1. PICK type \in Kind, z \in Val :
        Moves(type, z) /\ UpdateFunction(0, type, z) /\ kind' = type
  BY DEF UpdateObjective
<1> DEFINE s == Tell(store, 0, type)
<1>2. /\ Matches(s, z, base', cand') /\ Only(s, K)
      /\ s.objUpdated <=> type # "Temp"
      /\ ActiveTier(s) = CASE type = "Trial" -> "trial" [] type = "Temp" -> "temp"
                           [] OTHER -> "main"
      /\ cand' # NoVal => type = "Trial" \/ s.tier["trial"] = store.tier["trial"]
  BY <1>1, ObjectiveTold
<1>3. store' = Transform(s, z) /\ told' = [told EXCEPT ![0] = Peek(store', K)]
  BY <1>1 DEF UpdateFunction
<1> HIDE DEF s
<1>4. /\ Matches(store', z, base', cand') /\ Only(store', K) /\ Grows(s, store', K)
      /\ IsComputed(store', K) /\ Peek(store', K) = z
  BY <1>2, <1>3, TransformFacts
<1>5. here' = z /\ turn' = 1 /\ kind' = type /\ K \in Key /\ z # NoVal
  BY <1>1, KeyK, NoValAssumption DEF Moves, UpdateObjective
<1>6. base' \in Content /\ cand' \in Content
  BY <1>1 DEF SharedInv, RoundInv, Moves, Content, Kind, UpdateType
<1>7. /\ store'.objUpdated = s.objUpdated
      /\ ActiveTier(store') = ActiveTier(s)
      /\ ActiveTier(s) # "trial" => store'.tier["trial"][K] = s.tier["trial"][K]
  BY <1>4, <1>5 DEF Grows, Tier
<1>8. cand' # NoVal => store'.tier["trial"][K].flag
  <2>1. CASE type = "Trial"
    BY <1>2, <1>4, <1>7, <2>1 DEF IsComputed, SlotOf
  <2>2. CASE type = "Temp"
    BY <1>1, <1>2, <1>7, <2>2 DEF SharedInv, StoreInv, Moves
  <2>3. CASE type \notin {"Trial", "Temp"}
    BY <1>1, <2>3 DEF Moves, Kind, UpdateType
  <2>4. QED BY <2>1, <2>2, <2>3
<1>9. StoreInv'
  BY <1>4, <1>5, <1>8 DEF StoreInv
<1>10. told' \in [Function -> Content] /\ told'[0] = z
  BY <1>3, <1>4, NumConAssumption DEF SharedInv, RoundInv, Function, Content
<1>11. UpdatedHere'
  BY <1>5, <1>10, NumConAssumption DEF UpdatedHere, Function
<1>12. RoundInv'
  BY <1>2, <1>5, <1>6, <1>7, <1>10, <1>11, NumConAssumption DEF RoundInv, Content
<1>13. QED BY <1>9, <1>12 DEF SharedInv

(* A round is closed.                                                      *)
LEMMA ConstraintInv == ASSUME Paired, SharedInv, UpdateConstraint PROVE SharedInv'
<1> DEFINE s == Tell(store, turn, kind)
<1>1. turn \in 1 .. NumCon /\ turn \in Function /\ NumCon = 1 /\ turn = 1 /\ turn' = 2
  BY NumConAssumption DEF UpdateConstraint, Function, Paired
<1>2. /\ Matches(s, here, base, cand) /\ Only(s, K)
      /\ ActiveTier(s) = ActiveTier(store)
      /\ s.tier["trial"] = store.tier["trial"]
  BY <1>1, ConstraintTold
<1>3. store' = Transform(s, here) /\ told' = [told EXCEPT ![turn] = Peek(store', K)]
  BY DEF UpdateConstraint, UpdateFunction
<1>4. here \in Val /\ here # NoVal /\ UNCHANGED <<kind, here, base, cand>>
  BY <1>1 DEF SharedInv, RoundInv, Content, UpdateConstraint
<1> HIDE DEF s
<1>5. /\ Matches(store', here, base, cand) /\ Only(store', K) /\ Grows(s, store', K)
      /\ IsComputed(store', K) /\ Peek(store', K) = here
  BY <1>2, <1>3, <1>4, TransformFacts
<1>6. cand # NoVal => store'.tier["trial"][K].flag
  BY <1>2, <1>5, KeyK DEF SharedInv, StoreInv, Grows, Tier
<1>7. StoreInv'
  BY <1>4, <1>5, <1>6 DEF StoreInv
<1>8. told' \in [Function -> Content] /\ told'[turn] = here
      /\ \A i \in Function \ {turn} : told'[i] = told[i]
  BY <1>1, <1>3, <1>4, <1>5 DEF SharedInv, RoundInv, Content
<1>9. UpdatedHere'
  BY <1>1, <1>4, <1>8 DEF SharedInv, RoundInv, UpdatedHere, Function
<1>10. RoundInv'
  BY <1>1, <1>4, <1>8, <1>9 DEF SharedInv, RoundInv
<1>11. QED BY <1>7, <1>10 DEF SharedInv

(* Evaluations, in or between rounds.                                      *)
LEMMA SharedEvaluateInv == ASSUME Paired, SharedInv, Evaluate PROVE SharedInv'
<1>1. /\ store' = Transform(store, here) /\ here \in Val /\ here # NoVal
      /\ UNCHANGED <<told, turn, kind, here, base, cand>>
  BY DEF Evaluate, SharedInv, RoundInv, Content
<1>2. IsComputed(store, K)
  BY <1>1 DEF SharedInv, StoreInv
<1>3. store' = store
  BY <1>1, <1>2 DEF Transform
<1>4. QED
  BY <1>1, <1>3 DEF SharedInv, StoreInv, RoundInv, UpdatedHere

(* Every step preserves the invariant.                                     *)
LEMMA SharedStepInv == ASSUME Paired, SharedInv, [SharedNext]_sharedVars PROVE SharedInv'
<1>1. CASE UNCHANGED sharedVars
  BY <1>1 DEF sharedVars, SharedInv, StoreInv, RoundInv, UpdatedHere
<1>2. CASE SharedNext
  BY <1>2, ObjectiveInv, ConstraintInv, SharedEvaluateInv DEF SharedNext
<1>3. QED BY <1>1, <1>2

-----------------------------------------------------------------------------
(* The invariant of the shared store: with at most one constraint, the     *)
(* first update of a round acts on it and the second does not.             *)
THEOREM InvariantOfStore == ASSUME Paired PROVE SharedSpec => []SharedInv
<1>1. SharedInit => SharedInv
  BY SharedInitInv
<1>2. SharedInv /\ [SharedNext]_sharedVars => SharedInv'
  BY SharedStepInv
<1>3. QED BY <1>1, <1>2, PTL DEF SharedSpec

(* The objective and the constraint are updated at the image of the point  *)
(* the optimizer moved to (update of AffineTransformObjective and          *)
(* AffineTransformConstraint).                                             *)
THEOREM ToldRight == ASSUME Paired PROVE SharedSpec => []UpdatedHere
<1>1. SharedInv => UpdatedHere
  BY DEF SharedInv, RoundInv
<1>2. QED BY <1>1, InvariantOfStore, PTL

(* transform never returns the image of another point.                     *)
THEOREM ImageRight == ASSUME Paired PROVE SharedSpec => []ImageIsCurrent
<1>1. SharedInv => ImageIsCurrent
  BY KeyK, ReadMatches DEF SharedInv, StoreInv, ImageIsCurrent
<1>2. QED BY <1>1, InvariantOfStore, PTL

(* The image that was computed for the objective serves the constraint.    *)
THEOREM SharingPays == ASSUME Paired PROVE SharedSpec => MappedOnce
<1>1. ASSUME SharedInv, UpdateConstraint, kind # "Temp" PROVE IsComputed(Tell(store, turn, kind), K)
  <2>1. turn \in 1 .. NumCon
    BY <1>1 DEF UpdateConstraint
  <2>2. /\ ActiveTier(Tell(store, turn, kind)) = ActiveTier(store)
        /\ Tell(store, turn, kind).tier = store.tier
    BY <1>1, <2>1, ConstraintTold
  <2>3. IsComputed(store, K)
    BY <1>1, <2>1, NumConAssumption DEF SharedInv, StoreInv, RoundInv
  <2>4. QED BY <2>2, <2>3 DEF IsComputed, SlotOf
<1>2. SharedInv /\ [SharedNext]_sharedVars =>
        [UpdateConstraint /\ kind # "Temp" => IsComputed(Tell(store, turn, kind), K)]_sharedVars
  BY <1>1
<1>3. QED BY <1>2, InvariantOfStore, PTL DEF SharedSpec, MappedOnce
=============================================================================
