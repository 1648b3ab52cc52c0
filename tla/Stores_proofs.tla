----------------------------- MODULE Stores_proofs -----------------------------
(***************************************************************************)
(* Lemmas about the cache of VectorController and the reduced objective    *)
(* that keeps two of them: what each operator returns, and what each of    *)
(* them leaves true.  The proofs about every client of a cache cite them,  *)
(* those of a plain store (UpdateProtocol, SharedStore) as well as those   *)
(* of the objective and of the algorithms that drive it.                   *)
(***************************************************************************)
EXTENDS ReducedObjective, TLAPS

-----------------------------------------------------------------------------
(* What each operator of VectorController returns, field by field.         *)

(* Reads and writes always have a tier to go to.                           *)
LEMMA ActiveTierType == ASSUME NEW s PROVE ActiveTier(s) \in Tier
  BY DEF ActiveTier, Tier

(* The constructor's controller is well typed.                             *)
LEMMA NewControllerType == NewController \in Controller
  BY DEF NewController, Controller, Slot, Absent, Content, Tier

(* Clearing a tier lowers every flag and touches nothing else.             *)
LEMMA LowerFacts ==
  ASSUME NEW slots \in [Key -> Slot]
  PROVE  /\ Lower(slots) \in [Key -> Slot]
         /\ \A k \in Key : /\ ~Lower(slots)[k].flag
                           /\ Lower(slots)[k].alloc = slots[k].alloc
                           /\ Lower(slots)[k].val = slots[k].val
  BY DEF Lower, Slot

(* A written slot is allocated, computed and holds what was written.       *)
LEMMA WrittenFacts ==
  ASSUME NEW v \in Content
  PROVE  /\ Written(v) \in Slot
         /\ Written(v).alloc /\ Written(v).flag /\ Written(v).val = v
  BY DEF Written, Slot

(* Replacing a tier leaves the other two and all selectors alone.          *)
LEMMA RefillFacts ==
  ASSUME NEW s \in Controller, NEW t \in Tier, NEW slots \in [Key -> Slot]
  PROVE  LET r == Refill(s, t, slots) IN
         /\ r \in Controller
         /\ r.tier[t] = slots
         /\ \A u \in Tier \ {t} : r.tier[u] = s.tier[u]
         /\ r.trial = s.trial /\ r.temp = s.temp
         /\ r.objUpdated = s.objUpdated /\ r.conUpdated = s.conUpdated
  BY DEF Controller, Refill

(* Selecting a tier changes no slot.                                       *)
LEMMA SelectFacts ==
  ASSUME NEW s \in Controller, NEW a \in BOOLEAN, NEW b \in BOOLEAN
  PROVE  LET r == Select(s, a, b) IN
         /\ r \in Controller
         /\ r.tier = s.tier
         /\ r.temp = a /\ r.trial = b
         /\ r.objUpdated = s.objUpdated /\ r.conUpdated = s.conUpdated
  BY DEF Controller, Select

(* Pairing changes neither slots nor the selection.                        *)
LEMMA PairFacts ==
  ASSUME NEW s \in Controller, NEW a \in BOOLEAN, NEW b \in BOOLEAN
  PROVE  LET r == Pair(s, a, b) IN
         /\ r \in Controller
         /\ r.tier = s.tier
         /\ r.temp = s.temp /\ r.trial = s.trial
         /\ r.objUpdated = a /\ r.conUpdated = b
  BY DEF Controller, Pair

(* What Accept leaves in the iterate's tier for one key.                   *)
LEMMA PromotedSlotFacts ==
  ASSUME NEW s \in Controller, NEW k \in Key
  PROVE  /\ PromotedSlot(s, k) \in Slot
         /\ PromotedSlot(s, k).flag <=> s.tier["trial"][k].alloc
         /\ PromotedSlot(s, k).alloc <=> s.tier["trial"][k].alloc \/ s.tier["main"][k].alloc
         /\ PromotedSlot(s, k).flag =>
              /\ PromotedSlot(s, k).alloc
              /\ PromotedSlot(s, k).val = s.tier["trial"][k].val
<1>1. /\ s.tier["main"] \in [Key -> Slot] /\ s.tier["trial"] \in [Key -> Slot]
      /\ s.tier["trial"][k].val \in Content /\ s.tier["trial"][k].alloc \in BOOLEAN
  BY DEF Controller, Tier, Slot
<1>2. CASE s.tier["trial"][k].alloc
  BY <1>1, <1>2, WrittenFacts DEF PromotedSlot
<1>3. CASE ~s.tier["trial"][k].alloc
  <2>1. PromotedSlot(s, k) = Lower(s.tier["main"])[k]
    BY <1>3 DEF PromotedSlot
  <2>2. QED BY <1>1, <1>3, <2>1, LowerFacts
<1>4. QED BY <1>1, <1>2, <1>3

(* The switch, one lemma per kind of update.                               *)

(* Initial selects and clears the iterate's tier.                          *)
LEMMA SwitchInitial ==
  ASSUME NEW s \in Controller
  PROVE  LET r == Switch(s, "Initial") IN
         /\ r \in Controller /\ ~r.temp /\ ~r.trial
         /\ r.objUpdated = s.objUpdated /\ r.conUpdated = s.conUpdated
         /\ r.tier["main"] = Lower(s.tier["main"])
         /\ \A u \in {"trial", "temp"} : r.tier[u] = s.tier[u]
<1> DEFINE p == Select(s, FALSE, FALSE)
<1>1. p \in Controller /\ p.tier = s.tier /\ ~p.temp /\ ~p.trial
      /\ p.objUpdated = s.objUpdated /\ p.conUpdated = s.conUpdated
  BY SelectFacts
<1>2. Lower(p.tier["main"]) \in [Key -> Slot]
  BY <1>1, LowerFacts DEF Controller, Tier
<1>3. Switch(s, "Initial") = Refill(p, "main", Lower(p.tier["main"]))
  BY DEF Switch, Reset
<1> HIDE DEF p
<1>4. QED BY <1>1, <1>2, <1>3, RefillFacts DEF Tier

(* Trial selects and clears the trial tier.                                *)
LEMMA SwitchTrial ==
  ASSUME NEW s \in Controller
  PROVE  LET r == Switch(s, "Trial") IN
         /\ r \in Controller /\ ~r.temp /\ r.trial
         /\ r.objUpdated = s.objUpdated /\ r.conUpdated = s.conUpdated
         /\ r.tier["trial"] = Lower(s.tier["trial"])
         /\ \A u \in {"main", "temp"} : r.tier[u] = s.tier[u]
<1> DEFINE p == Select(s, FALSE, TRUE)
<1>1. p \in Controller /\ p.tier = s.tier /\ ~p.temp /\ p.trial
      /\ p.objUpdated = s.objUpdated /\ p.conUpdated = s.conUpdated
  BY SelectFacts
<1>2. Lower(p.tier["trial"]) \in [Key -> Slot]
  BY <1>1, LowerFacts DEF Controller, Tier
<1>3. Switch(s, "Trial") = Refill(p, "trial", Lower(p.tier["trial"]))
  BY DEF Switch, ResetTrial
<1> HIDE DEF p
<1>4. QED BY <1>1, <1>2, <1>3, RefillFacts DEF Tier

(* Temp selects and clears the temporary tier.                             *)
LEMMA SwitchTemp ==
  ASSUME NEW s \in Controller
  PROVE  LET r == Switch(s, "Temp") IN
         /\ r \in Controller /\ r.temp /\ ~r.trial
         /\ r.objUpdated = s.objUpdated /\ r.conUpdated = s.conUpdated
         /\ r.tier["temp"] = Lower(s.tier["temp"])
         /\ \A u \in {"main", "trial"} : r.tier[u] = s.tier[u]
<1> DEFINE p == Select(s, TRUE, FALSE)
<1>1. p \in Controller /\ p.tier = s.tier /\ p.temp /\ ~p.trial
      /\ p.objUpdated = s.objUpdated /\ p.conUpdated = s.conUpdated
  BY SelectFacts
<1>2. Lower(p.tier["temp"]) \in [Key -> Slot]
  BY <1>1, LowerFacts DEF Controller, Tier
<1>3. Switch(s, "Temp") = Refill(p, "temp", Lower(p.tier["temp"]))
  BY DEF Switch, ResetTemp
<1> HIDE DEF p
<1>4. QED BY <1>1, <1>2, <1>3, RefillFacts, SMTT(30), ZenonT(30) DEF Tier

(* Revert selects the iterate's tier and clears nothing.                   *)
LEMMA SwitchRevert ==
  ASSUME NEW s \in Controller
  PROVE  LET r == Switch(s, "Revert") IN
         /\ r \in Controller /\ ~r.temp /\ ~r.trial
         /\ r.objUpdated = s.objUpdated /\ r.conUpdated = s.conUpdated
         /\ r.tier = s.tier
  BY SelectFacts DEF Switch

(* Accept selects the iterate's tier and fills it from the trial tier.     *)
LEMMA SwitchAccept ==
  ASSUME NEW s \in Controller
  PROVE  LET r == Switch(s, "Accept") IN
         /\ r \in Controller /\ ~r.temp /\ ~r.trial
         /\ r.objUpdated = s.objUpdated /\ r.conUpdated = s.conUpdated
         /\ \A k \in Key :
              /\ r.tier["main"][k].flag <=> s.tier["trial"][k].alloc
              /\ r.tier["main"][k].alloc <=> s.tier["trial"][k].alloc \/ s.tier["main"][k].alloc
              /\ r.tier["main"][k].flag =>
                   /\ r.tier["main"][k].alloc
                   /\ r.tier["main"][k].val = s.tier["trial"][k].val
         /\ \A u \in {"trial", "temp"} : r.tier[u] = s.tier[u]
<1> DEFINE p == Select(s, FALSE, FALSE)
           m == [k \in Key |-> PromotedSlot(p, k)]
<1>1. p \in Controller /\ p.tier = s.tier /\ ~p.temp /\ ~p.trial
      /\ p.objUpdated = s.objUpdated /\ p.conUpdated = s.conUpdated
  BY SelectFacts
<1>2. Switch(s, "Accept") = Refill(p, "main", m)
  BY DEF Switch, AcceptTrial
<1> HIDE DEF p
<1>3. m \in [Key -> Slot]
  BY <1>1, PromotedSlotFacts
<1>4. \A k \in Key : m[k] = PromotedSlot(p, k)
  OBVIOUS
<1> HIDE DEF m
<1> DEFINE q == Switch(s, "Accept")
<1>5. /\ q \in Controller /\ ~q.temp /\ ~q.trial
      /\ q.objUpdated = s.objUpdated /\ q.conUpdated = s.conUpdated
      /\ q.tier["main"] = m
      /\ \A u \in {"trial", "temp"} : q.tier[u] = s.tier[u]
  <2>1. /\ q \in Controller /\ q.tier["main"] = m
        /\ \A u \in Tier \ {"main"} : q.tier[u] = p.tier[u]
        /\ q.trial = p.trial /\ q.temp = p.temp
        /\ q.objUpdated = p.objUpdated /\ q.conUpdated = p.conUpdated
    BY <1>1, <1>2, <1>3, RefillFacts DEF Tier
  <2> HIDE DEF q
  <2>2. QED BY <1>1, <2>1 DEF Tier
<1> HIDE DEF q
<1>6. QED BY <1>1, <1>4, <1>5, PromotedSlotFacts DEF q

(* Every kind of update keeps the controller well typed.                   *)
LEMMA SwitchType ==
  ASSUME NEW s \in Controller, NEW type \in UpdateType
  PROVE  Switch(s, type) \in Controller
  BY SwitchInitial, SwitchTrial, SwitchTemp, SwitchRevert, SwitchAccept DEF UpdateType

(* An objective that does not share its store always gets the switch.      *)
LEMMA ObjectiveUpdateFacts ==
  ASSUME NEW s \in Controller, NEW type \in UpdateType, ~s.conUpdated
  PROVE  LET r == ObjectiveUpdate(s, type)
             q == Switch(s, type) IN
         /\ r \in Controller /\ r.tier = q.tier
         /\ r.temp = q.temp /\ r.trial = q.trial /\ ~r.conUpdated
         /\ r.objUpdated <=> type # "Temp"
<1>1. CASE type = "Temp"
  BY <1>1, SwitchType, PairFacts DEF ObjectiveUpdate
<1>2. CASE type # "Temp"
  BY <1>2, SwitchType, PairFacts DEF ObjectiveUpdate
<1>3. QED BY <1>1, <1>2

(* update(x, TRUE) on such a store is update(x, Initial).                  *)
LEMMA ObjectiveUpdateFlagFacts ==
  ASSUME NEW s \in Controller, ~s.conUpdated
  PROVE  LET r == ObjectiveUpdateFlag(s, TRUE)
             q == Switch(s, "Initial") IN
         /\ r \in Controller /\ r.tier = q.tier
         /\ r.temp = q.temp /\ r.trial = q.trial /\ ~r.conUpdated /\ r.objUpdated
  BY SwitchInitial, PairFacts, SMTT(30), ZenonT(30) DEF ObjectiveUpdateFlag, Switch

(* Filling a slot changes that slot of the active tier only.               *)
LEMMA FillFacts ==
  ASSUME NEW s \in Controller, NEW k \in Key, NEW slot \in Slot
  PROVE  LET r == Fill(s, k, slot) IN
         /\ r \in Controller
         /\ r.temp = s.temp /\ r.trial = s.trial
         /\ r.objUpdated = s.objUpdated /\ r.conUpdated = s.conUpdated
         /\ ActiveTier(r) = ActiveTier(s)
         /\ r.tier[ActiveTier(s)][k] = slot
         /\ \A t \in Tier, j \in Key :
              t # ActiveTier(s) \/ j # k => r.tier[t][j] = s.tier[t][j]
<1> DEFINE a == ActiveTier(s)
           new == [s.tier[a] EXCEPT ![k] = slot]
<1>1. a \in Tier
  BY ActiveTierType
<1>2. s.tier[a] \in [Key -> Slot]
  BY <1>1 DEF Controller
<1>3. new \in [Key -> Slot] /\ new[k] = slot /\ \A j \in Key \ {k} : new[j] = s.tier[a][j]
  BY <1>2
<1>4. Fill(s, k, slot) = Refill(s, a, new)
  BY DEF Fill
<1> HIDE DEF a, new
<1>5. QED BY <1>1, <1>3, <1>4, RefillFacts DEF a, ActiveTier

(* Allocation changes neither flag nor contents.                           *)
LEMMA AllocateFacts ==
  ASSUME NEW s \in Controller, NEW k \in Key
  PROVE  LET r == Allocate(s, k)
             a == ActiveTier(s) IN
         /\ r \in Controller
         /\ r.temp = s.temp /\ r.trial = s.trial
         /\ r.objUpdated = s.objUpdated /\ r.conUpdated = s.conUpdated
         /\ ActiveTier(r) = a
         /\ r.tier[a][k].alloc
         /\ r.tier[a][k].flag = s.tier[a][k].flag
         /\ r.tier[a][k].val = s.tier[a][k].val
         /\ \A t \in Tier, j \in Key : t # a \/ j # k => r.tier[t][j] = s.tier[t][j]
<1> DEFINE old == SlotOf(s, k)
           slot == [old EXCEPT !.alloc = TRUE]
<1>1. old \in Slot
  BY ActiveTierType DEF SlotOf, Controller
<1>2. Allocate(s, k) = Fill(s, k, slot)
  BY DEF Allocate
<1>3. old = s.tier[ActiveTier(s)][k]
  BY DEF SlotOf
<1> HIDE DEF old
<1>4. slot \in Slot /\ slot.alloc /\ slot.flag = old.flag /\ slot.val = old.val
  BY <1>1 DEF Slot
<1> HIDE DEF slot
<1>5. QED BY <1>2, <1>3, <1>4, FillFacts

-----------------------------------------------------------------------------
(* A store and the points of an optimizer: h, where it stands, b, its      *)
(* iterate, and c, its pending candidate.                                  *)

(* What is marked computed was written.                                    *)
Honest(s) == \A t \in Tier, k \in Key : s.tier[t][k].flag => s.tier[t][k].alloc

(* The tiers that outlive an excursion belong to b and to c.               *)
TiersMatch(s, b, c) ==
  /\ Honest(s)
  /\ \A k \in Key : s.tier["main"][k].flag => s.tier["main"][k].val = b
  /\ c # NoVal => \A k \in Key : s.tier["trial"][k].flag => s.tier["trial"][k].val = c

(* The tier that answers belongs to h.                                     *)
Selected(s, h, b, c) ==
  /\ ActiveTier(s) = "main"  => h = b
  /\ ActiveTier(s) = "trial" => h = c /\ c # NoVal
  /\ ActiveTier(s) = "temp"  =>
       \A k \in Key : s.tier["temp"][k].flag => s.tier["temp"][k].val = h

Matches(s, h, b, c) ==
  /\ s \in Controller /\ ~s.conUpdated
  /\ TiersMatch(s, b, c)
  /\ Selected(s, h, b, c)

(* An Accept at z copies nothing but what was computed at z.               *)
Promotable(s, z) ==
  \A k \in Key : s.tier["trial"][k].alloc => s.tier["trial"][k].flag /\ s.tier["trial"][k].val = z

(* The iterate and the candidate after an update at z.                     *)
BaseAfter(type, z, b) == IF type \in {"Initial", "Accept"} THEN z ELSE b
CandAfter(type, z, c) == CASE type = "Trial" -> z [] type = "Temp" -> c [] OTHER -> NoVal

(* A new store matches an optimizer that has not started.                  *)
LEMMA NewMatches == Matches(NewController, NoVal, NoVal, NoVal)
<1>1. NewController \in Controller
  BY NewControllerType
<1>2. /\ ~NewController.conUpdated /\ ~NewController.temp /\ ~NewController.trial
      /\ \A t \in Tier, k \in Key : ~NewController.tier[t][k].flag
  BY DEF NewController, Absent
<1>3. QED BY <1>1, <1>2 DEF Matches, TiersMatch, Honest, Selected, ActiveTier, Tier

(* The heart of the protocol: whatever the update, a store whose lasting   *)
(* tiers matched matches the points it leads to.                           *)
LEMMA UpdateMatches ==
  ASSUME NEW s \in Controller, ~s.conUpdated,
         NEW b, NEW c, NEW z \in Val, NEW type \in UpdateType, TiersMatch(s, b, c),
         type = "Accept" => Promotable(s, z), type = "Revert" => z = b
  PROVE  Matches(ObjectiveUpdate(s, type), z, BaseAfter(type, z, b), CandAfter(type, z, c))
<1> USE DEF Tier
<1> DEFINE r == ObjectiveUpdate(s, type)
           q == Switch(s, type)
<1>1. r \in Controller /\ r.tier = q.tier /\ r.temp = q.temp /\ r.trial = q.trial /\ ~r.conUpdated
  BY ObjectiveUpdateFacts
<1>2. /\ ~r.temp /\ ~r.trial => ActiveTier(r) = "main"
      /\ ~r.temp /\ r.trial  => ActiveTier(r) = "trial"
      /\ r.temp => ActiveTier(r) = "temp"
  BY DEF ActiveTier
<1>3. \A t \in Tier : \A k \in Key : ~Lower(s.tier[t])[k].flag
  BY LowerFacts DEF Controller
<1>4. z # NoVal
  BY NoValAssumption
<1> HIDE DEF r, q
<1>5. CASE type = "Initial"
  <2>1. /\ ~q.temp /\ ~q.trial /\ q.tier["main"] = Lower(s.tier["main"])
        /\ \A u \in {"trial", "temp"} : q.tier[u] = s.tier[u]
    BY <1>5, SwitchInitial DEF q
  <2>2. TiersMatch(r, z, NoVal)
    BY <1>1, <1>3, <2>1 DEF TiersMatch, Honest
  <2>3. Selected(r, z, z, NoVal)
    BY <1>1, <1>2, <2>1 DEF Selected
  <2>4. QED BY <1>1, <1>5, <2>2, <2>3 DEF Matches, BaseAfter, CandAfter, r
<1>6. CASE type = "Trial"
  <2>1. /\ ~q.temp /\ q.trial /\ q.tier["trial"] = Lower(s.tier["trial"])
        /\ \A u \in {"main", "temp"} : q.tier[u] = s.tier[u]
    BY <1>6, SwitchTrial DEF q
  <2>2. TiersMatch(r, b, z)
    BY <1>1, <1>3, <2>1 DEF TiersMatch, Honest
  <2>3. Selected(r, z, b, z)
    BY <1>1, <1>2, <1>4, <2>1 DEF Selected
  <2>4. QED BY <1>1, <1>6, <2>2, <2>3 DEF Matches, BaseAfter, CandAfter, r
<1>7. CASE type = "Temp"
  <2>1. /\ q.temp /\ q.tier["temp"] = Lower(s.tier["temp"])
        /\ \A u \in {"main", "trial"} : q.tier[u] = s.tier[u]
    BY <1>7, SwitchTemp DEF q
  <2>2. TiersMatch(r, b, c)
    BY <1>1, <1>3, <2>1 DEF TiersMatch, Honest
  <2>3. Selected(r, z, b, c)
    BY <1>1, <1>2, <1>3, <2>1 DEF Selected
  <2>4. QED BY <1>1, <1>7, <2>2, <2>3 DEF Matches, BaseAfter, CandAfter, r
<1>8. CASE type = "Revert"
  <2>1. ~q.temp /\ ~q.trial /\ q.tier = s.tier
    BY <1>8, SwitchRevert DEF q
  <2>2. TiersMatch(r, b, NoVal)
    BY <1>1, <2>1 DEF TiersMatch, Honest
  <2>3. Selected(r, z, b, NoVal)
    BY <1>1, <1>2, <1>8, <2>1 DEF Selected
  <2>4. QED BY <1>1, <1>8, <2>2, <2>3 DEF Matches, BaseAfter, CandAfter, r
<1>9. CASE type = "Accept"
  <2>1. /\ ~q.temp /\ ~q.trial
        /\ \A k \in Key :
             /\ q.tier["main"][k].flag <=> s.tier["trial"][k].alloc
             /\ q.tier["main"][k].flag =>
                  q.tier["main"][k].alloc /\ q.tier["main"][k].val = s.tier["trial"][k].val
        /\ \A u \in {"trial", "temp"} : q.tier[u] = s.tier[u]
    BY <1>9, SwitchAccept DEF q
  <2>2. TiersMatch(r, z, NoVal)
    BY <1>1, <1>9, <2>1 DEF TiersMatch, Honest, Promotable
  <2>3. Selected(r, z, z, NoVal)
    BY <1>1, <1>2, <2>1 DEF Selected
  <2>4. QED BY <1>1, <1>9, <2>2, <2>3 DEF Matches, BaseAfter, CandAfter, r
<1>10. QED BY <1>5, <1>6, <1>7, <1>8, <1>9 DEF UpdateType

(* update(x, TRUE) starts afresh, as Initial does.                         *)
LEMMA UpdateFlagMatches ==
  ASSUME NEW s \in Controller, ~s.conUpdated, Honest(s), NEW z
  PROVE  LET r == ObjectiveUpdateFlag(s, TRUE) IN
         /\ Matches(r, z, z, NoVal)
         /\ r.objUpdated /\ ActiveTier(r) = "main"
         /\ \A t \in Tier, j \in Key : r.tier[t][j].alloc = s.tier[t][j].alloc
<1> USE DEF Tier
<1> DEFINE r == ObjectiveUpdateFlag(s, TRUE)
           q == Switch(s, "Initial")
<1>1. /\ r \in Controller /\ r.tier = q.tier /\ r.temp = q.temp /\ r.trial = q.trial
      /\ ~r.conUpdated /\ r.objUpdated
  BY ObjectiveUpdateFlagFacts
<1>2. /\ ~q.temp /\ ~q.trial /\ q.tier["main"] = Lower(s.tier["main"])
      /\ \A u \in {"trial", "temp"} : q.tier[u] = s.tier[u]
  BY SwitchInitial
<1>3. \A k \in Key : /\ ~Lower(s.tier["main"])[k].flag
                     /\ Lower(s.tier["main"])[k].alloc = s.tier["main"][k].alloc
  BY LowerFacts DEF Controller
<1> HIDE DEF r, q
<1>4. TiersMatch(r, z, NoVal)
  BY <1>1, <1>2, <1>3 DEF TiersMatch, Honest
<1>5. Selected(r, z, z, NoVal)
  BY <1>1, <1>2 DEF Selected, ActiveTier
<1>6. ActiveTier(r) = "main"
  BY <1>1, <1>2 DEF ActiveTier
<1>7. \A t \in Tier, j \in Key : r.tier[t][j].alloc = s.tier[t][j].alloc
  BY <1>1, <1>2, <1>3
<1>8. QED BY <1>1, <1>4, <1>5, <1>6, <1>7 DEF Matches, r

-----------------------------------------------------------------------------
(* Evaluations.                                                            *)

(* What a matching store reports as computed belongs to h.                 *)
LEMMA ReadMatches ==
  ASSUME NEW s, NEW h, NEW b, NEW c, Matches(s, h, b, c), NEW k \in Key, IsComputed(s, k)
  PROVE  Peek(s, k) = h /\ SlotOf(s, k).val = h
<1>1. s.tier[ActiveTier(s)][k].flag
  BY DEF IsComputed, SlotOf
<1>2. ActiveTier(s) \in Tier
  BY ActiveTierType
<1>3. s.tier[ActiveTier(s)][k].val = h
  BY <1>1, <1>2 DEF Matches, TiersMatch, Selected, Tier
<1>4. QED BY <1>3 DEF Peek, SlotOf

(* From s to r, nothing changed but the active tier's slot for k, which    *)
(* is there now and has not become less computed.                          *)
Grows(s, r, k) ==
  /\ r \in Controller
  /\ r.temp = s.temp /\ r.trial = s.trial
  /\ r.conUpdated = s.conUpdated /\ r.objUpdated = s.objUpdated
  /\ ActiveTier(r) = ActiveTier(s)
  /\ \A t \in Tier, j \in Key : t # ActiveTier(s) \/ j # k => r.tier[t][j] = s.tier[t][j]
  /\ s.tier[ActiveTier(s)][k].flag => r.tier[ActiveTier(s)][k].flag

(* Evaluations add up.                                                     *)
LEMMA GrowsTwice ==
  ASSUME NEW s, NEW r, NEW q, NEW k \in Key, Grows(s, r, k), Grows(r, q, k)
  PROVE  Grows(s, q, k)
<1>1. \A t \in Tier, j \in Key : t # ActiveTier(s) \/ j # k => q.tier[t][j] = s.tier[t][j]
  BY DEF Grows
<1>2. QED BY <1>1 DEF Grows

(* An evaluation that changes nothing.                                     *)
LEMMA GrowsNot == ASSUME NEW s \in Controller, NEW k \in Key PROVE Grows(s, s, k)
  BY DEF Grows

(* set(x,k) on a matching store, with what belongs to h.                   *)
LEMMA SetMatches ==
  ASSUME NEW s, NEW h \in Content, NEW b, NEW c, Matches(s, h, b, c), NEW k \in Key
  PROVE  LET r == Set(s, k, h) IN
         /\ Matches(r, h, b, c) /\ Grows(s, r, k)
         /\ IsComputed(r, k) /\ SlotOf(r, k).alloc /\ Peek(r, k) = h
<1> DEFINE r == Set(s, k, h)
           a == ActiveTier(s)
<1>1. /\ s \in Controller /\ ~s.conUpdated /\ a \in Tier
      /\ Written(h) \in Slot /\ Written(h).alloc /\ Written(h).flag /\ Written(h).val = h
  BY ActiveTierType, WrittenFacts DEF Matches
<1>2. /\ r \in Controller /\ r.temp = s.temp /\ r.trial = s.trial
      /\ r.objUpdated = s.objUpdated /\ r.conUpdated = s.conUpdated
      /\ ActiveTier(r) = a /\ r.tier[a][k] = Written(h)
      /\ \A t \in Tier, j \in Key : t # a \/ j # k => r.tier[t][j] = s.tier[t][j]
  BY <1>1, FillFacts DEF Set
<1> HIDE DEF r, a
<1>3. Honest(r)
  BY <1>1, <1>2 DEF Matches, TiersMatch, Honest
<1>4. \A j \in Key : r.tier["main"][j].flag => r.tier["main"][j].val = b
  BY <1>1, <1>2 DEF Matches, TiersMatch, Selected, Tier, a
<1>5. c # NoVal => \A j \in Key : r.tier["trial"][j].flag => r.tier["trial"][j].val = c
  BY <1>1, <1>2 DEF Matches, TiersMatch, Selected, Tier, a
<1>6. Selected(r, h, b, c)
  BY <1>1, <1>2 DEF Matches, Selected, Tier, a
<1>7. Matches(r, h, b, c)
  BY <1>1, <1>2, <1>3, <1>4, <1>5, <1>6 DEF Matches, TiersMatch
<1>8. Grows(s, r, k)
  BY <1>1, <1>2 DEF Grows, a
<1>9. IsComputed(r, k) /\ SlotOf(r, k).alloc /\ Peek(r, k) = h
  BY <1>1, <1>2 DEF IsComputed, Peek, SlotOf
<1>10. QED BY <1>7, <1>8, <1>9 DEF r

(* allocate(x,k) on a matching store.                                      *)
LEMMA AllocateMatches ==
  ASSUME NEW s, NEW h, NEW b, NEW c, Matches(s, h, b, c), NEW k \in Key
  PROVE  LET r == Allocate(s, k) IN
         /\ Matches(r, h, b, c) /\ Grows(s, r, k)
         /\ IsComputed(r, k) <=> IsComputed(s, k)
         /\ SlotOf(r, k).alloc
<1> DEFINE r == Allocate(s, k)
           a == ActiveTier(s)
<1>1. s \in Controller /\ ~s.conUpdated /\ a \in Tier
  BY ActiveTierType DEF Matches
<1>2. /\ r \in Controller /\ r.temp = s.temp /\ r.trial = s.trial
      /\ r.objUpdated = s.objUpdated /\ r.conUpdated = s.conUpdated
      /\ ActiveTier(r) = a /\ r.tier[a][k].alloc
      /\ r.tier[a][k].flag = s.tier[a][k].flag /\ r.tier[a][k].val = s.tier[a][k].val
      /\ \A t \in Tier, j \in Key : t # a \/ j # k => r.tier[t][j] = s.tier[t][j]
  BY <1>1, AllocateFacts
<1> HIDE DEF r, a
<1>3. Honest(r)
  BY <1>1, <1>2 DEF Matches, TiersMatch, Honest
<1>4. \A t \in Tier, j \in Key :
        r.tier[t][j].flag = s.tier[t][j].flag /\ r.tier[t][j].val = s.tier[t][j].val
  BY <1>1, <1>2
<1>5. TiersMatch(r, b, c) /\ Selected(r, h, b, c)
  <2>1. TiersMatch(s, b, c) /\ Selected(s, h, b, c) /\ a = ActiveTier(s)
    BY DEF Matches, a
  <2>2. TiersMatch(r, b, c)
    BY <1>3, <1>4, <2>1 DEF TiersMatch, Tier
  <2>3. Selected(r, h, b, c)
    BY <1>2, <1>4, <2>1 DEF Selected, Tier
  <2>4. QED BY <2>2, <2>3
<1>6. Matches(r, h, b, c)
  BY <1>1, <1>2, <1>5 DEF Matches
<1>7. Grows(s, r, k)
  BY <1>1, <1>2 DEF Grows, a
<1>8. (IsComputed(r, k) <=> IsComputed(s, k)) /\ SlotOf(r, k).alloc
  BY <1>1, <1>2 DEF IsComputed, SlotOf, a
<1>9. QED BY <1>6, <1>7, <1>8 DEF r

(* What an update leaves in the lasting tiers, and which slots there are.  *)
LEMMA UpdateTiers ==
  ASSUME NEW s \in Controller, ~s.conUpdated, NEW type \in UpdateType
  PROVE  LET r == ObjectiveUpdate(s, type) IN
         /\ r \in Controller /\ ~r.conUpdated
         /\ r.objUpdated <=> type # "Temp"
         /\ ActiveTier(r) = CASE type = "Trial" -> "trial" [] type = "Temp" -> "temp"
                              [] OTHER -> "main"
         /\ type \in {"Trial", "Temp", "Revert"} => r.tier["main"] = s.tier["main"]
         /\ type # "Trial" => r.tier["trial"] = s.tier["trial"]
         /\ type = "Trial" => \A j \in Key : ~r.tier["trial"][j].flag
         /\ type = "Accept" => \A j \in Key : r.tier["main"][j].flag <=> s.tier["trial"][j].alloc
         /\ type = "Revert" => r.tier = s.tier
         /\ \A t \in Tier, j \in Key :
              r.tier[t][j].alloc =>
                s.tier[t][j].alloc \/ (type = "Accept" /\ s.tier["trial"][j].alloc)
<1> USE DEF Tier
<1> DEFINE r == ObjectiveUpdate(s, type)
           q == Switch(s, type)
<1>1. /\ r \in Controller /\ r.tier = q.tier /\ r.temp = q.temp /\ r.trial = q.trial
      /\ ~r.conUpdated /\ (r.objUpdated <=> type # "Temp")
  BY ObjectiveUpdateFacts
<1>2. \A t \in Tier : \A j \in Key :
        ~Lower(s.tier[t])[j].flag /\ Lower(s.tier[t])[j].alloc = s.tier[t][j].alloc
  BY LowerFacts DEF Controller
<1> HIDE DEF r, q
<1>3. CASE type = "Initial"
  BY <1>1, <1>2, <1>3, SwitchInitial DEF q, r, ActiveTier
<1>4. CASE type = "Trial"
  BY <1>1, <1>2, <1>4, SwitchTrial DEF q, r, ActiveTier
<1>5. CASE type = "Temp"
  BY <1>1, <1>2, <1>5, SwitchTemp DEF q, r, ActiveTier
<1>6. CASE type = "Revert"
  BY <1>1, <1>6, SwitchRevert DEF q, r, ActiveTier
<1>7. CASE type = "Accept"
  BY <1>1, <1>7, SwitchAccept DEF q, r, ActiveTier
<1>8. QED BY <1>3, <1>4, <1>5, <1>6, <1>7 DEF UpdateType

-----------------------------------------------------------------------------
(* A store of which one key alone is ever used.                            *)
Only(s, k) == \A t \in Tier, j \in Key \ {k} : ~s.tier[t][j].alloc

(* A new store has no slots at all.                                        *)
LEMMA NewOnly == ASSUME NEW k PROVE Only(NewController, k)
  BY DEF Only, NewController, Absent

(* Evaluations for that key use no other.                                  *)
LEMMA GrowsOnly ==
  ASSUME NEW s, NEW r, NEW k \in Key, Grows(s, r, k), Only(s, k)
  PROVE  Only(r, k)
  BY DEF Grows, Only

(* Updates allocate nothing of their own.                                  *)
LEMMA UpdateOnly ==
  ASSUME NEW s \in Controller, ~s.conUpdated, NEW type \in UpdateType,
         NEW k \in Key, Only(s, k)
  PROVE  Only(ObjectiveUpdate(s, type), k)
  BY UpdateTiers DEF Only, Tier

(* A store of the inner problem as it will be once it has been told of the *)
(* pending update.                                                         *)
Told(c, r) == IF r.isUpdated THEN c ELSE Deliver(c, r)

(* The four stores belong to the points of the optimizer, the inner ones   *)
(* as soon as they are told.                                               *)
Good(r) ==
  /\ r \in ReducedObjectives
  /\ Matches(r.state, r.here, r.base, r.cand)
  /\ Matches(r.adjoint, r.here, r.base, r.cand)
  /\ ~r.con.conUpdated /\ ~r.obj.conUpdated
  /\ Matches(Told(r.con, r), r.here, r.base, r.cand)
  /\ Matches(Told(r.obj, r), r.here, r.base, r.cand)

(* The inner problem may miss a Revert, never another update.              *)
MayMiss(r) == r.isUpdated \/ (r.newUpdate /\ r.updateType = "Revert")

(* An Accept at z promotes only what was computed at z.                    *)
AllPromotable(r, z) ==
  /\ Promotable(r.state, z) /\ Promotable(r.adjoint, z)
  /\ Promotable(r.con, z) /\ Promotable(r.obj, z)

-----------------------------------------------------------------------------
(* Setting fields of an objective.                                         *)

(* The fields that Noted sets, those that update(z, type) sets, and those  *)
(* that update(z, flag) sets.                                              *)
WithPoints(r, h, b, c, l, m) ==
  [r EXCEPT !.here = h, !.solves = m, !.base = b, !.cand = c, !.legal = l]

WithPending(n, s, a, type) ==
  [n EXCEPT !.isUpdated = FALSE, !.newUpdate = TRUE, !.updateType = type, !.state = s, !.adjoint = a]

WithPendingFlag(n, s, a) ==
  [n EXCEPT !.isUpdated = FALSE, !.newUpdate = FALSE, !.updateFlag = TRUE, !.state = s, !.adjoint = a]

(* A record so changed.                                                    *)
LEMMA SetPoints ==
  ASSUME NEW r \in ReducedObjectives, NEW h \in Content, NEW b \in Content, NEW c \in Content,
         NEW l \in BOOLEAN, NEW m \in 0 .. MaxSolves
  PROVE  LET n == WithPoints(r, h, b, c, l, m) IN
         /\ n \in ReducedObjectives
         /\ n.state = r.state /\ n.adjoint = r.adjoint /\ n.con = r.con /\ n.obj = r.obj
         /\ n.here = h /\ n.base = b /\ n.cand = c /\ n.solves = m /\ (n.legal <=> l)
         /\ n.fresh = r.fresh
  BY DEF ReducedObjectives, WithPoints

(* The same.                                                               *)
LEMMA SetPending ==
  ASSUME NEW n \in ReducedObjectives, NEW s \in Controller, NEW a \in Controller,
         NEW type \in UpdateType
  PROVE  LET v == WithPending(n, s, a, type) IN
         /\ v \in ReducedObjectives
         /\ v.state = s /\ v.adjoint = a /\ ~v.isUpdated /\ v.newUpdate
         /\ v.updateType = type
         /\ v.con = n.con /\ v.obj = n.obj
         /\ v.here = n.here /\ v.base = n.base /\ v.cand = n.cand
         /\ v.solves = n.solves /\ v.fresh = n.fresh /\ (v.legal <=> n.legal)
  BY DEF ReducedObjectives, WithPending

(* The same.                                                               *)
LEMMA SetPendingFlag ==
  ASSUME NEW n \in ReducedObjectives, NEW s \in Controller, NEW a \in Controller
  PROVE  LET v == WithPendingFlag(n, s, a) IN
         /\ v \in ReducedObjectives
         /\ v.state = s /\ v.adjoint = a /\ ~v.isUpdated /\ ~v.newUpdate
         /\ v.con = n.con /\ v.obj = n.obj
         /\ v.here = n.here /\ v.base = n.base /\ v.cand = n.cand
         /\ v.solves = n.solves /\ v.fresh = n.fresh /\ (v.legal <=> n.legal)
  BY DEF ReducedObjectives, WithPendingFlag

(* What an update notes about the points.                                  *)
LEMMA NotedFields ==
  ASSUME NEW r \in ReducedObjectives, NEW type \in UpdateType, NEW z \in Val
  PROVE  LET n == Noted(r, type, z) IN
         /\ n \in ReducedObjectives
         /\ n.state = r.state /\ n.adjoint = r.adjoint /\ n.con = r.con /\ n.obj = r.obj
         /\ n.here = z /\ n.base = BaseAfter(type, z, r.base)
         /\ n.cand = CandAfter(type, z, r.cand) /\ n.solves = 0
         /\ n.legal <=> r.legal /\ LegalUpdate(r, type, z)
         /\ n.fresh = r.fresh
<1> DEFINE l == r.legal /\ LegalUpdate(r, type, z)
           b == BaseAfter(type, z, r.base)
           c == CandAfter(type, z, r.cand)
<1>1. Noted(r, type, z) = WithPoints(r, z, b, c, l, 0)
  BY DEF Noted, WithPoints, BaseAfter, CandAfter, ReducedObjectives
<1>2. b \in Content /\ c \in Content /\ z \in Content
  BY DEF BaseAfter, CandAfter, ReducedObjectives, Content
<1>3. l \in BOOLEAN
  OBVIOUS
<1>4. 0 \in 0 .. MaxSolves
  BY DEF MaxSolves
<1> HIDE DEF b, c, l
<1>5. LET n == WithPoints(r, z, b, c, l, 0) IN
      /\ n \in ReducedObjectives
      /\ n.state = r.state /\ n.adjoint = r.adjoint /\ n.con = r.con /\ n.obj = r.obj
      /\ n.here = z /\ n.base = b /\ n.cand = c /\ n.solves = 0 /\ (n.legal <=> l)
      /\ n.fresh = r.fresh
  BY <1>2, <1>3, <1>4, SetPoints
<1>6. QED BY <1>1, <1>5 DEF b, c, l

(* The constructor's objective is good.                                    *)
LEMMA NewGood ==
  LET r == NewReducedObjective IN
  /\ Good(r) /\ r.fresh /\ r.legal /\ r.isUpdated
  /\ r.here = NoVal /\ r.base = NoVal /\ r.cand = NoVal
<1> DEFINE r == NewReducedObjective
<1>1. /\ r.state = NewController /\ r.adjoint = NewController
      /\ r.con = NewController /\ r.obj = NewController
      /\ r.fresh /\ r.legal /\ r.isUpdated /\ r.here = NoVal /\ r.base = NoVal /\ r.cand = NoVal
  BY DEF NewReducedObjective
<1>2. r \in ReducedObjectives
  BY NewControllerType DEF NewReducedObjective, ReducedObjectives, UpdateType, Content, MaxSolves
<1> HIDE DEF r
<1>3. Told(r.con, r) = NewController /\ Told(r.obj, r) = NewController
  BY <1>1 DEF Told
<1>4. Good(r)
  BY <1>1, <1>2, <1>3, NewMatches DEF Good, Matches
<1>5. QED BY <1>1, <1>4 DEF r

(* update(z, type), field by field.                                        *)
LEMMA UpdateFields ==
  ASSUME NEW r \in ReducedObjectives, ~r.state.conUpdated, ~r.adjoint.conUpdated,
         NEW type \in UpdateType, NEW z \in Val
  PROVE  LET v == Update(r, type, z) IN
         /\ v \in ReducedObjectives
         /\ v.state = ObjectiveUpdate(r.state, type)
         /\ v.adjoint = ObjectiveUpdate(r.adjoint, type)
         /\ v.con = r.con /\ v.obj = r.obj
         /\ ~v.isUpdated /\ v.newUpdate /\ v.updateType = type
         /\ v.here = z /\ v.base = BaseAfter(type, z, r.base)
         /\ v.cand = CandAfter(type, z, r.cand)
         /\ v.solves = 0 /\ v.fresh = r.fresh
         /\ v.legal <=> r.legal /\ LegalUpdate(r, type, z)
<1> DEFINE n == Noted(r, type, z)
<1>1. /\ n \in ReducedObjectives
      /\ n.state = r.state /\ n.adjoint = r.adjoint /\ n.con = r.con /\ n.obj = r.obj
      /\ n.here = z /\ n.base = BaseAfter(type, z, r.base)
      /\ n.cand = CandAfter(type, z, r.cand) /\ n.solves = 0
      /\ n.legal <=> r.legal /\ LegalUpdate(r, type, z)
      /\ n.fresh = r.fresh
  BY NotedFields
<1>2. ObjectiveUpdate(r.state, type) \in Controller /\ ObjectiveUpdate(r.adjoint, type) \in Controller
  BY UpdateTiers DEF ReducedObjectives
<1>3. Update(r, type, z) =
        WithPending(n, ObjectiveUpdate(n.state, type), ObjectiveUpdate(n.adjoint, type), type)
  <2> HIDE DEF n
  <2>1. QED BY <1>1 DEF Update, WithPending, ReducedObjectives, n
<1> DEFINE v == Update(r, type, z)
<1> HIDE DEF n, v
<1>4. QED BY <1>1, <1>2, <1>3, SetPending DEF v

(* A store that waits for a Revert can be told of another update instead.  *)
LEMMA ToldTiers ==
  ASSUME NEW r, NEW c \in Controller, ~c.conUpdated, MayMiss(r), NEW b, NEW d,
         TiersMatch(Told(c, r), b, d)
  PROVE  TiersMatch(c, b, d)
<1>1. CASE r.isUpdated
  BY <1>1 DEF Told
<1>2. CASE ~r.isUpdated
  <2>1. Told(c, r) = ObjectiveUpdate(c, "Revert")
    BY <1>2 DEF Told, MayMiss, Deliver
  <2>2. ObjectiveUpdate(c, "Revert").tier = c.tier
    BY UpdateTiers DEF UpdateType
  <2>3. QED BY <2>1, <2>2 DEF TiersMatch, Honest
<1>3. QED BY <1>1, <1>2

(* An update of a good objective, kept to the protocol as far as Accept    *)
(* and Revert go.                                                          *)
LEMMA UpdateGood ==
  ASSUME NEW r, Good(r), MayMiss(r), NEW type \in UpdateType, NEW z \in Val,
         type = "Revert" => z = r.base, type = "Accept" => AllPromotable(r, z)
  PROVE  Good(Update(r, type, z))
<1> DEFINE v == Update(r, type, z)
<1>1. /\ r \in ReducedObjectives
      /\ r.state \in Controller /\ r.adjoint \in Controller
      /\ r.con \in Controller /\ r.obj \in Controller
      /\ ~r.state.conUpdated /\ ~r.adjoint.conUpdated /\ ~r.con.conUpdated /\ ~r.obj.conUpdated
  BY DEF Good, Matches, ReducedObjectives
<1>2. /\ v \in ReducedObjectives
      /\ v.state = ObjectiveUpdate(r.state, type)
      /\ v.adjoint = ObjectiveUpdate(r.adjoint, type)
      /\ v.con = r.con /\ v.obj = r.obj
      /\ ~v.isUpdated /\ v.newUpdate /\ v.updateType = type
      /\ v.here = z /\ v.base = BaseAfter(type, z, r.base)
      /\ v.cand = CandAfter(type, z, r.cand)
  BY <1>1, UpdateFields
<1> HIDE DEF v
<1>3. /\ TiersMatch(r.state, r.base, r.cand) /\ TiersMatch(r.adjoint, r.base, r.cand)
      /\ TiersMatch(r.con, r.base, r.cand) /\ TiersMatch(r.obj, r.base, r.cand)
  BY <1>1, ToldTiers DEF Good, Matches
<1>4. /\ Matches(v.state, v.here, v.base, v.cand)
      /\ Matches(v.adjoint, v.here, v.base, v.cand)
      /\ Matches(ObjectiveUpdate(r.con, type), v.here, v.base, v.cand)
      /\ Matches(ObjectiveUpdate(r.obj, type), v.here, v.base, v.cand)
  BY <1>1, <1>2, <1>3, UpdateMatches DEF AllPromotable
<1>5. /\ Told(v.con, v) = ObjectiveUpdate(r.con, type)
      /\ Told(v.obj, v) = ObjectiveUpdate(r.obj, type)
  BY <1>2 DEF Told, Deliver
<1>6. QED BY <1>1, <1>2, <1>4, <1>5 DEF Good, v

(* The deprecated update of a good objective.                              *)
LEMMA UpdateDeprecatedGood ==
  ASSUME NEW r, Good(r), MayMiss(r), NEW z \in Val
  PROVE  LET v == UpdateDeprecated(r, TRUE, z) IN
         /\ Good(v) /\ v.here = z /\ v.base = z /\ v.cand = NoVal
         /\ v.solves = 0 /\ v.fresh = r.fresh /\ ActiveTier(v.state) = "main"
<1> DEFINE n == Noted(r, "Initial", z)
           v == UpdateDeprecated(r, TRUE, z)
<1>1. /\ r \in ReducedObjectives
      /\ r.state \in Controller /\ r.adjoint \in Controller
      /\ r.con \in Controller /\ r.obj \in Controller
      /\ ~r.state.conUpdated /\ ~r.adjoint.conUpdated /\ ~r.con.conUpdated /\ ~r.obj.conUpdated
  BY DEF Good, Matches, ReducedObjectives
<1>2. /\ n \in ReducedObjectives
      /\ n.state = r.state /\ n.adjoint = r.adjoint /\ n.con = r.con /\ n.obj = r.obj
      /\ n.here = z /\ n.base = z /\ n.cand = NoVal /\ n.solves = 0 /\ n.fresh = r.fresh
  BY <1>1, NotedFields DEF UpdateType, BaseAfter, CandAfter
<1>3. /\ Honest(r.state) /\ Honest(r.adjoint) /\ Honest(r.con) /\ Honest(r.obj)
  <2>1. /\ TiersMatch(r.state, r.base, r.cand) /\ TiersMatch(r.adjoint, r.base, r.cand)
        /\ TiersMatch(r.con, r.base, r.cand) /\ TiersMatch(r.obj, r.base, r.cand)
    BY <1>1, ToldTiers DEF Good, Matches
  <2>2. QED BY <2>1 DEF TiersMatch
<1>4. \A s \in {r.state, r.adjoint, r.con, r.obj} :
        LET q == ObjectiveUpdateFlag(s, TRUE) IN
        Matches(q, z, z, NoVal) /\ ActiveTier(q) = "main" /\ q \in Controller
  BY <1>1, <1>3, UpdateFlagMatches DEF Matches
<1>5. v = WithPendingFlag(n, ObjectiveUpdateFlag(n.state, TRUE),
                          ObjectiveUpdateFlag(n.adjoint, TRUE))
  <2> HIDE DEF n
  <2>1. QED BY <1>2 DEF UpdateDeprecated, WithPendingFlag, ReducedObjectives, n
<1> HIDE DEF n, v
<1>6. /\ v \in ReducedObjectives
      /\ v.state = ObjectiveUpdateFlag(r.state, TRUE)
      /\ v.adjoint = ObjectiveUpdateFlag(r.adjoint, TRUE)
      /\ v.con = r.con /\ v.obj = r.obj
      /\ ~v.isUpdated /\ ~v.newUpdate /\ v.updateFlag = TRUE
      /\ v.here = z /\ v.base = z /\ v.cand = NoVal /\ v.solves = 0 /\ v.fresh = r.fresh
  <2> DEFINE p == ObjectiveUpdateFlag(r.state, TRUE)
             q == ObjectiveUpdateFlag(r.adjoint, TRUE)
  <2>1. v = WithPendingFlag(n, p, q)
    BY <1>2, <1>5
  <2>2. p \in Controller /\ q \in Controller
    BY <1>4
  <2> HIDE DEF p, q
  <2>3. v.updateFlag = TRUE
    BY <1>2, <2>1 DEF WithPendingFlag, ReducedObjectives
  <2>4. /\ v \in ReducedObjectives /\ v.state = p /\ v.adjoint = q
        /\ v.con = n.con /\ v.obj = n.obj /\ ~v.isUpdated /\ ~v.newUpdate
        /\ v.here = n.here /\ v.base = n.base /\ v.cand = n.cand
        /\ v.solves = n.solves /\ v.fresh = n.fresh
    BY <1>2, <2>1, <2>2, SetPendingFlag
  <2>5. QED BY <1>2, <2>3, <2>4 DEF p, q
<1>7. /\ Told(v.con, v) = ObjectiveUpdateFlag(r.con, TRUE)
      /\ Told(v.obj, v) = ObjectiveUpdateFlag(r.obj, TRUE)
  BY <1>6 DEF Told, Deliver
<1>8. QED BY <1>1, <1>4, <1>6, <1>7 DEF Good, v

-----------------------------------------------------------------------------
(* Evaluations.                                                            *)

(* The fields that solve_state_equation sets, and those that               *)
(* solve_adjoint_equation sets.                                            *)
WithState(r, s, con, obj, u, m) ==
  [r EXCEPT !.state = s, !.con = con, !.obj = obj, !.isUpdated = TRUE, !.u = u, !.solves = m]

WithAdjoint(r, a, con, obj, p) == [r EXCEPT !.adjoint = a, !.con = con, !.obj = obj, !.p = p]

WithInner(r, con, obj, f, l) == [r EXCEPT !.con = con, !.obj = obj, !.fresh = f, !.legal = l]

(* A record so changed.                                                    *)
LEMMA SetState ==
  ASSUME NEW r \in ReducedObjectives, NEW s \in Controller, NEW con \in Controller,
         NEW obj \in Controller, NEW u \in Content, NEW m \in 0 .. MaxSolves
  PROVE  LET v == WithState(r, s, con, obj, u, m) IN
         /\ v \in ReducedObjectives
         /\ v.state = s /\ v.adjoint = r.adjoint /\ v.con = con /\ v.obj = obj
         /\ v.isUpdated /\ v.u = u /\ v.p = r.p /\ v.solves = m
         /\ v.here = r.here /\ v.base = r.base /\ v.cand = r.cand
         /\ v.fresh = r.fresh /\ (v.legal <=> r.legal)
  BY DEF ReducedObjectives, WithState

(* The same.                                                               *)
LEMMA SetAdjoint ==
  ASSUME NEW r \in ReducedObjectives, NEW a \in Controller, NEW con \in Controller,
         NEW obj \in Controller, NEW p \in Content
  PROVE  LET v == WithAdjoint(r, a, con, obj, p) IN
         /\ v \in ReducedObjectives
         /\ v.state = r.state /\ v.adjoint = a /\ v.con = con /\ v.obj = obj
         /\ (v.isUpdated <=> r.isUpdated) /\ v.u = r.u /\ v.p = p /\ v.solves = r.solves
         /\ v.here = r.here /\ v.base = r.base /\ v.cand = r.cand
         /\ v.fresh = r.fresh /\ (v.legal <=> r.legal)
  BY DEF ReducedObjectives, WithAdjoint

(* The same.                                                               *)
LEMMA SetInner ==
  ASSUME NEW r \in ReducedObjectives, NEW con \in Controller, NEW obj \in Controller,
         NEW f \in BOOLEAN, NEW l \in BOOLEAN
  PROVE  LET v == WithInner(r, con, obj, f, l) IN
         /\ v \in ReducedObjectives
         /\ v.state = r.state /\ v.adjoint = r.adjoint /\ v.con = con /\ v.obj = obj
         /\ (v.isUpdated <=> r.isUpdated) /\ v.solves = r.solves
         /\ v.here = r.here /\ v.base = r.base /\ v.cand = r.cand
         /\ (v.fresh <=> f) /\ (v.legal <=> l)
  BY DEF ReducedObjectives, WithInner

(* What the inner problem assembles, or finds, belongs to the point.       *)
LEMMA AssembleMatches ==
  ASSUME NEW s, NEW h \in Content, NEW b, NEW c, Matches(s, h, b, c), NEW k \in Key
  PROVE  LET a == Assemble(s, k, h) IN
         /\ Matches(a, h, b, c) /\ Grows(s, a, k)
         /\ IsComputed(a, k) /\ Peek(a, k) = h
<1>1. CASE InnerStores /\ IsComputed(s, k)
  <2>1. Assemble(s, k, h) = s
    BY <1>1 DEF Assemble
  <2>2. Grows(s, s, k) /\ Peek(s, k) = h
    BY <1>1, GrowsNot, ReadMatches DEF Matches
  <2>3. QED BY <1>1, <2>1, <2>2
<1>2. CASE ~(InnerStores /\ IsComputed(s, k))
  <2>1. Assemble(s, k, h) = Set(s, k, h)
    BY <1>2 DEF Assemble
  <2>2. QED BY <2>1, SetMatches
<1>3. QED BY <1>1, <1>2

(* The state that is returned, stored or not, is that of the point, and    *)
(* the inner problem has heard of the pending update; with storage the     *)
(* state equation is solved only if the state was not there.               *)
LEMMA SolveStateGood ==
  ASSUME NEW r, Good(r), NEW k \in Key, NEW z \in Val, r.here = z
  PROVE  LET v == SolveState(r, k, z) IN
         /\ Good(v) /\ v.isUpdated /\ v.u = z
         /\ v.here = z /\ v.base = r.base /\ v.cand = r.cand
         /\ v.fresh = r.fresh /\ (v.legal <=> r.legal)
         /\ Grows(r.state, v.state, k) /\ v.adjoint = r.adjoint
         /\ Grows(Told(r.con, r), v.con, k) /\ v.obj = Told(r.obj, r)
         /\ Storage => IsComputed(v.state, k)
         /\ Storage \/ v.state = r.state
         /\ (Storage /\ IsComputed(r.state, k)) \/ IsComputed(v.con, k)
         /\ Storage /\ IsComputed(r.state, k) => v.solves = r.solves
<1> DEFINE hit    == Storage /\ IsComputed(r.state, k)
           told   == Told(r.con, r)
           con    == IF hit THEN told ELSE Assemble(told, k, z)
           u      == IF hit THEN Peek(r.state, k) ELSE Combine(z, {Peek(con, k)})
           looked == Allocate(r.state, k)
           st     == IF ~Storage THEN r.state ELSE IF hit THEN looked ELSE Set(looked, k, u)
           obj    == Told(r.obj, r)
           m      == IF hit \/ r.solves = MaxSolves THEN r.solves ELSE r.solves + 1
           v      == SolveState(r, k, z)
<1>1. /\ r \in ReducedObjectives /\ z \in Content
      /\ Matches(r.state, z, r.base, r.cand) /\ Matches(r.adjoint, z, r.base, r.cand)
      /\ Matches(told, z, r.base, r.cand) /\ Matches(obj, z, r.base, r.cand)
      /\ r.state \in Controller /\ obj \in Controller /\ told \in Controller
  BY DEF Good, Matches, Content
<1>2. v = WithState(r, st, con, obj, u, m)
  BY <1>1 DEF SolveState, WithState, Told, ReducedObjectives
<1>3. /\ Matches(con, z, r.base, r.cand) /\ Grows(told, con, k)
      /\ hit \/ (IsComputed(con, k) /\ Peek(con, k) = z)
  <2> HIDE DEF told
  <2>1. CASE hit
    BY <1>1, <2>1, GrowsNot
  <2>2. CASE ~hit
    <3>1. con = Assemble(told, k, z)
      BY <2>2
    <3>2. QED BY <1>1, <3>1, AssembleMatches
  <2>3. QED BY <2>1, <2>2
<1>4. u = z
  <2> HIDE DEF con
  <2>1. CASE hit
    BY <1>1, <2>1, ReadMatches
  <2>2. CASE ~hit
    BY <1>3, <2>2 DEF Combine
  <2>3. QED BY <2>1, <2>2
<1> HIDE DEF u, con, told, obj
<1>5. /\ Matches(st, z, r.base, r.cand) /\ Grows(r.state, st, k)
      /\ Storage => IsComputed(st, k)
      /\ Storage \/ st = r.state
  <2>1. /\ Matches(looked, z, r.base, r.cand) /\ Grows(r.state, looked, k)
        /\ IsComputed(looked, k) <=> IsComputed(r.state, k)
    BY <1>1, AllocateMatches
  <2> HIDE DEF looked
  <2>2. /\ Matches(Set(looked, k, z), z, r.base, r.cand)
        /\ Grows(looked, Set(looked, k, z), k) /\ IsComputed(Set(looked, k, z), k)
    BY <1>1, <2>1, SetMatches
  <2>3. Grows(r.state, Set(looked, k, z), k)
    BY <2>1, <2>2, GrowsTwice
  <2>4. Grows(r.state, r.state, k)
    BY <1>1, GrowsNot
  <2>5. CASE ~Storage
    BY <1>1, <2>4, <2>5
  <2>6. CASE Storage /\ hit
    BY <2>1, <2>6
  <2>7. CASE Storage /\ ~hit
    BY <1>4, <2>2, <2>3, <2>7
  <2>8. QED BY <2>5, <2>6, <2>7
<1>6. m \in 0 .. MaxSolves
  BY <1>1 DEF ReducedObjectives, MaxSolves
<1>7. hit => m = r.solves
  OBVIOUS
<1>8. hit <=> Storage /\ IsComputed(r.state, k)
  OBVIOUS
<1>9. st \in Controller /\ con \in Controller /\ obj \in Controller /\ u \in Content
  BY <1>1, <1>3, <1>4, <1>5 DEF Matches
<1> HIDE DEF v, st, m, hit, looked
<1>10. /\ v \in ReducedObjectives
       /\ v.state = st /\ v.adjoint = r.adjoint /\ v.con = con /\ v.obj = obj
       /\ v.isUpdated /\ v.u = u /\ v.solves = m
       /\ v.here = r.here /\ v.base = r.base /\ v.cand = r.cand
       /\ v.fresh = r.fresh /\ (v.legal <=> r.legal)
  <2>1. r \in ReducedObjectives
    BY <1>1
  <2>2. LET w == WithState(r, st, con, obj, u, m) IN
        /\ w \in ReducedObjectives
        /\ w.state = st /\ w.adjoint = r.adjoint /\ w.con = con /\ w.obj = obj
        /\ w.isUpdated /\ w.u = u /\ w.solves = m
        /\ w.here = r.here /\ w.base = r.base /\ w.cand = r.cand
        /\ w.fresh = r.fresh /\ (w.legal <=> r.legal)
    BY <2>1, <1>6, <1>9, SetState
  <2>3. QED BY <1>2, <2>2
<1>11. Good(v)
  <2>1. Told(v.con, v) = con /\ Told(v.obj, v) = obj
    BY <1>10 DEF Told
  <2>2. ~con.conUpdated /\ ~obj.conUpdated
    BY <1>1, <1>3 DEF Matches
  <2>3. QED BY <1>1, <1>3, <1>5, <1>10, <2>1, <2>2 DEF Good
<1>12. QED BY <1>3, <1>4, <1>5, <1>7, <1>8, <1>10, <1>11 DEF v, told, obj

(* The adjoint that is returned for the state in state_ belongs to the     *)
(* point, and no state equation is solved for it.                          *)
LEMMA SolveAdjointGood ==
  ASSUME NEW r, Good(r), r.isUpdated, NEW k \in Key, NEW z \in Val, r.here = z, r.u = z
  PROVE  LET v == SolveAdjoint(r, k, z) IN
         /\ Good(v) /\ v.isUpdated /\ v.u = z /\ v.p = z
         /\ v.here = z /\ v.base = r.base /\ v.cand = r.cand
         /\ v.fresh = r.fresh /\ (v.legal <=> r.legal) /\ v.solves = r.solves
         /\ v.state = r.state /\ Grows(r.adjoint, v.adjoint, k)
         /\ Grows(r.con, v.con, k) /\ Grows(r.obj, v.obj, k)
         /\ Storage => IsComputed(v.adjoint, k)
<1> DEFINE hit    == Storage /\ IsComputed(r.adjoint, k)
           obj    == IF hit THEN r.obj ELSE Assemble(r.obj, k, z)
           con    == IF hit THEN r.con ELSE Assemble(r.con, k, z)
           p      == IF hit THEN Peek(r.adjoint, k)
                     ELSE Combine(z, {r.u, Peek(obj, k), Peek(con, k)})
           looked == Allocate(r.adjoint, k)
           a      == IF ~Storage THEN r.adjoint ELSE IF hit THEN looked ELSE Set(looked, k, p)
           v      == SolveAdjoint(r, k, z)
<1>1. /\ r \in ReducedObjectives /\ z \in Content
      /\ Matches(r.state, z, r.base, r.cand) /\ Matches(r.adjoint, z, r.base, r.cand)
      /\ Matches(r.con, z, r.base, r.cand) /\ Matches(r.obj, z, r.base, r.cand)
      /\ r.adjoint \in Controller /\ r.con \in Controller /\ r.obj \in Controller
  BY DEF Good, Matches, Content, Told
<1>2. v = WithAdjoint(r, a, con, obj, p)
  BY <1>1 DEF SolveAdjoint, WithAdjoint, ReducedObjectives
<1>3. /\ Matches(con, z, r.base, r.cand) /\ Grows(r.con, con, k)
      /\ hit \/ (IsComputed(con, k) /\ Peek(con, k) = z)
  <2>1. CASE hit
    BY <1>1, <2>1, GrowsNot
  <2>2. CASE ~hit
    <3>1. con = Assemble(r.con, k, z)
      BY <2>2
    <3>2. QED BY <1>1, <3>1, AssembleMatches
  <2>3. QED BY <2>1, <2>2
<1>4. /\ Matches(obj, z, r.base, r.cand) /\ Grows(r.obj, obj, k)
      /\ hit \/ (IsComputed(obj, k) /\ Peek(obj, k) = z)
  <2>1. CASE hit
    BY <1>1, <2>1, GrowsNot
  <2>2. CASE ~hit
    <3>1. obj = Assemble(r.obj, k, z)
      BY <2>2
    <3>2. QED BY <1>1, <3>1, AssembleMatches
  <2>3. QED BY <2>1, <2>2
<1>5. p = z
  <2> HIDE DEF con, obj
  <2>1. CASE hit
    BY <1>1, <2>1, ReadMatches
  <2>2. CASE ~hit
    <3>1. {r.u, Peek(obj, k), Peek(con, k)} = {z}
      BY <1>3, <1>4, <2>2
    <3>2. QED BY <2>2, <3>1 DEF Combine
  <2>3. QED BY <2>1, <2>2
<1> HIDE DEF p, con, obj
<1>6. /\ Matches(a, z, r.base, r.cand) /\ Grows(r.adjoint, a, k)
      /\ Storage => IsComputed(a, k)
  <2>1. /\ Matches(looked, z, r.base, r.cand) /\ Grows(r.adjoint, looked, k)
        /\ IsComputed(looked, k) <=> IsComputed(r.adjoint, k)
    BY <1>1, AllocateMatches
  <2> HIDE DEF looked
  <2>2. /\ Matches(Set(looked, k, z), z, r.base, r.cand)
        /\ Grows(looked, Set(looked, k, z), k) /\ IsComputed(Set(looked, k, z), k)
    BY <1>1, <2>1, SetMatches
  <2>3. Grows(r.adjoint, Set(looked, k, z), k)
    BY <2>1, <2>2, GrowsTwice
  <2>4. Grows(r.adjoint, r.adjoint, k)
    BY <1>1, GrowsNot
  <2>5. CASE ~Storage
    BY <1>1, <2>4, <2>5
  <2>6. CASE Storage /\ hit
    BY <2>1, <2>6
  <2>7. CASE Storage /\ ~hit
    BY <1>5, <2>2, <2>3, <2>7
  <2>8. QED BY <2>5, <2>6, <2>7
<1>7. a \in Controller /\ con \in Controller /\ obj \in Controller /\ p \in Content
  BY <1>1, <1>3, <1>4, <1>5, <1>6 DEF Matches
<1> HIDE DEF v, a, hit, looked
<1>8. /\ v \in ReducedObjectives
      /\ v.state = r.state /\ v.adjoint = a /\ v.con = con /\ v.obj = obj
      /\ (v.isUpdated <=> r.isUpdated) /\ v.u = r.u /\ v.p = p /\ v.solves = r.solves
      /\ v.here = r.here /\ v.base = r.base /\ v.cand = r.cand
      /\ v.fresh = r.fresh /\ (v.legal <=> r.legal)
  <2>1. r \in ReducedObjectives
    BY <1>1
  <2>2. LET w == WithAdjoint(r, a, con, obj, p) IN
        /\ w \in ReducedObjectives
        /\ w.state = r.state /\ w.adjoint = a /\ w.con = con /\ w.obj = obj
        /\ (w.isUpdated <=> r.isUpdated) /\ w.u = r.u /\ w.p = p /\ w.solves = r.solves
        /\ w.here = r.here /\ w.base = r.base /\ w.cand = r.cand
        /\ w.fresh = r.fresh /\ (w.legal <=> r.legal)
    BY <2>1, <1>7, SetAdjoint
  <2>3. QED BY <1>2, <2>2
<1>9. Good(v)
  <2>1. Told(v.con, v) = con /\ Told(v.obj, v) = obj
    BY <1>8 DEF Told
  <2>2. ~con.conUpdated /\ ~obj.conUpdated
    BY <1>3, <1>4 DEF Matches
  <2>3. QED BY <1>1, <1>3, <1>4, <1>6, <1>8, <2>1, <2>2 DEF Good
<1>10. QED BY <1>3, <1>4, <1>5, <1>6, <1>8, <1>9 DEF v

(* What an evaluation at z for k makes of an objective.                    *)
Evaluated(r, v, k, z) ==
  /\ Good(v) /\ v.isUpdated
  /\ v.here = z /\ v.base = r.base /\ v.cand = r.cand
  /\ v.fresh = r.fresh /\ (v.legal <=> r.legal)
  /\ Grows(r.state, v.state, k) /\ Grows(r.adjoint, v.adjoint, k)
  /\ Grows(Told(r.con, r), v.con, k) /\ Grows(Told(r.obj, r), v.obj, k)
  /\ Storage => IsComputed(v.state, k)
  /\ Storage \/ v.state = r.state
  /\ IsComputed(v.obj, k)
  /\ (Storage /\ IsComputed(r.state, k)) \/ IsComputed(v.con, k)
  /\ Storage /\ IsComputed(r.state, k) => v.solves = r.solves

(* value() answers for the point it is asked for, and leaves all it stores *)
(* in order; it has no use for an adjoint.                                 *)
LEMMA ValueGood ==
  ASSUME NEW r, Good(r), NEW k \in Key, NEW z \in Val, r.here = z
  PROVE  LET v == Value(r, k, z) IN Evaluated(r, v, k, z) /\ v.adjoint = r.adjoint
<1> DEFINE s   == SolveState(r, k, z)
           obj == Assemble(s.obj, k, z)
           f   == s.fresh /\ {s.u, Peek(obj, k)} = {z}
           l   == s.legal /\ s.here = z
           v   == Value(r, k, z)
<1>1. /\ Good(s) /\ s.isUpdated /\ s.u = z
      /\ s.here = z /\ s.base = r.base /\ s.cand = r.cand
      /\ s.fresh = r.fresh /\ (s.legal <=> r.legal)
      /\ Grows(r.state, s.state, k) /\ s.adjoint = r.adjoint
      /\ Grows(Told(r.con, r), s.con, k) /\ s.obj = Told(r.obj, r)
      /\ Storage => IsComputed(s.state, k)
      /\ Storage \/ s.state = r.state
      /\ (Storage /\ IsComputed(r.state, k)) \/ IsComputed(s.con, k)
      /\ Storage /\ IsComputed(r.state, k) => s.solves = r.solves
  BY SolveStateGood
<1> HIDE DEF s
<1>2. /\ s \in ReducedObjectives /\ z \in Content
      /\ Matches(s.state, z, r.base, r.cand) /\ Matches(s.adjoint, z, r.base, r.cand)
      /\ Matches(s.con, z, r.base, r.cand) /\ Matches(s.obj, z, r.base, r.cand)
      /\ s.con \in Controller /\ s.adjoint \in Controller
  BY <1>1 DEF Good, Matches, Content, Told
<1>3. /\ Matches(obj, z, r.base, r.cand) /\ Grows(s.obj, obj, k)
      /\ IsComputed(obj, k) /\ Peek(obj, k) = z
  BY <1>2, AssembleMatches
<1>4. v = WithInner(s, s.con, obj, f, l)
  BY <1>2 DEF Value, Answered, WithInner, ReducedObjectives, s
<1> HIDE DEF obj, v
<1>5. (f <=> s.fresh) /\ (l <=> s.legal)
  BY <1>1, <1>3
<1>6. f \in BOOLEAN /\ l \in BOOLEAN /\ s.fresh \in BOOLEAN /\ obj \in Controller
  <2>1. s.fresh \in BOOLEAN
    BY <1>2 DEF ReducedObjectives
  <2>2. QED BY <1>3, <2>1 DEF Matches
<1> HIDE DEF f, l
<1>7. /\ v \in ReducedObjectives
      /\ v.state = s.state /\ v.adjoint = s.adjoint /\ v.con = s.con /\ v.obj = obj
      /\ (v.isUpdated <=> s.isUpdated) /\ v.solves = s.solves
      /\ v.here = s.here /\ v.base = s.base /\ v.cand = s.cand
      /\ (v.fresh <=> f) /\ (v.legal <=> l)
  <2>1. s \in ReducedObjectives /\ s.con \in Controller
    BY <1>2
  <2>2. LET w == WithInner(s, s.con, obj, f, l) IN
        /\ w \in ReducedObjectives
        /\ w.state = s.state /\ w.adjoint = s.adjoint /\ w.con = s.con /\ w.obj = obj
        /\ (w.isUpdated <=> s.isUpdated) /\ w.solves = s.solves
        /\ w.here = s.here /\ w.base = s.base /\ w.cand = s.cand
        /\ (w.fresh <=> f) /\ (w.legal <=> l)
    BY <2>1, <1>6, SetInner, SMTT(30), ZenonT(30)
  <2>3. QED BY <1>4, <2>2
<1>8. v.fresh = r.fresh
  <2>1. v.fresh \in BOOLEAN
    BY <1>7 DEF ReducedObjectives
  <2>2. QED BY <1>1, <1>5, <1>6, <1>7, <2>1
<1>9. Good(v)
  <2>1. Told(v.con, v) = v.con /\ Told(v.obj, v) = v.obj
    BY <1>1, <1>7 DEF Told
  <2>2. ~v.con.conUpdated /\ ~v.obj.conUpdated
    BY <1>2, <1>3, <1>7 DEF Matches
  <2>3. QED BY <1>1, <1>2, <1>3, <1>7, <2>1, <2>2 DEF Good
<1>10. Grows(r.adjoint, r.adjoint, k)
  BY <1>1, <1>2, GrowsNot
<1>11. Evaluated(r, v, k, z)
  BY <1>1, <1>3, <1>5, <1>7, <1>8, <1>9, <1>10 DEF Evaluated
<1>12. QED BY <1>1, <1>7, <1>11 DEF v

(* gradient() and hessVec() do too, and leave the adjoint stored as well.  *)
LEMMA GradientGood ==
  ASSUME NEW r, Good(r), NEW k \in Key, NEW z \in Val, r.here = z
  PROVE  LET v == Gradient(r, k, z) IN
         /\ Evaluated(r, v, k, z)
         /\ Storage => IsComputed(v.adjoint, k)
         /\ IsComputed(v.con, k)
<1> DEFINE t   == SolveState(r, k, z)
           s   == SolveAdjoint(t, k, z)
           obj == Assemble(s.obj, k, z)
           con == Assemble(s.con, k, z)
           f   == s.fresh /\ {s.u, s.p, Peek(obj, k), Peek(con, k)} = {z}
           l   == s.legal /\ s.here = z
           v   == Gradient(r, k, z)
<1>1. /\ Good(t) /\ t.isUpdated /\ t.u = z
      /\ t.here = z /\ t.base = r.base /\ t.cand = r.cand
      /\ t.fresh = r.fresh /\ (t.legal <=> r.legal)
      /\ Grows(r.state, t.state, k) /\ t.adjoint = r.adjoint
      /\ Grows(Told(r.con, r), t.con, k) /\ t.obj = Told(r.obj, r)
      /\ Storage => IsComputed(t.state, k)
      /\ Storage \/ t.state = r.state
      /\ (Storage /\ IsComputed(r.state, k)) \/ IsComputed(t.con, k)
      /\ Storage /\ IsComputed(r.state, k) => t.solves = r.solves
  BY SolveStateGood
<1> HIDE DEF t
<1>2. /\ Good(s) /\ s.isUpdated /\ s.u = z /\ s.p = z
      /\ s.here = z /\ s.base = t.base /\ s.cand = t.cand
      /\ s.fresh = t.fresh /\ (s.legal <=> t.legal) /\ s.solves = t.solves
      /\ s.state = t.state /\ Grows(t.adjoint, s.adjoint, k)
      /\ Grows(t.con, s.con, k) /\ Grows(t.obj, s.obj, k)
      /\ Storage => IsComputed(s.adjoint, k)
  BY <1>1, SolveAdjointGood
<1> HIDE DEF s
<1>3. /\ s \in ReducedObjectives /\ z \in Content
      /\ Matches(s.state, z, r.base, r.cand) /\ Matches(s.adjoint, z, r.base, r.cand)
      /\ Matches(s.con, z, r.base, r.cand) /\ Matches(s.obj, z, r.base, r.cand)
  BY <1>1, <1>2 DEF Good, Content, Told
<1>4. /\ Matches(obj, z, r.base, r.cand) /\ Grows(s.obj, obj, k)
      /\ IsComputed(obj, k) /\ Peek(obj, k) = z
  BY <1>3, AssembleMatches
<1>5. /\ Matches(con, z, r.base, r.cand) /\ Grows(s.con, con, k)
      /\ IsComputed(con, k) /\ Peek(con, k) = z
  BY <1>3, AssembleMatches
<1>6. v = WithInner(s, con, obj, f, l)
  BY <1>3, SMTT(30), ZenonT(30) DEF Gradient, Answered, WithInner, ReducedObjectives, s, t
<1> HIDE DEF obj, con, v
<1>7. (f <=> s.fresh) /\ (l <=> s.legal)
  <2>1. {s.u, s.p, Peek(obj, k), Peek(con, k)} = {z}
    BY <1>2, <1>4, <1>5
  <2>2. QED BY <1>2, <2>1
<1>8. /\ f \in BOOLEAN /\ l \in BOOLEAN /\ s.fresh \in BOOLEAN
      /\ obj \in Controller /\ con \in Controller
  <2>1. s.fresh \in BOOLEAN
    BY <1>3 DEF ReducedObjectives
  <2>2. QED BY <1>4, <1>5, <2>1 DEF Matches
<1> HIDE DEF f, l
<1>9. /\ v \in ReducedObjectives
      /\ v.state = s.state /\ v.adjoint = s.adjoint /\ v.con = con /\ v.obj = obj
      /\ (v.isUpdated <=> s.isUpdated) /\ v.solves = s.solves
      /\ v.here = s.here /\ v.base = s.base /\ v.cand = s.cand
      /\ (v.fresh <=> f) /\ (v.legal <=> l)
  <2>1. s \in ReducedObjectives
    BY <1>3
  <2>2. LET w == WithInner(s, con, obj, f, l) IN
        /\ w \in ReducedObjectives
        /\ w.state = s.state /\ w.adjoint = s.adjoint /\ w.con = con /\ w.obj = obj
        /\ (w.isUpdated <=> s.isUpdated) /\ w.solves = s.solves
        /\ w.here = s.here /\ w.base = s.base /\ w.cand = s.cand
        /\ (w.fresh <=> f) /\ (w.legal <=> l)
    BY <2>1, <1>8, SetInner
  <2>3. QED BY <1>6, <2>2
<1>10. v.fresh = r.fresh
  <2>1. v.fresh \in BOOLEAN
    BY <1>9 DEF ReducedObjectives
  <2>2. QED BY <1>1, <1>2, <1>7, <1>8, <1>9, <2>1
<1>11. Good(v)
  <2>1. Told(v.con, v) = v.con /\ Told(v.obj, v) = v.obj
    BY <1>2, <1>9 DEF Told
  <2>2. ~v.con.conUpdated /\ ~v.obj.conUpdated
    BY <1>4, <1>5, <1>9 DEF Matches
  <2>3. QED BY <1>1, <1>2, <1>3, <1>4, <1>5, <1>9, <2>1, <2>2 DEF Good
<1>12. Grows(Told(r.con, r), v.con, k) /\ Grows(Told(r.obj, r), v.obj, k)
  BY <1>1, <1>2, <1>4, <1>5, <1>9, GrowsTwice
<1>13. Evaluated(r, v, k, z)
  BY <1>1, <1>2, <1>4, <1>5, <1>7, <1>9, <1>10, <1>11, <1>12 DEF Evaluated
<1>14. QED BY <1>2, <1>5, <1>9, <1>13 DEF v

-----------------------------------------------------------------------------
(* An objective of which one parameter alone is ever used, and whose trial *)
(* tier has never held an adjoint.                                         *)
Unused(s) == \A t \in Tier, j \in Key : ~s.tier[t][j].alloc

OnlyKey(r, k) ==
  /\ r.isUpdated \/ r.newUpdate
  /\ Only(r.state, k) /\ Only(r.adjoint, k) /\ Only(r.con, k) /\ Only(r.obj, k)
  /\ Storage \/ Unused(r.state)

NoTrialAdjoint(r) == \A j \in Key : ~r.adjoint.tier["trial"][j].alloc

(* What the inner problem is told allocates nothing.                       *)
LEMMA ToldOnly ==
  ASSUME NEW r, Good(r), NEW k \in Key, OnlyKey(r, k)
  PROVE  Only(Told(r.con, r), k) /\ Only(Told(r.obj, r), k)
<1>1. /\ r.con \in Controller /\ r.obj \in Controller
      /\ ~r.con.conUpdated /\ ~r.obj.conUpdated /\ r.updateType \in UpdateType
  BY DEF Good, ReducedObjectives
<1>2. CASE r.isUpdated
  BY <1>2 DEF Told, OnlyKey
<1>3. CASE ~r.isUpdated
  <2>1. /\ Told(r.con, r) = ObjectiveUpdate(r.con, r.updateType)
        /\ Told(r.obj, r) = ObjectiveUpdate(r.obj, r.updateType)
    BY <1>3 DEF Told, Deliver, OnlyKey
  <2>2. Only(r.con, k) /\ Only(r.obj, k)
    BY DEF OnlyKey
  <2>3. QED BY <1>1, <2>1, <2>2, UpdateOnly
<1>4. QED BY <1>2, <1>3

(* Neither evaluations nor updates use another parameter.                  *)
LEMMA EvaluatedOnly ==
  ASSUME NEW r, Good(r), NEW k \in Key, NEW v, NEW z, Evaluated(r, v, k, z), OnlyKey(r, k)
  PROVE  OnlyKey(v, k)
<1>1. Only(Told(r.con, r), k) /\ Only(Told(r.obj, r), k) /\ Only(r.state, k) /\ Only(r.adjoint, k)
  BY ToldOnly DEF OnlyKey
<1>2. QED BY <1>1, GrowsOnly DEF Evaluated, OnlyKey

(* The same.                                                               *)
LEMMA UpdatedOnly ==
  ASSUME NEW r, Good(r), NEW k \in Key, NEW z \in Val, NEW type \in UpdateType, OnlyKey(r, k)
  PROVE  OnlyKey(Update(r, type, z), k)
<1>1. /\ r \in ReducedObjectives /\ ~r.state.conUpdated /\ ~r.adjoint.conUpdated
      /\ r.state \in Controller /\ r.adjoint \in Controller
  BY DEF Good, Matches
<1> DEFINE v == Update(r, type, z)
<1>2. /\ v.state = ObjectiveUpdate(r.state, type) /\ v.adjoint = ObjectiveUpdate(r.adjoint, type)
      /\ v.con = r.con /\ v.obj = r.obj /\ v.newUpdate
  BY <1>1, UpdateFields
<1> HIDE DEF v
<1>3. Only(v.state, k) /\ Only(v.adjoint, k) /\ Only(v.con, k) /\ Only(v.obj, k)
  BY <1>1, <1>2, UpdateOnly DEF OnlyKey
<1>4. Unused(r.state) => Unused(v.state)
  <2> DEFINE a == ObjectiveUpdate(r.state, type)
  <2>1. \A t \in Tier, j \in Key :
          a.tier[t][j].alloc => r.state.tier[t][j].alloc \/ r.state.tier["trial"][j].alloc
    BY <1>1, UpdateTiers
  <2>2. v.state = a
    BY <1>2
  <2> HIDE DEF a
  <2>3. QED BY <2>1, <2>2 DEF Unused, Tier
<1>5. QED BY <1>2, <1>3, <1>4 DEF OnlyKey, v

(* No adjoint is computed while the trial tier is selected.                *)
LEMMA EvaluatedTrialAdjoint ==
  ASSUME NEW r, Good(r), NEW k \in Key, NEW v, NEW z, Evaluated(r, v, k, z),
         r.cand = NoVal, NoTrialAdjoint(r)
  PROVE  NoTrialAdjoint(v)
<1>1. ActiveTier(r.adjoint) # "trial"
  BY DEF Good, Matches, Selected
<1>2. QED BY <1>1 DEF Evaluated, Grows, NoTrialAdjoint, Tier

(* Updates allocate none either.                                           *)
LEMMA UpdatedTrialAdjoint ==
  ASSUME NEW r, Good(r), NEW z \in Val, NEW type \in UpdateType, NoTrialAdjoint(r)
  PROVE  NoTrialAdjoint(Update(r, type, z))
<1>1. r \in ReducedObjectives /\ ~r.state.conUpdated /\ ~r.adjoint.conUpdated /\ r.adjoint \in Controller
  BY DEF Good, Matches
<1>2. Update(r, type, z).adjoint = ObjectiveUpdate(r.adjoint, type)
  BY <1>1, UpdateFields
<1> DEFINE a == ObjectiveUpdate(r.adjoint, type)
<1>3. \A j \in Key : a.tier["trial"][j].alloc => r.adjoint.tier["trial"][j].alloc
  BY <1>1, UpdateTiers DEF Tier
<1> HIDE DEF a
<1>4. QED BY <1>2, <1>3 DEF NoTrialAdjoint, a

-----------------------------------------------------------------------------
(* A Hessian by finite differences.                                        *)

WithSolves(r, m) == [r EXCEPT !.solves = m]

(* A record so changed.                                                    *)
LEMMA SetSolves ==
  ASSUME NEW r \in ReducedObjectives, NEW m \in 0 .. MaxSolves
  PROVE  LET v == WithSolves(r, m) IN
         /\ v \in ReducedObjectives
         /\ v.state = r.state /\ v.adjoint = r.adjoint /\ v.con = r.con /\ v.obj = r.obj
         /\ (v.isUpdated <=> r.isUpdated) /\ (v.newUpdate <=> r.newUpdate)
         /\ v.updateType = r.updateType /\ v.solves = m
         /\ v.here = r.here /\ v.base = r.base /\ v.cand = r.cand
         /\ v.fresh = r.fresh /\ (v.legal <=> r.legal)
  BY DEF ReducedObjectives, WithSolves

(* At the iterate, a finite-difference Hessian answers from the points it  *)
(* visits, loses nothing that was known of the iterate, and leaves a       *)
(* Revert that the inner problem has yet to hear of.                       *)
LEMMA FDHessVecGood ==
  ASSUME NEW r, Good(r), NEW k \in Key, NEW z \in Val, NEW y \in Val,
         r.here = z, r.base = z, r.cand = NoVal, ActiveTier(r.state) = "main"
  PROVE  LET v == FDHessVec(r, k, z, y) IN
         /\ Good(v) /\ MayMiss(v) /\ v.fresh = r.fresh /\ (v.legal <=> r.legal)
         /\ v.here = z /\ v.base = z /\ v.cand = NoVal
         /\ ActiveTier(v.state) = "main"
         /\ \A j \in Key : r.state.tier["main"][j].flag => v.state.tier["main"][j].flag
         /\ Storage => v.state.tier["main"][k].flag
         /\ Storage /\ r.state.tier["main"][k].flag => v.solves = r.solves
         /\ OnlyKey(r, k) => OnlyKey(v, k)
         /\ NoTrialAdjoint(r) => NoTrialAdjoint(v)
<1> DEFINE g == Gradient(r, k, z)
           t == Update(g, "Temp", y)
           h == Gradient(t, k, y)
           w == Update(h, "Revert", z)
           v == FDHessVec(r, k, z, y)
<1>1. Evaluated(r, g, k, z)
  BY GradientGood
<1> HIDE DEF g
<1>2. /\ Good(g) /\ g.isUpdated /\ g.here = z /\ g.base = z /\ g.cand = NoVal
      /\ g.fresh = r.fresh /\ (g.legal <=> r.legal)
      /\ Grows(r.state, g.state, k)
      /\ Storage => IsComputed(g.state, k)
      /\ Storage /\ IsComputed(r.state, k) => g.solves = r.solves
  BY <1>1 DEF Evaluated
<1>3. /\ g \in ReducedObjectives /\ g.state \in Controller
      /\ ~g.state.conUpdated /\ ~g.adjoint.conUpdated /\ g.solves \in 0 .. MaxSolves
  BY <1>2 DEF Good, Matches, ReducedObjectives
<1>4. /\ t.state = ObjectiveUpdate(g.state, "Temp")
      /\ t.here = y /\ t.base = z /\ t.cand = NoVal
      /\ t.fresh = g.fresh /\ (t.legal <=> g.legal)
  <2>1. LegalUpdate(g, "Temp", y)
    BY <1>2, NoValAssumption DEF LegalUpdate
  <2>2. QED BY <1>2, <1>3, <2>1, UpdateFields DEF UpdateType, BaseAfter, CandAfter
<1>5. Good(t)
  BY <1>2, UpdateGood DEF MayMiss, UpdateType
<1> HIDE DEF t
<1>6. Evaluated(t, h, k, y)
  BY <1>4, <1>5, GradientGood
<1> HIDE DEF h
<1>7. /\ Good(h) /\ h.isUpdated /\ h.here = y /\ h.base = z /\ h.cand = NoVal
      /\ h.fresh = t.fresh /\ (h.legal <=> t.legal)
      /\ Grows(t.state, h.state, k)
  BY <1>4, <1>6 DEF Evaluated
<1>8. /\ h \in ReducedObjectives /\ h.state \in Controller
      /\ ~h.state.conUpdated /\ ~h.adjoint.conUpdated
  BY <1>7 DEF Good, Matches, ReducedObjectives
<1>9. /\ w \in ReducedObjectives
      /\ w.state = ObjectiveUpdate(h.state, "Revert")
      /\ ~w.isUpdated /\ w.newUpdate /\ w.updateType = "Revert"
      /\ w.here = z /\ w.base = z /\ w.cand = NoVal
      /\ w.fresh = h.fresh /\ (w.legal <=> h.legal)
  <2>1. LegalUpdate(h, "Revert", z)
    BY <1>7, NoValAssumption DEF LegalUpdate
  <2>2. QED BY <1>7, <1>8, <2>1, UpdateFields DEF UpdateType, BaseAfter, CandAfter
<1>10. Good(w)
  BY <1>7, UpdateGood DEF MayMiss, UpdateType
<1>11. OnlyKey(r, k) => OnlyKey(w, k)
  BY <1>1, <1>2, <1>5, <1>6, <1>7, EvaluatedOnly, UpdatedOnly DEF t, UpdateType
<1>12. NoTrialAdjoint(r) => NoTrialAdjoint(w)
  BY <1>1, <1>2, <1>4, <1>5, <1>6, <1>7, EvaluatedTrialAdjoint, UpdatedTrialAdjoint DEF t, UpdateType
<1>13. v = WithSolves(w, g.solves)
  BY <1>9 DEF FDHessVec, WithSolves, g, t, h
<1> HIDE DEF w, v
<1>14. /\ v \in ReducedObjectives
       /\ v.state = w.state /\ v.adjoint = w.adjoint /\ v.con = w.con /\ v.obj = w.obj
       /\ (v.isUpdated <=> w.isUpdated) /\ (v.newUpdate <=> w.newUpdate)
       /\ v.updateType = w.updateType /\ v.solves = g.solves
       /\ v.here = w.here /\ v.base = w.base /\ v.cand = w.cand
       /\ v.fresh = w.fresh /\ (v.legal <=> w.legal)
  BY <1>3, <1>9, <1>13, SetSolves
<1>15. Good(v)
  <2>1. /\ Told(v.con, v) = Told(w.con, w) /\ Told(v.obj, v) = Told(w.obj, w)
    BY <1>9, <1>14 DEF Told, Deliver
  <2>2. QED BY <1>10, <1>14, <2>1 DEF Good
<1>16. /\ v.fresh = r.fresh /\ (v.legal <=> r.legal)
  BY <1>2, <1>4, <1>7, <1>9, <1>14
<1>17. /\ OnlyKey(w, k) => OnlyKey(v, k)
       /\ NoTrialAdjoint(w) => NoTrialAdjoint(v)
  BY <1>14 DEF OnlyKey, NoTrialAdjoint
<1>18. /\ ActiveTier(v.state) = "main"
       /\ \A j \in Key : v.state.tier["main"][j] = g.state.tier["main"][j]
  <2>1. /\ t.state \in Controller /\ ActiveTier(t.state) = "temp"
        /\ t.state.tier["main"] = g.state.tier["main"]
    BY <1>3, <1>4, UpdateTiers DEF UpdateType
  <2>2. \A j \in Key : h.state.tier["main"][j] = t.state.tier["main"][j]
    BY <1>7, <2>1 DEF Grows, Tier
  <2>3. ActiveTier(w.state) = "main" /\ w.state.tier = h.state.tier
    BY <1>8, <1>9, UpdateTiers DEF UpdateType
  <2>4. QED BY <1>14, <2>1, <2>2, <2>3
<1>19. /\ \A j \in Key : r.state.tier["main"][j].flag => g.state.tier["main"][j].flag
       /\ Storage => g.state.tier["main"][k].flag
       /\ Storage /\ r.state.tier["main"][k].flag => g.solves = r.solves
  BY <1>2 DEF Grows, IsComputed, SlotOf, Tier
<1>20. MayMiss(v)
  BY <1>9, <1>14 DEF MayMiss
<1>21. QED BY <1>9, <1>11, <1>12, <1>14, <1>15, <1>16, <1>17, <1>18, <1>19, <1>20 DEF v

-----------------------------------------------------------------------------
(* A reduced objective in the hands of an optimizer that uses one          *)
(* parameter, k, steps from an iterate to a trial point and back or on.    *)

(* It can be told of another update.                                       *)
Fit(r, k) ==
  /\ Good(r) /\ MayMiss(r) /\ r.fresh /\ r.legal
  /\ OnlyKey(r, k) /\ NoTrialAdjoint(r)

(* Moreover, b is the iterate, and its state has been paid for.            *)
Usable(r, k, b) ==
  /\ Fit(r, k)
  /\ r.base = b
  /\ Storage => r.state.tier["main"][k].flag

(* It stands at the iterate z.                                             *)
AtIterate(r, k, z) ==
  /\ Usable(r, k, z)
  /\ r.here = z /\ r.cand = NoVal
  /\ ActiveTier(r.state) = "main"

(* It has been asked for the value at the trial point z.                   *)
AtCandidate(r, k, b, z) ==
  /\ Usable(r, k, b)
  /\ r.isUpdated /\ r.here = z /\ r.cand = z
  /\ AllPromotable(r, z)
  /\ Storage => r.state.tier["trial"][k].flag

(* What of an objective the lemmas about update() ask.                     *)
LEMMA UsableParts ==
  ASSUME NEW r, Good(r)
  PROVE  /\ r \in ReducedObjectives
         /\ r.state \in Controller /\ r.adjoint \in Controller
         /\ r.con \in Controller /\ r.obj \in Controller
         /\ ~r.state.conUpdated /\ ~r.adjoint.conUpdated
         /\ ~r.con.conUpdated /\ ~r.obj.conUpdated
         /\ Honest(r.state)
  BY DEF Good, Matches, TiersMatch, ReducedObjectives

(* Evaluations at the iterate keep it, and solve no state equation.        *)
LEMMA IterateAsked ==
  ASSUME NEW r, NEW k \in Key, NEW z, AtIterate(r, k, z), NEW v, Evaluated(r, v, k, z)
  PROVE  AtIterate(v, k, z) /\ (Storage => v.solves = r.solves)
<1>1. OnlyKey(v, k) /\ NoTrialAdjoint(v)
  BY EvaluatedOnly, EvaluatedTrialAdjoint DEF AtIterate, Usable, Fit
<1>2. /\ ActiveTier(v.state) = "main"
      /\ Storage => v.state.tier["main"][k].flag
      /\ Storage => v.solves = r.solves
  BY DEF AtIterate, Usable, Fit, Evaluated, Grows, IsComputed, SlotOf
<1>3. QED BY <1>1, <1>2 DEF AtIterate, Usable, Fit, Evaluated, MayMiss

(* So does a Hessian by finite differences.                                *)
LEMMA IterateDifferenced ==
  ASSUME NEW r, NEW k \in Key, NEW z \in Val, NEW y \in Val, AtIterate(r, k, z)
  PROVE  AtIterate(FDHessVec(r, k, z, y), k, z)
<1> DEFINE v == FDHessVec(r, k, z, y)
<1>1. /\ Good(v) /\ MayMiss(v) /\ v.fresh = r.fresh /\ (v.legal <=> r.legal)
      /\ v.here = z /\ v.base = z /\ v.cand = NoVal
      /\ ActiveTier(v.state) = "main"
      /\ Storage => v.state.tier["main"][k].flag
      /\ OnlyKey(r, k) => OnlyKey(v, k)
      /\ NoTrialAdjoint(r) => NoTrialAdjoint(v)
  <2>1. /\ Good(r) /\ r.here = z /\ r.base = z /\ r.cand = NoVal
        /\ ActiveTier(r.state) = "main"
    BY DEF AtIterate, Usable, Fit
  <2>2. QED BY <2>1, FDHessVecGood
<1> HIDE DEF v
<1>2. QED BY <1>1 DEF AtIterate, Usable, Fit, v

(* A run begins with value and gradient at the initial guess.              *)
LEMMA IterateStarted ==
  ASSUME NEW r, NEW k \in Key, NEW z \in Val, Fit(r, k)
  PROVE  AtIterate(Gradient(Value(Update(r, "Initial", z), k, z), k, z), k, z)
<1> DEFINE t == Update(r, "Initial", z)
           v == Value(t, k, z)
           g == Gradient(v, k, z)
<1>1. Good(t)
  BY UpdateGood DEF UpdateType, Fit
<1>2. /\ t.here = z /\ t.base = z /\ t.cand = NoVal /\ t.fresh = r.fresh /\ t.legal
      /\ t.state = ObjectiveUpdate(r.state, "Initial")
  <2>1. LegalUpdate(r, "Initial", z)
    BY DEF LegalUpdate
  <2>2. r \in ReducedObjectives /\ ~r.state.conUpdated /\ ~r.adjoint.conUpdated
    BY UsableParts DEF Fit
  <2>3. "Initial" \in UpdateType
    BY DEF UpdateType
  <2>4. /\ t.here = z /\ t.base = BaseAfter("Initial", z, r.base)
        /\ t.cand = CandAfter("Initial", z, r.cand) /\ t.fresh = r.fresh
        /\ t.legal <=> r.legal /\ LegalUpdate(r, "Initial", z)
        /\ t.state = ObjectiveUpdate(r.state, "Initial")
    BY <2>2, <2>3, UpdateFields
  <2> HIDE DEF t
  <2>5. QED BY <2>1, <2>4 DEF BaseAfter, CandAfter, Fit
<1>3. OnlyKey(t, k) /\ NoTrialAdjoint(t)
  BY UpdatedOnly, UpdatedTrialAdjoint DEF UpdateType, Fit
<1>4. ActiveTier(t.state) = "main"
  BY <1>2, UsableParts, UpdateTiers DEF UpdateType, Fit
<1> HIDE DEF t
<1>5. Evaluated(t, v, k, z)
  BY <1>1, <1>2, ValueGood
<1>6. OnlyKey(v, k) /\ NoTrialAdjoint(v)
  BY <1>1, <1>2, <1>3, <1>5, EvaluatedOnly, EvaluatedTrialAdjoint
<1>7. ActiveTier(v.state) = "main" /\ (Storage => v.state.tier["main"][k].flag)
  BY <1>4, <1>5 DEF Evaluated, Grows, IsComputed, SlotOf
<1> HIDE DEF v
<1>8. AtIterate(v, k, z)
  BY <1>2, <1>5, <1>6, <1>7 DEF Evaluated, AtIterate, Usable, Fit, MayMiss
<1>9. Evaluated(v, g, k, z)
  BY <1>8, GradientGood DEF AtIterate, Usable, Fit
<1>10. QED BY <1>8, <1>9, IterateAsked DEF v, t

(* Back at the iterate, by Revert, nothing is lost.                        *)
LEMMA CandidateRejected ==
  ASSUME NEW r, NEW k \in Key, NEW b \in Val, Usable(r, k, b)
  PROVE  LET v == Update(r, "Revert", b) IN AtIterate(v, k, b) /\ v.solves = 0
<1> DEFINE v == Update(r, "Revert", b)
<1>1. Good(v)
  BY UpdateGood DEF UpdateType, Usable, Fit
<1>2. /\ v.here = b /\ v.base = b /\ v.cand = NoVal /\ v.fresh = r.fresh /\ v.solves = 0
      /\ v.state = ObjectiveUpdate(r.state, "Revert")
      /\ ~v.isUpdated /\ v.newUpdate /\ v.updateType = "Revert"
      /\ v.legal
  <2>1. Good(r) /\ r.base = b /\ r.legal
    BY DEF Usable, Fit
  <2>2. LegalUpdate(r, "Revert", b)
    BY <2>1, NoValAssumption DEF LegalUpdate
  <2>3. QED BY <2>1, <2>2, UsableParts, UpdateFields DEF UpdateType, BaseAfter, CandAfter
<1>3. OnlyKey(v, k) /\ NoTrialAdjoint(v)
  BY UpdatedOnly, UpdatedTrialAdjoint DEF UpdateType, Usable, Fit
<1>4. ActiveTier(v.state) = "main" /\ v.state.tier = r.state.tier
  BY <1>2, UsableParts, UpdateTiers DEF UpdateType, Usable, Fit
<1> HIDE DEF v
<1>5. QED BY <1>1, <1>2, <1>3, <1>4 DEF AtIterate, Usable, Fit, MayMiss, v

(* A probe at a temporary point, taken back.                               *)
LEMMA IterateProbed ==
  ASSUME NEW r, NEW k \in Key, NEW z \in Val, NEW y \in Val, AtIterate(r, k, z)
  PROVE  AtIterate(Update(Value(Update(r, "Temp", y), k, y), "Revert", z), k, z)
<1> DEFINE t == Update(r, "Temp", y)
           v == Value(t, k, y)
<1>1. Good(r) /\ MayMiss(r) /\ OnlyKey(r, k) /\ NoTrialAdjoint(r)
  BY DEF AtIterate, Usable, Fit
<1>2. Good(t)
  BY <1>1, UpdateGood DEF UpdateType
<1>3. /\ t.here = y /\ t.base = z /\ t.cand = NoVal /\ t.fresh = r.fresh /\ t.legal
      /\ t.state = ObjectiveUpdate(r.state, "Temp")
  <2>1. r.base = z /\ r.cand = NoVal /\ r.legal
    BY DEF AtIterate, Usable, Fit
  <2>2. LegalUpdate(r, "Temp", y)
    BY <2>1, NoValAssumption DEF LegalUpdate
  <2>3. QED BY <1>1, <2>1, <2>2, UsableParts, UpdateFields DEF UpdateType, BaseAfter, CandAfter
<1>4. OnlyKey(t, k) /\ NoTrialAdjoint(t)
  BY <1>1, UpdatedOnly, UpdatedTrialAdjoint DEF UpdateType
<1>5. ActiveTier(t.state) = "temp" /\ t.state.tier["main"] = r.state.tier["main"]
  BY <1>1, <1>3, UsableParts, UpdateTiers DEF UpdateType
<1> HIDE DEF t
<1>6. Evaluated(t, v, k, y)
  BY <1>2, <1>3, ValueGood
<1>7. OnlyKey(v, k) /\ NoTrialAdjoint(v)
  BY <1>2, <1>3, <1>4, <1>6, EvaluatedOnly, EvaluatedTrialAdjoint
<1> HIDE DEF v
<1>8. v.state.tier["main"][k] = r.state.tier["main"][k]
  <2>1. Grows(t.state, v.state, k)
    BY <1>6 DEF Evaluated
  <2>2. QED BY <1>5, <2>1 DEF Grows, Tier
<1>9. Usable(v, k, z)
  BY <1>3, <1>6, <1>7, <1>8 DEF Evaluated, AtIterate, Usable, Fit, MayMiss
<1>10. QED BY <1>9, CandidateRejected DEF v, t

(* The value at a trial point: all that an Accept would promote belongs to *)
(* it, and what is stored of the iterate stays.                            *)
LEMMA CandidateTried ==
  ASSUME NEW r, NEW k \in Key, NEW b \in Val, NEW z \in Val, Usable(r, k, b)
  PROVE  LET v == Value(Update(r, "Trial", z), k, z) IN
         AtCandidate(v, k, b, z) /\ v.con.tier["trial"][k].flag
<1> DEFINE t == Update(r, "Trial", z)
           v == Value(t, k, z)
<1>1. Good(r) /\ MayMiss(r) /\ OnlyKey(r, k) /\ NoTrialAdjoint(r)
  BY DEF Usable, Fit
<1>2. Good(t)
  BY <1>1, UpdateGood DEF UpdateType
<1>3. /\ t.here = z /\ t.base = b /\ t.cand = z /\ t.fresh = r.fresh /\ t.legal
      /\ t.state = ObjectiveUpdate(r.state, "Trial")
      /\ t.con = r.con /\ t.obj = r.obj
      /\ ~t.isUpdated /\ t.newUpdate /\ t.updateType = "Trial"
  <2>1. r.base = b /\ r.legal
    BY DEF Usable, Fit
  <2>2. LegalUpdate(r, "Trial", z)
    BY <2>1, NoValAssumption DEF LegalUpdate
  <2>3. QED BY <1>1, <2>1, <2>2, UsableParts, UpdateFields DEF UpdateType, BaseAfter, CandAfter
<1>4. OnlyKey(t, k) /\ NoTrialAdjoint(t)
  BY <1>1, UpdatedOnly, UpdatedTrialAdjoint DEF UpdateType
<1>5. /\ ActiveTier(t.state) = "trial" /\ t.state.tier["main"] = r.state.tier["main"]
      /\ \A j \in Key : ~t.state.tier["trial"][j].flag
  BY <1>1, <1>3, UsableParts, UpdateTiers DEF UpdateType
<1>6. ActiveTier(Told(t.con, t)) = "trial" /\ ActiveTier(Told(t.obj, t)) = "trial"
  <2>1. /\ Told(t.con, t) = ObjectiveUpdate(r.con, "Trial")
        /\ Told(t.obj, t) = ObjectiveUpdate(r.obj, "Trial")
    BY <1>3 DEF Told, Deliver
  <2>2. QED BY <1>1, <2>1, UsableParts, UpdateTiers DEF UpdateType
<1> HIDE DEF t
<1>7. Evaluated(t, v, k, z) /\ v.adjoint = t.adjoint
  BY <1>2, <1>3, ValueGood
<1>8. OnlyKey(v, k)
  BY <1>2, <1>4, <1>7, EvaluatedOnly
<1>9. NoTrialAdjoint(v)
  BY <1>4, <1>7 DEF NoTrialAdjoint
<1> HIDE DEF v
<1>10. /\ v.state.tier["main"][k] = r.state.tier["main"][k]
       /\ Storage => v.state.tier["trial"][k].flag
       /\ v.con.tier["trial"][k].flag /\ v.obj.tier["trial"][k].flag
  <2>1. /\ Grows(t.state, v.state, k) /\ Grows(Told(t.con, t), v.con, k)
        /\ Grows(Told(t.obj, t), v.obj, k)
        /\ Storage => IsComputed(v.state, k)
        /\ IsComputed(v.obj, k)
        /\ (Storage /\ IsComputed(t.state, k)) \/ IsComputed(v.con, k)
    BY <1>7 DEF Evaluated
  <2>2. ~IsComputed(t.state, k)
    BY <1>5 DEF IsComputed, SlotOf
  <2>3. /\ ActiveTier(v.state) = "trial" /\ ActiveTier(v.con) = "trial"
        /\ ActiveTier(v.obj) = "trial"
        /\ v.state.tier["main"][k] = t.state.tier["main"][k]
    BY <1>5, <1>6, <2>1 DEF Grows, Tier
  <2>4. QED BY <1>5, <2>1, <2>2, <2>3 DEF IsComputed, SlotOf
<1>11. Usable(v, k, b)
  BY <1>3, <1>7, <1>8, <1>9, <1>10 DEF Evaluated, Usable, Fit, MayMiss
<1>12. AllPromotable(v, z)
  <2>1. /\ Good(v) /\ v.isUpdated /\ v.base = b /\ v.cand = z
    BY <1>3, <1>7 DEF Evaluated
  <2>2. /\ TiersMatch(v.state, b, z) /\ TiersMatch(v.con, b, z) /\ TiersMatch(v.obj, b, z)
    BY <2>1 DEF Good, Matches, Told
  <2>3. z # NoVal
    BY NoValAssumption
  <2>4. Promotable(v.con, z) /\ Promotable(v.obj, z)
    BY <1>8, <1>10, <2>2, <2>3 DEF Promotable, TiersMatch, OnlyKey, Only, Tier
  <2>5. Promotable(v.adjoint, z)
    BY <1>9 DEF Promotable, NoTrialAdjoint
  <2>6. Promotable(v.state, z)
    BY <1>8, <1>10, <2>2, <2>3 DEF Promotable, TiersMatch, OnlyKey, Only, Unused, Tier
  <2>7. QED BY <2>4, <2>5, <2>6 DEF AllPromotable
<1>13. QED BY <1>3, <1>7, <1>10, <1>11, <1>12 DEF Evaluated, AtCandidate, v, t

(* The trial point becomes the iterate, by Accept, and what is asked there *)
(* costs no state solve.                                                   *)
LEMMA AcceptedAsked ==
  ASSUME NEW r, NEW k \in Key, NEW b, NEW z \in Val, AtCandidate(r, k, b, z)
  PROVE  LET t == Update(r, "Accept", z) IN
         /\ Good(t) /\ t.here = z
         /\ \A v : Evaluated(t, v, k, z) => AtIterate(v, k, z) /\ (Storage => v.solves = 0)
<1> DEFINE t == Update(r, "Accept", z)
<1>1. /\ Good(r) /\ MayMiss(r) /\ OnlyKey(r, k) /\ NoTrialAdjoint(r)
      /\ AllPromotable(r, z) /\ r.fresh /\ r.legal /\ r.cand = z
  BY DEF AtCandidate, Usable, Fit
<1>2. Good(t)
  BY <1>1, UpdateGood DEF UpdateType
<1>3. /\ t.here = z /\ t.base = z /\ t.cand = NoVal /\ t.fresh = r.fresh /\ t.legal
      /\ t.state = ObjectiveUpdate(r.state, "Accept") /\ t.solves = 0
      /\ t.newUpdate
  <2>1. LegalUpdate(r, "Accept", z)
    BY <1>1, NoValAssumption DEF LegalUpdate
  <2>2. r \in ReducedObjectives /\ ~r.state.conUpdated /\ ~r.adjoint.conUpdated
    BY <1>1, UsableParts
  <2>3. "Accept" \in UpdateType
    BY DEF UpdateType
  <2>4. /\ t.here = z /\ t.base = BaseAfter("Accept", z, r.base)
        /\ t.cand = CandAfter("Accept", z, r.cand) /\ t.fresh = r.fresh
        /\ t.legal <=> r.legal /\ LegalUpdate(r, "Accept", z)
        /\ t.state = ObjectiveUpdate(r.state, "Accept") /\ t.solves = 0 /\ t.newUpdate
    BY <2>2, <2>3, UpdateFields
  <2> HIDE DEF t
  <2>5. QED BY <1>1, <2>1, <2>4 DEF BaseAfter, CandAfter
<1>4. OnlyKey(t, k) /\ NoTrialAdjoint(t)
  BY <1>1, UpdatedOnly, UpdatedTrialAdjoint DEF UpdateType
<1>5. /\ ActiveTier(t.state) = "main"
      /\ Storage => t.state.tier["main"][k].flag
  <2>1. /\ ActiveTier(t.state) = "main"
        /\ \A j \in Key : t.state.tier["main"][j].flag <=> r.state.tier["trial"][j].alloc
    BY <1>1, <1>3, UsableParts, UpdateTiers DEF UpdateType
  <2>2. Storage => r.state.tier["trial"][k].alloc
    BY <1>1, UsableParts DEF AtCandidate, Honest, Tier
  <2>3. QED BY <2>1, <2>2
<1> HIDE DEF t
<1>6. ASSUME NEW v, Evaluated(t, v, k, z)
      PROVE  AtIterate(v, k, z) /\ (Storage => v.solves = 0)
  <2>1. OnlyKey(v, k) /\ NoTrialAdjoint(v)
    BY <1>2, <1>3, <1>4, <1>6, EvaluatedOnly, EvaluatedTrialAdjoint
  <2>2. /\ ActiveTier(v.state) = "main" /\ (Storage => v.state.tier["main"][k].flag)
        /\ Storage => v.solves = 0
    BY <1>3, <1>5, <1>6 DEF Evaluated, Grows, IsComputed, SlotOf
  <2>3. AtIterate(v, k, z)
    BY <1>1, <1>3, <1>6, <2>1, <2>2 DEF Evaluated, AtIterate, Usable, Fit, MayMiss
  <2>4. QED BY <2>2, <2>3
<1>7. QED BY <1>2, <1>3, <1>6 DEF t

(* In particular the gradient.                                             *)
LEMMA CandidateAccepted ==
  ASSUME NEW r, NEW k \in Key, NEW b, NEW z \in Val, AtCandidate(r, k, b, z)
  PROVE  LET v == Gradient(Update(r, "Accept", z), k, z) IN
         AtIterate(v, k, z) /\ (Storage => v.solves = 0)
<1> DEFINE t == Update(r, "Accept", z)
           v == Gradient(t, k, z)
<1>1. /\ Good(t) /\ t.here = z
      /\ \A w : Evaluated(t, w, k, z) => AtIterate(w, k, z) /\ (Storage => w.solves = 0)
  BY AcceptedAsked
<1> HIDE DEF t
<1>2. Evaluated(t, v, k, z)
  BY <1>1, GradientGood
<1>3. QED BY <1>1, <1>2 DEF t

(* And the value, and then the gradient.                                   *)
LEMMA CandidateTaken ==
  ASSUME NEW r, NEW k \in Key, NEW b, NEW z \in Val, AtCandidate(r, k, b, z)
  PROVE  AtIterate(Gradient(Value(Update(r, "Accept", z), k, z), k, z), k, z)
<1> DEFINE t == Update(r, "Accept", z)
           v == Value(t, k, z)
           g == Gradient(v, k, z)
<1>1. /\ Good(t) /\ t.here = z
      /\ \A w : Evaluated(t, w, k, z) => AtIterate(w, k, z)
  BY AcceptedAsked
<1> HIDE DEF t
<1>2. Evaluated(t, v, k, z)
  BY <1>1, ValueGood
<1> HIDE DEF v
<1>3. AtIterate(v, k, z)
  BY <1>1, <1>2
<1>4. Evaluated(v, g, k, z)
  BY <1>3, GradientGood DEF AtIterate, Usable, Fit
<1>5. QED BY <1>3, <1>4, IterateAsked DEF v, t

-----------------------------------------------------------------------------
(* Callers that announce as accepted what was never a trial, as the bundle *)
(* method does: with trials in between nothing but types survives, and     *)
(* without them the answers stay right.                                    *)

Typed(r) ==
  /\ r \in ReducedObjectives
  /\ r.isUpdated \/ r.newUpdate
  /\ ~r.state.conUpdated /\ ~r.adjoint.conUpdated
  /\ ~r.con.conUpdated /\ ~r.obj.conUpdated

Ready(r) == Typed(r) /\ r.isUpdated

(* A controller whose pairs of updates are never left open by a constraint. *)
Alone(s) == s \in Controller /\ ~s.conUpdated

(* Operations of a controller leave it so.                                 *)
LEMMA StaysAlone ==
  ASSUME NEW s, Alone(s), NEW k \in Key
  PROVE  /\ \A type \in UpdateType : Alone(ObjectiveUpdate(s, type))
         /\ \A c \in Content : Alone(Set(s, k, c))
         /\ \A c \in Content : Alone(Assemble(s, k, c))
         /\ Alone(Allocate(s, k))
         /\ Peek(s, k) \in Content
<1>1. s \in Controller /\ ~s.conUpdated
  BY DEF Alone
<1>2. \A type \in UpdateType : Alone(ObjectiveUpdate(s, type))
  BY <1>1, UpdateTiers DEF Alone
<1>3. ASSUME NEW c \in Content PROVE Alone(Set(s, k, c))
  <2> DEFINE w == Written(c)
  <2>1. w \in Slot
    BY WrittenFacts
  <2>2. Set(s, k, c) = Fill(s, k, w)
    BY DEF Set
  <2> HIDE DEF w
  <2>3. QED BY <1>1, <2>1, <2>2, FillFacts DEF Alone
<1>4. \A c \in Content : Alone(Assemble(s, k, c))
  BY <1>3 DEF Assemble
<1>5. Alone(Allocate(s, k))
  BY <1>1, AllocateFacts DEF Alone
<1>6. Peek(s, k) \in Content
  BY <1>1, ActiveTierType DEF Peek, SlotOf, Controller, Slot
<1>7. QED BY <1>2, <1>3, <1>4, <1>5, <1>6

(* What is written is read.                                                *)
LEMMA SetThenPeek ==
  ASSUME NEW s \in Controller, NEW k \in Key, NEW z \in Content
  PROVE  Peek(Set(s, k, z), k) = z
<1> DEFINE q == Set(s, k, z)
           a == ActiveTier(s)
<1>1. Written(z) \in Slot /\ Written(z).val = z
  BY WrittenFacts
<1>2. ActiveTier(q) = a /\ q.tier[a][k] = Written(z)
  BY <1>1, FillFacts DEF Set
<1>3. QED BY <1>1, <1>2 DEF Peek, SlotOf

(* An inner problem without stores assembles for the point, whatever it    *)
(* has.                                                                    *)
LEMMA AssembledHere ==
  ASSUME ~InnerStores, NEW s, Alone(s), NEW k \in Key, NEW z \in Val
  PROVE  Peek(Assemble(s, k, z), k) = z
  BY SetThenPeek DEF Assemble, Alone, Content

(* The parts of a typed objective.                                         *)
LEMMA TypedParts ==
  ASSUME NEW r, Typed(r)
  PROVE  /\ Alone(r.state) /\ Alone(r.adjoint) /\ Alone(r.con) /\ Alone(r.obj)
         /\ Alone(Told(r.con, r)) /\ Alone(Told(r.obj, r))
         /\ r.u \in Content /\ r.p \in Content /\ r.solves \in 0 .. MaxSolves
<1>1. /\ Alone(r.state) /\ Alone(r.adjoint) /\ Alone(r.con) /\ Alone(r.obj)
      /\ r.u \in Content /\ r.p \in Content /\ r.solves \in 0 .. MaxSolves
      /\ r.updateType \in UpdateType
  BY DEF Typed, Alone, ReducedObjectives
<1>2. ASSUME NEW c, Alone(c) PROVE Alone(Told(c, r))
  <2>1. Alone(ObjectiveUpdate(c, r.updateType))
    BY <1>1, <1>2, UpdateTiers DEF Alone
  <2>2. Told(c, r) = c \/ Told(c, r) = ObjectiveUpdate(c, r.updateType)
    BY DEF Told, Deliver, Typed
  <2>3. QED BY <1>2, <2>1, <2>2
<1>3. QED BY <1>1, <1>2

(* An objective whose stores have such parts.                              *)
LEMMA TypedWhole ==
  ASSUME NEW r \in ReducedObjectives, r.isUpdated \/ r.newUpdate,
         Alone(r.state), Alone(r.adjoint), Alone(r.con), Alone(r.obj)
  PROVE  Typed(r)
  BY DEF Typed, Alone

(* Updates, of whatever type, and evaluations, at whatever point, keep a   *)
(* typed objective typed.                                                  *)
LEMMA UpdateTyped ==
  ASSUME NEW r, Typed(r), NEW type \in UpdateType, NEW z \in Val, NEW k \in Key
  PROVE  Typed(Update(r, type, z))
<1> DEFINE v == Update(r, type, z)
<1>1. /\ v \in ReducedObjectives
      /\ v.state = ObjectiveUpdate(r.state, type)
      /\ v.adjoint = ObjectiveUpdate(r.adjoint, type)
      /\ v.con = r.con /\ v.obj = r.obj /\ v.newUpdate
  BY UpdateFields DEF Typed
<1> HIDE DEF v
<1>2. Alone(v.state) /\ Alone(v.adjoint) /\ Alone(v.con) /\ Alone(v.obj)
  BY <1>1, TypedParts, StaysAlone
<1>3. Typed(v)
  BY <1>1, <1>2, TypedWhole
<1>4. QED BY <1>3 DEF v

(* The same.                                                               *)
LEMMA SolveStateTyped ==
  ASSUME NEW r, Typed(r), NEW k \in Key, NEW z \in Val
  PROVE  Ready(SolveState(r, k, z))
<1> DEFINE hit    == Storage /\ IsComputed(r.state, k)
           told   == Told(r.con, r)
           con    == IF hit THEN told ELSE Assemble(told, k, z)
           u      == IF hit THEN Peek(r.state, k) ELSE Combine(z, {Peek(con, k)})
           looked == Allocate(r.state, k)
           st     == IF ~Storage THEN r.state ELSE IF hit THEN looked ELSE Set(looked, k, u)
           obj    == Told(r.obj, r)
           m      == IF hit \/ r.solves = MaxSolves THEN r.solves ELSE r.solves + 1
           v      == SolveState(r, k, z)
<1>1. /\ Alone(r.state) /\ Alone(told) /\ Alone(obj) /\ Alone(r.adjoint)
      /\ r.solves \in 0 .. MaxSolves /\ r \in ReducedObjectives
      /\ z \in Content /\ NoVal \in Content
  BY TypedParts DEF Typed, Content
<1>2. v = WithState(r, st, con, obj, u, m)
  BY <1>1 DEF SolveState, WithState, Told, ReducedObjectives
<1>3. m \in 0 .. MaxSolves
  BY <1>1 DEF MaxSolves
<1> HIDE DEF m, told, obj
<1>4. Alone(con)
  BY <1>1, StaysAlone
<1>5. u \in Content
  <2> HIDE DEF con
  <2>1. Combine(z, {Peek(con, k)}) \in Content
    BY <1>1 DEF Combine
  <2>2. QED BY <1>1, <2>1, StaysAlone
<1> HIDE DEF u, con
<1>6. Alone(st)
  <2>1. Alone(looked)
    BY <1>1, StaysAlone
  <2> HIDE DEF looked
  <2>2. QED BY <1>1, <1>5, <2>1, StaysAlone
<1> HIDE DEF st, v
<1>7. /\ v \in ReducedObjectives /\ v.state = st /\ v.adjoint = r.adjoint
      /\ v.con = con /\ v.obj = obj /\ v.isUpdated
  <2>1. st \in Controller /\ con \in Controller /\ obj \in Controller
    BY <1>1, <1>4, <1>6 DEF Alone
  <2>2. LET w == WithState(r, st, con, obj, u, m) IN
        /\ w \in ReducedObjectives /\ w.state = st /\ w.adjoint = r.adjoint
        /\ w.con = con /\ w.obj = obj /\ w.isUpdated
    BY <1>1, <1>3, <1>5, <2>1, SetState
  <2>3. QED BY <1>2, <2>2
<1>8. Typed(v)
  BY <1>1, <1>4, <1>6, <1>7, TypedWhole
<1>9. QED BY <1>7, <1>8 DEF v, Ready

(* The same.                                                               *)
LEMMA SolveAdjointTyped ==
  ASSUME NEW r, Ready(r), NEW k \in Key, NEW z \in Val
  PROVE  Ready(SolveAdjoint(r, k, z))
<1> DEFINE hit    == Storage /\ IsComputed(r.adjoint, k)
           obj    == IF hit THEN r.obj ELSE Assemble(r.obj, k, z)
           con    == IF hit THEN r.con ELSE Assemble(r.con, k, z)
           p      == IF hit THEN Peek(r.adjoint, k)
                     ELSE Combine(z, {r.u, Peek(obj, k), Peek(con, k)})
           looked == Allocate(r.adjoint, k)
           a      == IF ~Storage THEN r.adjoint ELSE IF hit THEN looked ELSE Set(looked, k, p)
           v      == SolveAdjoint(r, k, z)
<1>1. /\ Alone(r.state) /\ Alone(r.con) /\ Alone(r.obj) /\ Alone(r.adjoint)
      /\ r \in ReducedObjectives /\ z \in Content /\ NoVal \in Content
  BY TypedParts DEF Typed, Ready, Content
<1>2. v = WithAdjoint(r, a, con, obj, p)
  BY <1>1 DEF SolveAdjoint, WithAdjoint, ReducedObjectives
<1>3. Alone(con) /\ Alone(obj)
  BY <1>1, StaysAlone
<1>4. p \in Content
  <2> HIDE DEF con, obj
  <2>1. Combine(z, {r.u, Peek(obj, k), Peek(con, k)}) \in Content
    BY <1>1 DEF Combine
  <2>2. QED BY <1>1, <2>1, StaysAlone
<1> HIDE DEF p, con, obj
<1>5. Alone(a)
  <2>1. Alone(looked)
    BY <1>1, StaysAlone
  <2> HIDE DEF looked
  <2>2. QED BY <1>1, <1>4, <2>1, StaysAlone
<1> HIDE DEF a, v
<1>6. /\ v \in ReducedObjectives /\ v.state = r.state /\ v.adjoint = a
      /\ v.con = con /\ v.obj = obj /\ (v.isUpdated <=> r.isUpdated)
  <2>1. a \in Controller /\ con \in Controller /\ obj \in Controller
    BY <1>3, <1>5 DEF Alone
  <2>2. LET w == WithAdjoint(r, a, con, obj, p) IN
        /\ w \in ReducedObjectives /\ w.state = r.state /\ w.adjoint = a
        /\ w.con = con /\ w.obj = obj /\ (w.isUpdated <=> r.isUpdated)
    BY <1>1, <1>4, <2>1, SetAdjoint
  <2>3. QED BY <1>2, <2>2
<1>7. v.isUpdated /\ Typed(v)
  BY <1>1, <1>3, <1>5, <1>6, TypedWhole DEF Ready
<1>8. QED BY <1>7 DEF v, Ready

(* The same.                                                               *)
LEMMA ValueTyped ==
  ASSUME NEW r, Typed(r), NEW k \in Key, NEW z \in Val
  PROVE  Typed(Value(r, k, z))
<1> DEFINE s   == SolveState(r, k, z)
           obj == Assemble(s.obj, k, z)
           f0  == s.fresh /\ {s.u, Peek(obj, k)} = {z}
           l   == s.legal /\ s.here = z
           v   == Value(r, k, z)
<1>1. Typed(s) /\ s.isUpdated
  BY SolveStateTyped DEF Ready
<1> HIDE DEF s
<1>2. /\ Alone(s.state) /\ Alone(s.con) /\ Alone(s.obj) /\ Alone(s.adjoint)
      /\ s \in ReducedObjectives /\ z \in Content
  BY <1>1, TypedParts DEF Typed, Content
<1>3. v = WithInner(s, s.con, obj, f0, l)
  BY <1>2 DEF Value, Answered, WithInner, ReducedObjectives, s
<1>4. Alone(obj) /\ f0 \in BOOLEAN /\ l \in BOOLEAN
  BY <1>2, StaysAlone
<1> HIDE DEF f0, l, obj, v
<1>5. /\ v \in ReducedObjectives /\ v.state = s.state /\ v.adjoint = s.adjoint
      /\ v.con = s.con /\ v.obj = obj /\ (v.isUpdated <=> s.isUpdated)
  <2>1. s.con \in Controller /\ obj \in Controller
    BY <1>2, <1>4 DEF Alone
  <2> DEFINE con == s.con
  <2>2. con \in Controller
    BY <2>1
  <2> HIDE DEF con
  <2>3. LET w == WithInner(s, con, obj, f0, l) IN
        /\ w \in ReducedObjectives /\ w.state = s.state /\ w.adjoint = s.adjoint
        /\ w.con = con /\ w.obj = obj /\ (w.isUpdated <=> s.isUpdated)
    BY <1>2, <1>4, <2>1, <2>2, SetInner
  <2>4. QED BY <1>3, <2>3 DEF con
<1>6. Typed(v)
  BY <1>1, <1>2, <1>4, <1>5, TypedWhole
<1>7. QED BY <1>6 DEF v

(* The same.                                                               *)
LEMMA GradientTyped ==
  ASSUME NEW r, Typed(r), NEW k \in Key, NEW z \in Val
  PROVE  Typed(Gradient(r, k, z))
<1> DEFINE t   == SolveState(r, k, z)
           s   == SolveAdjoint(t, k, z)
           obj == Assemble(s.obj, k, z)
           con == Assemble(s.con, k, z)
           f0  == s.fresh /\ {s.u, s.p, Peek(obj, k), Peek(con, k)} = {z}
           l   == s.legal /\ s.here = z
           v   == Gradient(r, k, z)
<1>1. Typed(t) /\ t.isUpdated
  BY SolveStateTyped DEF Ready
<1> HIDE DEF t
<1>2. Typed(s) /\ s.isUpdated
  BY <1>1, SolveAdjointTyped DEF Ready
<1> HIDE DEF s
<1>3. /\ Alone(s.state) /\ Alone(s.con) /\ Alone(s.obj) /\ Alone(s.adjoint)
      /\ s \in ReducedObjectives /\ z \in Content
  BY <1>2, TypedParts DEF Typed, Content
<1>4. v = WithInner(s, con, obj, f0, l)
  BY <1>3 DEF Gradient, Answered, WithInner, ReducedObjectives, s, t
<1>5. Alone(obj) /\ Alone(con) /\ f0 \in BOOLEAN /\ l \in BOOLEAN
  BY <1>3, StaysAlone
<1> HIDE DEF f0, l, obj, con, v
<1>6. /\ v \in ReducedObjectives /\ v.state = s.state /\ v.adjoint = s.adjoint
      /\ v.con = con /\ v.obj = obj /\ (v.isUpdated <=> s.isUpdated)
  <2>1. con \in Controller /\ obj \in Controller
    BY <1>5 DEF Alone
  <2>2. LET w == WithInner(s, con, obj, f0, l) IN
        /\ w \in ReducedObjectives /\ w.state = s.state /\ w.adjoint = s.adjoint
        /\ w.con = con /\ w.obj = obj /\ (w.isUpdated <=> s.isUpdated)
    BY <1>3, <1>5, <2>1, SetInner
  <2>3. QED BY <1>4, <2>2
<1>7. Typed(v)
  BY <1>2, <1>3, <1>5, <1>6, TypedWhole
<1>8. QED BY <1>7 DEF v

(* A new objective is typed.                                               *)
LEMMA NewTyped == Typed(NewReducedObjective)
  BY NewGood DEF Good, Matches, Typed

(* What evaluations do to the points and to the history of a typed         *)
(* objective: an answer may spoil it, and none repairs it.  With no stores *)
(* at all every answer is computed for the point asked for.                *)
LEMMA SolveStatePoints ==
  ASSUME NEW r, Typed(r), NEW k \in Key, NEW z \in Val
  PROVE  LET s == SolveState(r, k, z) IN
         /\ s.here = r.here /\ s.base = r.base /\ s.cand = r.cand
         /\ s.fresh = r.fresh /\ s.legal = r.legal
         /\ ~Storage /\ ~InnerStores => s.u = z
<1> DEFINE s == SolveState(r, k, z)
<1>1. r \in ReducedObjectives
  BY DEF Typed
<1>2. /\ s.here = r.here /\ s.base = r.base /\ s.cand = r.cand
      /\ s.fresh = r.fresh /\ s.legal = r.legal
  BY <1>1 DEF SolveState, ReducedObjectives
<1>3. ASSUME ~Storage, ~InnerStores PROVE s.u = z
  <2>1. s.u = Combine(z, {Peek(Assemble(Told(r.con, r), k, z), k)})
    BY <1>1, <1>3 DEF SolveState, ReducedObjectives, Told
  <2>2. Alone(Told(r.con, r))
    BY TypedParts
  <2>3. Peek(Assemble(Told(r.con, r), k, z), k) = z
    BY <1>3, <2>2, AssembledHere
  <2>4. QED BY <2>1, <2>3 DEF Combine
<1>4. QED BY <1>2, <1>3 DEF s

(* The same.                                                               *)
LEMMA SolveAdjointPoints ==
  ASSUME NEW r, Ready(r), NEW k \in Key, NEW z \in Val
  PROVE  LET s == SolveAdjoint(r, k, z) IN
         /\ s.here = r.here /\ s.base = r.base /\ s.cand = r.cand
         /\ s.fresh = r.fresh /\ s.legal = r.legal /\ s.u = r.u
         /\ ~Storage /\ ~InnerStores /\ r.u = z => s.p = z
<1> DEFINE s == SolveAdjoint(r, k, z)
<1>1. r \in ReducedObjectives
  BY DEF Typed, Ready
<1>2. /\ s.here = r.here /\ s.base = r.base /\ s.cand = r.cand
      /\ s.fresh = r.fresh /\ s.legal = r.legal /\ s.u = r.u
  BY <1>1 DEF SolveAdjoint, ReducedObjectives
<1>3. ASSUME ~Storage, ~InnerStores, r.u = z PROVE s.p = z
  <2>1. s.p = Combine(z, {r.u, Peek(Assemble(r.obj, k, z), k), Peek(Assemble(r.con, k, z), k)})
    BY <1>1, <1>3 DEF SolveAdjoint, ReducedObjectives
  <2>2. Alone(r.con) /\ Alone(r.obj)
    BY TypedParts DEF Ready
  <2>3. Peek(Assemble(r.obj, k, z), k) = z /\ Peek(Assemble(r.con, k, z), k) = z
    BY <1>3, <2>2, AssembledHere
  <2>4. QED BY <1>3, <2>1, <2>3 DEF Combine
<1>4. QED BY <1>2, <1>3 DEF s

(* The same.                                                               *)
LEMMA ValuePoints ==
  ASSUME NEW r, Typed(r), NEW k \in Key, NEW z \in Val
  PROVE  LET v == Value(r, k, z) IN
         /\ v.here = r.here /\ v.base = r.base /\ v.cand = r.cand
         /\ v.fresh => r.fresh /\ SolveState(r, k, z).u = z
         /\ v.legal <=> r.legal /\ r.here = z
         /\ ~Storage /\ ~InnerStores => (v.fresh <=> r.fresh)
<1> DEFINE s   == SolveState(r, k, z)
           obj == Assemble(s.obj, k, z)
           v   == Value(r, k, z)
<1>1. /\ s.here = r.here /\ s.base = r.base /\ s.cand = r.cand
      /\ s.fresh = r.fresh /\ s.legal = r.legal
      /\ ~Storage /\ ~InnerStores => s.u = z
  BY SolveStatePoints
<1>2. Typed(s) /\ s \in ReducedObjectives
  BY SolveStateTyped DEF Ready, Typed
<1> HIDE DEF s
<1>3. ~Storage /\ ~InnerStores => Peek(obj, k) = z
  BY <1>2, TypedParts, AssembledHere
<1>4. /\ v.here = s.here /\ v.base = s.base /\ v.cand = s.cand
      /\ v.fresh <=> s.fresh /\ {s.u, Peek(obj, k)} = {z}
      /\ v.legal <=> s.legal /\ s.here = z
  <2> HIDE DEF obj
  <2>1. QED BY <1>2 DEF Value, Answered, ReducedObjectives, s, obj
<1> HIDE DEF obj, v
<1>5. {s.u, Peek(obj, k)} = {z} => s.u = z
  OBVIOUS
<1>6. ~Storage /\ ~InnerStores => {s.u, Peek(obj, k)} = {z}
  BY <1>1, <1>3
<1>7. QED BY <1>1, <1>4, <1>5, <1>6 DEF v, s

(* The same.                                                               *)
LEMMA GradientPoints ==
  ASSUME NEW r, Typed(r), NEW k \in Key, NEW z \in Val
  PROVE  LET v == Gradient(r, k, z) IN
         /\ v.here = r.here /\ v.base = r.base /\ v.cand = r.cand
         /\ v.fresh => r.fresh
         /\ v.legal <=> r.legal /\ r.here = z
         /\ ~Storage /\ ~InnerStores => (v.fresh <=> r.fresh)
<1> DEFINE t   == SolveState(r, k, z)
           s   == SolveAdjoint(t, k, z)
           obj == Assemble(s.obj, k, z)
           con == Assemble(s.con, k, z)
           v   == Gradient(r, k, z)
<1>1. /\ t.here = r.here /\ t.base = r.base /\ t.cand = r.cand
      /\ t.fresh = r.fresh /\ t.legal = r.legal
      /\ ~Storage /\ ~InnerStores => t.u = z
  BY SolveStatePoints
<1>2. Ready(t)
  BY SolveStateTyped
<1> HIDE DEF t
<1>3. /\ s.here = t.here /\ s.base = t.base /\ s.cand = t.cand
      /\ s.fresh = t.fresh /\ s.legal = t.legal
      /\ ~Storage /\ ~InnerStores => s.u = z /\ s.p = z
  BY <1>1, <1>2, SolveAdjointPoints
<1>4. Typed(s) /\ s \in ReducedObjectives
  BY <1>2, SolveAdjointTyped DEF Ready, Typed
<1> HIDE DEF s
<1>5. ~Storage /\ ~InnerStores => Peek(obj, k) = z /\ Peek(con, k) = z
  BY <1>4, TypedParts, AssembledHere
<1>6. /\ v.here = s.here /\ v.base = s.base /\ v.cand = s.cand
      /\ v.fresh <=> s.fresh /\ {s.u, s.p, Peek(obj, k), Peek(con, k)} = {z}
      /\ v.legal <=> s.legal /\ s.here = z
  <2> HIDE DEF obj, con
  <2>1. QED BY <1>4 DEF Gradient, Answered, ReducedObjectives, s, t, obj, con
<1> HIDE DEF obj, con, v
<1>7. ~Storage /\ ~InnerStores => {s.u, s.p, Peek(obj, k), Peek(con, k)} = {z}
  BY <1>3, <1>5
<1>8. QED BY <1>1, <1>3, <1>6, <1>7 DEF v

(* An Accept of another point than the one last tried shows at once, if    *)
(* anything is stored: the value there is that of the trial point.         *)
LEMMA WrongAccept ==
  ASSUME NEW r, NEW k \in Key, NEW b, NEW z \in Val, AtCandidate(r, k, b, z),
         r.con.tier["trial"][k].flag, Storage \/ InnerStores, NEW y \in Val, y # z
  PROVE  ~Value(Update(r, "Accept", y), k, y).fresh
<1> DEFINE t == Update(r, "Accept", y)
<1>1. /\ Good(r) /\ r.isUpdated /\ AllPromotable(r, z) /\ r.base = b /\ r.cand = z
      /\ Storage => r.state.tier["trial"][k].flag
      /\ r \in ReducedObjectives /\ ~r.state.conUpdated /\ ~r.adjoint.conUpdated
      /\ r.state \in Controller /\ r.con \in Controller /\ ~r.con.conUpdated
      /\ Typed(r) /\ "Accept" \in UpdateType
  BY UsableParts DEF AtCandidate, Usable, Fit, Typed, UpdateType
<1>2. /\ t \in ReducedObjectives /\ ~t.isUpdated /\ t.newUpdate /\ t.updateType = "Accept"
      /\ t.state = ObjectiveUpdate(r.state, "Accept") /\ t.con = r.con
  BY <1>1, UpdateFields
<1>3. Typed(t)
  BY <1>1, UpdateTyped
<1> HIDE DEF t
<1>4. ASSUME NEW c, c \in Controller, ~c.conUpdated, TiersMatch(c, b, z),
             Promotable(c, z), c.tier["trial"][k].flag
      PROVE  LET q == ObjectiveUpdate(c, "Accept") IN IsComputed(q, k) /\ Peek(q, k) = z
  <2> DEFINE q == ObjectiveUpdate(c, "Accept")
  <2>1. Matches(q, z, BaseAfter("Accept", z, b), CandAfter("Accept", z, z))
    BY <1>1, <1>4, UpdateMatches
  <2>2. /\ ActiveTier(q) = "main"
        /\ \A j \in Key : q.tier["main"][j].flag <=> c.tier["trial"][j].alloc
    BY <1>1, <1>4, UpdateTiers
  <2>3. c.tier["trial"][k].alloc
    BY <1>4 DEF TiersMatch, Honest, Tier
  <2> HIDE DEF q
  <2>4. IsComputed(q, k)
    BY <2>2, <2>3 DEF IsComputed, SlotOf
  <2>5. QED BY <2>1, <2>4, ReadMatches DEF q
<1>5. SolveState(t, k, y).u # y
  <2>1. CASE Storage
    <3>1. IsComputed(t.state, k) /\ Peek(t.state, k) = z
      <4>1. TiersMatch(r.state, b, z) /\ Promotable(r.state, z)
        BY <1>1 DEF Good, Matches, AllPromotable
      <4>2. QED BY <1>1, <1>2, <1>4, <2>1, <4>1
    <3>2. SolveState(t, k, y).u = Peek(t.state, k)
      BY <1>2, <2>1, <3>1 DEF SolveState, ReducedObjectives
    <3>3. QED BY <3>1, <3>2
  <2>2. CASE ~Storage /\ InnerStores
    <3> DEFINE told == ObjectiveUpdate(r.con, "Accept")
    <3>1. IsComputed(told, k) /\ Peek(told, k) = z
      <4>1. TiersMatch(r.con, b, z) /\ Promotable(r.con, z)
        BY <1>1 DEF Good, Matches, AllPromotable, Told
      <4>2. QED BY <1>1, <1>4, <4>1
    <3>2. Deliver(t.con, t) = told
      BY <1>2 DEF Deliver
    <3> HIDE DEF told
    <3>3. Assemble(told, k, y) = told
      BY <2>2, <3>1 DEF Assemble
    <3>4. SolveState(t, k, y).u = Combine(y, {Peek(told, k)})
      BY <1>2, <2>2, <3>2, <3>3 DEF SolveState, ReducedObjectives
    <3>5. {z} # {y}
      OBVIOUS
    <3>6. QED BY <3>1, <3>4, <3>5, NoValAssumption DEF Combine
  <2>3. QED BY <2>1, <2>2
<1>6. QED BY <1>3, <1>5, ValuePoints DEF t

(* An objective with which no trial was ever made: whatever is announced   *)
(* as accepted, there is nothing to be promoted.                           *)
NoTrial(c) == \A j \in Key : ~c.tier["trial"][j].alloc

Untried(r) ==
  /\ Good(r) /\ MayMiss(r) /\ r.fresh /\ r.cand = NoVal
  /\ NoTrial(r.state) /\ NoTrial(r.adjoint) /\ NoTrial(r.con) /\ NoTrial(r.obj)

(* A new objective is such.                                                *)
LEMMA NewUntried == Untried(NewReducedObjective)
<1>1. NoTrial(NewController)
  BY DEF NoTrial, NewController, Absent, Tier
<1>2. /\ NewReducedObjective.state = NewController /\ NewReducedObjective.adjoint = NewController
      /\ NewReducedObjective.con = NewController /\ NewReducedObjective.obj = NewController
  BY DEF NewReducedObjective
<1>3. QED BY <1>1, <1>2, NewGood DEF Untried, MayMiss

(* An evaluation at the point announced leaves it such.                    *)
LEMMA EvaluatedUntried ==
  ASSUME NEW r, NEW v, NEW k \in Key, NEW z, Good(r), r.fresh, r.cand = NoVal,
         NoTrial(r.state), NoTrial(r.adjoint), NoTrial(Told(r.con, r)), NoTrial(Told(r.obj, r)),
         Evaluated(r, v, k, z)
  PROVE  Untried(v)
<1>1. ASSUME NEW c, NEW d, NoTrial(c), Grows(c, d, k),
             Matches(c, r.here, r.base, r.cand)
      PROVE  NoTrial(d)
  <2>1. ActiveTier(c) # "trial"
    BY <1>1 DEF Matches, Selected
  <2>2. QED BY <1>1, <2>1 DEF Grows, NoTrial, Tier
<1>2. NoTrial(v.state) /\ NoTrial(v.adjoint) /\ NoTrial(v.con) /\ NoTrial(v.obj)
  BY <1>1 DEF Good, Evaluated
<1>3. QED BY <1>2 DEF Evaluated, Untried, MayMiss

(* An update that starts or accepts, and the evaluations at its point.     *)
LEMMA AskedUntried ==
  ASSUME NEW r, Untried(r), NEW k \in Key, NEW z \in Val, NEW type \in {"Initial", "Accept"}
  PROVE  Untried(Gradient(Value(Update(r, type, z), k, z), k, z))
<1> DEFINE v == Update(r, type, z)
           w == Value(v, k, z)
           g == Gradient(w, k, z)
<1>1. /\ Good(r) /\ MayMiss(r) /\ type \in UpdateType
      /\ r \in ReducedObjectives /\ ~r.state.conUpdated /\ ~r.adjoint.conUpdated
      /\ r.state \in Controller /\ r.adjoint \in Controller
      /\ r.con \in Controller /\ r.obj \in Controller
      /\ ~r.con.conUpdated /\ ~r.obj.conUpdated
  BY UsableParts DEF Untried, UpdateType
<1>2. AllPromotable(r, z)
  BY DEF Untried, AllPromotable, Promotable, NoTrial
<1>3. Good(v)
  BY <1>1, <1>2, UpdateGood
<1>4. /\ v.state = ObjectiveUpdate(r.state, type) /\ v.adjoint = ObjectiveUpdate(r.adjoint, type)
      /\ v.con = r.con /\ v.obj = r.obj
      /\ ~v.isUpdated /\ v.newUpdate /\ v.updateType = type
      /\ v.here = z /\ v.cand = NoVal /\ v.fresh = r.fresh
  BY <1>1, UpdateFields DEF CandAfter
<1> HIDE DEF v
<1>5. ASSUME NEW c \in Controller, ~c.conUpdated, NoTrial(c)
      PROVE  NoTrial(ObjectiveUpdate(c, type))
  <2> DEFINE d == ObjectiveUpdate(c, type)
  <2>1. type # "Trial" => d.tier["trial"] = c.tier["trial"]
    BY <1>1, <1>5, UpdateTiers
  <2> HIDE DEF d
  <2>2. NoTrial(d)
    BY <1>5, <2>1 DEF NoTrial
  <2>3. QED BY <2>2 DEF d
<1>6. /\ NoTrial(v.state) /\ NoTrial(v.adjoint)
      /\ NoTrial(Told(v.con, v)) /\ NoTrial(Told(v.obj, v))
  <2>1. /\ Told(v.con, v) = ObjectiveUpdate(r.con, type)
        /\ Told(v.obj, v) = ObjectiveUpdate(r.obj, type)
    BY <1>4 DEF Told, Deliver
  <2>2. QED BY <1>1, <1>4, <1>5, <2>1 DEF Untried
<1>7. Evaluated(v, w, k, z)
  BY <1>3, <1>4, ValueGood
<1>8. Untried(w) /\ w.isUpdated /\ w.here = z
  <2> HIDE DEF w
  <2>1. v.fresh
    BY <1>4 DEF Untried
  <2>2. QED BY <1>3, <1>4, <1>6, <1>7, <2>1, EvaluatedUntried DEF Evaluated
<1> HIDE DEF w
<1>9. Evaluated(w, g, k, z)
  BY <1>8, GradientGood DEF Untried
<1>10. Told(w.con, w) = w.con /\ Told(w.obj, w) = w.obj
  BY <1>8 DEF Told
<1> HIDE DEF g
<1>11. Untried(g)
  BY <1>8, <1>9, <1>10, EvaluatedUntried DEF Untried
<1>12. QED BY <1>11 DEF g, w, v
=============================================================================
