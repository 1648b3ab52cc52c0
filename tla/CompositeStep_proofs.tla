------------------------- MODULE CompositeStep_proofs -------------------------
(***************************************************************************)
(* Proofs about the composite-step method: up to the multipliers of its    *)
(* adjoints, the reduced constraint is a reduced objective, so that the    *)
(* lemmas about one serve both; and the two stay at the same points,       *)
(* whether or not they share their store of states.                        *)
(***************************************************************************)
EXTENDS CompositeStep, Stores_proofs, SequenceTheorems, TLAPS

Keyed == Key # {}

(* There is a key.                                                         *)
LEMMA KeyK == ASSUME Keyed PROVE K \in Key
  BY DEF Keyed, K

-----------------------------------------------------------------------------
(* Stores of pairs.  The store s holds, for each vector of the store t, a  *)
(* pair of it and a multiplier.                                            *)

PairSlot == [alloc : BOOLEAN, flag : BOOLEAN, val : Content \cup (Content \X Multipliers)]

PairController ==
  [tier : [Tier -> [Key -> PairSlot]], trial : BOOLEAN, temp : BOOLEAN,
   objUpdated : BOOLEAN, conUpdated : BOOLEAN]

PairsSlot(p, q) ==
  /\ p \in PairSlot /\ q \in Slot
  /\ p.alloc = q.alloc /\ p.flag = q.flag
  /\ q.alloc \/ q.flag => p.val[1] = q.val

SameSelection(s, t) ==
  /\ s.trial = t.trial /\ s.temp = t.temp
  /\ s.objUpdated = t.objUpdated /\ s.conUpdated = t.conUpdated

PairsStore(s, t) ==
  /\ s \in PairController /\ t \in Controller /\ SameSelection(s, t)
  /\ \A a \in Tier, k \in Key : PairsSlot(s.tier[a][k], t.tier[a][k])

(* The same but for one slot.                                              *)
PairsStoreBut(s, t, b, j) ==
  /\ s \in PairController /\ t \in Controller /\ SameSelection(s, t)
  /\ \A a \in Tier, k \in Key : a # b \/ k # j => PairsSlot(s.tier[a][k], t.tier[a][k])

(* Two new stores.                                                         *)
LEMMA NewPairs == PairsStore(NewController, NewController)
  BY NewControllerType
  DEF PairsStore, PairController, PairSlot, PairsSlot, SameSelection, NewController, Absent,
      Controller, Slot, Content, Tier

(* Both read and write the same tier.                                      *)
LEMMA PairsActive == ASSUME NEW s, NEW t, SameSelection(s, t) PROVE ActiveTier(s) = ActiveTier(t)
  BY DEF SameSelection, ActiveTier

(* Replacing a tier in both.                                               *)
LEMMA PairsRefill ==
  ASSUME NEW s, NEW t, PairsStore(s, t), NEW a \in Tier,
         NEW p \in [Key -> PairSlot], NEW q \in [Key -> Slot],
         \A k \in Key : PairsSlot(p[k], q[k])
  PROVE  PairsStore(Refill(s, a, p), Refill(t, a, q))
<1> DEFINE v == Refill(s, a, p)
           w == Refill(t, a, q)
<1>1. /\ w \in Controller /\ w.tier[a] = q /\ \A u \in Tier \ {a} : w.tier[u] = t.tier[u]
      /\ w.trial = t.trial /\ w.temp = t.temp
      /\ w.objUpdated = t.objUpdated /\ w.conUpdated = t.conUpdated
  BY RefillFacts DEF PairsStore
<1>2. /\ v \in PairController /\ v.tier[a] = p /\ \A u \in Tier \ {a} : v.tier[u] = s.tier[u]
      /\ v.trial = s.trial /\ v.temp = s.temp
      /\ v.objUpdated = s.objUpdated /\ v.conUpdated = s.conUpdated
  BY DEF PairsStore, PairController, Refill
<1> HIDE DEF v, w
<1>3. PairsStore(v, w)
  BY <1>1, <1>2 DEF PairsStore, SameSelection
<1>4. QED BY <1>3 DEF v, w

(* Selecting a tier in both.                                               *)
LEMMA PairsSelect ==
  ASSUME NEW s, NEW t, PairsStore(s, t), NEW a \in BOOLEAN, NEW b \in BOOLEAN
  PROVE  PairsStore(Select(s, a, b), Select(t, a, b))
  BY DEF PairsStore, PairController, Controller, Select, SameSelection

(* Closing the pair of updates, or leaving it open, in both.               *)
LEMMA PairsPair ==
  ASSUME NEW s, NEW t, PairsStore(s, t), NEW a \in BOOLEAN, NEW b \in BOOLEAN
  PROVE  PairsStore(Pair(s, a, b), Pair(t, a, b))
  BY DEF PairsStore, PairController, Controller, Pair, SameSelection

(* Clearing a tier in both.                                                *)
LEMMA PairsLower ==
  ASSUME NEW s, NEW t, PairsStore(s, t), NEW a \in Tier
  PROVE  /\ Lower(s.tier[a]) \in [Key -> PairSlot] /\ Lower(t.tier[a]) \in [Key -> Slot]
         /\ \A k \in Key : PairsSlot(Lower(s.tier[a])[k], Lower(t.tier[a])[k])
<1>1. /\ s.tier[a] \in [Key -> PairSlot] /\ t.tier[a] \in [Key -> Slot]
      /\ \A k \in Key : PairsSlot(s.tier[a][k], t.tier[a][k])
  BY DEF PairsStore, PairController, Controller
<1> DEFINE p == s.tier[a]
           q == t.tier[a]
<1>2. p \in [Key -> PairSlot] /\ q \in [Key -> Slot] /\ \A k \in Key : PairsSlot(p[k], q[k])
  BY <1>1
<1> HIDE DEF p, q
<1>3. ASSUME NEW k \in Key
      PROVE  PairsSlot(Lower(p)[k], Lower(q)[k])
  <2>1. p[k] \in PairSlot /\ q[k] \in Slot /\ PairsSlot(p[k], q[k])
    BY <1>2
  <2>2. Lower(p)[k] = [p[k] EXCEPT !.flag = FALSE] /\ Lower(q)[k] = [q[k] EXCEPT !.flag = FALSE]
    BY DEF Lower
  <2>3. QED BY <2>1, <2>2 DEF PairsSlot, PairSlot, Slot
<1>4. Lower(p) \in [Key -> PairSlot] /\ Lower(q) \in [Key -> Slot]
  BY <1>2, <1>3 DEF Lower, PairsSlot
<1>5. QED BY <1>3, <1>4 DEF p, q

(* A pair written where the other store writes its first half.             *)
LEMMA PairsWritten ==
  ASSUME NEW m \in Content \cup (Content \X Multipliers), NEW c \in Content, m[1] = c
  PROVE  /\ PairsSlot(Written(m), Written(c))
         /\ Written(m) \in PairSlot /\ Written(c) \in Slot
  BY DEF Written, PairSlot, Slot, PairsSlot

(* Promoting the trial tier of both.                                       *)
LEMMA PairsAccept ==
  ASSUME NEW s, NEW t, PairsStore(s, t)
  PROVE  PairsStore(AcceptTrial(s), AcceptTrial(t))
<1> DEFINE p == [k \in Key |-> PromotedSlot(s, k)]
           q == [k \in Key |-> PromotedSlot(t, k)]
<1>1. ASSUME NEW k \in Key
      PROVE  PairsSlot(p[k], q[k])
  <2>1. PairsSlot(s.tier["trial"][k], t.tier["trial"][k])
    BY DEF PairsStore, Tier
  <2>2. PairsSlot(Lower(s.tier["main"])[k], Lower(t.tier["main"])[k])
    BY PairsLower DEF Tier
  <2>3. CASE t.tier["trial"][k].alloc
    <3>1. p[k] = Written(s.tier["trial"][k].val) /\ q[k] = Written(t.tier["trial"][k].val)
      BY <2>1, <2>3 DEF PromotedSlot, PairsSlot
    <3>2. /\ s.tier["trial"][k].val \in Content \cup (Content \X Multipliers)
          /\ t.tier["trial"][k].val \in Content
          /\ s.tier["trial"][k].val[1] = t.tier["trial"][k].val
      BY <2>1, <2>3 DEF PairsSlot, PairSlot, Slot
    <3>3. QED BY <3>1, <3>2, PairsWritten
  <2>4. CASE ~t.tier["trial"][k].alloc
    <3>1. p[k] = Lower(s.tier["main"])[k] /\ q[k] = Lower(t.tier["main"])[k]
      BY <2>1, <2>4 DEF PromotedSlot, PairsSlot
    <3>2. QED BY <2>2, <3>1
  <2>5. QED BY <2>3, <2>4
<1>2. p \in [Key -> PairSlot] /\ q \in [Key -> Slot]
  BY <1>1 DEF PairsSlot
<1>3. AcceptTrial(s) = Refill(s, "main", p) /\ AcceptTrial(t) = Refill(t, "main", q)
  BY DEF AcceptTrial
<1> HIDE DEF p, q
<1>4. QED BY <1>1, <1>2, <1>3, PairsRefill DEF Tier

(* Every update of both.                                                   *)
LEMMA PairsUpdate ==
  ASSUME NEW s, NEW t, PairsStore(s, t), NEW type \in UpdateType
  PROVE  PairsStore(ObjectiveUpdate(s, type), ObjectiveUpdate(t, type))
<1>1. ASSUME NEW v, NEW w, PairsStore(v, w), NEW a \in {"main", "trial", "temp"}
      PROVE  PairsStore(Refill(v, a, Lower(v.tier[a])), Refill(w, a, Lower(w.tier[a])))
  <2>1. a \in Tier
    BY DEF Tier
  <2>2. QED BY <1>1, <2>1, PairsLower, PairsRefill
<1>2. PairsStore(Switch(s, type), Switch(t, type))
  <2>1. CASE type = "Initial"
    <3> DEFINE v == Select(s, FALSE, FALSE)
               w == Select(t, FALSE, FALSE)
    <3>1. PairsStore(v, w)
      BY PairsSelect
    <3>2. /\ Switch(s, type) = Refill(v, "main", Lower(v.tier["main"]))
          /\ Switch(t, type) = Refill(w, "main", Lower(w.tier["main"]))
      BY <2>1 DEF Switch, Reset
    <3> HIDE DEF v, w
    <3>3. QED BY <1>1, <3>1, <3>2
  <2>2. CASE type = "Trial"
    <3> DEFINE v == Select(s, FALSE, TRUE)
               w == Select(t, FALSE, TRUE)
    <3>1. PairsStore(v, w)
      BY PairsSelect
    <3>2. /\ Switch(s, type) = Refill(v, "trial", Lower(v.tier["trial"]))
          /\ Switch(t, type) = Refill(w, "trial", Lower(w.tier["trial"]))
      BY <2>2 DEF Switch, ResetTrial
    <3> HIDE DEF v, w
    <3>3. QED BY <1>1, <3>1, <3>2
  <2>3. CASE type = "Accept"
    <3> DEFINE v == Select(s, FALSE, FALSE)
               w == Select(t, FALSE, FALSE)
    <3>1. PairsStore(v, w)
      BY PairsSelect
    <3>2. Switch(s, type) = AcceptTrial(v) /\ Switch(t, type) = AcceptTrial(w)
      BY <2>3 DEF Switch
    <3> HIDE DEF v, w
    <3>3. QED BY <3>1, <3>2, PairsAccept
  <2>4. CASE type = "Revert"
    <3>1. Switch(s, type) = Select(s, FALSE, FALSE) /\ Switch(t, type) = Select(t, FALSE, FALSE)
      BY <2>4 DEF Switch
    <3>2. QED BY <3>1, PairsSelect
  <2>5. CASE type = "Temp"
    <3> DEFINE v == Select(s, TRUE, FALSE)
               w == Select(t, TRUE, FALSE)
    <3>1. PairsStore(v, w)
      BY PairsSelect
    <3>2. /\ Switch(s, type) = Refill(v, "temp", Lower(v.tier["temp"]))
          /\ Switch(t, type) = Refill(w, "temp", Lower(w.tier["temp"]))
      BY <2>5 DEF Switch, ResetTemp
    <3> HIDE DEF v, w
    <3>3. QED BY <1>1, <3>1, <3>2
  <2>6. QED BY <2>1, <2>2, <2>3, <2>4, <2>5 DEF UpdateType
<1>3. s.conUpdated = t.conUpdated
  BY DEF PairsStore, SameSelection
<1>4. CASE type = "Temp"
  BY <1>2, <1>4, PairsPair DEF ObjectiveUpdate
<1>5. CASE type # "Temp" /\ t.conUpdated
  <2>1. ObjectiveUpdate(s, type) = Pair(s, FALSE, FALSE) /\ ObjectiveUpdate(t, type) = Pair(t, FALSE, FALSE)
    BY <1>3, <1>5 DEF ObjectiveUpdate
  <2>2. QED BY <2>1, PairsPair
<1>6. CASE type # "Temp" /\ ~t.conUpdated
  <2>1. /\ ObjectiveUpdate(s, type) = Pair(Switch(s, type), TRUE, FALSE)
        /\ ObjectiveUpdate(t, type) = Pair(Switch(t, type), TRUE, FALSE)
    BY <1>3, <1>6 DEF ObjectiveUpdate
  <2>2. QED BY <1>2, <2>1, PairsPair
<1>7. QED BY <1>4, <1>5, <1>6

(* Both report the same as computed, and a pair that is there starts with  *)
(* what the other store holds.                                             *)
LEMMA PairsRead ==
  ASSUME NEW s, NEW t, PairsStore(s, t), NEW k \in Key
  PROVE  /\ IsComputed(s, k) <=> IsComputed(t, k)
         /\ IsComputed(t, k) => Peek(s, k)[1] = Peek(t, k)
<1>1. ActiveTier(s) = ActiveTier(t) /\ ActiveTier(t) \in Tier
  BY PairsActive, ActiveTierType DEF PairsStore
<1> DEFINE a == ActiveTier(t)
<1>2. PairsSlot(s.tier[a][k], t.tier[a][k])
  BY <1>1 DEF PairsStore
<1>3. QED BY <1>1, <1>2 DEF IsComputed, Peek, SlotOf, PairsSlot

(* Filling a slot of both.                                                 *)
LEMMA PairsFill ==
  ASSUME NEW s, NEW t, NEW k \in Key, PairsStoreBut(s, t, ActiveTier(t), k),
         NEW p \in PairSlot, NEW q \in Slot
  PROVE  LET v == Fill(s, k, p)
             w == Fill(t, k, q) IN
         /\ PairsStoreBut(v, w, ActiveTier(w), k)
         /\ PairsSlot(p, q) => PairsStore(v, w)
<1> DEFINE a == ActiveTier(t)
           v == Fill(s, k, p)
           w == Fill(t, k, q)
<1>1. /\ ActiveTier(s) = a /\ a \in Tier /\ s \in PairController /\ t \in Controller
      /\ SameSelection(s, t)
      /\ \A b \in Tier, j \in Key : b # a \/ j # k => PairsSlot(s.tier[b][j], t.tier[b][j])
  BY PairsActive, ActiveTierType DEF PairsStoreBut
<1>2. /\ w \in Controller /\ w.temp = t.temp /\ w.trial = t.trial
      /\ w.objUpdated = t.objUpdated /\ w.conUpdated = t.conUpdated
      /\ ActiveTier(w) = a /\ w.tier[a][k] = q
      /\ \A b \in Tier, j \in Key : b # a \/ j # k => w.tier[b][j] = t.tier[b][j]
  BY <1>1, FillFacts
<1> HIDE DEF a, w
<1>3. v = Refill(s, a, [s.tier[a] EXCEPT ![k] = p])
  BY <1>1 DEF Fill
<1>4. /\ v \in PairController /\ v.temp = s.temp /\ v.trial = s.trial
      /\ v.objUpdated = s.objUpdated /\ v.conUpdated = s.conUpdated
      /\ v.tier[a][k] = p
      /\ \A b \in Tier, j \in Key : b # a \/ j # k => v.tier[b][j] = s.tier[b][j]
  <2> HIDE DEF v
  <2> DEFINE row == [s.tier[a] EXCEPT ![k] = p]
  <2>1. row \in [Key -> PairSlot] /\ row[k] = p /\ \A j \in Key \ {k} : row[j] = s.tier[a][j]
    BY <1>1 DEF PairController
  <2>2. v = Refill(s, a, row)
    BY <1>3
  <2> HIDE DEF row
  <2>3. /\ v \in PairController /\ v.tier[a] = row
        /\ \A b \in Tier \ {a} : v.tier[b] = s.tier[b]
        /\ v.temp = s.temp /\ v.trial = s.trial
        /\ v.objUpdated = s.objUpdated /\ v.conUpdated = s.conUpdated
    BY <1>1, <2>1, <2>2 DEF PairController, Refill
  <2>4. QED BY <1>1, <2>1, <2>3
<1> HIDE DEF v
<1>5. SameSelection(v, w)
  BY <1>1, <1>2, <1>4 DEF SameSelection
<1>6. PairsStoreBut(v, w, a, k)
  BY <1>1, <1>2, <1>4, <1>5 DEF PairsStoreBut
<1>7. PairsSlot(p, q) => PairsStore(v, w)
  BY <1>1, <1>2, <1>4, <1>5, <1>6 DEF PairsStoreBut, PairsStore
<1>8. QED BY <1>2, <1>6, <1>7 DEF v, w

(* A look at what is there, in both; and a pair put where the other store  *)
(* puts its first half.                                                    *)
LEMMA PairsKeep ==
  ASSUME NEW s, NEW t, PairsStore(s, t), NEW k \in Key
  PROVE  /\ IsComputed(t, k) => PairsStore(Allocate(s, k), Allocate(t, k))
         /\ \A c \in Content, m \in Multipliers :
              PairsStore(Set(Allocate(s, k), k, <<c, m>>), Set(Allocate(t, k), k, c))
<1> DEFINE a == ActiveTier(t)
           p == [s.tier[a][k] EXCEPT !.alloc = TRUE]
           q == [t.tier[a][k] EXCEPT !.alloc = TRUE]
<1>1. ActiveTier(s) = a /\ a \in Tier
  BY PairsActive, ActiveTierType DEF PairsStore
<1>2. PairsSlot(s.tier[a][k], t.tier[a][k])
  BY <1>1 DEF PairsStore
<1>3. /\ Allocate(s, k) = Fill(s, k, p) /\ Allocate(t, k) = Fill(t, k, q)
      /\ IsComputed(t, k) <=> t.tier[a][k].flag
  BY <1>1 DEF Allocate, SlotOf, IsComputed
<1>4. p \in PairSlot /\ q \in Slot /\ (t.tier[a][k].flag => PairsSlot(p, q))
  BY <1>2 DEF PairsSlot, PairSlot, Slot
<1>5. PairsStoreBut(s, t, a, k)
  BY DEF PairsStore, PairsStoreBut
<1> HIDE DEF p, q
<1>6. /\ PairsStoreBut(Allocate(s, k), Allocate(t, k), ActiveTier(Allocate(t, k)), k)
      /\ PairsSlot(p, q) => PairsStore(Allocate(s, k), Allocate(t, k))
  BY <1>3, <1>4, <1>5, PairsFill
<1>7. ASSUME NEW c \in Content, NEW m \in Multipliers
      PROVE  PairsStore(Set(Allocate(s, k), k, <<c, m>>), Set(Allocate(t, k), k, c))
  <2> DEFINE v == Written(<<c, m>>)
             w == Written(c)
  <2>1. v \in PairSlot /\ w \in Slot /\ PairsSlot(v, w)
    BY PairsWritten
  <2>2. /\ Set(Allocate(s, k), k, <<c, m>>) = Fill(Allocate(s, k), k, v)
        /\ Set(Allocate(t, k), k, c) = Fill(Allocate(t, k), k, w)
    BY DEF Set
  <2> HIDE DEF v, w
  <2>3. QED BY <1>6, <2>1, <2>2, PairsFill
<1>8. QED BY <1>3, <1>4, <1>6, <1>7
-----------------------------------------------------------------------------
(* applyJacobian(): a state solve, and a sensitivity that is not stored.   *)

(* As value() and gradient() do, it answers for the point it is asked for. *)
LEMMA JacobianGood ==
  ASSUME Keyed, NEW r, Good(r), NEW z \in Val, r.here = z
  PROVE  LET v == Jacobian(r, z) IN Evaluated(r, v, K, z) /\ v.adjoint = r.adjoint
<1> DEFINE s   == SolveState(r, K, z)
           con == Assemble(s.con, K, z)
           obj == Assemble(s.obj, K, z)
           f   == s.fresh /\ {s.u, Peek(con, K), Peek(obj, K)} = {z}
           l   == s.legal /\ s.here = z
           v   == Jacobian(r, z)
<1>0. K \in Key
  BY KeyK
<1>1. /\ Good(s) /\ s.isUpdated /\ s.u = z
      /\ s.here = z /\ s.base = r.base /\ s.cand = r.cand
      /\ s.fresh = r.fresh /\ (s.legal <=> r.legal)
      /\ Grows(r.state, s.state, K) /\ s.adjoint = r.adjoint
      /\ Grows(Told(r.con, r), s.con, K) /\ s.obj = Told(r.obj, r)
      /\ Storage => IsComputed(s.state, K)
      /\ Storage \/ s.state = r.state
      /\ (Storage /\ IsComputed(r.state, K)) \/ IsComputed(s.con, K)
      /\ Storage /\ IsComputed(r.state, K) => s.solves = r.solves
  BY <1>0, SolveStateGood
<1> HIDE DEF s
<1>2. /\ s \in ReducedObjectives /\ z \in Content
      /\ Matches(s.state, z, r.base, r.cand) /\ Matches(s.adjoint, z, r.base, r.cand)
      /\ Matches(s.con, z, r.base, r.cand) /\ Matches(s.obj, z, r.base, r.cand)
      /\ s.adjoint \in Controller
  BY <1>1 DEF Good, Matches, Content, Told
<1>3. /\ Matches(obj, z, r.base, r.cand) /\ Grows(s.obj, obj, K)
      /\ IsComputed(obj, K) /\ Peek(obj, K) = z
  BY <1>0, <1>2, AssembleMatches
<1>4. /\ Matches(con, z, r.base, r.cand) /\ Grows(s.con, con, K)
      /\ IsComputed(con, K) /\ Peek(con, K) = z
  BY <1>0, <1>2, AssembleMatches
<1>5. v = WithInner(s, con, obj, f, l)
  BY <1>2 DEF Jacobian, Answered, WithInner, ReducedObjectives, s
<1> HIDE DEF obj, con, v
<1>6. (f <=> s.fresh) /\ (l <=> s.legal)
  <2>1. {s.u, Peek(con, K), Peek(obj, K)} = {z}
    BY <1>1, <1>3, <1>4
  <2>2. QED BY <1>1, <2>1
<1>7. /\ f \in BOOLEAN /\ l \in BOOLEAN /\ s.fresh \in BOOLEAN
      /\ obj \in Controller /\ con \in Controller
  <2>1. s.fresh \in BOOLEAN
    BY <1>2 DEF ReducedObjectives
  <2>2. QED BY <1>3, <1>4, <2>1 DEF Matches
<1> HIDE DEF f, l
<1>8. /\ v \in ReducedObjectives
      /\ v.state = s.state /\ v.adjoint = s.adjoint /\ v.con = con /\ v.obj = obj
      /\ (v.isUpdated <=> s.isUpdated) /\ v.solves = s.solves
      /\ v.here = s.here /\ v.base = s.base /\ v.cand = s.cand
      /\ (v.fresh <=> f) /\ (v.legal <=> l)
  <2>1. s \in ReducedObjectives
    BY <1>2
  <2>2. LET w == WithInner(s, con, obj, f, l) IN
        /\ w \in ReducedObjectives
        /\ w.state = s.state /\ w.adjoint = s.adjoint /\ w.con = con /\ w.obj = obj
        /\ (w.isUpdated <=> s.isUpdated) /\ w.solves = s.solves
        /\ w.here = s.here /\ w.base = s.base /\ w.cand = s.cand
        /\ (w.fresh <=> f) /\ (w.legal <=> l)
    BY <2>1, <1>7, SetInner
  <2>3. QED BY <1>5, <2>2
<1>9. v.fresh = r.fresh
  <2>1. v.fresh \in BOOLEAN
    BY <1>8 DEF ReducedObjectives
  <2>2. QED BY <1>1, <1>6, <1>7, <1>8, <2>1
<1>10. Good(v)
  <2>1. Told(v.con, v) = v.con /\ Told(v.obj, v) = v.obj
    BY <1>1, <1>8 DEF Told
  <2>2. ~v.con.conUpdated /\ ~v.obj.conUpdated
    BY <1>3, <1>4, <1>8 DEF Matches
  <2>3. QED BY <1>1, <1>2, <1>3, <1>4, <1>8, <2>1, <2>2 DEF Good
<1>11. Grows(r.adjoint, r.adjoint, K)
  BY <1>0, <1>1, <1>2, GrowsNot
<1>12. Grows(Told(r.con, r), v.con, K) /\ Grows(Told(r.obj, r), v.obj, K)
  BY <1>0, <1>1, <1>3, <1>4, <1>8, GrowsTwice
<1>13. Evaluated(r, v, K, z)
  BY <1>1, <1>3, <1>4, <1>6, <1>8, <1>9, <1>10, <1>11, <1>12 DEF Evaluated
<1>14. QED BY <1>1, <1>8, <1>13 DEF v

(* At whatever point, it keeps a typed function typed.                     *)
LEMMA JacobianTyped ==
  ASSUME Keyed, NEW r, Typed(r), NEW z \in Val
  PROVE  Typed(Jacobian(r, z))
<1> DEFINE s   == SolveState(r, K, z)
           con == Assemble(s.con, K, z)
           obj == Assemble(s.obj, K, z)
           f0  == s.fresh /\ {s.u, Peek(con, K), Peek(obj, K)} = {z}
           l   == s.legal /\ s.here = z
           v   == Jacobian(r, z)
<1>1. Typed(s) /\ s.isUpdated /\ K \in Key
  BY KeyK, SolveStateTyped DEF Ready
<1> HIDE DEF s
<1>2. /\ Alone(s.state) /\ Alone(s.con) /\ Alone(s.obj) /\ Alone(s.adjoint)
      /\ s \in ReducedObjectives /\ z \in Content
  BY <1>1, TypedParts DEF Typed, Content
<1>3. v = WithInner(s, con, obj, f0, l)
  BY <1>2 DEF Jacobian, Answered, WithInner, ReducedObjectives, s
<1>4. Alone(obj) /\ Alone(con) /\ f0 \in BOOLEAN /\ l \in BOOLEAN
  BY <1>1, <1>2, StaysAlone
<1> HIDE DEF f0, l, obj, con, v
<1>5. /\ v \in ReducedObjectives /\ v.state = s.state /\ v.adjoint = s.adjoint
      /\ v.con = con /\ v.obj = obj /\ (v.isUpdated <=> s.isUpdated)
  <2>1. con \in Controller /\ obj \in Controller
    BY <1>4 DEF Alone
  <2>2. LET w == WithInner(s, con, obj, f0, l) IN
        /\ w \in ReducedObjectives /\ w.state = s.state /\ w.adjoint = s.adjoint
        /\ w.con = con /\ w.obj = obj /\ (w.isUpdated <=> s.isUpdated)
    BY <1>2, <1>4, <2>1, SetInner
  <2>3. QED BY <1>3, <2>2
<1>6. Typed(v)
  BY <1>1, <1>2, <1>4, <1>5, TypedWhole
<1>7. QED BY <1>6 DEF v

-----------------------------------------------------------------------------
(* Up to the multipliers of its adjoints, the reduced constraint c is the  *)
(* reduced objective r.                                                    *)

Fields ==
  {"state", "adjoint", "con", "obj", "isUpdated", "newUpdate", "updateType", "updateFlag",
   "u", "p", "solves", "fresh", "legal", "here", "base", "cand", "ofMultiplier"}

SameAnswers(c, r) ==
  /\ c.state = r.state /\ c.con = r.con /\ c.obj = r.obj
  /\ c.isUpdated = r.isUpdated /\ c.newUpdate = r.newUpdate
  /\ c.updateType = r.updateType /\ c.updateFlag = r.updateFlag
  /\ c.u = r.u /\ c.p = r.p /\ c.solves = r.solves
  /\ c.fresh = r.fresh /\ c.legal = r.legal
  /\ c.here = r.here /\ c.base = r.base /\ c.cand = r.cand

Twin(c, r) ==
  /\ DOMAIN c = Fields /\ r \in ReducedObjectives
  /\ SameAnswers(c, r) /\ PairsStore(c.adjoint, r.adjoint)

(* The constructor's.                                                      *)
LEMMA NewTwin == Twin(NewReducedConstraint, NewReducedObjective)
<1>1. NewReducedObjective \in ReducedObjectives
  BY NewGood DEF Good
<1>2. DOMAIN NewReducedConstraint = Fields
  BY DEF NewReducedConstraint, NewReducedObjective, Fields
<1>3. /\ SameAnswers(NewReducedConstraint, NewReducedObjective)
      /\ NewReducedConstraint.adjoint = NewController
      /\ NewReducedObjective.adjoint = NewController
  BY <1>2 DEF NewReducedConstraint, NewReducedObjective, SameAnswers, Fields
<1>4. QED BY <1>1, <1>2, <1>3, NewPairs DEF Twin

(* What an update notes about the points.                                  *)
LEMMA TwinNoted ==
  ASSUME NEW c, NEW r, Twin(c, r), NEW type \in UpdateType, NEW z \in Val
  PROVE  Twin(Noted(c, type, z), Noted(r, type, z))
<1>1. LegalUpdate(c, type, z) = LegalUpdate(r, type, z)
  BY DEF Twin, SameAnswers, LegalUpdate
<1>2. Noted(r, type, z) \in ReducedObjectives /\ Noted(r, type, z).adjoint = r.adjoint
  BY NotedFields DEF Twin
<1>3. DOMAIN Noted(c, type, z) = Fields /\ Noted(c, type, z).adjoint = c.adjoint
  BY DEF Twin, Noted, Fields
<1>4. SameAnswers(Noted(c, type, z), Noted(r, type, z))
  BY <1>1 DEF Twin, SameAnswers, Noted, Fields, ReducedObjectives
<1>5. QED BY <1>2, <1>3, <1>4 DEF Twin

(* update().                                                               *)
LEMMA TwinUpdate ==
  ASSUME NEW c, NEW r, Twin(c, r), Typed(r), NEW type \in UpdateType, NEW z \in Val
  PROVE  Twin(UpdateConstraint(c, type, z), Update(r, type, z))
<1> DEFINE n == Noted(c, type, z)
           q == Noted(r, type, z)
           v == UpdateConstraint(c, type, z)
           w == Update(r, type, z)
<1>1. Twin(n, q) /\ n.adjoint = c.adjoint /\ q.adjoint = r.adjoint
  <2>1. n.adjoint = c.adjoint
    BY DEF Twin, Noted, Fields
  <2>2. q.adjoint = r.adjoint
    BY NotedFields DEF Twin
  <2>3. QED BY <2>1, <2>2, TwinNoted
<1>2. /\ v = [n EXCEPT !.isUpdated = FALSE, !.newUpdate = TRUE, !.updateType = type,
                       !.state = ObjectiveUpdate(@, type), !.adjoint = ObjectiveUpdate(@, type)]
      /\ w = [q EXCEPT !.isUpdated = FALSE, !.newUpdate = TRUE, !.updateType = type,
                       !.state = ObjectiveUpdate(@, type), !.adjoint = ObjectiveUpdate(@, type)]
  BY DEF UpdateConstraint, Update
<1>3. w \in ReducedObjectives
  BY UpdateFields DEF Typed
<1> HIDE DEF n, q, v, w
<1>4. DOMAIN v = Fields /\ SameAnswers(v, w)
  BY <1>1, <1>2 DEF Twin, SameAnswers, Fields, ReducedObjectives
<1>5. v.adjoint = ObjectiveUpdate(c.adjoint, type) /\ w.adjoint = ObjectiveUpdate(r.adjoint, type)
  BY <1>1, <1>2 DEF Twin, Fields, ReducedObjectives
<1>6. PairsStore(v.adjoint, w.adjoint)
  BY <1>5, PairsUpdate DEF Twin
<1>7. Twin(v, w)
  BY <1>3, <1>4, <1>6 DEF Twin
<1>8. QED BY <1>7 DEF v, w

(* The state solve, which has nothing to do with multipliers.              *)
LEMMA TwinSolveState ==
  ASSUME Keyed, NEW c, NEW r, Twin(c, r), Typed(r), NEW z \in Val
  PROVE  Twin(SolveState(c, K, z), SolveState(r, K, z))
<1> DEFINE hit    == Storage /\ IsComputed(r.state, K)
           con    == IF hit THEN Told(r.con, r) ELSE Assemble(Told(r.con, r), K, z)
           u      == IF hit THEN Peek(r.state, K) ELSE Combine(z, {Peek(con, K)})
           looked == Allocate(r.state, K)
           st     == IF ~Storage THEN r.state ELSE IF hit THEN looked ELSE Set(looked, K, u)
           obj    == Told(r.obj, r)
           m      == IF hit \/ r.solves = MaxSolves THEN r.solves ELSE r.solves + 1
           v      == SolveState(c, K, z)
           w      == SolveState(r, K, z)
<1>1. w = WithState(r, st, con, obj, u, m)
  BY DEF SolveState, WithState, Told, Twin, ReducedObjectives
<1>2. v = WithState(c, st, con, obj, u, m)
  BY DEF SolveState, WithState, Told, Deliver, Twin, SameAnswers, Fields
<1>3. w \in ReducedObjectives
  BY KeyK, SolveStateTyped DEF Ready, Typed
<1> HIDE DEF hit, con, u, looked, st, obj, m, v, w
<1>4. DOMAIN v = Fields /\ SameAnswers(v, w)
  BY <1>1, <1>2 DEF Twin, SameAnswers, WithState, Fields, ReducedObjectives
<1>5. v.adjoint = c.adjoint /\ w.adjoint = r.adjoint
  BY <1>1, <1>2 DEF Twin, WithState, Fields, ReducedObjectives
<1>6. Twin(v, w)
  BY <1>3, <1>4, <1>5 DEF Twin
<1>7. QED BY <1>6 DEF v, w

(* The adjoint solve for a multiplier w.                                   *)
LEMMA TwinSolveAdjoint ==
  ASSUME Keyed, NEW c, NEW r, Twin(c, r), Ready(r), NEW z \in Val, NEW w \in Multipliers
  PROVE  Twin(SolveAdjointFor(c, w, z), SolveAdjoint(r, K, z))
<1> DEFINE hit == Storage /\ IsComputed(r.adjoint, K)
           obj == IF hit THEN r.obj ELSE Assemble(r.obj, K, z)
           con == IF hit THEN r.con ELSE Assemble(r.con, K, z)
           p   == IF hit THEN Peek(r.adjoint, K)
                  ELSE Combine(z, {r.u, Peek(obj, K), Peek(con, K)})
           q   == IF hit THEN Peek(c.adjoint, K) ELSE <<p, w>>
           a   == IF ~Storage THEN r.adjoint
                  ELSE IF hit THEN Allocate(r.adjoint, K) ELSE Set(Allocate(r.adjoint, K), K, p)
           b   == IF ~Storage THEN c.adjoint
                  ELSE IF hit THEN Allocate(c.adjoint, K) ELSE Set(Allocate(c.adjoint, K), K, q)
           v   == SolveAdjointFor(c, w, z)
           y   == SolveAdjoint(r, K, z)
<1>0. K \in Key /\ r \in ReducedObjectives /\ PairsStore(c.adjoint, r.adjoint) /\ z \in Content
  BY KeyK DEF Twin, Content
<1>1. IsComputed(c.adjoint, K) <=> IsComputed(r.adjoint, K)
  BY <1>0, PairsRead
<1>2. hit => Peek(c.adjoint, K)[1] = Peek(r.adjoint, K)
  BY <1>0, PairsRead
<1>3. y = WithAdjoint(r, a, con, obj, p)
  BY <1>0 DEF SolveAdjoint, WithAdjoint, ReducedObjectives
<1>4. p \in Content
  <2>1. Combine(z, {r.u, Peek(obj, K), Peek(con, K)}) \in Content
    BY <1>0 DEF Combine, Content
  <2>2. Peek(r.adjoint, K) \in Content
    BY <1>0, TypedParts, StaysAlone DEF Ready
  <2>3. QED BY <2>1, <2>2
<1>5. q[1] = p
  BY <1>2
<1>6. PairsStore(b, a)
  <2>1. CASE ~Storage
    BY <1>0, <2>1
  <2>2. CASE hit
    BY <1>0, <2>2, PairsKeep
  <2>3. CASE Storage /\ ~hit
    <3>1. a = Set(Allocate(r.adjoint, K), K, p) /\ b = Set(Allocate(c.adjoint, K), K, <<p, w>>)
      BY <2>3
    <3> HIDE DEF a, b, p
    <3>2. QED BY <1>0, <1>4, <3>1, PairsKeep
  <2>4. QED BY <2>1, <2>2, <2>3
<1>7. /\ DOMAIN v = Fields
      /\ v.state = c.state /\ v.adjoint = b /\ v.con = con /\ v.obj = obj /\ v.p = p
      /\ v.isUpdated = c.isUpdated /\ v.newUpdate = c.newUpdate
      /\ v.updateType = c.updateType /\ v.updateFlag = c.updateFlag
      /\ v.u = c.u /\ v.solves = c.solves
      /\ v.fresh = c.fresh /\ v.legal = c.legal
      /\ v.here = c.here /\ v.base = c.base /\ v.cand = c.cand
  <2>1. CASE hit
    <3>1. /\ v = [c EXCEPT !.adjoint = b, !.p = q[1], !.ofMultiplier = @ /\ q[2] = w]
          /\ con = c.con /\ obj = c.obj
      BY <1>1, <2>1 DEF SolveAdjointFor, Twin, SameAnswers
    <3> HIDE DEF b, q, v, con, obj, p
    <3>2. QED BY <1>5, <3>1 DEF Twin, Fields
  <2>2. CASE ~hit
    <3> DEFINE m == [c EXCEPT !.con = Assemble(@, K, z), !.obj = Assemble(@, K, z)]
    <3>1. /\ DOMAIN m = Fields /\ m.con = con /\ m.obj = obj /\ m.state = c.state
          /\ m.isUpdated = c.isUpdated /\ m.newUpdate = c.newUpdate
          /\ m.updateType = c.updateType /\ m.updateFlag = c.updateFlag
          /\ m.u = c.u /\ m.solves = c.solves
          /\ m.fresh = c.fresh /\ m.legal = c.legal
          /\ m.here = c.here /\ m.base = c.base /\ m.cand = c.cand
          /\ m.adjoint = c.adjoint
      BY <2>2 DEF Twin, SameAnswers, Fields
    <3>2. q = <<Combine(z, {c.u, Peek(m.con, K), Peek(m.obj, K)}), w>>
      <4>1. {c.u, Peek(m.con, K), Peek(m.obj, K)} = {r.u, Peek(obj, K), Peek(con, K)}
        BY <3>1 DEF Twin, SameAnswers
      <4>2. QED BY <2>2, <4>1
    <3>3. v = [m EXCEPT !.adjoint = b, !.p = q[1], !.ofMultiplier = @ /\ q[2] = w]
      <4> DEFINE q2 == <<Combine(z, {c.u, Peek(m.con, K), Peek(m.obj, K)}), w>>
      <4>1. v = [m EXCEPT !.adjoint = IF ~Storage THEN @ ELSE Set(Allocate(c.adjoint, K), K, q2),
                          !.p = q2[1], !.ofMultiplier = @ /\ q2[2] = w]
        <5> DEFINE hc == Storage /\ IsComputed(c.adjoint, K)
                   m0 == IF hc THEN c ELSE m
                   p0 == IF hc THEN Peek(c.adjoint, K)
                         ELSE <<Combine(z, {c.u, Peek(m0.con, K), Peek(m0.obj, K)}), w>>
                   ad == Allocate(c.adjoint, K)
        <5>1. v = [m0 EXCEPT !.adjoint = IF ~Storage THEN @ ELSE IF hc THEN ad ELSE Set(ad, K, p0),
                             !.p = p0[1], !.ofMultiplier = @ /\ p0[2] = w]
          BY DEF SolveAdjointFor
        <5>2. ~hc
          BY <1>1, <2>2
        <5> HIDE DEF hc
        <5>3. m0 = m
          BY <5>2
        <5> HIDE DEF m0
        <5>4. p0 = q2
          BY <5>2, <5>3
        <5> HIDE DEF p0, q2, m, v
        <5>5. QED BY <5>1, <5>2, <5>3, <5>4
      <4>2. q2 = q
        BY <3>2
      <4>3. b = IF ~Storage THEN m.adjoint ELSE Set(Allocate(c.adjoint, K), K, q)
        BY <2>2, <3>1
      <4> HIDE DEF q2, q, b, m, v
      <4>4. QED BY <4>1, <4>2, <4>3
    <3> HIDE DEF b, q, v, con, obj, p, m
    <3>4. QED BY <1>5, <3>1, <3>3 DEF Fields
  <2>3. QED BY <2>1, <2>2
<1>8. y \in ReducedObjectives
  BY <1>0, SolveAdjointTyped DEF Ready, Typed
<1> HIDE DEF hit, obj, con, p, q, a, b, v, y
<1>9. SameAnswers(v, y) /\ y.adjoint = a
  BY <1>0, <1>3, <1>7 DEF Twin, SameAnswers, WithAdjoint, ReducedObjectives
<1>10. Twin(v, y)
  BY <1>6, <1>7, <1>8, <1>9 DEF Twin
<1>11. QED BY <1>10 DEF v, y

(* What an evaluation sets last.                                           *)
LEMMA TwinInner ==
  ASSUME NEW c, NEW r, Twin(c, r), NEW con \in Controller, NEW obj \in Controller,
         NEW f \in BOOLEAN, NEW l \in BOOLEAN
  PROVE  Twin(WithInner(c, con, obj, f, l), WithInner(r, con, obj, f, l))
<1> DEFINE v == WithInner(c, con, obj, f, l)
           w == WithInner(r, con, obj, f, l)
<1>1. w \in ReducedObjectives
  BY SetInner DEF Twin
<1>2. DOMAIN v = Fields /\ SameAnswers(v, w)
  BY DEF Twin, SameAnswers, WithInner, Fields, ReducedObjectives
<1>3. v.adjoint = c.adjoint /\ w.adjoint = r.adjoint
  BY DEF Twin, WithInner, Fields, ReducedObjectives
<1>4. QED BY <1>1, <1>2, <1>3 DEF Twin

(* value(), as the constraint's value().                                   *)
LEMMA TwinValue ==
  ASSUME Keyed, NEW c, NEW r, Twin(c, r), Typed(r), NEW z \in Val
  PROVE  Twin(ConstraintValue(c, z), Value(r, K, z))
<1> DEFINE b   == SolveState(c, K, z)
           s   == SolveState(r, K, z)
           obj == Assemble(s.obj, K, z)
           f   == s.fresh /\ {s.u, Peek(obj, K)} = {z}
           l   == s.legal /\ s.here = z
<1>1. Twin(b, s) /\ Typed(s) /\ K \in Key
  BY KeyK, TwinSolveState, SolveStateTyped DEF Ready
<1> HIDE DEF b, s
<1>2. /\ SameAnswers(b, s) /\ s \in ReducedObjectives /\ DOMAIN b = Fields
      /\ Alone(s.con) /\ Alone(s.obj) /\ z \in Content
  BY <1>1, TypedParts DEF Twin, Content
<1>3. Value(r, K, z) = WithInner(s, s.con, obj, f, l)
  BY <1>2 DEF Value, Answered, WithInner, ReducedObjectives, s
<1>4. ConstraintValue(c, z) = WithInner(b, s.con, obj, f, l)
  BY <1>2 DEF ConstraintValue, Value, Answered, WithInner, SameAnswers, Fields, b
<1>5. obj \in Controller /\ s.con \in Controller /\ f \in BOOLEAN /\ l \in BOOLEAN
  BY <1>1, <1>2, StaysAlone DEF Alone
<1> DEFINE con == s.con
<1>6. con \in Controller
  BY <1>5
<1> HIDE DEF obj, f, l, con
<1>7. Twin(WithInner(b, con, obj, f, l), WithInner(s, con, obj, f, l))
  BY <1>1, <1>5, <1>6, TwinInner
<1>8. QED BY <1>3, <1>4, <1>7 DEF con

(* applyJacobian(), as it would be of an objective.                        *)
LEMMA TwinJacobian ==
  ASSUME Keyed, NEW c, NEW r, Twin(c, r), Typed(r), NEW z \in Val
  PROVE  Twin(Jacobian(c, z), Jacobian(r, z))
<1> DEFINE b   == SolveState(c, K, z)
           s   == SolveState(r, K, z)
           con == Assemble(s.con, K, z)
           obj == Assemble(s.obj, K, z)
           f   == s.fresh /\ {s.u, Peek(con, K), Peek(obj, K)} = {z}
           l   == s.legal /\ s.here = z
<1>1. Twin(b, s) /\ Typed(s) /\ K \in Key
  BY KeyK, TwinSolveState, SolveStateTyped DEF Ready
<1> HIDE DEF b, s
<1>2. /\ SameAnswers(b, s) /\ s \in ReducedObjectives /\ DOMAIN b = Fields
      /\ Alone(s.con) /\ Alone(s.obj) /\ z \in Content
  BY <1>1, TypedParts DEF Twin, Content
<1>3. Jacobian(r, z) = WithInner(s, con, obj, f, l)
  BY <1>2 DEF Jacobian, Answered, WithInner, ReducedObjectives, s
<1>4. Jacobian(c, z) = WithInner(b, con, obj, f, l)
  BY <1>2 DEF Jacobian, Answered, WithInner, SameAnswers, Fields, b
<1>5. obj \in Controller /\ con \in Controller /\ f \in BOOLEAN /\ l \in BOOLEAN
  BY <1>1, <1>2, StaysAlone DEF Alone
<1> HIDE DEF obj, con, f, l
<1>6. QED BY <1>1, <1>3, <1>4, <1>5, TwinInner

(* applyAdjointJacobian() and applyAdjointHessian(), as gradient().        *)
LEMMA TwinAdjoint ==
  ASSUME Keyed, NEW c, NEW r, Twin(c, r), Typed(r), NEW z \in Val, NEW w \in Multipliers
  PROVE  /\ Twin(AdjointJacobian(c, w, z), Gradient(r, K, z))
         /\ Twin(AdjointHessian(c, w, z), Gradient(r, K, z))
<1> DEFINE a   == SolveState(c, K, z)
           b   == SolveAdjointFor(a, w, z)
           t   == SolveState(r, K, z)
           s   == SolveAdjoint(t, K, z)
           obj == Assemble(s.obj, K, z)
           con == Assemble(s.con, K, z)
           f   == s.fresh /\ {s.u, s.p, Peek(obj, K), Peek(con, K)} = {z}
           l   == s.legal /\ s.here = z
<1>1. Twin(a, t) /\ Ready(t) /\ K \in Key
  BY KeyK, TwinSolveState, SolveStateTyped
<1> HIDE DEF a, t
<1>2. Twin(b, s) /\ Typed(s)
  BY <1>1, TwinSolveAdjoint, SolveAdjointTyped DEF Ready
<1> HIDE DEF b, s
<1>3. /\ SameAnswers(b, s) /\ s \in ReducedObjectives /\ DOMAIN b = Fields
      /\ Alone(s.con) /\ Alone(s.obj) /\ z \in Content
  BY <1>2, TypedParts DEF Twin, Content
<1>4. Gradient(r, K, z) = WithInner(s, con, obj, f, l)
  BY <1>3, SMTT(30), ZenonT(30) DEF Gradient, Answered, WithInner, ReducedObjectives, s, t
<1>5. AdjointJacobian(c, w, z) = WithInner(b, con, obj, f, l)
  <2> DEFINE m == [b EXCEPT !.con = Assemble(@, K, z), !.obj = Assemble(@, K, z)]
  <2>1. AdjointJacobian(c, w, z) = Answered(m, z, {m.u, m.p, Peek(m.con, K), Peek(m.obj, K)})
    BY DEF AdjointJacobian, b, a
  <2>2. /\ m.u = s.u /\ m.p = s.p /\ m.con = con /\ m.obj = obj
        /\ m.here = s.here /\ m.fresh = s.fresh /\ m.legal = s.legal /\ DOMAIN m = Fields
    BY <1>3 DEF SameAnswers, Fields
  <2>3. {m.u, m.p, Peek(m.con, K), Peek(m.obj, K)} = {s.u, s.p, Peek(obj, K), Peek(con, K)}
    BY <2>2
  <2>4. AdjointJacobian(c, w, z) = [m EXCEPT !.fresh = f, !.legal = l]
    <3> HIDE DEF con, obj, m
    <3>1. QED BY <2>1, <2>2, <2>3 DEF Answered, Fields
  <2>5. m = [b EXCEPT !.con = con, !.obj = obj]
    BY <1>3 DEF SameAnswers
  <2> HIDE DEF con, obj, f, l, m
  <2>6. QED BY <1>3, <2>4, <2>5 DEF WithInner, Fields
<1>6. obj \in Controller /\ con \in Controller /\ f \in BOOLEAN /\ l \in BOOLEAN
  BY <1>1, <1>3, StaysAlone DEF Alone
<1> HIDE DEF obj, con, f, l
<1>7. Twin(AdjointJacobian(c, w, z), Gradient(r, K, z))
  BY <1>2, <1>4, <1>5, <1>6, TwinInner
<1>8. QED BY <1>7 DEF AdjointHessian

(* Another store of states, and another word on freshness.                 *)
WithStore(r, s) == [r EXCEPT !.state = s]
Refreshed(r)    == [r EXCEPT !.fresh = TRUE]

(* A record so changed.                                                    *)
LEMMA SetStore ==
  ASSUME NEW r \in ReducedObjectives, NEW s \in Controller
  PROVE  LET w == WithStore(r, s) IN
         /\ w \in ReducedObjectives
         /\ w.state = s /\ w.adjoint = r.adjoint /\ w.con = r.con /\ w.obj = r.obj
         /\ w.isUpdated = r.isUpdated /\ w.newUpdate = r.newUpdate
         /\ w.updateType = r.updateType /\ w.updateFlag = r.updateFlag
         /\ w.here = r.here /\ w.base = r.base /\ w.cand = r.cand /\ w.fresh = r.fresh
  BY DEF ReducedObjectives, WithStore

(* The same.                                                               *)
LEMMA SetFresh ==
  ASSUME NEW r \in ReducedObjectives
  PROVE  LET w == Refreshed(r) IN
         /\ w \in ReducedObjectives /\ w.fresh
         /\ w.state = r.state /\ w.adjoint = r.adjoint /\ w.con = r.con /\ w.obj = r.obj
         /\ w.isUpdated = r.isUpdated /\ w.newUpdate = r.newUpdate
         /\ w.updateType = r.updateType /\ w.updateFlag = r.updateFlag
         /\ w.here = r.here /\ w.base = r.base /\ w.cand = r.cand
  BY DEF ReducedObjectives, Refreshed

(* The constraint so changed.                                              *)
LEMMA TwinChanged ==
  ASSUME NEW c, NEW r, Twin(c, r)
  PROVE  /\ \A s \in Controller : Twin(WithStore(c, s), WithStore(r, s))
         /\ Twin(Refreshed(c), Refreshed(r))
<1>1. r \in ReducedObjectives
  BY DEF Twin
<1>2. ASSUME NEW s \in Controller
      PROVE  Twin(WithStore(c, s), WithStore(r, s))
  <2>1. WithStore(r, s) \in ReducedObjectives
    BY <1>1, SetStore
  <2>2. DOMAIN WithStore(c, s) = Fields /\ SameAnswers(WithStore(c, s), WithStore(r, s))
    BY DEF Twin, SameAnswers, WithStore, Fields, ReducedObjectives
  <2>3. WithStore(c, s).adjoint = c.adjoint /\ WithStore(r, s).adjoint = r.adjoint
    BY DEF Twin, WithStore, Fields, ReducedObjectives
  <2>4. QED BY <2>1, <2>2, <2>3 DEF Twin
<1>3. Twin(Refreshed(c), Refreshed(r))
  <2>1. Refreshed(r) \in ReducedObjectives
    BY <1>1, SetFresh
  <2>2. DOMAIN Refreshed(c) = Fields /\ SameAnswers(Refreshed(c), Refreshed(r))
    BY DEF Twin, SameAnswers, Refreshed, Fields, ReducedObjectives
  <2>3. Refreshed(c).adjoint = c.adjoint /\ Refreshed(r).adjoint = r.adjoint
    BY DEF Twin, Refreshed, Fields, ReducedObjectives
  <2>4. QED BY <2>1, <2>2, <2>3 DEF Twin
<1>4. QED BY <1>2, <1>3

-----------------------------------------------------------------------------
(* A reduced function in the hands of the method: its stores belong to the *)
(* points it was told, and are read from the trial tier while a trial is   *)
(* pending.                                                                *)

Tried(r) ==
  r.cand # NoVal =>
    /\ ActiveTier(r.state) = "trial" /\ ActiveTier(r.adjoint) = "trial"
    /\ ActiveTier(Told(r.con, r)) = "trial" /\ ActiveTier(Told(r.obj, r)) = "trial"

InOrder(r) ==
  /\ Good(r) /\ OnlyKey(r, K) /\ (Storage \/ Unused(r.adjoint))
  /\ Tried(r)

(* Everything about the point it stands at is there.                       *)
Full(r) ==
  /\ r.isUpdated
  /\ Storage => IsComputed(r.state, K) /\ IsComputed(r.adjoint, K)
  /\ IsComputed(r.con, K) /\ IsComputed(r.obj, K)

SamePoints(a, b) == a.here = b.here /\ a.base = b.base /\ a.cand = b.cand

(* A store of states that belongs to the points of r.                      *)
StateFits(s, r) ==
  /\ Matches(s, r.here, r.base, r.cand) /\ Only(s, K)
  /\ Storage \/ Unused(s)
  /\ r.cand # NoVal => ActiveTier(s) = "trial"

(* All but the store of states is the same.                                *)
SameButState(v, w) ==
  /\ w.adjoint = v.adjoint /\ w.con = v.con /\ w.obj = v.obj
  /\ w.isUpdated = v.isUpdated /\ w.newUpdate = v.newUpdate
  /\ w.updateType = v.updateType /\ w.updateFlag = v.updateFlag
  /\ w.here = v.here /\ w.base = v.base /\ w.cand = v.cand

(* A function in order is a typed one, and its own store fits.             *)
LEMMA InOrderParts ==
  ASSUME NEW r, InOrder(r)
  PROVE  /\ Typed(r) /\ r \in ReducedObjectives /\ StateFits(r.state, r)
         /\ r.state \in Controller /\ r.adjoint \in Controller
         /\ r.con \in Controller /\ r.obj \in Controller
         /\ ~r.state.conUpdated /\ ~r.adjoint.conUpdated
         /\ ~r.con.conUpdated /\ ~r.obj.conUpdated
  BY DEF InOrder, Good, OnlyKey, Tried, StateFits, Matches, Typed, ReducedObjectives

(* Another store of states that fits does as well.                         *)
LEMMA InOrderSame ==
  ASSUME NEW v, InOrder(v), NEW w \in ReducedObjectives, SameButState(v, w), StateFits(w.state, v)
  PROVE  InOrder(w)
<1>1. Told(w.con, w) = Told(v.con, v) /\ Told(w.obj, w) = Told(v.obj, v)
  BY DEF SameButState, Told, Deliver
<1>2. Good(w)
  BY <1>1 DEF InOrder, Good, SameButState, StateFits
<1>3. OnlyKey(w, K) /\ (Storage \/ Unused(w.adjoint)) /\ Tried(w)
  BY <1>1 DEF InOrder, OnlyKey, SameButState, StateFits, Tried
<1>4. QED BY <1>2, <1>3 DEF InOrder

(* Of two functions at the same points, either may use the other's store.  *)
LEMMA Exchange ==
  ASSUME NEW a, NEW b, InOrder(a), InOrder(b), SamePoints(a, b)
  PROVE  LET w == WithStore(b, a.state) IN
         /\ InOrder(w) /\ SamePoints(b, w) /\ w.fresh = b.fresh
         /\ Full(b) /\ (Storage => IsComputed(a.state, K)) => Full(w)
<1> DEFINE w == WithStore(b, a.state)
<1>1. a.state \in Controller /\ b \in ReducedObjectives /\ StateFits(a.state, a)
  BY InOrderParts
<1>2. /\ w \in ReducedObjectives /\ w.state = a.state /\ SameButState(b, w) /\ w.fresh = b.fresh
  BY <1>1, SetStore DEF SameButState
<1> HIDE DEF w
<1>3. StateFits(w.state, b)
  BY <1>1, <1>2 DEF StateFits, SamePoints
<1>4. InOrder(w)
  BY <1>2, <1>3, InOrderSame
<1>5. Full(b) /\ (Storage => IsComputed(a.state, K)) => Full(w)
  BY <1>2 DEF Full, SameButState
<1>6. QED BY <1>2, <1>4, <1>5 DEF w, SamePoints, SameButState

(* Forgetting that an answer was stale changes nothing else.               *)
LEMMA Refresh ==
  ASSUME NEW r \in ReducedObjectives
  PROVE  LET w == Refreshed(r) IN
         /\ w \in ReducedObjectives /\ w.fresh /\ w.state = r.state
         /\ SameButState(r, w) /\ SamePoints(r, w)
         /\ InOrder(r) => InOrder(w)
         /\ Typed(r) => Typed(w)
         /\ Full(r) => Full(w)
<1> DEFINE w == Refreshed(r)
<1>1. w \in ReducedObjectives /\ w.fresh /\ w.state = r.state /\ SameButState(r, w)
  BY SetFresh DEF SameButState
<1> HIDE DEF w
<1>2. InOrder(r) => InOrder(w)
  BY <1>1, InOrderParts, InOrderSame
<1>3. Typed(r) => Typed(w)
  BY <1>1 DEF Typed, SameButState
<1>4. Full(r) => Full(w)
  BY <1>1 DEF Full, SameButState
<1>5. QED BY <1>1, <1>2, <1>3, <1>4 DEF w, SamePoints, SameButState

(* A store of which everything tried is known can be promoted.             *)
LEMMA StorePromotable ==
  ASSUME Keyed, NEW s, NEW h, NEW b, NEW z, z # NoVal, Matches(s, h, b, z), Only(s, K),
         ActiveTier(s) = "trial", IsComputed(s, K) \/ Unused(s)
  PROVE  Promotable(s, z)
<1>1. K \in Key
  BY KeyK
<1>2. Unused(s) => Promotable(s, z)
  BY DEF Unused, Promotable, Tier
<1>3. ASSUME IsComputed(s, K) PROVE Promotable(s, z)
  <2>1. s.tier["trial"][K].flag
    BY <1>3 DEF IsComputed, SlotOf
  <2>2. s.tier["trial"][K].val = z
    BY <1>1, <2>1 DEF Matches, TiersMatch
  <2>3. QED BY <1>1, <2>1, <2>2 DEF Promotable, Only, Tier
<1>4. QED BY <1>2, <1>3

(* A function that has been asked since its last update takes the next one *)
(* in order; an Accept, if the candidate is known in full.                 *)
LEMMA UpdateInOrder ==
  ASSUME Keyed, NEW r, InOrder(r), r.isUpdated, NEW type \in Types, NEW z \in Val,
         type = "Revert" => z = r.base,
         type = "Accept" => Full(r) /\ z = r.cand
  PROVE  LET v == Update(r, type, z) IN
         /\ InOrder(v)
         /\ v.here = z /\ v.base = BaseAfter(type, z, r.base) /\ v.cand = CandAfter(type, z, r.cand)
         /\ type = "Accept" => Promotable(r.state, z)
<1> DEFINE v == Update(r, type, z)
<1>1. /\ K \in Key /\ type \in UpdateType /\ MayMiss(r) /\ z # NoVal
      /\ Good(r) /\ OnlyKey(r, K) /\ (Storage \/ Unused(r.adjoint)) /\ r.fresh = r.fresh
      /\ Told(r.con, r) = r.con /\ Told(r.obj, r) = r.obj
  BY KeyK, NoValAssumption DEF Types, UpdateType, MayMiss, InOrder, Told
<1>2. /\ r \in ReducedObjectives /\ r.adjoint \in Controller
      /\ r.con \in Controller /\ r.obj \in Controller
      /\ ~r.state.conUpdated /\ ~r.adjoint.conUpdated /\ ~r.con.conUpdated /\ ~r.obj.conUpdated
  BY InOrderParts
<1>3. type = "Accept" => AllPromotable(r, z)
  <2>1. SUFFICES ASSUME type = "Accept" PROVE AllPromotable(r, z)
    OBVIOUS
  <2>2. /\ Full(r) /\ r.cand = z
        /\ Matches(r.state, r.here, r.base, z) /\ Matches(r.adjoint, r.here, r.base, z)
        /\ Matches(r.con, r.here, r.base, z) /\ Matches(r.obj, r.here, r.base, z)
        /\ ActiveTier(r.state) = "trial" /\ ActiveTier(r.adjoint) = "trial"
        /\ ActiveTier(r.con) = "trial" /\ ActiveTier(r.obj) = "trial"
        /\ Only(r.state, K) /\ Only(r.adjoint, K) /\ Only(r.con, K) /\ Only(r.obj, K)
        /\ Storage \/ Unused(r.state)
    BY <1>1, <2>1 DEF Good, InOrder, Tried, OnlyKey
  <2>3. /\ IsComputed(r.state, K) \/ Unused(r.state)
        /\ IsComputed(r.adjoint, K) \/ Unused(r.adjoint)
        /\ IsComputed(r.con, K) /\ IsComputed(r.obj, K)
    BY <1>1, <2>2 DEF Full
  <2>4. QED BY <1>1, <2>2, <2>3, StorePromotable DEF AllPromotable
<1>4. Good(v) /\ OnlyKey(v, K)
  BY <1>1, <1>3, UpdateGood, UpdatedOnly
<1>5. /\ v.here = z /\ v.base = BaseAfter(type, z, r.base) /\ v.cand = CandAfter(type, z, r.cand)
      /\ v.state = ObjectiveUpdate(r.state, type) /\ v.adjoint = ObjectiveUpdate(r.adjoint, type)
      /\ v.con = r.con /\ v.obj = r.obj /\ ~v.isUpdated /\ v.newUpdate /\ v.updateType = type
  BY <1>1, <1>2, UpdateFields
<1> HIDE DEF v
<1>6. Storage \/ Unused(v.adjoint)
  <2>1. SUFFICES ASSUME Unused(r.adjoint) PROVE Unused(v.adjoint)
    BY <1>1
  <2> DEFINE a == ObjectiveUpdate(r.adjoint, type)
  <2>2. \A t \in Tier, j \in Key :
          a.tier[t][j].alloc =>
            r.adjoint.tier[t][j].alloc \/ (type = "Accept" /\ r.adjoint.tier["trial"][j].alloc)
    BY <1>1, <1>2, UpdateTiers
  <2>3. Unused(a)
    <3> HIDE DEF a
    <3>1. QED BY <2>1, <2>2 DEF Unused, Tier
  <2>4. QED BY <1>5, <2>3
<1>7. Tried(v)
  <2>1. SUFFICES ASSUME v.cand # NoVal PROVE Tried(v)
    BY DEF Tried
  <2>2. type = "Trial"
    <3>1. type # "Temp" /\ v.cand = CandAfter(type, z, r.cand)
      BY <1>5 DEF Types
    <3> HIDE DEF v
    <3>2. QED BY <2>1, <3>1 DEF CandAfter
  <2>3. /\ Told(v.con, v) = ObjectiveUpdate(r.con, type)
        /\ Told(v.obj, v) = ObjectiveUpdate(r.obj, type)
    BY <1>5 DEF Told, Deliver
  <2>4. r.state \in Controller
    BY InOrderParts
  <2>5. QED BY <1>1, <1>2, <1>5, <2>2, <2>3, <2>4, UpdateTiers DEF Tried
<1>8. InOrder(v)
  BY <1>4, <1>6, <1>7 DEF InOrder
<1>9. QED BY <1>3, <1>5, <1>8 DEF v, AllPromotable

(* What a call that asks something at z makes of a function.               *)
Answers(r, v, z) == v = Value(r, K, z) \/ v = Gradient(r, K, z) \/ v = Jacobian(r, z)

(* It leaves a typed function typed.                                       *)
LEMMA AskedTyped ==
  ASSUME Keyed, NEW r, Typed(r), NEW z \in Val, NEW v, Answers(r, v, z)
  PROVE  Typed(v)
  BY KeyK, ValueTyped, GradientTyped, JacobianTyped DEF Answers

(* Without storage no adjoint is kept.                                     *)
LEMMA AdjointForgotten ==
  ASSUME Keyed, ~Storage, NEW r, Typed(r), NEW z \in Val
  PROVE  Gradient(r, K, z).adjoint = r.adjoint
<1> DEFINE t == SolveState(r, K, z)
           s == SolveAdjoint(t, K, z)
           g == [s EXCEPT !.obj = Assemble(s.obj, K, z), !.con = Assemble(s.con, K, z)]
<1>1. t.adjoint = r.adjoint
  BY DEF SolveState, Typed, ReducedObjectives
<1>2. Ready(t) /\ t \in ReducedObjectives
  BY KeyK, SolveStateTyped DEF Ready, Typed
<1> HIDE DEF t
<1>3. s.adjoint = t.adjoint
  BY <1>2 DEF SolveAdjoint, ReducedObjectives
<1>4. s \in ReducedObjectives
  BY <1>2, KeyK, SolveAdjointTyped DEF Ready, Typed
<1> HIDE DEF s
<1>5. Gradient(r, K, z).adjoint = s.adjoint
  BY <1>4 DEF Gradient, Answered, ReducedObjectives, s, t
<1>6. QED BY <1>1, <1>3, <1>5

(* What was computed stays computed when a store grows.                    *)
LEMMA GrowsComputed ==
  ASSUME NEW s, NEW q, Grows(s, q, K)
  PROVE  (IsComputed(s, K) => IsComputed(q, K)) /\ ActiveTier(q) = ActiveTier(s)
  BY DEF Grows, IsComputed, SlotOf

(* Asked at the point it was told, a function stays in order and its       *)
(* answer is right; the gradient leaves everything known.                  *)
LEMMA AskedInOrder ==
  ASSUME Keyed, NEW r, InOrder(r), NEW z \in Val, r.here = z, NEW v, Answers(r, v, z)
  PROVE  /\ InOrder(v) /\ SamePoints(r, v) /\ v.fresh = r.fresh /\ v.isUpdated
         /\ Storage => IsComputed(v.state, K)
         /\ Full(r) => Full(v)
         /\ v = Gradient(r, K, z) => Full(v)
<1>1. K \in Key /\ Good(r) /\ OnlyKey(r, K) /\ Tried(r) /\ (Storage \/ Unused(r.adjoint)) /\ Typed(r)
  BY KeyK, InOrderParts DEF InOrder
<1>2. Evaluated(r, v, K, z)
  BY <1>1, ValueGood, GradientGood, JacobianGood DEF Answers
<1>3. v = Gradient(r, K, z) => (Storage => IsComputed(v.adjoint, K)) /\ IsComputed(v.con, K)
  BY <1>1, GradientGood
<1>4. /\ Good(v) /\ v.isUpdated /\ SamePoints(r, v) /\ v.fresh = r.fresh
      /\ Grows(r.state, v.state, K) /\ Grows(r.adjoint, v.adjoint, K)
      /\ Grows(Told(r.con, r), v.con, K) /\ Grows(Told(r.obj, r), v.obj, K)
      /\ Storage => IsComputed(v.state, K)
      /\ IsComputed(v.obj, K)
      /\ Told(v.con, v) = v.con /\ Told(v.obj, v) = v.obj
  BY <1>2 DEF Evaluated, SamePoints, Told
<1>5. OnlyKey(v, K)
  BY <1>1, <1>2, EvaluatedOnly
<1>6. Storage \/ Unused(v.adjoint)
  <2>1. SUFFICES ASSUME ~Storage PROVE Unused(v.adjoint)
    OBVIOUS
  <2>2. v.adjoint = r.adjoint
    BY <1>1, <2>1, AdjointForgotten, ValueGood, JacobianGood DEF Answers
  <2>3. QED BY <1>1, <2>1, <2>2
<1>7. Tried(v)
  BY <1>1, <1>4, GrowsComputed DEF Tried, SamePoints
<1>8. Full(r) => Full(v)
  <2>1. SUFFICES ASSUME Full(r) PROVE Full(v)
    OBVIOUS
  <2>2. Told(r.con, r) = r.con /\ IsComputed(r.con, K) /\ (Storage => IsComputed(r.adjoint, K))
    BY <2>1 DEF Full, Told
  <2>3. QED BY <1>4, <2>2, GrowsComputed DEF Full
<1>9. v = Gradient(r, K, z) => Full(v)
  BY <1>3, <1>4 DEF Full
<1>10. QED BY <1>4, <1>5, <1>6, <1>7, <1>8, <1>9 DEF InOrder

(* From r to v, slots that were there may have been looked at.             *)
LookedAt(s, q) == q = s \/ (Storage /\ q = Allocate(s, K))

Unmoved(r, v) ==
  /\ v \in ReducedObjectives /\ v.isUpdated
  /\ v.con = r.con /\ v.obj = r.obj
  /\ LookedAt(r.state, v.state) /\ LookedAt(r.adjoint, v.adjoint)
  /\ SamePoints(r, v)

(* A look at what is there.                                                *)
LEMMA LookedAtFits ==
  ASSUME Keyed, NEW s, NEW h, NEW b, NEW c, Matches(s, h, b, c), Only(s, K), NEW q, LookedAt(s, q)
  PROVE  /\ Matches(q, h, b, c) /\ Only(q, K) /\ ActiveTier(q) = ActiveTier(s)
         /\ Unused(s) /\ ~Storage => Unused(q)
         /\ IsComputed(q, K) <=> IsComputed(s, K)
<1>1. CASE q = s
  BY <1>1
<1>2. CASE q # s
  <2>1. K \in Key /\ Storage /\ q = Allocate(s, K)
    BY <1>2, KeyK DEF LookedAt
  <2>2. Matches(q, h, b, c) /\ Grows(s, q, K) /\ (IsComputed(q, K) <=> IsComputed(s, K))
    BY <2>1, AllocateMatches
  <2>3. QED BY <2>1, <2>2, GrowsOnly, GrowsComputed
<1>3. QED BY <1>1, <1>2

(* Nothing is disturbed by that.                                           *)
LEMMA UnmovedInOrder ==
  ASSUME Keyed, NEW r, InOrder(r), Full(r), NEW v, Unmoved(r, v)
  PROVE  InOrder(v) /\ Full(v) /\ SamePoints(r, v)
<1>1. /\ Good(r) /\ OnlyKey(r, K) /\ Tried(r) /\ (Storage \/ Unused(r.adjoint)) /\ r.isUpdated
      /\ Told(r.con, r) = r.con /\ Told(r.obj, r) = r.obj
      /\ Told(v.con, v) = r.con /\ Told(v.obj, v) = r.obj
  BY DEF InOrder, Full, Unmoved, Told
<1>2. /\ Matches(r.state, r.here, r.base, r.cand) /\ Only(r.state, K)
      /\ Matches(r.adjoint, r.here, r.base, r.cand) /\ Only(r.adjoint, K)
      /\ LookedAt(r.state, v.state) /\ LookedAt(r.adjoint, v.adjoint)
      /\ Storage \/ Unused(r.state)
  BY <1>1 DEF Good, OnlyKey, Unmoved
<1>3. /\ Matches(v.state, r.here, r.base, r.cand) /\ Only(v.state, K)
      /\ Matches(v.adjoint, r.here, r.base, r.cand) /\ Only(v.adjoint, K)
      /\ ActiveTier(v.state) = ActiveTier(r.state) /\ ActiveTier(v.adjoint) = ActiveTier(r.adjoint)
      /\ Storage \/ (Unused(v.state) /\ Unused(v.adjoint))
      /\ IsComputed(v.state, K) <=> IsComputed(r.state, K)
      /\ IsComputed(v.adjoint, K) <=> IsComputed(r.adjoint, K)
  BY <1>1, <1>2, LookedAtFits
<1>4. Good(v)
  BY <1>1, <1>3 DEF Good, Unmoved, SamePoints
<1>5. OnlyKey(v, K) /\ Tried(v)
  BY <1>1, <1>3 DEF OnlyKey, Tried, Unmoved, SamePoints
<1>6. Full(v)
  BY <1>3 DEF Full, Unmoved
<1>7. QED BY <1>3, <1>4, <1>5, <1>6 DEF InOrder, Unmoved

(* Asked at whatever point, a function that knows all of its own changes   *)
(* nothing, as long as the inner problem keeps what it assembles: this is  *)
(* what spares the iterate's data when a projection is repeated.           *)
LEMMA FullAsked ==
  ASSUME Keyed, InnerStores, NEW r, InOrder(r), Full(r), NEW z \in Val, NEW v, Answers(r, v, z)
  PROVE  InOrder(v) /\ Full(v) /\ SamePoints(r, v)
<1> DEFINE t == SolveState(r, K, z)
           s == SolveAdjoint(t, K, z)
<1>1. /\ K \in Key /\ Typed(r) /\ r \in ReducedObjectives /\ r.isUpdated
      /\ IsComputed(r.con, K) /\ IsComputed(r.obj, K)
      /\ Storage => IsComputed(r.state, K) /\ IsComputed(r.adjoint, K)
  BY KeyK, InOrderParts DEF Full
<1>2. Assemble(r.con, K, z) = r.con /\ Assemble(r.obj, K, z) = r.obj
  BY <1>1 DEF Assemble
<1>3. Unmoved(r, t) /\ t.adjoint = r.adjoint
  <2>1. t \in ReducedObjectives
    BY <1>1, SolveStateTyped DEF Ready, Typed
  <2>2. /\ t.con = r.con /\ t.obj = r.obj /\ t.isUpdated /\ t.adjoint = r.adjoint
        /\ t.state = IF Storage THEN Allocate(r.state, K) ELSE r.state
        /\ t.here = r.here /\ t.base = r.base /\ t.cand = r.cand
    BY <1>1, <1>2 DEF SolveState, ReducedObjectives
  <2>3. QED BY <2>1, <2>2 DEF Unmoved, LookedAt, SamePoints
<1>4. Ready(t)
  BY <1>1, SolveStateTyped
<1> HIDE DEF t
<1>5. Unmoved(r, s)
  <2>1. s \in ReducedObjectives
    BY <1>1, <1>4, SolveAdjointTyped DEF Ready, Typed
  <2>2. /\ s.con = r.con /\ s.obj = r.obj /\ s.isUpdated /\ s.state = t.state
        /\ s.adjoint = IF Storage THEN Allocate(r.adjoint, K) ELSE r.adjoint
        /\ s.here = r.here /\ s.base = r.base /\ s.cand = r.cand
    BY <1>1, <1>2, <1>3 DEF SolveAdjoint, ReducedObjectives, Unmoved, SamePoints
  <2>3. QED BY <1>3, <2>1, <2>2 DEF Unmoved, LookedAt, SamePoints
<1> HIDE DEF s
<1>6. Typed(v) /\ v \in ReducedObjectives
  BY <1>1, AskedTyped DEF Typed
<1>7. ASSUME v = Value(r, K, z) PROVE Unmoved(r, v)
  <2>1. /\ v.con = t.con /\ v.obj = r.obj /\ v.isUpdated /\ v.state = t.state
        /\ v.adjoint = t.adjoint /\ v.here = t.here /\ v.base = t.base /\ v.cand = t.cand
    BY <1>2, <1>3, <1>7 DEF Value, Answered, ReducedObjectives, Unmoved, t
  <2>2. QED BY <1>3, <1>6, <2>1 DEF Unmoved, SamePoints
<1>8. ASSUME v = Jacobian(r, z) PROVE Unmoved(r, v)
  <2>1. /\ v.con = r.con /\ v.obj = r.obj /\ v.isUpdated /\ v.state = t.state
        /\ v.adjoint = t.adjoint /\ v.here = t.here /\ v.base = t.base /\ v.cand = t.cand
    BY <1>2, <1>3, <1>8 DEF Jacobian, Answered, ReducedObjectives, Unmoved, t
  <2>2. QED BY <1>3, <1>6, <2>1 DEF Unmoved, SamePoints
<1>9. ASSUME v = Gradient(r, K, z) PROVE Unmoved(r, v)
  <2>1. /\ v.con = r.con /\ v.obj = r.obj /\ v.isUpdated /\ v.state = s.state
        /\ v.adjoint = s.adjoint /\ v.here = s.here /\ v.base = s.base /\ v.cand = s.cand
    BY <1>2, <1>5, <1>9 DEF Gradient, Answered, ReducedObjectives, Unmoved, s, t
  <2>2. QED BY <1>5, <1>6, <2>1 DEF Unmoved, SamePoints
<1>10. Unmoved(r, v)
  BY <1>7, <1>8, <1>9 DEF Answers
<1>11. QED BY <1>10, UnmovedInOrder

-----------------------------------------------------------------------------
(* An inner problem without stores assembles at every call, whatever it    *)
(* has: then two functions that differ in nothing but their inner problems *)
(* give the same answers.                                                  *)

Outside(a, b) ==
  /\ Typed(b)
  /\ b.state = a.state /\ b.adjoint = a.adjoint
  /\ b.isUpdated = a.isUpdated /\ b.newUpdate = a.newUpdate
  /\ b.updateType = a.updateType /\ b.updateFlag = a.updateFlag
  /\ b.fresh = a.fresh /\ b.here = a.here /\ b.base = a.base /\ b.cand = a.cand

(* A function told of an update.                                           *)
LEMMA OutsideUpdate ==
  ASSUME Keyed, NEW a, NEW b, Typed(a), Outside(a, b), NEW type \in UpdateType, NEW z \in Val
  PROVE  Outside(Update(a, type, z), Update(b, type, z))
<1> DEFINE v == Update(a, type, z)
           w == Update(b, type, z)
<1>1. /\ v.state = ObjectiveUpdate(a.state, type) /\ v.adjoint = ObjectiveUpdate(a.adjoint, type)
      /\ ~v.isUpdated /\ v.newUpdate /\ v.updateType = type /\ v.fresh = a.fresh
      /\ v.here = z /\ v.base = BaseAfter(type, z, a.base) /\ v.cand = CandAfter(type, z, a.cand)
      /\ v \in ReducedObjectives
  BY UpdateFields DEF Typed
<1>2. /\ w.state = ObjectiveUpdate(b.state, type) /\ w.adjoint = ObjectiveUpdate(b.adjoint, type)
      /\ ~w.isUpdated /\ w.newUpdate /\ w.updateType = type /\ w.fresh = b.fresh
      /\ w.here = z /\ w.base = BaseAfter(type, z, b.base) /\ w.cand = CandAfter(type, z, b.cand)
      /\ w \in ReducedObjectives
  BY UpdateFields DEF Typed, Outside
<1>3. v.updateFlag = a.updateFlag /\ w.updateFlag = b.updateFlag
  <2>1. ASSUME NEW r \in ReducedObjectives
        PROVE  Update(r, type, z).updateFlag = r.updateFlag
    <3> DEFINE n == Noted(r, type, z)
    <3>0. n \in ReducedObjectives
      BY NotedFields
    <3>1. n.updateFlag = r.updateFlag
      BY SMTT(30) DEF Noted, ReducedObjectives
    <3>2. Update(r, type, z) = [n EXCEPT !.isUpdated = FALSE, !.newUpdate = TRUE,
                                  !.updateType = type, !.state = ObjectiveUpdate(@, type),
                                  !.adjoint = ObjectiveUpdate(@, type)]
      BY DEF Update
    <3> HIDE DEF n
    <3>3. QED BY <3>0, <3>1, <3>2 DEF ReducedObjectives
  <2>2. a \in ReducedObjectives /\ b \in ReducedObjectives
    BY DEF Outside, Typed
  <2>3. \A r \in ReducedObjectives : Update(r, type, z).updateFlag = r.updateFlag
    BY <2>1
  <2> HIDE DEF v, w
  <2>4. QED BY <2>2, <2>3 DEF v, w
<1>4. Typed(w)
  BY KeyK, UpdateTyped DEF Outside
<1>5. (v.isUpdated = w.isUpdated) /\ (v.newUpdate = w.newUpdate)
  BY <1>1, <1>2 DEF ReducedObjectives
<1> HIDE DEF v, w
<1>6. Outside(v, w)
  BY <1>1, <1>2, <1>3, <1>4, <1>5 DEF Outside
<1>7. QED BY <1>6 DEF v, w

(* A function whose state is asked for.                                    *)
LEMMA OutsideState ==
  ASSUME Keyed, ~InnerStores, NEW a, NEW b, Typed(a), Outside(a, b), NEW z \in Val
  PROVE  LET v == SolveState(a, K, z)
             w == SolveState(b, K, z) IN
         Outside(v, w) /\ Typed(v) /\ v.u = w.u
<1> DEFINE hit == Storage /\ IsComputed(a.state, K)
           ta  == Told(a.con, a)
           tb  == Told(b.con, b)
           u   == IF hit THEN Peek(a.state, K) ELSE Combine(z, {z})
           st  == IF ~Storage THEN a.state
                  ELSE IF hit THEN Allocate(a.state, K) ELSE Set(Allocate(a.state, K), K, u)
           v   == SolveState(a, K, z)
           w   == SolveState(b, K, z)
<1>1. /\ Typed(b) /\ a \in ReducedObjectives /\ b \in ReducedObjectives /\ K \in Key
      /\ a.state = b.state
  BY KeyK DEF Typed, Outside
<1>2. Peek(Assemble(ta, K, z), K) = z /\ Peek(Assemble(tb, K, z), K) = z
  BY <1>1, TypedParts, AssembledHere
<1>3. /\ v.state = st /\ v.u = u /\ v.adjoint = a.adjoint /\ v.isUpdated
      /\ v.newUpdate = a.newUpdate /\ v.updateType = a.updateType /\ v.updateFlag = a.updateFlag
      /\ v.fresh = a.fresh /\ v.here = a.here /\ v.base = a.base /\ v.cand = a.cand
  BY <1>1, <1>2 DEF SolveState, Told, ReducedObjectives
<1>4. /\ w.state = st /\ w.u = u /\ w.adjoint = b.adjoint /\ w.isUpdated
      /\ w.newUpdate = b.newUpdate /\ w.updateType = b.updateType /\ w.updateFlag = b.updateFlag
      /\ w.fresh = b.fresh /\ w.here = b.here /\ w.base = b.base /\ w.cand = b.cand
  BY <1>1, <1>2 DEF SolveState, Told, ReducedObjectives
<1>5. Typed(v) /\ Typed(w)
  BY <1>1, SolveStateTyped DEF Ready
<1>6. v.isUpdated = w.isUpdated
  BY <1>3, <1>4, <1>5 DEF Typed, ReducedObjectives
<1> HIDE DEF hit, ta, tb, u, st, v, w
<1>7. Outside(v, w) /\ v.u = w.u
  BY <1>3, <1>4, <1>5, <1>6 DEF Outside
<1>8. QED BY <1>5, <1>7 DEF v, w

(* And one whose adjoint is.                                               *)
LEMMA OutsideAdjoint ==
  ASSUME Keyed, ~InnerStores, NEW a, NEW b, Ready(a), Outside(a, b), a.u = b.u, NEW z \in Val
  PROVE  LET v == SolveAdjoint(a, K, z)
             w == SolveAdjoint(b, K, z) IN
         Outside(v, w) /\ Typed(v) /\ v.u = w.u /\ v.p = w.p
<1> DEFINE hit == Storage /\ IsComputed(a.adjoint, K)
           p   == IF hit THEN Peek(a.adjoint, K) ELSE Combine(z, {a.u, z})
           ad  == IF ~Storage THEN a.adjoint
                  ELSE IF hit THEN Allocate(a.adjoint, K) ELSE Set(Allocate(a.adjoint, K), K, p)
           v   == SolveAdjoint(a, K, z)
           w   == SolveAdjoint(b, K, z)
<1>1. /\ Typed(a) /\ Typed(b) /\ Ready(b) /\ a \in ReducedObjectives /\ b \in ReducedObjectives
      /\ K \in Key /\ a.adjoint = b.adjoint
  BY KeyK DEF Ready, Typed, Outside
<1>2. /\ Peek(Assemble(a.con, K, z), K) = z /\ Peek(Assemble(a.obj, K, z), K) = z
      /\ Peek(Assemble(b.con, K, z), K) = z /\ Peek(Assemble(b.obj, K, z), K) = z
  BY <1>1, TypedParts, AssembledHere
<1>3. {a.u, z, z} = {a.u, z} /\ {b.u, z, z} = {a.u, z}
  OBVIOUS
<1>4. /\ v.adjoint = ad /\ v.p = p /\ v.u = a.u /\ v.state = a.state /\ v.isUpdated = a.isUpdated
      /\ v.newUpdate = a.newUpdate /\ v.updateType = a.updateType /\ v.updateFlag = a.updateFlag
      /\ v.fresh = a.fresh /\ v.here = a.here /\ v.base = a.base /\ v.cand = a.cand
  BY <1>1, <1>2, <1>3 DEF SolveAdjoint, ReducedObjectives
<1>5. /\ w.adjoint = ad /\ w.p = p /\ w.u = b.u /\ w.state = b.state /\ w.isUpdated = b.isUpdated
      /\ w.newUpdate = b.newUpdate /\ w.updateType = b.updateType /\ w.updateFlag = b.updateFlag
      /\ w.fresh = b.fresh /\ w.here = b.here /\ w.base = b.base /\ w.cand = b.cand
  BY <1>1, <1>2, <1>3 DEF SolveAdjoint, ReducedObjectives
<1>6. Typed(v) /\ Typed(w)
  BY <1>1, SolveAdjointTyped DEF Ready
<1> HIDE DEF hit, p, ad, v, w
<1>7. Outside(v, w) /\ v.u = w.u /\ v.p = w.p
  BY <1>4, <1>5, <1>6 DEF Outside
<1>8. QED BY <1>6, <1>7 DEF v, w

(* The answers are the same, and the functions differ as little after      *)
(* them.                                                                   *)
LEMMA OutsideValue ==
  ASSUME Keyed, ~InnerStores, NEW a, NEW b, Typed(a), Outside(a, b), NEW z \in Val
  PROVE  Outside(Value(a, K, z), Value(b, K, z))
<1> DEFINE s == SolveState(a, K, z)
           t == SolveState(b, K, z)
           v == Value(a, K, z)
           w == Value(b, K, z)
<1>1. Outside(s, t) /\ Typed(s) /\ s.u = t.u
  BY OutsideState
<1>2. Typed(v) /\ Typed(w)
  BY AskedTyped DEF Outside, Answers
<1>3. /\ v = Answered([s EXCEPT !.obj = Assemble(s.obj, K, z)], z, {s.u, Peek(Assemble(s.obj, K, z), K)})
      /\ w = Answered([t EXCEPT !.obj = Assemble(t.obj, K, z)], z, {t.u, Peek(Assemble(t.obj, K, z), K)})
  BY DEF Value
<1> HIDE DEF s, t, v, w
<1>4. s \in ReducedObjectives /\ t \in ReducedObjectives /\ Typed(t) /\ K \in Key
  BY <1>1, KeyK DEF Outside, Typed
<1>5. Peek(Assemble(s.obj, K, z), K) = z /\ Peek(Assemble(t.obj, K, z), K) = z
  BY <1>1, <1>4, TypedParts, AssembledHere
<1>6. /\ v.state = s.state /\ v.adjoint = s.adjoint /\ v.isUpdated = s.isUpdated
      /\ v.newUpdate = s.newUpdate /\ v.updateType = s.updateType /\ v.updateFlag = s.updateFlag
      /\ v.here = s.here /\ v.base = s.base /\ v.cand = s.cand
      /\ v.fresh <=> s.fresh /\ {s.u, z} = {z}
  BY <1>3, <1>4, <1>5 DEF Answered, ReducedObjectives
<1>7. /\ w.state = t.state /\ w.adjoint = t.adjoint /\ w.isUpdated = t.isUpdated
      /\ w.newUpdate = t.newUpdate /\ w.updateType = t.updateType /\ w.updateFlag = t.updateFlag
      /\ w.here = t.here /\ w.base = t.base /\ w.cand = t.cand
      /\ w.fresh <=> t.fresh /\ {t.u, z} = {z}
  BY <1>3, <1>4, <1>5 DEF Answered, ReducedObjectives
<1>8. w.fresh = v.fresh
  <2>1. v.fresh \in BOOLEAN /\ w.fresh \in BOOLEAN
    BY <1>2 DEF Typed, ReducedObjectives
  <2>2. t.fresh = s.fresh
    BY <1>1 DEF Outside
  <2>3. QED BY <1>1, <1>6, <1>7, <2>1, <2>2
<1>9. Outside(v, w)
  BY <1>1, <1>2, <1>6, <1>7, <1>8 DEF Outside
<1>10. QED BY <1>9 DEF v, w

(* The same for the sensitivities, which are not stored.                   *)
LEMMA OutsideJacobian ==
  ASSUME Keyed, ~InnerStores, NEW a, NEW b, Typed(a), Outside(a, b), NEW z \in Val
  PROVE  Outside(Jacobian(a, z), Jacobian(b, z))
<1> DEFINE s == SolveState(a, K, z)
           t == SolveState(b, K, z)
           m == [s EXCEPT !.con = Assemble(@, K, z), !.obj = Assemble(@, K, z)]
           n == [t EXCEPT !.con = Assemble(@, K, z), !.obj = Assemble(@, K, z)]
           v == Jacobian(a, z)
           w == Jacobian(b, z)
<1>1. Outside(s, t) /\ Typed(s) /\ s.u = t.u
  BY OutsideState
<1>2. Typed(v) /\ Typed(w)
  BY AskedTyped DEF Outside, Answers
<1>3. /\ v = Answered(m, z, {m.u, Peek(m.con, K), Peek(m.obj, K)})
      /\ w = Answered(n, z, {n.u, Peek(n.con, K), Peek(n.obj, K)})
  BY DEF Jacobian
<1> HIDE DEF s, t, v, w
<1>4. s \in ReducedObjectives /\ t \in ReducedObjectives /\ Typed(t) /\ K \in Key
  BY <1>1, KeyK DEF Outside, Typed
<1>5. /\ Peek(Assemble(s.con, K, z), K) = z /\ Peek(Assemble(s.obj, K, z), K) = z
      /\ Peek(Assemble(t.con, K, z), K) = z /\ Peek(Assemble(t.obj, K, z), K) = z
  BY <1>1, <1>4, TypedParts, AssembledHere
<1>6. /\ m.u = s.u /\ m.con = Assemble(s.con, K, z) /\ m.obj = Assemble(s.obj, K, z)
      /\ n.u = t.u /\ n.con = Assemble(t.con, K, z) /\ n.obj = Assemble(t.obj, K, z)
  BY <1>4 DEF ReducedObjectives
<1>7. /\ v = Answered(m, z, {s.u, z, z})
      /\ w = Answered(n, z, {t.u, z, z})
  BY <1>3, <1>5, <1>6
<1>8. /\ v.state = s.state /\ v.adjoint = s.adjoint /\ v.isUpdated = s.isUpdated
      /\ v.newUpdate = s.newUpdate /\ v.updateType = s.updateType /\ v.updateFlag = s.updateFlag
      /\ v.here = s.here /\ v.base = s.base /\ v.cand = s.cand
      /\ v.fresh <=> s.fresh /\ {s.u, z, z} = {z}
  BY <1>4, <1>7 DEF Answered, ReducedObjectives
<1>9. /\ w.state = t.state /\ w.adjoint = t.adjoint /\ w.isUpdated = t.isUpdated
      /\ w.newUpdate = t.newUpdate /\ w.updateType = t.updateType /\ w.updateFlag = t.updateFlag
      /\ w.here = t.here /\ w.base = t.base /\ w.cand = t.cand
      /\ w.fresh <=> t.fresh /\ {t.u, z, z} = {z}
  BY <1>4, <1>7 DEF Answered, ReducedObjectives
<1>10. w.fresh = v.fresh
  <2>1. v.fresh \in BOOLEAN /\ w.fresh \in BOOLEAN
    BY <1>2 DEF Typed, ReducedObjectives
  <2>2. t.fresh = s.fresh
    BY <1>1 DEF Outside
  <2>3. QED BY <1>1, <1>8, <1>9, <2>1, <2>2
<1>11. Outside(v, w)
  BY <1>1, <1>2, <1>8, <1>9, <1>10 DEF Outside
<1>12. QED BY <1>11 DEF v, w

(* And for the gradient.                                                   *)
LEMMA OutsideGradient ==
  ASSUME Keyed, ~InnerStores, NEW a, NEW b, Typed(a), Outside(a, b), NEW z \in Val
  PROVE  Outside(Gradient(a, K, z), Gradient(b, K, z))
<1> DEFINE e == SolveState(a, K, z)
           f == SolveState(b, K, z)
           s == SolveAdjoint(e, K, z)
           t == SolveAdjoint(f, K, z)
           v == Gradient(a, K, z)
           w == Gradient(b, K, z)
           m == [s EXCEPT !.obj = Assemble(s.obj, K, z), !.con = Assemble(s.con, K, z)]
           n == [t EXCEPT !.obj = Assemble(t.obj, K, z), !.con = Assemble(t.con, K, z)]
<1>1. Outside(e, f) /\ Typed(e) /\ e.u = f.u /\ Ready(e)
  <2>1. Ready(e)
    BY KeyK, SolveStateTyped
  <2>2. QED BY <2>1, OutsideState
<1>2. Typed(v) /\ Typed(w)
  BY AskedTyped DEF Outside, Answers
<1>3. /\ v = Answered(m, z, {s.u, s.p, Peek(Assemble(s.obj, K, z), K), Peek(Assemble(s.con, K, z), K)})
      /\ w = Answered(n, z, {t.u, t.p, Peek(Assemble(t.obj, K, z), K), Peek(Assemble(t.con, K, z), K)})
  BY DEF Gradient
<1> HIDE DEF e, f, v, w
<1>4. Outside(s, t) /\ Typed(s) /\ s.u = t.u /\ s.p = t.p
  BY <1>1, OutsideAdjoint
<1> HIDE DEF s, t
<1>5. s \in ReducedObjectives /\ t \in ReducedObjectives /\ Typed(t) /\ K \in Key
  BY <1>4, KeyK DEF Outside, Typed
<1>6. /\ Peek(Assemble(s.con, K, z), K) = z /\ Peek(Assemble(s.obj, K, z), K) = z
      /\ Peek(Assemble(t.con, K, z), K) = z /\ Peek(Assemble(t.obj, K, z), K) = z
  BY <1>4, <1>5, TypedParts, AssembledHere
<1>7. /\ v = Answered(m, z, {s.u, s.p, z, z})
      /\ w = Answered(n, z, {t.u, t.p, z, z})
  BY <1>3, <1>6
<1>8. /\ v.state = s.state /\ v.adjoint = s.adjoint /\ v.isUpdated = s.isUpdated
      /\ v.newUpdate = s.newUpdate /\ v.updateType = s.updateType /\ v.updateFlag = s.updateFlag
      /\ v.here = s.here /\ v.base = s.base /\ v.cand = s.cand
      /\ v.fresh <=> s.fresh /\ {s.u, s.p, z, z} = {z}
  BY <1>5, <1>7 DEF Answered, ReducedObjectives
<1>9. /\ w.state = t.state /\ w.adjoint = t.adjoint /\ w.isUpdated = t.isUpdated
      /\ w.newUpdate = t.newUpdate /\ w.updateType = t.updateType /\ w.updateFlag = t.updateFlag
      /\ w.here = t.here /\ w.base = t.base /\ w.cand = t.cand
      /\ w.fresh <=> t.fresh /\ {t.u, t.p, z, z} = {z}
  BY <1>5, <1>7 DEF Answered, ReducedObjectives
<1>10. w.fresh = v.fresh
  <2>1. v.fresh \in BOOLEAN /\ w.fresh \in BOOLEAN
    BY <1>2 DEF Typed, ReducedObjectives
  <2>2. t.fresh = s.fresh
    BY <1>4 DEF Outside
  <2>3. QED BY <1>4, <1>8, <1>9, <2>1, <2>2
<1>11. Outside(v, w)
  BY <1>2, <1>4, <1>8, <1>9, <1>10 DEF Outside
<1>12. QED BY <1>11 DEF v, w

(* A function whose answers only differ from those of one that knows all   *)
(* of its own in what the inner problem assembles anew may be asked        *)
(* anywhere, as in a repeated projection: nothing else changes.            *)
LEMMA FullUnread ==
  ASSUME Keyed, ~InnerStores, NEW r, Typed(r), NEW y, Outside(r, y), InOrder(y), Full(y),
         NEW z \in Val, NEW v, Answers(r, v, z)
  PROVE  \E w : Outside(v, w) /\ InOrder(w) /\ Full(w) /\ SamePoints(y, w)
<1> DEFINE t == SolveState(r, K, z)
           s == SolveAdjoint(t, K, z)
           w == [v EXCEPT !.con = y.con, !.obj = y.obj]
<1>1. /\ K \in Key /\ r \in ReducedObjectives /\ y \in ReducedObjectives /\ r.isUpdated
      /\ Storage => IsComputed(r.state, K) /\ IsComputed(r.adjoint, K)
      /\ y.state = r.state /\ y.adjoint = r.adjoint /\ SamePoints(y, r)
  BY KeyK, InOrderParts DEF Full, Outside, Typed, SamePoints
<1>2. Typed(v) /\ v \in ReducedObjectives
  BY AskedTyped DEF Typed
<1>3. /\ w \in ReducedObjectives /\ w.con = y.con /\ w.obj = y.obj
      /\ w.state = v.state /\ w.adjoint = v.adjoint
      /\ w.isUpdated = v.isUpdated /\ w.newUpdate = v.newUpdate
      /\ w.updateType = v.updateType /\ w.updateFlag = v.updateFlag /\ w.fresh = v.fresh
      /\ w.here = v.here /\ w.base = v.base /\ w.cand = v.cand
  BY <1>1, <1>2 DEF ReducedObjectives
<1>4. /\ LookedAt(r.state, t.state) /\ t.adjoint = r.adjoint /\ t.isUpdated
      /\ t.here = r.here /\ t.base = r.base /\ t.cand = r.cand
  <2>1. /\ t.isUpdated /\ t.adjoint = r.adjoint
        /\ t.state = IF Storage THEN Allocate(r.state, K) ELSE r.state
        /\ t.here = r.here /\ t.base = r.base /\ t.cand = r.cand
    BY <1>1 DEF SolveState, ReducedObjectives
  <2>2. QED BY <2>1 DEF LookedAt
<1>5. Ready(t) /\ t \in ReducedObjectives
  BY <1>1, SolveStateTyped DEF Ready, Typed
<1> HIDE DEF t, w
<1>6. /\ s.state = t.state /\ LookedAt(r.adjoint, s.adjoint) /\ s.isUpdated = t.isUpdated
      /\ s.here = t.here /\ s.base = t.base /\ s.cand = t.cand
  <2>1. /\ s.state = t.state /\ s.isUpdated = t.isUpdated
        /\ s.adjoint = IF Storage THEN Allocate(r.adjoint, K) ELSE r.adjoint
        /\ s.here = t.here /\ s.base = t.base /\ s.cand = t.cand
    BY <1>1, <1>4, <1>5 DEF SolveAdjoint, ReducedObjectives
  <2>2. QED BY <2>1 DEF LookedAt
<1>7. s \in ReducedObjectives
  BY <1>1, <1>5, SolveAdjointTyped DEF Ready, Typed
<1> HIDE DEF s
<1>8. ASSUME v = Value(r, K, z)
      PROVE  /\ v.state = t.state /\ v.adjoint = t.adjoint /\ v.isUpdated = t.isUpdated
             /\ v.here = t.here /\ v.base = t.base /\ v.cand = t.cand
  BY <1>5, <1>8 DEF Value, Answered, ReducedObjectives, t
<1>9. ASSUME v = Jacobian(r, z)
      PROVE  /\ v.state = t.state /\ v.adjoint = t.adjoint /\ v.isUpdated = t.isUpdated
             /\ v.here = t.here /\ v.base = t.base /\ v.cand = t.cand
  BY <1>5, <1>9 DEF Jacobian, Answered, ReducedObjectives, t
<1>10. ASSUME v = Gradient(r, K, z)
       PROVE  /\ v.state = s.state /\ v.adjoint = s.adjoint /\ v.isUpdated = s.isUpdated
              /\ v.here = s.here /\ v.base = s.base /\ v.cand = s.cand
  BY <1>7, <1>10 DEF Gradient, Answered, ReducedObjectives, s, t
<1>11. LookedAt(r.adjoint, r.adjoint)
  BY DEF LookedAt
<1>12. /\ LookedAt(r.state, v.state) /\ LookedAt(r.adjoint, v.adjoint) /\ v.isUpdated
       /\ v.here = r.here /\ v.base = r.base /\ v.cand = r.cand
  BY <1>4, <1>6, <1>8, <1>9, <1>10, <1>11 DEF Answers
<1>13. Unmoved(y, w)
  BY <1>1, <1>3, <1>12 DEF Unmoved, SamePoints
<1>14. InOrder(w) /\ Full(w) /\ SamePoints(y, w)
  BY <1>13, UnmovedInOrder
<1>15. Outside(v, w)
  BY <1>3, <1>14, InOrderParts DEF Outside
<1>16. QED BY <1>14, <1>15

(* A store told of an update once by each of the two that share it belongs *)
(* to the same points as if it were told once.                             *)
LEMMA ToldAgain ==
  ASSUME Keyed, NEW u, InOrder(u), NEW type \in Types, NEW z \in Val, u.here = z,
         type \in {"Initial", "Accept"} => u.base = z,
         u.cand = IF type = "Trial" THEN z ELSE NoVal,
         type = "Revert" => z = u.base,
         type = "Accept" => Promotable(u.state, z)
  PROVE  StateFits(ObjectiveUpdate(u.state, type), u)
<1> DEFINE s == u.state
           q == ObjectiveUpdate(s, type)
<1>1. /\ s \in Controller /\ ~s.conUpdated /\ StateFits(s, u) /\ type \in UpdateType /\ K \in Key
      /\ TiersMatch(s, u.base, u.cand) /\ z # NoVal
  BY KeyK, InOrderParts, NoValAssumption DEF StateFits, Matches, Types, UpdateType
<1>2. BaseAfter(type, z, u.base) = u.base /\ CandAfter(type, z, u.cand) = u.cand
  BY DEF BaseAfter, CandAfter, Types
<1> HIDE DEF s
<1>3. Matches(q, z, BaseAfter(type, z, u.base), CandAfter(type, z, u.cand))
  BY <1>1, UpdateMatches DEF s
<1>4. Only(q, K)
  BY <1>1, UpdateOnly DEF StateFits
<1>5. /\ ActiveTier(q) = CASE type = "Trial" -> "trial" [] type = "Temp" -> "temp"
                            [] OTHER -> "main"
      /\ \A t \in Tier, j \in Key :
           q.tier[t][j].alloc => s.tier[t][j].alloc \/ (type = "Accept" /\ s.tier["trial"][j].alloc)
  BY <1>1, UpdateTiers
<1> HIDE DEF q
<1>6. Storage \/ Unused(q)
  BY <1>1, <1>5 DEF StateFits, Unused, Tier
<1>7. u.cand # NoVal => ActiveTier(q) = "trial"
  <2>1. u.cand # NoVal => type = "Trial"
    OBVIOUS
  <2>2. QED BY <1>5, <2>1
<1>8. QED BY <1>2, <1>3, <1>4, <1>6, <1>7 DEF StateFits, q, s

(* A pending update of one that shares the store of states is in order     *)
(* still, whatever the other has made of the store, if that fits.          *)
LEMMA Retold ==
  ASSUME NEW r, NEW w, Typed(r), Typed(w), NEW type \in Types, NEW z \in Val,
         w.adjoint = r.adjoint, w.con = r.con, w.obj = r.obj, w.base = r.base, w.cand = r.cand,
         InOrder(Update(r, type, z)),
         StateFits(ObjectiveUpdate(w.state, type), Update(r, type, z))
  PROVE  InOrder(Update(w, type, z)) /\ SamePoints(Update(r, type, z), Update(w, type, z))
<1> DEFINE v == Update(r, type, z)
           q == Update(w, type, z)
<1>0. type \in UpdateType
  BY DEF Types, UpdateType
<1>1. /\ v.adjoint = ObjectiveUpdate(r.adjoint, type)
      /\ v.con = r.con /\ v.obj = r.obj /\ ~v.isUpdated /\ v.newUpdate /\ v.updateType = type
      /\ v.here = z /\ v.base = BaseAfter(type, z, r.base) /\ v.cand = CandAfter(type, z, r.cand)
      /\ v \in ReducedObjectives
  BY <1>0, UpdateFields DEF Typed
<1>2. /\ q.state = ObjectiveUpdate(w.state, type) /\ q.adjoint = ObjectiveUpdate(w.adjoint, type)
      /\ q.con = w.con /\ q.obj = w.obj /\ ~q.isUpdated /\ q.newUpdate /\ q.updateType = type
      /\ q.here = z /\ q.base = BaseAfter(type, z, w.base) /\ q.cand = CandAfter(type, z, w.cand)
      /\ q \in ReducedObjectives
  BY <1>0, UpdateFields DEF Typed
<1>3. InOrder(v) /\ StateFits(ObjectiveUpdate(w.state, type), v)
  OBVIOUS
<1> HIDE DEF v, q
<1>4. Told(q.con, q) = Told(v.con, v) /\ Told(q.obj, q) = Told(v.obj, v)
  BY <1>1, <1>2 DEF Told, Deliver
<1>5. SamePoints(v, q) /\ q.adjoint = v.adjoint /\ q.con = v.con /\ q.obj = v.obj
  BY <1>1, <1>2 DEF SamePoints
<1>6. Good(q)
  BY <1>2, <1>3, <1>4, <1>5 DEF InOrder, Good, SamePoints, StateFits
<1>7. OnlyKey(q, K) /\ (Storage \/ Unused(q.adjoint)) /\ Tried(q)
  BY <1>2, <1>3, <1>4, <1>5 DEF InOrder, OnlyKey, StateFits, Tried, SamePoints
<1>8. QED BY <1>5, <1>6, <1>7 DEF InOrder, v, q

-----------------------------------------------------------------------------
(* The calls still to be made.                                             *)

(* A call that asks something at z, and one that leaves all of the         *)
(* objective, or of the constraint, known.                                 *)
Query(e, z)  == e[1] \in ObjMethods \cup ConMethods /\ e[2] = z
RenewsObj(e) == e[1] \in {"gradient", "hessVec"}
RenewsCon(e) == e[1] \in {"adjoint", "con.hessian"}

(* After its first m calls, q asks at z; there it renews either function.  *)
Asks(q, m, z)     == \A i \in m + 1 .. Len(q) : Query(q[i], z)
ObjComes(q, m)    == \E i \in m + 1 .. Len(q) : RenewsObj(q[i])
ConComes(q, m)    == \E i \in m + 1 .. Len(q) : RenewsCon(q[i])

(* A call is one of the two kinds.                                         *)
LEMMA CallKinds ==
  ASSUME NEW e \in Calls
  PROVE  /\ e[2] \in Val
         /\ \/ e[1] \in {"obj.update", "con.update"} /\ e[3] \in Types
            \/ e[1] \in ObjMethods \cup ConMethods /\ e[3] \in Multipliers
  BY DEF Calls

(* A call that asks.                                                       *)
LEMMA QueryCall ==
  ASSUME NEW m \in ObjMethods \cup ConMethods, NEW z \in Val, NEW w \in Multipliers
  PROVE  <<m, z, w>> \in Calls /\ Query(<<m, z, w>>, z)
  BY DEF Calls, Query

(* What is left after a call.                                              *)
LEMMA Returned ==
  ASSUME NEW q \in Seq(Calls), q # <<>>, NEW z
  PROVE  /\ q[1] \in Calls /\ Head(q) = q[1] /\ Tail(q) \in Seq(Calls)
         /\ Len(q) \in Nat /\ Len(q) > 0 /\ Len(Tail(q)) = Len(q) - 1
         /\ \A i \in 1 .. Len(Tail(q)) : Tail(q)[i] = q[i + 1]
         /\ \A m \in Nat : Asks(q, m + 1, z) => Asks(Tail(q), m, z)
         /\ \A m \in Nat : ObjComes(q, m + 1) => ObjComes(Tail(q), m)
         /\ \A m \in Nat : ConComes(q, m + 1) => ConComes(Tail(q), m)
         /\ Asks(q, 0, z) => Query(q[1], z) /\ Asks(Tail(q), 0, z)
         /\ ObjComes(q, 0) => RenewsObj(q[1]) \/ ObjComes(Tail(q), 0)
         /\ ConComes(q, 0) => RenewsCon(q[1]) \/ ConComes(Tail(q), 0)
<1>1. /\ Tail(q) \in Seq(Calls) /\ Len(Tail(q)) = Len(q) - 1
      /\ \A i \in 1 .. Len(Tail(q)) : Tail(q)[i] = q[i + 1]
  BY HeadTailProperties
<1>2. Len(q) \in Nat /\ Len(q) > 0
  BY EmptySeq, LenProperties
<1>3. q[1] \in Calls /\ Head(q) = q[1]
  BY <1>2, ElementOfSeq
<1> DEFINE n == Len(q)
           t == Tail(q)
<1>4. /\ n \in Nat /\ n > 0 /\ Len(t) = n - 1 /\ \A i \in 1 .. n - 1 : t[i] = q[i + 1]
  BY <1>1, <1>2
<1>5. /\ \A m \in Nat : Asks(q, m + 1, z) <=> \A i \in m + 2 .. n : Query(q[i], z)
      /\ \A m \in Nat : ObjComes(q, m + 1) <=> \E i \in m + 2 .. n : RenewsObj(q[i])
      /\ \A m \in Nat : ConComes(q, m + 1) <=> \E i \in m + 2 .. n : RenewsCon(q[i])
      /\ Asks(q, 0, z) <=> \A i \in 1 .. n : Query(q[i], z)
      /\ ObjComes(q, 0) <=> \E i \in 1 .. n : RenewsObj(q[i])
      /\ ConComes(q, 0) <=> \E i \in 1 .. n : RenewsCon(q[i])
  BY <1>2 DEF Asks, ObjComes, ConComes
<1>6. /\ \A m \in Nat : Asks(t, m, z) <=> \A i \in m + 1 .. n - 1 : Query(t[i], z)
      /\ \A m \in Nat : ObjComes(t, m) <=> \E i \in m + 1 .. n - 1 : RenewsObj(t[i])
      /\ \A m \in Nat : ConComes(t, m) <=> \E i \in m + 1 .. n - 1 : RenewsCon(t[i])
  BY <1>1 DEF Asks, ObjComes, ConComes
<1> HIDE DEF n, t
<1>7. \A m \in Nat : Asks(q, m + 1, z) => Asks(t, m, z)
  <2>1. SUFFICES ASSUME NEW m \in Nat, Asks(q, m + 1, z), NEW i \in m + 1 .. n - 1
                 PROVE  Query(t[i], z)
    BY <1>6
  <2>2. i + 1 \in m + 2 .. n /\ i \in 1 .. n - 1
    BY <1>4
  <2>3. QED BY <1>4, <1>5, <2>1, <2>2
<1>8. \A m \in Nat : ObjComes(q, m + 1) => ObjComes(t, m)
  <2>1. SUFFICES ASSUME NEW m \in Nat, ObjComes(q, m + 1)
                 PROVE  ObjComes(t, m)
    OBVIOUS
  <2>2. PICK i \in m + 2 .. n : RenewsObj(q[i])
    BY <1>5, <2>1
  <2>3. i - 1 \in m + 1 .. n - 1 /\ i - 1 \in 1 .. n - 1 /\ (i - 1) + 1 = i
    BY <1>4
  <2>4. RenewsObj(t[i - 1])
    BY <1>4, <2>2, <2>3
  <2>5. QED BY <1>6, <2>3, <2>4
<1>9. \A m \in Nat : ConComes(q, m + 1) => ConComes(t, m)
  <2>1. SUFFICES ASSUME NEW m \in Nat, ConComes(q, m + 1)
                 PROVE  ConComes(t, m)
    OBVIOUS
  <2>2. PICK i \in m + 2 .. n : RenewsCon(q[i])
    BY <1>5, <2>1
  <2>3. i - 1 \in m + 1 .. n - 1 /\ i - 1 \in 1 .. n - 1 /\ (i - 1) + 1 = i
    BY <1>4
  <2>4. RenewsCon(t[i - 1])
    BY <1>4, <2>2, <2>3
  <2>5. QED BY <1>6, <2>3, <2>4
<1>10. Asks(q, 0, z) => Query(q[1], z) /\ Asks(t, 0, z)
  <2>1. SUFFICES ASSUME \A i \in 1 .. n : Query(q[i], z)
                 PROVE  Query(q[1], z) /\ \A i \in 1 .. n - 1 : Query(t[i], z)
    BY <1>5, <1>6
  <2>2. ASSUME NEW i \in 1 .. n - 1 PROVE Query(t[i], z)
    <3>1. i + 1 \in 1 .. n
      BY <1>4
    <3>2. QED BY <1>4, <2>1, <3>1
  <2>3. 1 \in 1 .. n
    BY <1>4
  <2>4. QED BY <2>1, <2>2, <2>3
<1>11. ObjComes(q, 0) => RenewsObj(q[1]) \/ ObjComes(t, 0)
  <2>1. SUFFICES ASSUME NEW i \in 1 .. n, RenewsObj(q[i]), ~RenewsObj(q[1])
                 PROVE  \E j \in 1 .. n - 1 : RenewsObj(t[j])
    BY <1>5, <1>6
  <2>2. i - 1 \in 1 .. n - 1 /\ (i - 1) + 1 = i
    BY <1>4, <2>1
  <2>3. RenewsObj(t[i - 1])
    BY <1>4, <2>1, <2>2
  <2>4. QED BY <2>2, <2>3
<1>12. ConComes(q, 0) => RenewsCon(q[1]) \/ ConComes(t, 0)
  <2>1. SUFFICES ASSUME NEW i \in 1 .. n, RenewsCon(q[i]), ~RenewsCon(q[1])
                 PROVE  \E j \in 1 .. n - 1 : RenewsCon(t[j])
    BY <1>5, <1>6
  <2>2. i - 1 \in 1 .. n - 1 /\ (i - 1) + 1 = i
    BY <1>4, <2>1
  <2>3. RenewsCon(t[i - 1])
    BY <1>4, <2>1, <2>2
  <2>4. QED BY <2>2, <2>3
<1>13. QED BY <1>1, <1>2, <1>3, <1>7, <1>8, <1>9, <1>10, <1>11, <1>12 DEF t

(* From o and the twin r of the constraint, the call e leads to a and b:   *)
(* one of the two is told or asked, and the other may share its store.     *)
Does(f, g, e) ==
  IF e[1] \in {"obj.update", "con.update"}
  THEN g = Update(f, e[3], e[2])
  ELSE Answers(f, g, e[2]) /\ (RenewsObj(e) \/ RenewsCon(e) => g = Gradient(f, K, e[2]))

Beside(f, g, sh) == IF sh THEN WithStore(f, g.state) ELSE f

Called(o, r, e, a, b, sh) ==
  IF e[1] \in ObjMethods \cup {"obj.update"}
  THEN Does(o, a, e) /\ b = Beside(r, a, sh)
  ELSE Does(r, b, e) /\ a = Beside(o, b, sh)

(* Do() makes such a step.                                                 *)
LEMMA DoCalls ==
  ASSUME Keyed, NEW o, Typed(o), NEW c, NEW r, Twin(c, r), Typed(r), NEW e \in Calls,
         NEW p, p = Do([o |-> o, c |-> c], e[1], e[2], e[3])
  PROVE  \E b : Twin(p.c, b) /\ Called(o, r, e, p.o, b, shared) /\ Typed(p.o) /\ Typed(b)
<1>1. e[2] \in Val /\ K \in Key
  BY CallKinds, KeyK
<1>2. ASSUME NEW a, Typed(a), Does(o, a, e), p = Obj([o |-> o, c |-> c], a),
             e[1] \in ObjMethods \cup {"obj.update"}
      PROVE  \E b : Twin(p.c, b) /\ Called(o, r, e, p.o, b, shared) /\ Typed(p.o) /\ Typed(b)
  <2> DEFINE b == Beside(r, a, shared)
  <2>1. p.o = a /\ p.c = IF shared THEN WithStore(c, a.state) ELSE c
    BY <1>2 DEF Obj, WithStore
  <2>2. a.state \in Controller /\ ~a.state.conUpdated /\ r \in ReducedObjectives
    BY <1>2 DEF Typed, ReducedObjectives
  <2>3. Twin(p.c, b)
    BY <2>1, <2>2, TwinChanged DEF Beside
  <2>4. Typed(b)
    <3> DEFINE s == a.state
    <3>1. s \in Controller /\ ~s.conUpdated
      BY <2>2
    <3> HIDE DEF s
    <3>2. Typed(WithStore(r, s))
      BY <2>2, <3>1, SetStore DEF Typed
    <3>3. QED BY <3>2 DEF Beside, s
  <2>5. Called(o, r, e, p.o, b, shared)
    BY <1>2, <2>1 DEF Called
  <2> HIDE DEF b
  <2>6. QED BY <1>2, <2>1, <2>3, <2>4, <2>5
<1>3. ASSUME NEW d, NEW b, Twin(d, b), Typed(b), Does(r, b, e), p = Con([o |-> o, c |-> c], d),
             e[1] \notin ObjMethods \cup {"obj.update"}
      PROVE  \E g : Twin(p.c, g) /\ Called(o, r, e, p.o, g, shared) /\ Typed(p.o) /\ Typed(g)
  <2>1. p.c = d /\ p.o = IF shared THEN WithStore(o, d.state) ELSE o
    BY <1>3 DEF Con, WithStore
  <2>2. d.state = b.state
    BY <1>3 DEF Twin, SameAnswers
  <2>3. p.o = Beside(o, b, shared)
    BY <2>1, <2>2 DEF Beside
  <2>4. b.state \in Controller /\ ~b.state.conUpdated /\ o \in ReducedObjectives
    BY <1>3 DEF Typed, ReducedObjectives
  <2>5. Typed(p.o)
    <3> DEFINE s == b.state
    <3>1. s \in Controller /\ ~s.conUpdated
      BY <2>4
    <3> HIDE DEF s
    <3>2. Typed(WithStore(o, s))
      BY <2>4, <3>1, SetStore DEF Typed
    <3>3. QED BY <2>3, <3>2 DEF Beside, s
  <2>6. Called(o, r, e, p.o, b, shared)
    BY <1>3, <2>3 DEF Called
  <2>7. QED BY <1>3, <2>1, <2>5, <2>6
<1> DEFINE fs == [o |-> o, c |-> c]
<1>4. fs.o = o /\ fs.c = c /\ p = Do(fs, e[1], e[2], e[3])
  OBVIOUS
<1>5. fs = [o |-> o, c |-> c]
  OBVIOUS
<1> HIDE DEF fs
<1>6. CASE e[1] = "obj.update"
  <2>1. e[3] \in Types /\ e[3] \in UpdateType
    BY <1>6, CallKinds DEF ObjMethods, ConMethods, Types, UpdateType
  <2>2. p = Obj(fs, Update(o, e[3], e[2]))
    BY <1>4, <1>6 DEF Do
  <2>3. Typed(Update(o, e[3], e[2]))
    BY <1>1, <2>1, UpdateTyped
  <2>4. QED BY <1>2, <1>5, <1>6, <2>2, <2>3 DEF Does
<1>7. CASE e[1] = "con.update"
  <2>1. e[3] \in Types /\ e[3] \in UpdateType
    BY <1>7, CallKinds DEF ObjMethods, ConMethods, Types, UpdateType
  <2>2. p = Con(fs, UpdateConstraint(c, e[3], e[2]))
    BY <1>4, <1>7 DEF Do
  <2>3. Typed(Update(r, e[3], e[2]))
    BY <1>1, <2>1, UpdateTyped
  <2>4. Twin(UpdateConstraint(c, e[3], e[2]), Update(r, e[3], e[2]))
    BY <1>1, <2>1, TwinUpdate
  <2>5. Does(r, Update(r, e[3], e[2]), e)
    BY <1>7 DEF Does
  <2>6. QED BY <1>3, <1>5, <1>7, <2>2, <2>3, <2>4, <2>5 DEF ObjMethods
<1>8. CASE e[1] \in ObjMethods
  <2>1. PICK a : Answers(o, a, e[2]) /\ p = Obj(fs, a) /\ (RenewsObj(e) => a = Gradient(o, K, e[2]))
    <3>1. CASE e[1] = "value"
      <4>1. p = Obj(fs, Value(o, K, e[2])) /\ ~RenewsObj(e)
        BY <1>4, <3>1 DEF Do, RenewsObj
      <4>2. QED BY <4>1 DEF Answers
    <3>2. CASE e[1] = "gradient"
      <4>1. p = Obj(fs, Gradient(o, K, e[2]))
        BY <1>4, <3>2 DEF Do
      <4>2. QED BY <4>1 DEF Answers
    <3>3. CASE e[1] = "hessVec"
      <4>1. p = Obj(fs, Gradient(o, K, e[2]))
        BY <1>4, <3>3 DEF Do, HessVec
      <4>2. QED BY <4>1 DEF Answers
    <3>4. QED BY <1>8, <3>1, <3>2, <3>3 DEF ObjMethods
  <2>2. Typed(a)
    BY <1>1, <2>1, AskedTyped
  <2>3. Does(o, a, e)
    BY <1>8, <2>1 DEF Does, ObjMethods, RenewsCon
  <2>4. QED BY <1>2, <1>5, <1>8, <2>1, <2>2, <2>3
<1>9. CASE e[1] \in ConMethods
  <2>0. e[3] \in Multipliers
    BY <1>9, CallKinds DEF ConMethods
  <2>1. PICK d, b : /\ Twin(d, b) /\ Answers(r, b, e[2]) /\ p = Con(fs, d)
                    /\ RenewsCon(e) => b = Gradient(r, K, e[2])
    <3>1. CASE e[1] = "con.value"
      <4>1. p = Con(fs, ConstraintValue(c, e[2])) /\ ~RenewsCon(e)
        BY <1>4, <3>1 DEF Do, RenewsCon
      <4>2. Twin(ConstraintValue(c, e[2]), Value(r, K, e[2]))
        BY <1>1, TwinValue
      <4>3. QED BY <4>1, <4>2 DEF Answers
    <3>2. CASE e[1] = "jacobian"
      <4>1. p = Con(fs, Jacobian(c, e[2])) /\ ~RenewsCon(e)
        BY <1>4, <3>2 DEF Do, RenewsCon
      <4>2. Twin(Jacobian(c, e[2]), Jacobian(r, e[2]))
        BY <1>1, TwinJacobian
      <4>3. QED BY <4>1, <4>2 DEF Answers
    <3>3. CASE e[1] = "adjoint"
      <4>1. p = Con(fs, AdjointJacobian(c, e[3], e[2]))
        BY <1>4, <3>3 DEF Do
      <4>2. Twin(AdjointJacobian(c, e[3], e[2]), Gradient(r, K, e[2]))
        BY <1>1, <2>0, TwinAdjoint
      <4>3. QED BY <4>1, <4>2 DEF Answers
    <3>4. CASE e[1] = "con.hessian"
      <4>1. p = Con(fs, AdjointHessian(c, e[3], e[2]))
        BY <1>4, <3>4 DEF Do
      <4>2. Twin(AdjointHessian(c, e[3], e[2]), Gradient(r, K, e[2]))
        BY <1>1, <2>0, TwinAdjoint
      <4>3. QED BY <4>1, <4>2 DEF Answers
    <3>5. QED BY <1>9, <3>1, <3>2, <3>3, <3>4 DEF ConMethods
  <2>2. Typed(b)
    BY <1>1, <2>1, AskedTyped
  <2>3. Does(r, b, e) /\ e[1] \notin ObjMethods \cup {"obj.update"}
    BY <1>9, <2>1 DEF Does, ConMethods, ObjMethods, RenewsObj
  <2>4. QED BY <1>3, <1>5, <2>1, <2>2, <2>3
<1>10. QED BY <1>6, <1>7, <1>8, <1>9, CallKinds

-----------------------------------------------------------------------------
(* One call on the pair.                                                   *)

(* Both are in order, at the same points.                                  *)
BothInOrder(o, r) == InOrder(o) /\ InOrder(r) /\ SamePoints(o, r)

(* A pair in order, asked where it stands, stays so, with the right answer. *)
LEMMA AskedPair ==
  ASSUME Keyed, NEW o, NEW r, BothInOrder(o, r), NEW e \in Calls, NEW z, o.here = z, Query(e, z),
         NEW a, NEW b, NEW sh, Called(o, r, e, a, b, sh)
  PROVE  /\ BothInOrder(a, b) /\ SamePoints(o, a)
         /\ a.fresh = o.fresh /\ b.fresh = r.fresh
         /\ Full(o) \/ RenewsObj(e) => Full(a)
         /\ Full(r) \/ RenewsCon(e) => Full(b)
<1>1. z \in Val /\ e[2] = z /\ e[1] \in ObjMethods \cup ConMethods
  BY CallKinds DEF Query
<1>2. r.here = z
  BY DEF BothInOrder, SamePoints
<1>3. e[1] \notin {"obj.update", "con.update"}
  BY <1>1 DEF ObjMethods, ConMethods
<1>4. CASE e[1] \in ObjMethods
  <2>1. /\ Answers(o, a, z) /\ (RenewsObj(e) => a = Gradient(o, K, z)) /\ b = Beside(r, a, sh)
        /\ ~RenewsCon(e)
    BY <1>1, <1>3, <1>4 DEF Called, Does, ObjMethods, RenewsCon
  <2>2. /\ InOrder(a) /\ SamePoints(o, a) /\ a.fresh = o.fresh
        /\ Storage => IsComputed(a.state, K)
        /\ Full(o) \/ RenewsObj(e) => Full(a)
    BY <1>1, <2>1, AskedInOrder DEF BothInOrder
  <2>3. SamePoints(a, r)
    BY <2>2 DEF BothInOrder, SamePoints
  <2>4. LET w == WithStore(r, a.state) IN
        InOrder(w) /\ SamePoints(r, w) /\ w.fresh = r.fresh /\ (Full(r) => Full(w))
    BY <2>2, <2>3, Exchange DEF BothInOrder
  <2>5. InOrder(b) /\ SamePoints(r, b) /\ b.fresh = r.fresh /\ (Full(r) => Full(b))
    BY <2>1, <2>4 DEF Beside, BothInOrder, SamePoints
  <2>6. QED BY <2>1, <2>2, <2>3, <2>5 DEF BothInOrder, SamePoints
<1>5. CASE e[1] \in ConMethods
  <2>1. /\ Answers(r, b, z) /\ (RenewsCon(e) => b = Gradient(r, K, z)) /\ a = Beside(o, b, sh)
        /\ ~RenewsObj(e)
    BY <1>1, <1>3, <1>5 DEF Called, Does, ObjMethods, ConMethods, RenewsObj
  <2>2. /\ InOrder(b) /\ SamePoints(r, b) /\ b.fresh = r.fresh
        /\ Storage => IsComputed(b.state, K)
        /\ Full(r) \/ RenewsCon(e) => Full(b)
    BY <1>1, <1>2, <2>1, AskedInOrder DEF BothInOrder
  <2>3. SamePoints(b, o)
    BY <2>2 DEF BothInOrder, SamePoints
  <2>4. LET w == WithStore(o, b.state) IN
        InOrder(w) /\ SamePoints(o, w) /\ w.fresh = o.fresh /\ (Full(o) => Full(w))
    BY <2>2, <2>3, Exchange DEF BothInOrder
  <2>5. InOrder(a) /\ SamePoints(o, a) /\ a.fresh = o.fresh /\ (Full(o) => Full(a))
    BY <2>1, <2>4 DEF Beside, BothInOrder, SamePoints
  <2>6. QED BY <2>1, <2>2, <2>3, <2>5 DEF BothInOrder, SamePoints
<1>6. QED BY <1>1, <1>4, <1>5

(* Asked anywhere, a pair of which all is known stays so.                  *)
LEMMA AskedPairFull ==
  ASSUME Keyed, InnerStores, NEW o, NEW r, BothInOrder(o, r), Full(o), Full(r),
         NEW e \in Calls, NEW z, Query(e, z), NEW a, NEW b, NEW sh, Called(o, r, e, a, b, sh)
  PROVE  BothInOrder(a, b) /\ SamePoints(o, a) /\ Full(a) /\ Full(b)
<1>1. z \in Val /\ e[2] = z /\ e[1] \in ObjMethods \cup ConMethods
  BY CallKinds DEF Query
<1>2. e[1] \notin {"obj.update", "con.update"}
  BY <1>1 DEF ObjMethods, ConMethods
<1>3. CASE e[1] \in ObjMethods
  <2>1. Answers(o, a, z) /\ b = Beside(r, a, sh)
    BY <1>1, <1>2, <1>3 DEF Called, Does, ObjMethods
  <2>2. InOrder(a) /\ SamePoints(o, a) /\ Full(a) /\ (Storage => IsComputed(a.state, K))
    <3>1. InOrder(a) /\ SamePoints(o, a) /\ Full(a)
      BY <1>1, <2>1, FullAsked DEF BothInOrder
    <3>2. QED BY <3>1 DEF Full
  <2>3. SamePoints(a, r)
    BY <2>2 DEF BothInOrder, SamePoints
  <2>4. LET w == WithStore(r, a.state) IN InOrder(w) /\ SamePoints(r, w) /\ Full(w)
    BY <2>2, <2>3, Exchange DEF BothInOrder
  <2>5. InOrder(b) /\ SamePoints(r, b) /\ Full(b)
    BY <2>1, <2>4 DEF Beside, BothInOrder, SamePoints
  <2>6. QED BY <2>2, <2>3, <2>5 DEF BothInOrder, SamePoints
<1>4. CASE e[1] \in ConMethods
  <2>1. Answers(r, b, z) /\ a = Beside(o, b, sh)
    BY <1>1, <1>2, <1>4 DEF Called, Does, ObjMethods, ConMethods
  <2>2. InOrder(b) /\ SamePoints(r, b) /\ Full(b) /\ (Storage => IsComputed(b.state, K))
    <3>1. InOrder(b) /\ SamePoints(r, b) /\ Full(b)
      BY <1>1, <2>1, FullAsked DEF BothInOrder
    <3>2. QED BY <3>1 DEF Full
  <2>3. SamePoints(b, o)
    BY <2>2 DEF BothInOrder, SamePoints
  <2>4. LET w == WithStore(o, b.state) IN InOrder(w) /\ SamePoints(o, w) /\ Full(w)
    BY <2>2, <2>3, Exchange DEF BothInOrder
  <2>5. InOrder(a) /\ SamePoints(o, a) /\ Full(a)
    BY <2>1, <2>4 DEF Beside, BothInOrder, SamePoints
  <2>6. QED BY <2>2, <2>3, <2>5 DEF BothInOrder, SamePoints
<1>5. QED BY <1>1, <1>3, <1>4

-----------------------------------------------------------------------------
(* Where the method stands: the step a call belongs to.                    *)

Stage == [pc |-> pc, place |-> place, x |-> x, xtrial |-> xtrial,
          first |-> pass = 1 /\ ct = 1, shared |-> shared]

(* The points the functions were told, once the calls of a step are made.  *)
Stands(g, r) ==
  /\ g.pc = "start" => r.here = NoVal /\ r.base = NoVal /\ r.cand = NoVal
  /\ g.pc \in {"check", "done"} => r.here = g.x /\ r.base = g.x /\ r.cand = NoVal
  /\ g.pc \in {"project", "try"} =>
       /\ r.base = g.x
       /\ r.cand = NoVal => r.here = g.x
       /\ r.cand # NoVal => r.here = r.cand
       /\ g.first => r.here = g.x
  /\ g.pc \in {"again", "fit", "radius"} =>
       r.base = g.x /\ r.here = g.xtrial /\ r.cand = g.xtrial

(* What is asked is known, or the calls to come will make it known.        *)
Asking(g, o, r, q) ==
  /\ BothInOrder(o, r) /\ Stands(g, o)
  /\ Asks(q, 0, IF g.place = "repeated" THEN g.x ELSE o.here)
  /\ g.place = "repeated" => Full(o) /\ Full(r)
  /\ g.pc = "start" => q = <<>> /\ o.isUpdated /\ r.isUpdated
  /\ g.pc # "start" => (Full(o) \/ ObjComes(q, 0)) /\ (Full(r) \/ ConComes(q, 0))

(* After m calls, there will be answers and renewals at z.                 *)
ComesLater(g, q, m, z) ==
  /\ Asks(q, m, z) /\ ObjComes(q, m) /\ ConComes(q, m)
  /\ g.pc # "start" /\ g.place # "repeated"

(* The points of a pending update.                                         *)
Announced(u, type, z) ==
  /\ u.here = z /\ (type \in {"Initial", "Accept"} => u.base = z)
  /\ u.cand = IF type = "Trial" THEN z ELSE NoVal
  /\ type = "Revert" => z = u.base

(* The objective is told of an update, the constraint will be.             *)
TellingCon(g, o, r, q, m, type, z) ==
  /\ BothInOrder(o, Update(r, type, z)) /\ Stands(g, o) /\ Announced(o, type, z)
  /\ type = "Accept" => Promotable(o.state, z)
  /\ Len(q) >= m /\ q[m] = <<"con.update", z, type>>
  /\ m = 2 => type = "Initial" /\ q[1] = <<"value", z, "">>
  /\ ComesLater(g, q, m, z)

(* Both will be.                                                           *)
TellingBoth(g, o, r, q, m, type, z) ==
  /\ BothInOrder(Update(o, type, z), Update(r, type, z))
  /\ Stands(g, Update(o, type, z)) /\ Announced(Update(o, type, z), type, z)
  /\ type = "Accept" => Promotable(o.state, z)
  /\ Len(q) >= m + 1 /\ q[1] = <<"obj.update", z, type>> /\ q[m + 1] = <<"con.update", z, type>>
  /\ m = 2 => type = "Initial" /\ q[2] = <<"value", z, "">>
  /\ ComesLater(g, q, m + 1, z)

Safe(g, o, r, q) ==
  \/ Asking(g, o, r, q)
  \/ \E m \in {1, 2}, type \in Types, z \in Val : TellingCon(g, o, r, q, m, type, z)
  \/ \E m \in {1, 2}, type \in Types, z \in Val : TellingBoth(g, o, r, q, m, type, z)

(* Functions at the same points stand alike.                               *)
LEMMA StandsAlike ==
  ASSUME NEW g, NEW a, NEW b, SamePoints(a, b), Stands(g, a)
  PROVE  Stands(g, b)
  BY DEF Stands, SamePoints

(* An answer is noted, and the pair is what it was.                        *)
LEMMA RefreshedPair ==
  ASSUME NEW a, NEW b, BothInOrder(a, b)
  PROVE  /\ BothInOrder(Refreshed(a), Refreshed(b)) /\ SamePoints(a, Refreshed(a))
         /\ Refreshed(a).state = a.state
         /\ Full(a) => Full(Refreshed(a))
         /\ Full(b) => Full(Refreshed(b))
<1>1. /\ InOrder(Refreshed(a)) /\ SamePoints(a, Refreshed(a)) /\ (Full(a) => Full(Refreshed(a)))
      /\ Refreshed(a).state = a.state
  BY InOrderParts, Refresh DEF BothInOrder
<1>2. InOrder(Refreshed(b)) /\ SamePoints(b, Refreshed(b)) /\ (Full(b) => Full(Refreshed(b)))
  BY InOrderParts, Refresh DEF BothInOrder
<1>3. QED BY <1>1, <1>2 DEF BothInOrder, SamePoints

(* A call that asks.                                                       *)
LEMMA AskingStep ==
  ASSUME Keyed, NEW g, InnerStores \/ g.place # "repeated",
         NEW o, NEW r, NEW q \in Seq(Calls), q # <<>>,
         Asking(g, o, r, q), NEW a, NEW b, NEW sh, Called(o, r, q[1], a, b, sh)
  PROVE  /\ g.place # "repeated" => a.fresh = o.fresh /\ b.fresh = r.fresh
         /\ Asking(g, Refreshed(a), Refreshed(b), Tail(q))
<1> DEFINE e == q[1]
           t == Tail(q)
           z == IF g.place = "repeated" THEN g.x ELSE o.here
<1>1. /\ BothInOrder(o, r) /\ Stands(g, o) /\ g.pc # "start" /\ Asks(q, 0, z)
      /\ g.place = "repeated" => Full(o) /\ Full(r)
      /\ (Full(o) \/ ObjComes(q, 0)) /\ (Full(r) \/ ConComes(q, 0))
  BY DEF Asking
<1>2. /\ e \in Calls /\ Query(e, z) /\ Asks(t, 0, z)
      /\ ObjComes(q, 0) => RenewsObj(e) \/ ObjComes(t, 0)
      /\ ConComes(q, 0) => RenewsCon(e) \/ ConComes(t, 0)
  BY <1>1, Returned
<1>3. z = IF g.place = "repeated" THEN g.x ELSE o.here
  OBVIOUS
<1>4. Called(o, r, e, a, b, sh)
  OBVIOUS
<1> HIDE DEF e, t, z
<1>5. /\ BothInOrder(a, b) /\ SamePoints(o, a)
      /\ g.place # "repeated" => a.fresh = o.fresh /\ b.fresh = r.fresh
      /\ g.place = "repeated" => Full(a) /\ Full(b)
      /\ (Full(a) \/ ObjComes(t, 0)) /\ (Full(b) \/ ConComes(t, 0))
  <2>1. CASE g.place = "repeated"
    <3>1. BothInOrder(a, b) /\ SamePoints(o, a) /\ Full(a) /\ Full(b)
      BY <1>1, <1>2, <1>4, <2>1, AskedPairFull
    <3>2. QED BY <2>1, <3>1
  <2>2. CASE g.place # "repeated"
    <3>1. o.here = z
      BY <1>3, <2>2
    <3>2. /\ BothInOrder(a, b) /\ SamePoints(o, a)
          /\ a.fresh = o.fresh /\ b.fresh = r.fresh
          /\ Full(o) \/ RenewsObj(e) => Full(a)
          /\ Full(r) \/ RenewsCon(e) => Full(b)
      BY <1>1, <1>2, <1>4, <3>1, AskedPair
    <3>3. QED BY <1>1, <1>2, <2>2, <3>2
  <2>3. QED BY <2>1, <2>2
<1> DEFINE v == Refreshed(a)
           w == Refreshed(b)
<1>6. /\ BothInOrder(v, w) /\ SamePoints(a, v)
      /\ Full(a) => Full(v)
      /\ Full(b) => Full(w)
  BY <1>5, RefreshedPair
<1> HIDE DEF v, w
<1>7. Stands(g, v) /\ v.here = o.here
  BY <1>1, <1>5, <1>6, StandsAlike DEF SamePoints
<1>8. Asking(g, v, w, t)
  BY <1>1, <1>2, <1>3, <1>5, <1>6, <1>7 DEF Asking
<1>9. QED BY <1>5, <1>8 DEF v, w, t

(* The constraint is told of the update.                                   *)
LEMMA TellingConLast ==
  ASSUME Keyed, NEW g, NEW o, NEW r, Typed(r), NEW q \in Seq(Calls), q # <<>>,
         NEW type \in Types, NEW z \in Val, TellingCon(g, o, r, q, 1, type, z),
         NEW a, NEW b, NEW sh, Called(o, r, q[1], a, b, sh)
  PROVE  /\ a.fresh = o.fresh /\ b.fresh = r.fresh
         /\ Asking(g, Refreshed(a), Refreshed(b), Tail(q))
<1> DEFINE t == Tail(q)
           v == Update(r, type, z)
<1>1. /\ BothInOrder(o, v) /\ Stands(g, o) /\ o.here = z /\ q[1] = <<"con.update", z, type>>
      /\ Asks(q, 1, z) /\ ObjComes(q, 1) /\ ConComes(q, 1)
      /\ g.pc # "start" /\ g.place # "repeated"
  BY DEF TellingCon, ComesLater, Announced
<1>2. Asks(t, 0, z) /\ ObjComes(t, 0) /\ ConComes(t, 0)
  <2>1. /\ Asks(q, 0 + 1, z) => Asks(t, 0, z)
        /\ ObjComes(q, 0 + 1) => ObjComes(t, 0)
        /\ ConComes(q, 0 + 1) => ConComes(t, 0)
    BY Returned
  <2>2. 0 + 1 = 1
    OBVIOUS
  <2>3. QED BY <1>1, <2>1, <2>2
<1>3. b = v /\ a = Beside(o, v, sh)
  BY <1>1 DEF Called, Does, ObjMethods
<1>4. v.fresh = r.fresh
  BY UpdateFields DEF Typed, Types, UpdateType
<1> HIDE DEF v, t
<1>5. InOrder(v) /\ InOrder(o) /\ SamePoints(v, o)
  BY <1>1 DEF BothInOrder, SamePoints
<1>6. LET w == WithStore(o, v.state) IN InOrder(w) /\ SamePoints(o, w) /\ w.fresh = o.fresh
  BY <1>5, Exchange
<1>7. BothInOrder(a, b) /\ SamePoints(o, a) /\ a.fresh = o.fresh /\ b.fresh = r.fresh
  BY <1>1, <1>3, <1>4, <1>5, <1>6 DEF BothInOrder, SamePoints, Beside
<1>8. BothInOrder(Refreshed(a), Refreshed(b)) /\ SamePoints(a, Refreshed(a))
  BY <1>7, RefreshedPair
<1>9. Stands(g, Refreshed(a)) /\ Refreshed(a).here = z
  BY <1>1, <1>7, <1>8, StandsAlike DEF SamePoints
<1>10. Asking(g, Refreshed(a), Refreshed(b), t)
  BY <1>1, <1>2, <1>8, <1>9 DEF Asking
<1>11. QED BY <1>7, <1>10 DEF t

(* The store of states the constraint finds after what the objective made  *)
(* of it, and its own, both fit its pending update.                        *)
LEMMA PendingFits ==
  ASSUME Keyed, NEW u, InOrder(u), NEW r, Typed(r), NEW type \in Types, NEW z \in Val,
         InOrder(Update(r, type, z)), SamePoints(u, Update(r, type, z)), Announced(u, type, z),
         type = "Accept" => Promotable(u.state, z),
         NEW w, Typed(w), w.adjoint = r.adjoint, w.con = r.con, w.obj = r.obj,
         w.base = r.base, w.cand = r.cand, w.state = r.state \/ w.state = u.state
  PROVE  BothInOrder(u, Update(w, type, z))
<1> DEFINE v == Update(r, type, z)
<1>1. v.state = ObjectiveUpdate(r.state, type)
  BY UpdateFields DEF Typed, Types, UpdateType
<1>2. StateFits(v.state, v) /\ SamePoints(u, v)
  BY InOrderParts
<1>3. StateFits(ObjectiveUpdate(u.state, type), u)
  BY ToldAgain DEF Announced
<1> HIDE DEF v
<1>4. StateFits(ObjectiveUpdate(w.state, type), v)
  BY <1>1, <1>2, <1>3 DEF StateFits, SamePoints
<1>5. InOrder(Update(w, type, z)) /\ SamePoints(v, Update(w, type, z))
  BY <1>4, Retold DEF v
<1>6. QED BY <1>2, <1>5 DEF BothInOrder, SamePoints

(* The parts of a call.                                                    *)
LEMMA CallParts ==
  ASSUME NEW e, NEW m, NEW z, NEW w, e = <<m, z, w>>
  PROVE  e[1] = m /\ e[2] = z /\ e[3] = w
  OBVIOUS

(* The objective is asked before the constraint is told.                   *)
LEMMA TellingConFirst ==
  ASSUME Keyed, NEW g, NEW o, NEW r, Typed(r), NEW q \in Seq(Calls), q # <<>>,
         NEW type \in Types, NEW z \in Val, TellingCon(g, o, r, q, 2, type, z),
         NEW a, NEW b, NEW sh, Called(o, r, q[1], a, b, sh), Typed(b)
  PROVE  /\ a.fresh = o.fresh /\ b.fresh = r.fresh
         /\ TellingCon(g, Refreshed(a), Refreshed(b), Tail(q), 1, type, z)
<1> DEFINE t == Tail(q)
           v == Update(r, type, z)
           y == Refreshed(a)
           w == Refreshed(b)
<1>1. /\ InOrder(o) /\ InOrder(v) /\ SamePoints(o, v) /\ Stands(g, o)
      /\ Announced(o, type, z) /\ o.here = z /\ type = "Initial"
      /\ q[1] = <<"value", z, "">> /\ q[2] = <<"con.update", z, type>> /\ Len(q) >= 2
      /\ Asks(q, 2, z) /\ ObjComes(q, 2) /\ ConComes(q, 2)
      /\ g.pc # "start" /\ g.place # "repeated"
  BY DEF TellingCon, ComesLater, Announced, BothInOrder
<1>2. /\ Asks(t, 1, z) /\ ObjComes(t, 1) /\ ConComes(t, 1)
      /\ Len(t) >= 1 /\ t[1] = <<"con.update", z, type>>
  <2>1. /\ Asks(q, 1 + 1, z) => Asks(t, 1, z)
        /\ ObjComes(q, 1 + 1) => ObjComes(t, 1)
        /\ ConComes(q, 1 + 1) => ConComes(t, 1)
        /\ Len(t) = Len(q) - 1 /\ Len(q) \in Nat
        /\ \A i \in 1 .. Len(t) : t[i] = q[i + 1]
    BY Returned
  <2>2. /\ Asks(q, 2, z) /\ ObjComes(q, 2) /\ ConComes(q, 2)
        /\ Len(q) >= 2 /\ q[2] = <<"con.update", z, type>>
    BY <1>1
  <2> HIDE DEF t
  <2>3. Len(t) >= 1 /\ 1 \in 1 .. Len(t) /\ 1 + 1 = 2
    BY <2>1, <2>2
  <2>4. t[1] = q[2]
    BY <2>1, <2>3
  <2>5. QED BY <2>1, <2>2, <2>3, <2>4
<1>3. Answers(o, a, z) /\ b = Beside(r, a, sh)
  <2>1. q[1][1] = "value" /\ q[1][2] = z
    <3>1. PICK c : q[1] = <<"value", z, c>>
      BY <1>1
    <3>2. QED BY <3>1, CallParts
  <2>2. Does(o, a, q[1]) /\ b = Beside(r, a, sh)
    BY <2>1 DEF Called, ObjMethods
  <2>3. QED BY <2>1, <2>2 DEF Does
<1> HIDE DEF v, t
<1>4. InOrder(a) /\ SamePoints(o, a) /\ a.fresh = o.fresh
  BY <1>1, <1>3, AskedInOrder
<1>5. /\ r \in ReducedObjectives /\ a.state \in Controller /\ a \in ReducedObjectives
      /\ b \in ReducedObjectives
  BY <1>4, InOrderParts DEF Typed
<1>6. LET m == WithStore(r, a.state) IN
      /\ m.state = a.state /\ m.adjoint = r.adjoint /\ m.con = r.con /\ m.obj = r.obj
      /\ m.base = r.base /\ m.cand = r.cand /\ m.fresh = r.fresh
  BY <1>5, SetStore
<1>7. /\ b.adjoint = r.adjoint /\ b.con = r.con /\ b.obj = r.obj
      /\ b.base = r.base /\ b.cand = r.cand /\ b.fresh = r.fresh
      /\ b.state = r.state \/ b.state = a.state
  BY <1>3, <1>6 DEF Beside
<1>8. InOrder(y) /\ SamePoints(a, y) /\ y.state = a.state
  BY <1>4, <1>5, Refresh
<1>9. /\ Typed(w) /\ w.state = b.state /\ w.adjoint = b.adjoint /\ w.con = b.con /\ w.obj = b.obj
      /\ w.base = b.base /\ w.cand = b.cand
  BY <1>5, Refresh DEF SameButState
<1> HIDE DEF y, w
<1>10. SamePoints(y, v) /\ Announced(y, type, z)
  BY <1>1, <1>4, <1>8 DEF SamePoints, Announced
<1>11. BothInOrder(y, Update(w, type, z))
  BY <1>1, <1>7, <1>8, <1>9, <1>10, PendingFits DEF v
<1>12. Stands(g, y)
  BY <1>1, <1>4, <1>8, StandsAlike DEF SamePoints
<1>13. TellingCon(g, y, w, t, 1, type, z)
  BY <1>1, <1>2, <1>10, <1>11, <1>12 DEF TellingCon, ComesLater
<1>14. QED BY <1>4, <1>7, <1>13 DEF y, w, t

(* The objective is told of the update.                                    *)
LEMMA TellingBothStep ==
  ASSUME Keyed, NEW g, NEW o, Typed(o), NEW r, Typed(r), NEW q \in Seq(Calls), q # <<>>,
         NEW m \in {1, 2}, NEW type \in Types, NEW z \in Val, TellingBoth(g, o, r, q, m, type, z),
         NEW a, NEW b, NEW sh, Called(o, r, q[1], a, b, sh), Typed(b)
  PROVE  /\ a.fresh = o.fresh /\ b.fresh = r.fresh
         /\ TellingCon(g, Refreshed(a), Refreshed(b), Tail(q), m, type, z)
<1> DEFINE t == Tail(q)
           u == Update(o, type, z)
           v == Update(r, type, z)
           y == Refreshed(a)
           w == Refreshed(b)
<1>0. type \in UpdateType
  BY DEF Types, UpdateType
<1>1. /\ InOrder(u) /\ InOrder(v) /\ SamePoints(u, v) /\ Stands(g, u)
      /\ Announced(u, type, z) /\ (type = "Accept" => Promotable(o.state, z))
      /\ q[1] = <<"obj.update", z, type>> /\ q[m + 1] = <<"con.update", z, type>>
      /\ Len(q) >= m + 1 /\ (m = 2 => type = "Initial" /\ q[2] = <<"value", z, "">>)
      /\ Asks(q, m + 1, z) /\ ObjComes(q, m + 1) /\ ConComes(q, m + 1)
      /\ g.pc # "start" /\ g.place # "repeated"
  BY DEF TellingBoth, ComesLater, BothInOrder
<1>2. /\ Asks(t, m, z) /\ ObjComes(t, m) /\ ConComes(t, m)
      /\ Len(t) >= m /\ t[m] = <<"con.update", z, type>>
      /\ m = 2 => t[1] = <<"value", z, "">>
  <2>0. m \in Nat /\ m >= 1
    OBVIOUS
  <2>1. /\ Asks(q, m + 1, z) => Asks(t, m, z)
        /\ ObjComes(q, m + 1) => ObjComes(t, m)
        /\ ConComes(q, m + 1) => ConComes(t, m)
        /\ Len(t) = Len(q) - 1 /\ Len(q) \in Nat
        /\ \A i \in 1 .. Len(t) : t[i] = q[i + 1]
    BY <2>0, Returned
  <2>2. /\ Asks(q, m + 1, z) /\ ObjComes(q, m + 1) /\ ConComes(q, m + 1)
        /\ Len(q) >= m + 1 /\ q[m + 1] = <<"con.update", z, type>>
        /\ m = 2 => q[2] = <<"value", z, "">>
    BY <1>1
  <2> HIDE DEF t
  <2>3. Len(t) >= m /\ m \in 1 .. Len(t) /\ 1 \in 1 .. Len(t) /\ 1 + 1 = 2
    <3>1. Len(t) = Len(q) - 1 /\ Len(q) \in Nat /\ Len(q) >= m + 1
      BY <2>1, <2>2
    <3>2. QED BY <2>0, <3>1
  <2>4. t[m] = q[m + 1] /\ t[1] = q[2]
    BY <2>1, <2>3
  <2>5. QED BY <2>1, <2>2, <2>3, <2>4
<1>3. a = u /\ b = Beside(r, a, sh)
  <2>1. q[1][1] = "obj.update" /\ q[1][2] = z /\ q[1][3] = type
    <3>1. q[1] = <<"obj.update", z, type>>
      BY <1>1
    <3>2. QED BY <3>1, CallParts
  <2>2. Does(o, a, q[1]) /\ b = Beside(r, a, sh)
    BY <2>1 DEF Called
  <2>3. QED BY <2>1, <2>2 DEF Does
<1>4. u.fresh = o.fresh /\ u.state = ObjectiveUpdate(o.state, type)
  BY <1>0, UpdateFields DEF Typed
<1>5. type = "Accept" => Promotable(u.state, z)
  <2>1. o.state \in Controller /\ ~o.state.conUpdated
    BY DEF Typed, ReducedObjectives
  <2>2. type # "Trial" =>
          ObjectiveUpdate(o.state, type).tier["trial"] = o.state.tier["trial"]
    BY <1>0, <2>1, UpdateTiers
  <2>3. QED BY <1>1, <1>4, <2>2 DEF Promotable
<1> HIDE DEF u, v, t
<1>6. /\ r \in ReducedObjectives /\ a.state \in Controller /\ a \in ReducedObjectives
      /\ b \in ReducedObjectives
  BY <1>1, <1>3, InOrderParts DEF Typed
<1>7. LET n == WithStore(r, a.state) IN
      /\ n.state = a.state /\ n.adjoint = r.adjoint /\ n.con = r.con /\ n.obj = r.obj
      /\ n.base = r.base /\ n.cand = r.cand /\ n.fresh = r.fresh
  BY <1>6, SetStore
<1>8. /\ b.adjoint = r.adjoint /\ b.con = r.con /\ b.obj = r.obj
      /\ b.base = r.base /\ b.cand = r.cand /\ b.fresh = r.fresh
      /\ b.state = r.state \/ b.state = a.state
  BY <1>3, <1>7 DEF Beside
<1>9. InOrder(y) /\ SamePoints(a, y) /\ y.state = a.state
  BY <1>1, <1>3, <1>6, Refresh
<1>10. /\ Typed(w) /\ w.state = b.state /\ w.adjoint = b.adjoint /\ w.con = b.con /\ w.obj = b.obj
       /\ w.base = b.base /\ w.cand = b.cand
  BY <1>6, Refresh DEF SameButState
<1> HIDE DEF y, w
<1>11. SamePoints(y, v) /\ Announced(y, type, z)
  BY <1>1, <1>3, <1>9 DEF SamePoints, Announced
<1>12. BothInOrder(y, Update(w, type, z))
  <2>1. InOrder(y) /\ InOrder(Update(r, type, z)) /\ SamePoints(y, Update(r, type, z))
    BY <1>1, <1>9, <1>11 DEF v
  <2>2. type = "Accept" => Promotable(y.state, z)
    BY <1>3, <1>5, <1>9
  <2>3. /\ Typed(w) /\ w.adjoint = r.adjoint /\ w.con = r.con /\ w.obj = r.obj
        /\ w.base = r.base /\ w.cand = r.cand /\ (w.state = r.state \/ w.state = y.state)
    BY <1>8, <1>9, <1>10
  <2>4. QED BY <1>11, <2>1, <2>2, <2>3, PendingFits
<1>13. Stands(g, y)
  BY <1>1, <1>3, <1>9, StandsAlike
<1>14. TellingCon(g, y, w, t, m, type, z)
  BY <1>1, <1>2, <1>3, <1>5, <1>9, <1>11, <1>12, <1>13 DEF TellingCon, ComesLater
<1>15. QED BY <1>3, <1>4, <1>8, <1>14 DEF y, w, t

(* Whatever call is next, the answer is right unless the projection is     *)
(* repeated, and what is still to come is safe as before.                  *)
LEMMA SafeStep ==
  ASSUME Keyed, NEW g, InnerStores \/ g.place # "repeated",
         NEW o, Typed(o), NEW r, Typed(r),
         NEW q \in Seq(Calls), q # <<>>, Safe(g, o, r, q),
         NEW a, NEW b, NEW sh, Called(o, r, q[1], a, b, sh), Typed(b)
  PROVE  /\ g.place # "repeated" => a.fresh = o.fresh /\ b.fresh = r.fresh
         /\ Safe(g, Refreshed(a), Refreshed(b), Tail(q))
<1>1. CASE Asking(g, o, r, q)
  <2>1. /\ g.place # "repeated" => a.fresh = o.fresh /\ b.fresh = r.fresh
        /\ Asking(g, Refreshed(a), Refreshed(b), Tail(q))
    BY <1>1, AskingStep
  <2>2. QED BY <2>1 DEF Safe
<1>2. ASSUME NEW m \in {1, 2}, NEW type \in Types, NEW z \in Val, TellingCon(g, o, r, q, m, type, z)
      PROVE  /\ a.fresh = o.fresh /\ b.fresh = r.fresh
             /\ Safe(g, Refreshed(a), Refreshed(b), Tail(q))
  <2>1. CASE m = 1
    <3>1. TellingCon(g, o, r, q, 1, type, z)
      BY <1>2, <2>1
    <3>2. a.fresh = o.fresh /\ b.fresh = r.fresh
          /\ Asking(g, Refreshed(a), Refreshed(b), Tail(q))
      BY <3>1, TellingConLast
    <3>3. QED BY <3>2 DEF Safe
  <2>2. CASE m = 2
    <3>1. TellingCon(g, o, r, q, 2, type, z)
      BY <1>2, <2>2
    <3>2. a.fresh = o.fresh /\ b.fresh = r.fresh
          /\ TellingCon(g, Refreshed(a), Refreshed(b), Tail(q), 1, type, z)
      BY <3>1, TellingConFirst
    <3>3. QED BY <3>2 DEF Safe
  <2>3. QED BY <2>1, <2>2
<1>3. ASSUME NEW m \in {1, 2}, NEW type \in Types, NEW z \in Val, TellingBoth(g, o, r, q, m, type, z)
      PROVE  /\ a.fresh = o.fresh /\ b.fresh = r.fresh
             /\ Safe(g, Refreshed(a), Refreshed(b), Tail(q))
  <2>1. /\ Typed(o) /\ Typed(r) /\ Typed(b) /\ q \in Seq(Calls) /\ q # <<>>
        /\ m \in {1, 2} /\ type \in Types /\ z \in Val
        /\ TellingBoth(g, o, r, q, m, type, z) /\ Called(o, r, q[1], a, b, sh)
    BY <1>3
  <2>2. /\ a.fresh = o.fresh /\ b.fresh = r.fresh
        /\ TellingCon(g, Refreshed(a), Refreshed(b), Tail(q), m, type, z)
    BY ONLY Keyed, <2>1, TellingBothStep
  <2>3. QED BY <2>2 DEF Safe
<1>4. QED BY <1>1, <1>2, <1>3 DEF Safe

-----------------------------------------------------------------------------
(* The same argument for an inner problem without stores: what is said of  *)
(* the pair then holds of two functions that are outwardly the same.       *)

Alike(a, b) == IF InnerStores THEN b = a ELSE Outside(a, b)

(* What they have in common.                                               *)
LEMMA AlikeParts ==
  ASSUME NEW a, Typed(a), NEW b, Alike(a, b)
  PROVE  Typed(b) /\ b.fresh = a.fresh /\ b.cand = a.cand
  BY DEF Alike, Outside

(* One of them is told or asked.                                           *)
LEMMA OutsideDoes ==
  ASSUME Keyed, ~InnerStores, NEW a, Typed(a), NEW b, Outside(a, b),
         NEW e \in Calls, NEW v, Does(a, v, e)
  PROVE  \E w : Does(b, w, e) /\ Outside(v, w)
<1>1. e[2] \in Val
  BY CallKinds
<1>2. CASE e[1] \in {"obj.update", "con.update"}
  <2>1. e[3] \in UpdateType
    BY <1>2, CallKinds DEF ObjMethods, ConMethods, Types, UpdateType
  <2>2. v = Update(a, e[3], e[2])
    BY <1>2 DEF Does
  <2>3. Outside(v, Update(b, e[3], e[2]))
    BY <1>1, <2>1, <2>2, OutsideUpdate
  <2>4. Does(b, Update(b, e[3], e[2]), e)
    BY <1>2 DEF Does
  <2>5. QED BY <2>3, <2>4
<1>3. CASE e[1] \notin {"obj.update", "con.update"}
  <2> DEFINE z == e[2]
  <2>1. /\ Answers(a, v, z)
        /\ RenewsObj(e) \/ RenewsCon(e) => v = Gradient(a, K, z)
    BY <1>3 DEF Does
  <2>2. /\ Outside(Value(a, K, z), Value(b, K, z))
        /\ Outside(Gradient(a, K, z), Gradient(b, K, z))
        /\ Outside(Jacobian(a, z), Jacobian(b, z))
    BY <1>1, OutsideValue, OutsideGradient, OutsideJacobian
  <2>3. Answers(b, Value(b, K, z), z) /\ Answers(b, Gradient(b, K, z), z)
        /\ Answers(b, Jacobian(b, z), z)
    BY DEF Answers
  <2> HIDE DEF z
  <2>4. \E w : /\ Answers(b, w, z) /\ Outside(v, w)
               /\ RenewsObj(e) \/ RenewsCon(e) => w = Gradient(b, K, z)
    <3>1. CASE v = Gradient(a, K, z)
      BY <2>2, <2>3, <3>1
    <3>2. CASE v # Gradient(a, K, z)
      BY <2>1, <2>2, <2>3, <3>2 DEF Answers
    <3>3. QED BY <3>1, <3>2
  <2>5. QED BY <1>3, <2>4 DEF Does, z
<1>4. QED BY <1>2, <1>3

(* The other may share its store.                                          *)
LEMMA OutsideBeside ==
  ASSUME NEW f, Typed(f), NEW y, Outside(f, y), NEW g, Typed(g), NEW w, Outside(g, w), NEW sh
  PROVE  Outside(Beside(f, g, sh), Beside(y, w, sh))
<1>1. /\ f \in ReducedObjectives /\ y \in ReducedObjectives /\ g.state \in Controller
      /\ w.state = g.state /\ ~g.state.conUpdated /\ Typed(y)
  BY DEF Typed, Outside, ReducedObjectives
<1> DEFINE a == WithStore(f, g.state)
           b == WithStore(y, g.state)
<1>2. /\ a.state = g.state /\ a.adjoint = f.adjoint
      /\ a.isUpdated = f.isUpdated /\ a.newUpdate = f.newUpdate
      /\ a.updateType = f.updateType /\ a.updateFlag = f.updateFlag
      /\ a.here = f.here /\ a.base = f.base /\ a.cand = f.cand /\ a.fresh = f.fresh
  BY <1>1, SetStore
<1>3. /\ b \in ReducedObjectives
      /\ b.state = g.state /\ b.adjoint = y.adjoint /\ b.con = y.con /\ b.obj = y.obj
      /\ b.isUpdated = y.isUpdated /\ b.newUpdate = y.newUpdate
      /\ b.updateType = y.updateType /\ b.updateFlag = y.updateFlag
      /\ b.here = y.here /\ b.base = y.base /\ b.cand = y.cand /\ b.fresh = y.fresh
  BY <1>1, SetStore
<1> HIDE DEF a, b
<1>4. Typed(b)
  BY <1>1, <1>3 DEF Typed
<1>5. Outside(a, b)
  BY <1>2, <1>3, <1>4 DEF Outside
<1>6. QED BY <1>1, <1>5 DEF Beside, a, b

(* An answer is noted.                                                     *)
LEMMA OutsideRefreshed ==
  ASSUME NEW a, Typed(a), NEW b, Outside(a, b)
  PROVE  Outside(Refreshed(a), Refreshed(b))
<1>1. a \in ReducedObjectives /\ b \in ReducedObjectives /\ Typed(b)
  BY DEF Typed, Outside
<1> DEFINE v == Refreshed(a)
           w == Refreshed(b)
<1>2. /\ v \in ReducedObjectives /\ v.fresh
      /\ v.state = a.state /\ v.adjoint = a.adjoint
      /\ v.isUpdated = a.isUpdated /\ v.newUpdate = a.newUpdate
      /\ v.updateType = a.updateType /\ v.updateFlag = a.updateFlag
      /\ v.here = a.here /\ v.base = a.base /\ v.cand = a.cand
  BY <1>1, SetFresh
<1>3. /\ w \in ReducedObjectives /\ w.fresh
      /\ w.state = b.state /\ w.adjoint = b.adjoint
      /\ w.isUpdated = b.isUpdated /\ w.newUpdate = b.newUpdate
      /\ w.updateType = b.updateType /\ w.updateFlag = b.updateFlag
      /\ w.here = b.here /\ w.base = b.base /\ w.cand = b.cand
  BY <1>1, SetFresh
<1>4. Typed(w)
  BY <1>1, Refresh
<1> HIDE DEF v, w
<1>5. v.fresh = w.fresh
  BY <1>2, <1>3 DEF ReducedObjectives
<1>6. Outside(v, w)
  BY <1>2, <1>3, <1>4, <1>5 DEF Outside
<1>7. QED BY <1>6 DEF v, w

(* A call on a pair is one on a pair like it.                              *)
LEMMA OutsideCalled ==
  ASSUME Keyed, ~InnerStores, NEW o, Typed(o), NEW r, Typed(r),
         NEW y, Outside(o, y), NEW w, Outside(r, w),
         NEW e \in Calls, NEW a, Typed(a), NEW b, Typed(b), NEW sh, Called(o, r, e, a, b, sh)
  PROVE  \E c, d : Called(y, w, e, c, d, sh) /\ Outside(a, c) /\ Outside(b, d)
<1>1. CASE e[1] \in ObjMethods \cup {"obj.update"}
  <2>1. Does(o, a, e) /\ b = Beside(r, a, sh)
    BY <1>1 DEF Called
  <2>2. PICK c : Does(y, c, e) /\ Outside(a, c)
    BY <2>1, OutsideDoes
  <2>3. Outside(b, Beside(w, c, sh))
    BY <2>1, <2>2, OutsideBeside
  <2>4. Called(y, w, e, c, Beside(w, c, sh), sh)
    BY <1>1, <2>2 DEF Called
  <2>5. QED BY <2>2, <2>3, <2>4
<1>2. CASE e[1] \notin ObjMethods \cup {"obj.update"}
  <2>1. Does(r, b, e) /\ a = Beside(o, b, sh)
    BY <1>2 DEF Called
  <2>2. PICK d : Does(w, d, e) /\ Outside(b, d)
    BY <2>1, OutsideDoes
  <2>3. Outside(a, Beside(y, d, sh))
    BY <2>1, <2>2, OutsideBeside
  <2>4. Called(y, w, e, Beside(y, d, sh), d, sh)
    BY <1>2, <2>2 DEF Called
  <2>5. QED BY <2>2, <2>3, <2>4
<1>3. QED BY <1>1, <1>2

(* A pair like one of which all is known may be asked anywhere.            *)
LEMMA FullCalled ==
  ASSUME Keyed, ~InnerStores, NEW o, Typed(o), NEW r, Typed(r),
         NEW y, Outside(o, y), NEW w, Outside(r, w), BothInOrder(y, w), Full(y), Full(w),
         NEW e \in Calls, NEW z, Query(e, z),
         NEW a, Typed(a), NEW b, Typed(b), NEW sh, Called(o, r, e, a, b, sh)
  PROVE  \E c, d : /\ Outside(a, c) /\ Outside(b, d)
                   /\ BothInOrder(c, d) /\ SamePoints(y, c) /\ Full(c) /\ Full(d)
<1>1. z \in Val /\ e[2] = z /\ e[1] \in ObjMethods \cup ConMethods
  BY CallKinds DEF Query
<1>2. e[1] \notin {"obj.update", "con.update"}
  BY <1>1 DEF ObjMethods, ConMethods
<1>3. InOrder(y) /\ InOrder(w) /\ SamePoints(y, w)
  BY DEF BothInOrder
<1>4. CASE e[1] \in ObjMethods
  <2>1. Answers(o, a, z) /\ b = Beside(r, a, sh)
    BY <1>1, <1>2, <1>4 DEF Called, Does, ObjMethods
  <2>2. PICK c : Outside(a, c) /\ InOrder(c) /\ Full(c) /\ SamePoints(y, c)
    BY <1>1, <1>3, <2>1, FullUnread
  <2> DEFINE d == Beside(w, c, sh)
  <2>3. Outside(b, d)
    BY <2>1, <2>2, OutsideBeside
  <2>4. SamePoints(c, w) /\ (Storage => IsComputed(c.state, K))
    BY <1>3, <2>2 DEF SamePoints, Full
  <2>5. LET s == WithStore(w, c.state) IN InOrder(s) /\ SamePoints(w, s) /\ Full(s)
    BY <1>3, <2>2, <2>4, Exchange
  <2>6. InOrder(d) /\ SamePoints(w, d) /\ Full(d)
    BY <1>3, <2>5 DEF Beside, SamePoints
  <2> HIDE DEF d
  <2>7. BothInOrder(c, d)
    BY <2>2, <2>4, <2>6 DEF BothInOrder, SamePoints
  <2>8. QED BY <2>2, <2>3, <2>6, <2>7
<1>5. CASE e[1] \in ConMethods
  <2>1. Answers(r, b, z) /\ a = Beside(o, b, sh)
    BY <1>1, <1>2, <1>5 DEF Called, Does, ObjMethods, ConMethods
  <2>2. PICK d : Outside(b, d) /\ InOrder(d) /\ Full(d) /\ SamePoints(w, d)
    BY <1>1, <1>3, <2>1, FullUnread
  <2> DEFINE c == Beside(y, d, sh)
  <2>3. Outside(a, c)
    BY <2>1, <2>2, OutsideBeside
  <2>4. SamePoints(d, y) /\ (Storage => IsComputed(d.state, K))
    BY <1>3, <2>2 DEF SamePoints, Full
  <2>5. LET s == WithStore(y, d.state) IN InOrder(s) /\ SamePoints(y, s) /\ Full(s)
    BY <1>3, <2>2, <2>4, Exchange
  <2>6. InOrder(c) /\ SamePoints(y, c) /\ Full(c)
    BY <1>3, <2>5 DEF Beside, SamePoints
  <2> HIDE DEF c
  <2>7. BothInOrder(c, d)
    BY <2>2, <2>4, <2>6 DEF BothInOrder, SamePoints
  <2>8. QED BY <2>2, <2>3, <2>6, <2>7
<1>6. QED BY <1>1, <1>4, <1>5

(* In a repeated projection nobody is told anything.                       *)
LEMMA RepeatedAsks ==
  ASSUME NEW g, NEW o, NEW r, NEW q, Safe(g, o, r, q), g.place = "repeated"
  PROVE  Asking(g, o, r, q)
  BY DEF Safe, TellingCon, TellingBoth, ComesLater

(* Whatever call is next on a pair like one that is safe, the answer is    *)
(* right unless the projection is repeated, and what it leads to is again  *)
(* like a pair for which what is still to come is safe.                    *)
LEMMA AlikeStep ==
  ASSUME Keyed, NEW g, NEW o, Typed(o), NEW r, Typed(r),
         NEW y, Alike(o, y), NEW w, Alike(r, w),
         NEW q \in Seq(Calls), q # <<>>, Safe(g, y, w, q),
         NEW a, Typed(a), NEW b, Typed(b), NEW sh, Called(o, r, q[1], a, b, sh)
  PROVE  /\ g.place # "repeated" => a.fresh = o.fresh /\ b.fresh = r.fresh
         /\ \E c, d : /\ Alike(Refreshed(a), c) /\ Alike(Refreshed(b), d)
                      /\ Safe(g, c, d, Tail(q))
<1> DEFINE e == q[1]
           t == Tail(q)
<1>1. Called(o, r, e, a, b, sh) /\ e \in Calls
  BY Returned
<1>2. Typed(y) /\ Typed(w) /\ y.fresh = o.fresh /\ w.fresh = r.fresh
  BY AlikeParts
<1>3. CASE InnerStores
  <2>1. y = o /\ w = r
    BY <1>3 DEF Alike
  <2>2. /\ g.place # "repeated" => a.fresh = o.fresh /\ b.fresh = r.fresh
        /\ Safe(g, Refreshed(a), Refreshed(b), t)
    BY <1>3, <2>1, SafeStep
  <2>3. Alike(Refreshed(a), Refreshed(a)) /\ Alike(Refreshed(b), Refreshed(b))
    BY <1>3 DEF Alike
  <2>4. QED BY <2>2, <2>3
<1>4. CASE ~InnerStores /\ g.place # "repeated"
  <2>1. Outside(o, y) /\ Outside(r, w)
    BY <1>4 DEF Alike
  <2>2. PICK c, d : Called(y, w, e, c, d, sh) /\ Outside(a, c) /\ Outside(b, d)
    BY <1>1, <1>4, <2>1, OutsideCalled
  <2>3. Typed(d) /\ Typed(c) /\ c.fresh = a.fresh /\ d.fresh = b.fresh
    BY <2>2 DEF Outside
  <2>4. /\ c.fresh = y.fresh /\ d.fresh = w.fresh
        /\ Safe(g, Refreshed(c), Refreshed(d), t)
    <3>1. Called(y, w, q[1], c, d, sh)
      BY <2>2
    <3>2. /\ g.place # "repeated" => c.fresh = y.fresh /\ d.fresh = w.fresh
          /\ Safe(g, Refreshed(c), Refreshed(d), Tail(q))
      BY <1>2, <1>4, <2>3, <3>1, SafeStep
    <3>3. QED BY <1>4, <3>2
  <2>5. Outside(Refreshed(a), Refreshed(c)) /\ Outside(Refreshed(b), Refreshed(d))
    BY <2>2, OutsideRefreshed
  <2>6. Alike(Refreshed(a), Refreshed(c)) /\ Alike(Refreshed(b), Refreshed(d))
    BY <1>4, <2>5 DEF Alike
  <2>7. a.fresh = o.fresh /\ b.fresh = r.fresh
    BY <1>2, <2>3, <2>4
  <2>8. QED BY <2>4, <2>6, <2>7
<1>5. CASE ~InnerStores /\ g.place = "repeated"
  <2>1. Outside(o, y) /\ Outside(r, w)
    BY <1>5 DEF Alike
  <2>2. /\ BothInOrder(y, w) /\ Stands(g, y) /\ g.pc # "start" /\ Asks(q, 0, g.x)
        /\ Full(y) /\ Full(w)
    BY <1>5, RepeatedAsks DEF Asking
  <2>3. Query(e, g.x) /\ Asks(t, 0, g.x)
    BY <2>2, Returned
  <2> HIDE DEF e, t
  <2>4. PICK c, d : /\ Outside(a, c) /\ Outside(b, d)
                    /\ BothInOrder(c, d) /\ SamePoints(y, c) /\ Full(c) /\ Full(d)
    BY <1>1, <1>5, <2>1, <2>2, <2>3, FullCalled
  <2> DEFINE m == Refreshed(c)
             n == Refreshed(d)
  <2>5. BothInOrder(m, n) /\ SamePoints(c, m) /\ Full(m) /\ Full(n)
    BY <2>4, RefreshedPair
  <2>6. Outside(Refreshed(a), m) /\ Outside(Refreshed(b), n)
    BY <2>4, OutsideRefreshed
  <2> HIDE DEF m, n
  <2>7. Stands(g, m)
    BY <2>2, <2>4, <2>5, StandsAlike
  <2>8. Asking(g, m, n, t)
    BY <1>5, <2>2, <2>3, <2>5, <2>7 DEF Asking
  <2>9. Alike(Refreshed(a), m) /\ Alike(Refreshed(b), n)
    BY <1>5, <2>6 DEF Alike
  <2>10. Safe(g, m, n, t)
    BY <2>8 DEF Safe
  <2>11. QED BY <1>5, <2>9, <2>10 DEF t
<1>6. QED BY <1>3, <1>4, <1>5

-----------------------------------------------------------------------------
(* The lists of calls the steps make.                                      *)

(* One list after another.                                                 *)
LEMMA Joined ==
  ASSUME NEW p \in Seq(Calls), NEW s \in Seq(Calls), NEW z, NEW m \in Nat, m <= Len(p),
         Asks(p, m, z), Asks(s, 0, z)
  PROVE  /\ p \o s \in Seq(Calls) /\ Len(p \o s) >= Len(p)
         /\ \A i \in 1 .. Len(p) : (p \o s)[i] = p[i]
         /\ Asks(p \o s, m, z)
         /\ ObjComes(p, m) \/ ObjComes(s, 0) => ObjComes(p \o s, m)
         /\ ConComes(p, m) \/ ConComes(s, 0) => ConComes(p \o s, m)
<1> DEFINE q == p \o s
           n == Len(p)
           k == Len(s)
<1>1. n \in Nat /\ k \in Nat /\ m <= n
  BY LenProperties
<1>2. /\ q \in Seq(Calls) /\ Len(q) = n + k
      /\ \A i \in 1 .. n + k : q[i] = IF i <= n THEN p[i] ELSE s[i - n]
  BY ConcatProperties
<1>3. /\ \A i \in m + 1 .. n : Query(p[i], z)
      /\ \A i \in 1 .. k : Query(s[i], z)
  BY DEF Asks
<1>4. /\ ObjComes(p, m) <=> \E i \in m + 1 .. n : RenewsObj(p[i])
      /\ ObjComes(s, 0) <=> \E i \in 1 .. k : RenewsObj(s[i])
      /\ ObjComes(q, m) <=> \E i \in m + 1 .. n + k : RenewsObj(q[i])
      /\ ConComes(p, m) <=> \E i \in m + 1 .. n : RenewsCon(p[i])
      /\ ConComes(s, 0) <=> \E i \in 1 .. k : RenewsCon(s[i])
      /\ ConComes(q, m) <=> \E i \in m + 1 .. n + k : RenewsCon(q[i])
      /\ Asks(q, m, z) <=> \A i \in m + 1 .. n + k : Query(q[i], z)
  BY <1>2 DEF ObjComes, ConComes, Asks
<1> HIDE DEF q, n, k
<1>5. \A i \in 1 .. n : i \in 1 .. n + k /\ q[i] = p[i]
  BY <1>1, <1>2
<1>6. \A i \in 1 .. k : n + i \in m + 1 .. n + k /\ q[n + i] = s[i]
  <2>1. SUFFICES ASSUME NEW i \in 1 .. k
                 PROVE  n + i \in m + 1 .. n + k /\ q[n + i] = s[i]
    OBVIOUS
  <2>2. n + i \in m + 1 .. n + k /\ n + i \in 1 .. n + k /\ ~(n + i <= n) /\ (n + i) - n = i
    BY <1>1
  <2>3. QED BY <1>2, <2>2
<1>7. \A i \in m + 1 .. n : i \in 1 .. n /\ i \in m + 1 .. n + k
  BY <1>1
<1>8. Asks(q, m, z)
  <2>1. SUFFICES ASSUME NEW i \in m + 1 .. n + k
                 PROVE  Query(q[i], z)
    BY <1>4
  <2>2. CASE i <= n
    <3>1. i \in m + 1 .. n
      BY <1>1, <2>2
    <3>2. QED BY <1>3, <1>5, <1>7, <3>1
  <2>3. CASE ~(i <= n)
    <3>1. i - n \in 1 .. k /\ n + (i - n) = i
      BY <1>1, <2>3
    <3>2. q[i] = s[i - n]
      BY <1>6, <3>1
    <3>3. QED BY <1>3, <3>1, <3>2
  <2>4. QED BY <2>2, <2>3
<1>9. ObjComes(p, m) \/ ObjComes(s, 0) => ObjComes(q, m)
  <2>1. ASSUME NEW i \in m + 1 .. n, RenewsObj(p[i]) PROVE ObjComes(q, m)
    <3>1. i \in m + 1 .. n + k /\ q[i] = p[i]
      BY <1>5, <1>7
    <3>2. QED BY <1>4, <2>1, <3>1
  <2>2. ASSUME NEW i \in 1 .. k, RenewsObj(s[i]) PROVE ObjComes(q, m)
    <3>1. n + i \in m + 1 .. n + k /\ q[n + i] = s[i]
      BY <1>6
    <3>2. QED BY <1>4, <2>2, <3>1
  <2>3. QED BY <1>4, <2>1, <2>2
<1>10. ConComes(p, m) \/ ConComes(s, 0) => ConComes(q, m)
  <2>1. ASSUME NEW i \in m + 1 .. n, RenewsCon(p[i]) PROVE ConComes(q, m)
    <3>1. i \in m + 1 .. n + k /\ q[i] = p[i]
      BY <1>5, <1>7
    <3>2. QED BY <1>4, <2>1, <3>1
  <2>2. ASSUME NEW i \in 1 .. k, RenewsCon(s[i]) PROVE ConComes(q, m)
    <3>1. n + i \in m + 1 .. n + k /\ q[n + i] = s[i]
      BY <1>6
    <3>2. QED BY <1>4, <2>2, <3>1
  <2>3. QED BY <1>4, <2>1, <2>2
<1>11. Len(q) >= n
  BY <1>1, <1>2
<1>12. q \in Seq(Calls) /\ \A i \in 1 .. n : q[i] = p[i]
  BY <1>2, <1>5
<1>13. QED BY <1>8, <1>9, <1>10, <1>11, <1>12 DEF q, n

(* A list of calls that ask at z; one that renews both functions there.    *)
Asked(q, z)   == q \in Seq(Calls) /\ Asks(q, 0, z)
Renewed(q, z) == Asked(q, z) /\ ObjComes(q, 0) /\ ConComes(q, 0)

(* Lists that ask, one after another.                                      *)
LEMMA AskedJoined ==
  ASSUME NEW z, NEW p, Asked(p, z), NEW s, Asked(s, z)
  PROVE  /\ Asked(p \o s, z)
         /\ ObjComes(p, 0) \/ ObjComes(s, 0) => ObjComes(p \o s, 0)
         /\ ConComes(p, 0) \/ ConComes(s, 0) => ConComes(p \o s, 0)
<1>1. p \in Seq(Calls) /\ s \in Seq(Calls) /\ Asks(p, 0, z) /\ Asks(s, 0, z) /\ 0 \in Nat /\ 0 <= Len(p)
  BY LenProperties DEF Asked
<1>2. QED BY <1>1, Joined DEF Asked

(* A list of one call, and of two, and of three.                           *)
LEMMA ShortLists ==
  ASSUME NEW z \in Val,
         NEW i \in ObjMethods \cup ConMethods, NEW j \in ObjMethods \cup ConMethods,
         NEW k \in ObjMethods \cup ConMethods,
         NEW u \in Multipliers, NEW v \in Multipliers, NEW w \in Multipliers
  PROVE  /\ Asked(<<<<i, z, u>>>>, z)
         /\ Asked(<<<<i, z, u>>, <<j, z, v>>>>, z)
         /\ Asked(<<<<i, z, u>>, <<j, z, v>>, <<k, z, w>>>>, z)
         /\ i \in {"adjoint", "con.hessian"} => ConComes(<<<<i, z, u>>>>, 0)
         /\ j \in {"adjoint", "con.hessian"} => ConComes(<<<<i, z, u>>, <<j, z, v>>>>, 0)
         /\ i \in {"gradient", "hessVec"} => ObjComes(<<<<i, z, u>>, <<j, z, v>>>>, 0)
         /\ j \in {"gradient", "hessVec"} => ObjComes(<<<<i, z, u>>, <<j, z, v>>>>, 0)
         /\ j \in {"gradient", "hessVec"} =>
              ObjComes(<<<<i, z, u>>, <<j, z, v>>, <<k, z, w>>>>, 0)
<1> DEFINE a == <<i, z, u>>
           b == <<j, z, v>>
           c == <<k, z, w>>
<1>1. /\ a \in Calls /\ b \in Calls /\ c \in Calls
      /\ Query(a, z) /\ Query(b, z) /\ Query(c, z)
  BY QueryCall
<1>2. a[1] = i /\ b[1] = j /\ c[1] = k
  OBVIOUS
<1>3. /\ i \in {"adjoint", "con.hessian"} => RenewsCon(a)
      /\ j \in {"adjoint", "con.hessian"} => RenewsCon(b)
      /\ i \in {"gradient", "hessVec"} => RenewsObj(a)
      /\ j \in {"gradient", "hessVec"} => RenewsObj(b)
  BY <1>2 DEF RenewsCon, RenewsObj
<1> HIDE DEF a, b, c
<1>4. /\ <<a>> \in Seq(Calls) /\ Len(<<a>>) = 1 /\ <<a>>[1] = a
      /\ <<a, b>> \in Seq(Calls) /\ Len(<<a, b>>) = 2 /\ <<a, b>>[1] = a /\ <<a, b>>[2] = b
      /\ <<a, b, c>> \in Seq(Calls) /\ Len(<<a, b, c>>) = 3
      /\ <<a, b, c>>[1] = a /\ <<a, b, c>>[2] = b /\ <<a, b, c>>[3] = c
  BY <1>1
<1> DEFINE p == <<a>>
           q == <<a, b>>
           s == <<a, b, c>>
<1>5. /\ p \in Seq(Calls) /\ Len(p) = 1 /\ p[1] = a
      /\ q \in Seq(Calls) /\ Len(q) = 2 /\ q[1] = a /\ q[2] = b
      /\ s \in Seq(Calls) /\ Len(s) = 3 /\ s[1] = a /\ s[2] = b /\ s[3] = c
  BY <1>4
<1> HIDE DEF p, q, s
<1>6. Asked(p, z) /\ Asked(q, z) /\ Asked(s, z)
  <2>1. Asks(p, 0, z)
    <3>1. \A n \in 0 + 1 .. 1 : n = 1
      OBVIOUS
    <3>2. QED BY <1>1, <1>5, <3>1 DEF Asks
  <2>2. Asks(q, 0, z)
    <3>1. \A n \in 0 + 1 .. 2 : n = 1 \/ n = 2
      OBVIOUS
    <3>2. QED BY <1>1, <1>5, <3>1 DEF Asks
  <2>3. Asks(s, 0, z)
    <3>1. \A n \in 0 + 1 .. 3 : n = 1 \/ n = 2 \/ n = 3
      OBVIOUS
    <3>2. QED BY <1>1, <1>5, <3>1 DEF Asks
  <2>4. QED BY <1>5, <2>1, <2>2, <2>3 DEF Asked
<1>7. 1 \in 0 + 1 .. 1 /\ 1 \in 0 + 1 .. 2 /\ 2 \in 0 + 1 .. 2 /\ 2 \in 0 + 1 .. 3
  OBVIOUS
<1>8. /\ i \in {"adjoint", "con.hessian"} => ConComes(p, 0)
      /\ j \in {"adjoint", "con.hessian"} => ConComes(q, 0)
      /\ i \in {"gradient", "hessVec"} => ObjComes(q, 0)
      /\ j \in {"gradient", "hessVec"} => ObjComes(q, 0)
      /\ j \in {"gradient", "hessVec"} => ObjComes(s, 0)
  BY <1>3, <1>5, <1>7 DEF ConComes, ObjComes
<1>9. QED BY <1>6, <1>8 DEF p, q, s, a, b, c

(* The lists of the steps ask at the point they are for.                   *)
LEMMA StepLists ==
  ASSUME NEW z \in Val
  PROVE  /\ Asked(Evaluate(z), z) /\ ObjComes(Evaluate(z), 0)
         /\ Asked(AugmentedSystem(z), z) /\ ConComes(AugmentedSystem(z), 0)
         /\ Asked(Multiplier(z), z) /\ ConComes(Multiplier(z), 0)
         /\ Asked(QuasiNormal(z), z) /\ Asked(Tangential(z), z)
         /\ Renewed(QuasiNormal(z) \o Tangential(z), z)
         /\ Renewed(Evaluate(z) \o Multiplier(z), z)
         /\ Renewed(AfterDecision(z), z)
         /\ Asked(<<<<"jacobian", z, "">>>> \o AugmentedSystem(z) \o Hessian(z), z)
         /\ Asked(Evaluate(z) \o QuasiNormal(z) \o <<<<"adjoint", z, "l">>>> \o Tangential(z)
                    \o <<<<"adjoint", z, "l">>, <<"jacobian", z, "">>>>, z)
<1>1. /\ "value" \in ObjMethods \cup ConMethods /\ "gradient" \in ObjMethods \cup ConMethods
      /\ "hessVec" \in ObjMethods \cup ConMethods /\ "con.value" \in ObjMethods \cup ConMethods
      /\ "jacobian" \in ObjMethods \cup ConMethods /\ "adjoint" \in ObjMethods \cup ConMethods
      /\ "con.hessian" \in ObjMethods \cup ConMethods
      /\ "adjoint" \in {"adjoint", "con.hessian"} /\ "con.hessian" \in {"adjoint", "con.hessian"}
      /\ "gradient" \in {"gradient", "hessVec"} /\ "hessVec" \in {"gradient", "hessVec"}
      /\ "" \in Multipliers /\ "l" \in Multipliers /\ "krylov" \in Multipliers /\ "dualc0" \in Multipliers
  BY DEF ObjMethods, ConMethods, Multipliers
<1>2. Asked(Evaluate(z), z) /\ ObjComes(Evaluate(z), 0)
  BY <1>1, ShortLists DEF Evaluate
<1>3. Asked(AugmentedSystem(z), z) /\ ConComes(AugmentedSystem(z), 0)
  BY <1>1, ShortLists DEF AugmentedSystem
<1>4. Asked(Hessian(z), z) /\ ObjComes(Hessian(z), 0) /\ ConComes(Hessian(z), 0)
  BY <1>1, ShortLists DEF Hessian
<1>5. /\ Asked(<<<<"adjoint", z, "l">>>>, z) /\ Asked(<<<<"jacobian", z, "">>>>, z)
      /\ Asked(<<<<"adjoint", z, "dualc0">>, <<"jacobian", z, "">>>>, z)
      /\ Asked(<<<<"adjoint", z, "l">>, <<"con.value", z, "">>>>, z)
      /\ Asked(<<<<"adjoint", z, "l">>, <<"jacobian", z, "">>>>, z)
      /\ Asked(<<<<"value", z, "">>, <<"gradient", z, "">>>>, z)
      /\ ObjComes(<<<<"value", z, "">>, <<"gradient", z, "">>>>, 0)
  BY <1>1, ShortLists
<1> DEFINE ev == Evaluate(z)
           as == AugmentedSystem(z)
           he == Hessian(z)
           l  == <<<<"adjoint", z, "l">>>>
           j  == <<<<"jacobian", z, "">>>>
           dj == <<<<"adjoint", z, "dualc0">>, <<"jacobian", z, "">>>>
           lc == <<<<"adjoint", z, "l">>, <<"con.value", z, "">>>>
           lj == <<<<"adjoint", z, "l">>, <<"jacobian", z, "">>>>
           vg == <<<<"value", z, "">>, <<"gradient", z, "">>>>
           mu == l \o as
           qn == dj \o as
           ta == he \o as
<1>6. Multiplier(z) = mu /\ QuasiNormal(z) = qn /\ Tangential(z) = ta
  BY DEF Multiplier, QuasiNormal, Tangential
<1>7. /\ Asked(ev, z) /\ ObjComes(ev, 0) /\ Asked(as, z) /\ ConComes(as, 0)
      /\ Asked(he, z) /\ ObjComes(he, 0) /\ ConComes(he, 0)
      /\ Asked(l, z) /\ Asked(j, z) /\ Asked(dj, z) /\ Asked(lc, z) /\ Asked(lj, z)
      /\ Asked(vg, z) /\ ObjComes(vg, 0)
  BY <1>2, <1>3, <1>4, <1>5
<1>8. AfterDecision(z) = vg \o mu \o lc
  BY DEF AfterDecision, Multiplier
<1> HIDE DEF ev, as, he, l, j, dj, lc, lj, vg
<1>9. /\ Asked(mu, z) /\ ConComes(mu, 0) /\ Asked(qn, z) /\ ConComes(qn, 0)
      /\ Asked(ta, z) /\ ObjComes(ta, 0) /\ ConComes(ta, 0)
  BY <1>7, AskedJoined
<1> HIDE DEF mu, qn, ta
<1>10. Renewed(qn \o ta, z) /\ Renewed(ev \o mu, z)
  BY <1>7, <1>9, AskedJoined DEF Renewed
<1>11. Asked(vg \o mu, z) /\ ObjComes(vg \o mu, 0) /\ ConComes(vg \o mu, 0)
  BY <1>7, <1>9, AskedJoined
<1>12. Renewed(vg \o mu \o lc, z)
  BY <1>7, <1>11, AskedJoined DEF Renewed
<1>13. Asked(j \o as \o he, z)
  <2>1. Asked(j \o as, z)
    BY <1>7, AskedJoined
  <2>2. QED BY <1>7, <2>1, AskedJoined
<1>14. Asked(ev \o qn \o l \o ta \o lj, z)
  <2>1. Asked(ev \o qn, z)
    BY <1>7, <1>9, AskedJoined
  <2>2. Asked(ev \o qn \o l, z)
    BY <1>7, <2>1, AskedJoined
  <2>3. Asked(ev \o qn \o l \o ta, z)
    BY <1>9, <2>2, AskedJoined
  <2>4. QED BY <1>7, <2>3, AskedJoined
<1>15. /\ Asked(<<<<"jacobian", z, "">>>> \o AugmentedSystem(z) \o Hessian(z), z)
       /\ Asked(Evaluate(z) \o QuasiNormal(z) \o <<<<"adjoint", z, "l">>>> \o Tangential(z)
                  \o <<<<"adjoint", z, "l">>, <<"jacobian", z, "">>>>, z)
  BY <1>6, <1>13, <1>14 DEF ev, as, he, l, j, lj
<1>16. Renewed(QuasiNormal(z) \o Tangential(z), z) /\ Renewed(Evaluate(z) \o Multiplier(z), z)
  BY <1>6, <1>10 DEF ev
<1>17. QED BY <1>2, <1>3, <1>6, <1>8, <1>9, <1>12, <1>15, <1>16

(* A call that tells of an update.                                         *)
LEMMA UpdateCall ==
  ASSUME NEW type \in Types, NEW z \in Val
  PROVE  <<"obj.update", z, type>> \in Calls /\ <<"con.update", z, type>> \in Calls
  BY DEF Calls

(* Both are told of an update, and asked afterwards.                       *)
LEMMA ToldBoth ==
  ASSUME NEW type \in Types, NEW z \in Val, NEW s, Renewed(s, z)
  PROVE  LET q == UpdateBoth(type, z) \o s IN
         /\ q \in Seq(Calls) /\ q # <<>>
         /\ Len(q) >= 2 /\ q[1] = <<"obj.update", z, type>> /\ q[2] = <<"con.update", z, type>>
         /\ Asks(q, 2, z) /\ ObjComes(q, 2) /\ ConComes(q, 2)
<1> DEFINE p == UpdateBoth(type, z)
           q == p \o s
           a == <<"obj.update", z, type>>
           b == <<"con.update", z, type>>
<1>1. a \in Calls /\ b \in Calls
  BY UpdateCall
<1>2. p = <<a, b>>
  BY DEF UpdateBoth
<1> HIDE DEF a, b, p
<1>3. p \in Seq(Calls) /\ Len(p) = 2 /\ p[1] = a /\ p[2] = b
  BY <1>1, <1>2
<1>4. Asks(p, 2, z)
  <2>1. \A i \in 2 + 1 .. 2 : FALSE
    OBVIOUS
  <2>2. QED BY <1>3, <2>1 DEF Asks
<1>5. s \in Seq(Calls) /\ Asks(s, 0, z) /\ ObjComes(s, 0) /\ ConComes(s, 0) /\ 2 \in Nat /\ 2 <= Len(p)
  BY <1>3 DEF Renewed, Asked
<1>6. /\ q \in Seq(Calls) /\ Len(q) >= Len(p)
      /\ \A i \in 1 .. Len(p) : q[i] = p[i]
      /\ Asks(q, 2, z) /\ ObjComes(q, 2) /\ ConComes(q, 2)
  BY <1>3, <1>4, <1>5, Joined
<1> HIDE DEF q
<1>7. 1 \in 1 .. Len(p) /\ 2 \in 1 .. Len(p) /\ Len(q) >= 2
  BY <1>3, <1>6
<1>8. q[1] = a /\ q[2] = b
  BY <1>3, <1>6, <1>7
<1>9. q # <<>>
  <2>1. Len(<<>>) = 0
    OBVIOUS
  <2>2. QED BY <1>7, <2>1
<1>10. QED BY <1>6, <1>7, <1>8, <1>9 DEF p, q, a, b

(* The list of the first step: the objective is asked in between.          *)
LEMMA FirstList ==
  ASSUME NEW z \in Val
  PROVE  LET q == <<<<"obj.update", z, "Initial">>, <<"value", z, "">>,
                    <<"con.update", z, "Initial">>, <<"con.value", z, "">>,
                    <<"gradient", z, "">>>> \o Multiplier(z) \o <<<<"adjoint", z, "l">>>> IN
         /\ q \in Seq(Calls) /\ q # <<>>
         /\ Len(q) >= 3 /\ q[1] = <<"obj.update", z, "Initial">>
         /\ q[2] = <<"value", z, "">> /\ q[3] = <<"con.update", z, "Initial">>
         /\ Asks(q, 3, z) /\ ObjComes(q, 3) /\ ConComes(q, 3)
<1> DEFINE a == <<"obj.update", z, "Initial">>
           b == <<"value", z, "">>
           c == <<"con.update", z, "Initial">>
           d == <<"con.value", z, "">>
           e == <<"gradient", z, "">>
           p == <<a, b, c, d, e>>
           mu == Multiplier(z)
           l == <<<<"adjoint", z, "l">>>>
           h == p \o mu
           q == h \o l
<1>0. "Initial" \in Types
  BY DEF Types
<1>1. /\ a \in Calls /\ b \in Calls /\ c \in Calls /\ d \in Calls /\ e \in Calls
      /\ Query(d, z) /\ Query(e, z)
  <2>1. "value" \in ObjMethods \cup ConMethods /\ "con.value" \in ObjMethods \cup ConMethods
        /\ "gradient" \in ObjMethods \cup ConMethods /\ "" \in Multipliers
    BY DEF ObjMethods, ConMethods, Multipliers
  <2>2. QED BY <1>0, <2>1, UpdateCall, QueryCall
<1>2. RenewsObj(e)
  BY DEF RenewsObj
<1>3. Asked(mu, z) /\ ConComes(mu, 0) /\ Asked(l, z)
  <2>1. Asked(l, z)
    <3>1. "adjoint" \in ObjMethods \cup ConMethods /\ "l" \in Multipliers
      BY DEF ObjMethods, ConMethods, Multipliers
    <3>2. QED BY <3>1, ShortLists
  <2>2. QED BY <2>1, StepLists
<1> HIDE DEF a, b, c, d, e, mu, l
<1>4. /\ p \in Seq(Calls) /\ Len(p) = 5 /\ p[1] = a /\ p[2] = b /\ p[3] = c /\ p[4] = d /\ p[5] = e
  BY <1>1
<1> HIDE DEF p
<1>5. Asks(p, 3, z) /\ ObjComes(p, 3)
  <2>1. (\A i \in 3 + 1 .. 5 : i = 4 \/ i = 5) /\ 5 \in 3 + 1 .. 5
    OBVIOUS
  <2>2. QED BY <1>1, <1>2, <1>4, <2>1 DEF Asks, ObjComes
<1>6. /\ mu \in Seq(Calls) /\ Asks(mu, 0, z) /\ l \in Seq(Calls) /\ Asks(l, 0, z)
      /\ 3 \in Nat /\ 3 <= Len(p)
  BY <1>3, <1>4 DEF Asked
<1>7. /\ h \in Seq(Calls) /\ Len(h) >= Len(p) /\ \A i \in 1 .. Len(p) : h[i] = p[i]
      /\ Asks(h, 3, z) /\ ObjComes(h, 3) /\ ConComes(h, 3)
  <2>1. /\ p \in Seq(Calls) /\ mu \in Seq(Calls) /\ 3 \in Nat /\ 3 <= Len(p)
        /\ Asks(p, 3, z) /\ Asks(mu, 0, z)
    BY <1>4, <1>5, <1>6
  <2>2. /\ p \o mu \in Seq(Calls) /\ Len(p \o mu) >= Len(p)
        /\ \A i \in 1 .. Len(p) : (p \o mu)[i] = p[i]
        /\ Asks(p \o mu, 3, z)
        /\ ObjComes(p, 3) \/ ObjComes(mu, 0) => ObjComes(p \o mu, 3)
        /\ ConComes(p, 3) \/ ConComes(mu, 0) => ConComes(p \o mu, 3)
    BY <2>1, Joined
  <2>3. QED BY <1>3, <1>5, <2>2
<1> HIDE DEF h
<1>8. Len(h) \in Nat /\ Len(h) >= 5
  BY <1>4, <1>7, LenProperties
<1>9. 3 \in Nat /\ 3 <= Len(h)
  BY <1>8
<1>10. /\ q \in Seq(Calls) /\ Len(q) >= Len(h) /\ \A i \in 1 .. Len(h) : q[i] = h[i]
       /\ Asks(q, 3, z) /\ ObjComes(q, 3) /\ ConComes(q, 3)
  BY <1>6, <1>7, <1>9, Joined
<1> HIDE DEF q
<1>11. /\ 1 \in 1 .. Len(p) /\ 2 \in 1 .. Len(p) /\ 3 \in 1 .. Len(p)
       /\ 1 \in 1 .. Len(h) /\ 2 \in 1 .. Len(h) /\ 3 \in 1 .. Len(h)
  BY <1>4, <1>8
<1>12. q[1] = a /\ q[2] = b /\ q[3] = c
  BY <1>4, <1>7, <1>10, <1>11
<1>13. Len(q) \in Nat /\ Len(q) >= 3
  BY <1>8, <1>10, LenProperties
<1>14. q # <<>>
  <2>1. Len(<<>>) = 0
    OBVIOUS
  <2>2. QED BY <1>13, <2>1
<1>15. QED BY <1>10, <1>12, <1>13, <1>14 DEF q, h, p, a, b, c, d, e, mu, l

-----------------------------------------------------------------------------
(* Between two steps, when no call is left.                                *)
LEMMA Settled ==
  ASSUME NEW g, NEW o, NEW r, Safe(g, o, r, <<>>)
  PROVE  /\ BothInOrder(o, r) /\ Stands(g, o)
         /\ g.pc = "start" => o.isUpdated /\ r.isUpdated
         /\ g.pc # "start" => Full(o) /\ Full(r)
<1>1. Len(<<>>) = 0 /\ ~ObjComes(<<>>, 0) /\ ~ConComes(<<>>, 0)
  <2>1. Len(<<>>) = 0 /\ \A i \in 0 + 1 .. 0 : FALSE
    OBVIOUS
  <2>2. QED BY <2>1 DEF ObjComes, ConComes
<1>2. \A m \in {1, 2} : ~(Len(<<>>) >= m) /\ ~(Len(<<>>) >= m + 1)
  BY <1>1
<1>3. Asking(g, o, r, <<>>)
  BY <1>2 DEF Safe, TellingCon, TellingBoth
<1>4. QED BY <1>1, <1>3 DEF Asking

(* Nothing is asked of functions that stand well and know everything.      *)
LEMMA NothingAsked ==
  ASSUME NEW g, NEW o, NEW r, BothInOrder(o, r), Stands(g, o), Full(o), Full(r), g.pc # "start"
  PROVE  Safe(g, o, r, <<>>)
<1>1. \A z : Asks(<<>>, 0, z)
  <2>1. Len(<<>>) = 0 /\ \A i \in 0 + 1 .. 0 : FALSE
    OBVIOUS
  <2>2. QED BY <2>1 DEF Asks
<1>2. QED BY <1>1 DEF Safe, Asking

(* Questions at the point where they stand, or anywhere if the projection  *)
(* is repeated.                                                            *)
LEMMA NowAsked ==
  ASSUME NEW g, NEW o, NEW r, BothInOrder(o, r), Stands(g, o), Full(o), Full(r), g.pc # "start",
         NEW q, Asked(q, g.x), g.place = "repeated" \/ o.here = g.x
  PROVE  Safe(g, o, r, q)
  BY DEF Safe, Asking, Asked

(* An update of both is on its way.                                        *)
LEMMA NowTold ==
  ASSUME Keyed, NEW o, NEW r, BothInOrder(o, r), o.isUpdated, r.isUpdated,
         NEW type \in Types, NEW z \in Val,
         type = "Revert" => z = o.base,
         type = "Accept" => Full(o) /\ Full(r) /\ z = o.cand,
         NEW g, g.pc # "start", g.place # "repeated",
         \A u : /\ u.here = z /\ u.base = BaseAfter(type, z, o.base)
                /\ u.cand = CandAfter(type, z, o.cand)
                => Stands(g, u),
         NEW m \in {1, 2}, NEW q, Len(q) >= m + 1,
         q[1] = <<"obj.update", z, type>>, q[m + 1] = <<"con.update", z, type>>,
         m = 2 => type = "Initial" /\ q[2] = <<"value", z, "">>,
         Asks(q, m + 1, z), ObjComes(q, m + 1), ConComes(q, m + 1)
  PROVE  Safe(g, o, r, q)
<1> DEFINE u == Update(o, type, z)
           v == Update(r, type, z)
<1>1. InOrder(o) /\ InOrder(r) /\ SamePoints(o, r)
  BY DEF BothInOrder
<1>2. /\ InOrder(u) /\ u.here = z /\ u.base = BaseAfter(type, z, o.base)
      /\ u.cand = CandAfter(type, z, o.cand)
      /\ type = "Accept" => Promotable(o.state, z)
  <2>1. /\ InOrder(o) /\ o.isUpdated /\ type \in Types /\ z \in Val
        /\ type = "Revert" => z = o.base
        /\ type = "Accept" => Full(o) /\ z = o.cand
    BY <1>1
  <2>2. QED BY ONLY Keyed, <2>1, UpdateInOrder DEF u
<1>3. /\ InOrder(v) /\ v.here = z /\ v.base = BaseAfter(type, z, r.base)
      /\ v.cand = CandAfter(type, z, r.cand)
  <2>1. (type = "Revert" => z = r.base) /\ (type = "Accept" => z = r.cand)
    BY <1>1 DEF SamePoints
  <2>2. /\ InOrder(r) /\ r.isUpdated /\ type \in Types /\ z \in Val
        /\ type = "Revert" => z = r.base
        /\ type = "Accept" => Full(r) /\ z = r.cand
    BY <1>1, <2>1
  <2>3. QED BY ONLY Keyed, <2>2, UpdateInOrder DEF v
<1> HIDE DEF u, v
<1>4. BothInOrder(u, v)
  BY <1>1, <1>2, <1>3 DEF BothInOrder, SamePoints
<1>5. Announced(u, type, z)
  BY <1>2 DEF Announced, BaseAfter, CandAfter, Types
<1>6. Stands(g, u)
  BY <1>2
<1>7. TellingBoth(g, o, r, q, m, type, z)
  BY <1>2, <1>4, <1>5, <1>6 DEF TellingBoth, ComesLater, u, v
<1>8. QED BY <1>7 DEF Safe

(* The same, told by UpdateBoth.                                           *)
LEMMA NowToldBoth ==
  ASSUME Keyed, NEW o, NEW r, BothInOrder(o, r), o.isUpdated, r.isUpdated,
         NEW type \in Types, NEW z \in Val,
         type = "Revert" => z = o.base,
         type = "Accept" => Full(o) /\ Full(r) /\ z = o.cand,
         NEW g, g.pc # "start", g.place # "repeated",
         \A u : /\ u.here = z /\ u.base = BaseAfter(type, z, o.base)
                /\ u.cand = CandAfter(type, z, o.cand)
                => Stands(g, u),
         NEW s, Renewed(s, z)
  PROVE  Safe(g, o, r, UpdateBoth(type, z) \o s)
<1> DEFINE q == UpdateBoth(type, z) \o s
<1>1. /\ Len(q) >= 2 /\ q[1] = <<"obj.update", z, type>> /\ q[2] = <<"con.update", z, type>>
      /\ Asks(q, 2, z) /\ ObjComes(q, 2) /\ ConComes(q, 2)
  BY ToldBoth
<1> HIDE DEF q
<1> DEFINE m == 1
<1>2. m \in {1, 2} /\ m + 1 = 2 /\ m # 2
  OBVIOUS
<1>3. /\ Len(q) >= m + 1 /\ q[1] = <<"obj.update", z, type>>
      /\ q[m + 1] = <<"con.update", z, type>>
      /\ m = 2 => type = "Initial" /\ q[2] = <<"value", z, "">>
      /\ Asks(q, m + 1, z) /\ ObjComes(q, m + 1) /\ ConComes(q, m + 1)
  BY <1>1, <1>2
<1> HIDE DEF m
<1>4. Safe(g, o, r, q)
  BY <1>2, <1>3, NowTold
<1>5. QED BY <1>4 DEF q

-----------------------------------------------------------------------------
(* The inductive invariant.  There is a reduced objective r that is the    *)
(* constraint up to its multipliers; and while the last try has not ended  *)
(* in Recompute, the calls still to be made are safe for the pair of the   *)
(* objective and r, or one like it if the inner problem keeps nothing.     *)

Basis ==
  /\ TypeOK
  /\ pc \in {"project", "try", "again", "fit", "radius"} => iter < MaxIter /\ pass >= 1 /\ ct >= 1
  /\ fns = [o |-> fns.o, c |-> fns.c] /\ fns.o.fresh /\ fns.c.fresh

Together(r) ==
  /\ Twin(fns.c, r) /\ Typed(fns.o) /\ Typed(r)
  /\ shared => fns.o.state = r.state

Promised(r) ==
  ~gaveUp =>
    /\ stale \subseteq {"repeated"}
    /\ \E y, w : Alike(fns.o, y) /\ Alike(r, w) /\ Safe(Stage, y, w, todo)

IInv == Basis /\ \E r : Together(r) /\ Promised(r)

(* It holds at the start.                                                  *)
LEMMA InitInv == ASSUME Keyed, Init PROVE IInv
<1> DEFINE n == NewReducedObjective
           c == NewReducedConstraint
<1>1. Twin(c, n) /\ Good(n) /\ n \in ReducedObjectives
  BY NewTwin, NewGood DEF Good
<1>2. /\ n.state = NewController /\ n.adjoint = NewController
      /\ n.con = NewController /\ n.obj = NewController
      /\ n.isUpdated /\ n.fresh
      /\ n.here = NoVal /\ n.base = NoVal /\ n.cand = NoVal
  BY DEF NewReducedObjective
<1>3. fns = [o |-> n, c |-> c]
  BY DEF Init
<1> HIDE DEF n, c
<1>4. fns.o = n /\ fns.c = c
  BY <1>3
<1>5. \A t \in Tier, j \in Key : ~NewController.tier[t][j].alloc
  BY DEF NewController, Absent
<1>6. InOrder(n) /\ Typed(n)
  <2>1. OnlyKey(n, K) /\ Unused(n.adjoint)
    BY <1>2, <1>5 DEF OnlyKey, Only, Unused
  <2>2. InOrder(n)
    BY <1>1, <1>2, <2>1 DEF InOrder, Tried
  <2>3. QED BY <2>2, InOrderParts
<1>7. c.fresh
  BY <1>1, <1>2 DEF Twin, SameAnswers
<1>8. Basis
  <2>1. todo \in Seq(Calls)
    BY DEF Init
  <2>2. pass \in 0 .. MaxPasses /\ ct \in 0 .. MaxTries /\ iter \in 0 .. MaxIter
    BY CompositeAssumption DEF Init
  <2>3. TypeOK
    BY <1>1, <1>4, <2>1, <2>2 DEF Init, TypeOK, Places
  <2>4. QED BY <1>2, <1>3, <1>4, <1>7, <2>3 DEF Init, Basis
<1>9. Together(n)
  BY <1>1, <1>4, <1>6 DEF Together
<1>10. Promised(n)
  <2>1. Stage.pc = "start" /\ Stage.place = "iterate"
    BY DEF Init, Stage
  <2>2. Stands(Stage, n)
    BY <1>2, <2>1 DEF Stands
  <2>3. Asks(<<>>, 0, n.here)
    <3>1. Len(<<>>) = 0 /\ \A i \in 0 + 1 .. 0 : FALSE
      OBVIOUS
    <3>2. QED BY <3>1 DEF Asks
  <2>4. Asking(Stage, n, n, <<>>)
    BY <1>2, <1>6, <2>1, <2>2, <2>3 DEF Asking, BothInOrder, SamePoints
  <2>5. todo = <<>> /\ stale = {}
    BY DEF Init
  <2>6. Alike(n, n)
    BY <1>6 DEF Alike, Outside
  <2>7. Safe(Stage, n, n, todo)
    BY <2>4, <2>5 DEF Safe
  <2>8. QED BY <1>4, <2>5, <2>6, <2>7 DEF Promised
<1>11. QED BY <1>8, <1>9, <1>10 DEF IInv

(* A call keeps it.                                                        *)
LEMMA CallInv == ASSUME Keyed, IInv, MakeCall PROVE IInv'
<1> DEFINE e == Head(todo)
           p == Do(fns, e[1], e[2], e[3])
           g == Stage
<1>1. /\ todo # <<>> /\ todo' = Tail(todo)
      /\ stale' = IF p.o.fresh /\ p.c.fresh THEN stale ELSE stale \cup {place}
      /\ fns' = [o |-> Refreshed(p.o), c |-> Refreshed(p.c)]
      /\ UNCHANGED <<pc, shared, x, xtrial, pass, ct, iter, place, gaveUp>>
  BY DEF MakeCall, Returns, Refreshed
<1>2. Basis
  BY DEF IInv
<1>3. todo \in Seq(Calls) /\ e \in Calls /\ e = todo[1] /\ Tail(todo) \in Seq(Calls)
  BY <1>1, <1>2, Returned DEF Basis, TypeOK
<1>4. PICK r : Together(r) /\ Promised(r)
  BY DEF IInv
<1>5. p = Do([o |-> fns.o, c |-> fns.c], e[1], e[2], e[3])
  BY <1>2 DEF Basis
<1> HIDE DEF e, p
<1>6. PICK b : Twin(p.c, b) /\ Called(fns.o, r, e, p.o, b, shared) /\ Typed(p.o) /\ Typed(b)
  BY <1>3, <1>4, <1>5, DoCalls DEF Together
<1> DEFINE a == p.o
           v == Refreshed(a)
           w == Refreshed(b)
<1>7. fns'.o = v /\ fns'.c = Refreshed(p.c)
  BY <1>1
<1>8. /\ fns.o.fresh /\ r.fresh /\ (p.c.fresh <=> b.fresh)
      /\ a \in ReducedObjectives /\ b \in ReducedObjectives
      /\ fns.o \in ReducedObjectives /\ r \in ReducedObjectives
  BY <1>2, <1>4, <1>6 DEF Basis, Together, Twin, SameAnswers, Typed
<1>9. Called(fns.o, r, e, a, b, shared) /\ Typed(a) /\ Typed(b) /\ Typed(fns.o) /\ Typed(r)
  BY <1>4, <1>6 DEF Together
<1> HIDE DEF a
<1>10. Twin(Refreshed(p.c), w) /\ Typed(v) /\ Typed(w) /\ v.fresh /\ w.fresh
       /\ v.state = a.state /\ w.state = b.state
  BY <1>6, <1>8, <1>9, TwinChanged, Refresh
<1>11. Together(w)'
  <2>1. shared => v.state = w.state
    <3>1. SUFFICES ASSUME shared PROVE a.state = b.state
      BY <1>10
    <3>2. b = WithStore(r, a.state) \/ a = WithStore(fns.o, b.state)
      BY <1>9, <3>1 DEF Called, Beside
    <3>3. QED BY <1>8, <3>2 DEF WithStore, ReducedObjectives
  <2>2. QED BY <1>1, <1>7, <1>10, <2>1 DEF Together
<1>12. Promised(w)'
  <2>1. SUFFICES ASSUME ~gaveUp
                 PROVE  /\ stale' \subseteq {"repeated"}
                        /\ \E c, d : Alike(v, c) /\ Alike(w, d) /\ Safe(g, c, d, Tail(todo))
    BY <1>1, <1>7 DEF Promised, Stage
  <2>2. stale \subseteq {"repeated"}
    BY <1>4, <2>1 DEF Promised
  <2>3. PICK y, u : Alike(fns.o, y) /\ Alike(r, u) /\ Safe(g, y, u, todo)
    BY <1>4, <2>1 DEF Promised
  <2>4. g.place = place
    BY DEF Stage
  <2> HIDE DEF g, v, w
  <2>5. Called(fns.o, r, todo[1], a, b, shared)
    BY <1>3, <1>9
  <2>6. /\ g.place # "repeated" => a.fresh = fns.o.fresh /\ b.fresh = r.fresh
        /\ \E c, d : /\ Alike(Refreshed(a), c) /\ Alike(Refreshed(b), d)
                     /\ Safe(g, c, d, Tail(todo))
    <3> DEFINE o == fns.o
    <3>1. /\ Typed(o) /\ Typed(r) /\ Typed(a) /\ Typed(b)
          /\ todo \in Seq(Calls) /\ todo # <<>>
          /\ Alike(o, y) /\ Alike(r, u) /\ Safe(g, y, u, todo)
          /\ Called(o, r, todo[1], a, b, shared)
      BY <1>1, <1>3, <1>9, <2>3, <2>5
    <3> HIDE DEF o
    <3>2. /\ g.place # "repeated" => a.fresh = o.fresh /\ b.fresh = r.fresh
          /\ \E c, d : /\ Alike(Refreshed(a), c) /\ Alike(Refreshed(b), d)
                       /\ Safe(g, c, d, Tail(todo))
      BY ONLY Keyed, <3>1, AlikeStep
    <3>3. QED BY <3>2 DEF o
  <2>7. place # "repeated" => p.o.fresh /\ p.c.fresh
    BY <1>8, <2>4, <2>6 DEF a
  <2>8. stale' \subseteq {"repeated"}
    BY <1>1, <2>2, <2>7
  <2>9. QED BY <2>6, <2>8 DEF v, w
<1>13. Basis'
  <2>1. v \in ReducedObjectives
    BY <1>10 DEF Typed
  <2>2. TypeOK'
    BY <1>1, <1>2, <1>7, <2>1 DEF Basis, TypeOK, Places
  <2>3. Refreshed(p.c).fresh
    BY <1>10 DEF Twin, SameAnswers
  <2> HIDE DEF v, w
  <2>4. fns' = [o |-> fns'.o, c |-> fns'.c] /\ fns'.o.fresh /\ fns'.c.fresh
    BY <1>1, <1>7, <1>10, <2>3
  <2>5. QED BY <1>1, <1>2, <1>3, <2>2, <2>4 DEF Basis
<1>14. QED BY <1>11, <1>12, <1>13 DEF IInv

(* A step that makes no call, but may list some, keeps it if what it lists *)
(* is safe.                                                                *)
LEMMA StepInv ==
  ASSUME IInv, Basis', todo = <<>>, UNCHANGED <<fns, stale, shared>>, ~gaveUp' => ~gaveUp,
         \A y, w : ~gaveUp' /\ Safe(Stage, y, w, <<>>) => Safe(Stage', y, w, todo')
  PROVE  IInv'
<1>1. PICK r : Together(r) /\ Promised(r)
  BY DEF IInv
<1>2. Together(r)'
  BY <1>1 DEF Together
<1>3. Promised(r)'
  <2>1. SUFFICES ASSUME ~gaveUp'
                 PROVE  /\ stale \subseteq {"repeated"}
                        /\ \E y, w : /\ Alike(fns.o, y) /\ Alike(r, w)
                                     /\ Safe(Stage', y, w, todo')
    BY DEF Promised
  <2>2. stale \subseteq {"repeated"}
    BY <1>1, <2>1 DEF Promised
  <2>3. PICK y, w : Alike(fns.o, y) /\ Alike(r, w) /\ Safe(Stage, y, w, todo)
    BY <1>1, <2>1 DEF Promised
  <2>4. Safe(Stage', y, w, todo')
    BY <2>1, <2>3
  <2>5. QED BY <2>2, <2>3, <2>4
<1>4. QED BY <1>2, <1>3 DEF IInv

(* Two lists after an update of both.                                      *)
LEMMA TwoLists ==
  ASSUME NEW type \in Types, NEW z \in Val, NEW s, Asked(s, z), NEW t, Asked(t, z)
  PROVE  UpdateBoth(type, z) \o s \o t = UpdateBoth(type, z) \o (s \o t)
<1>1. UpdateBoth(type, z) \in Seq(Calls)
  BY UpdateCall DEF UpdateBoth
<1>2. s \in Seq(Calls) /\ t \in Seq(Calls)
  BY DEF Asked
<1>3. QED BY <1>1, <1>2, ConcatAssociative

(* The lists of TryStep and of Recompute.                                  *)
LEMMA TrialLists ==
  ASSUME NEW z \in Val
  PROVE  /\ UpdateBoth("Trial", z) \o Evaluate(z) \o Multiplier(z)
               = UpdateBoth("Trial", z) \o (Evaluate(z) \o Multiplier(z))
         /\ UpdateBoth("Trial", z) \o QuasiNormal(z) \o Tangential(z)
               = UpdateBoth("Trial", z) \o (QuasiNormal(z) \o Tangential(z))
<1> DEFINE type == "Trial"
<1>1. type \in Types
  BY DEF Types
<1>2. Asked(Evaluate(z), z) /\ Asked(Multiplier(z), z)
      /\ Asked(QuasiNormal(z), z) /\ Asked(Tangential(z), z)
  BY StepLists
<1> HIDE DEF type
<1>3. UpdateBoth(type, z) \o Evaluate(z) \o Multiplier(z)
        = UpdateBoth(type, z) \o (Evaluate(z) \o Multiplier(z))
  BY ONLY z \in Val, <1>1, <1>2, TwoLists
<1>4. UpdateBoth(type, z) \o QuasiNormal(z) \o Tangential(z)
        = UpdateBoth(type, z) \o (QuasiNormal(z) \o Tangential(z))
  BY ONLY z \in Val, <1>1, <1>2, TwoLists
<1>5. QED BY <1>3, <1>4 DEF type

(* The counts of a step stay within their limits.                          *)
LEMMA StepBasis == ASSUME Basis, Decide PROVE Basis'
<1> DEFINE open == {"project", "try", "again", "fit", "radius"}
<1>1. /\ TypeOK /\ place \in Places /\ todo \in Seq(Calls) /\ x \in Val /\ xtrial \in Val
      /\ pc \in open => iter < MaxIter /\ pass >= 1 /\ ct >= 1
      /\ fns = [o |-> fns.o, c |-> fns.c] /\ fns.o.fresh /\ fns.c.fresh
      /\ pass \in 0 .. MaxPasses /\ ct \in 0 .. MaxTries /\ iter \in 0 .. MaxIter
  BY DEF Basis, TypeOK
<1>2. fns' = fns /\ stale' = stale /\ shared' = shared /\ (gaveUp' = gaveUp \/ Recompute)
  BY DEF Decide, Begin, Idle, Initialize, Stop, ComputeTrial, Project, TryStep, ProjectAgain,
         Projected, Fits, TryCauchy, Recompute, Accept, Reject
<1>3. ASSUME /\ x' \in Val /\ xtrial' \in Val
             /\ pass' \in 0 .. MaxPasses /\ ct' \in 0 .. MaxTries /\ iter' \in 0 .. MaxIter
             /\ pc' \in {"start", "check", "done"} \cup open
             /\ place' \in Places /\ todo' \in Seq(Calls)
             /\ pc' \in open => iter' < MaxIter /\ pass' >= 1 /\ ct' >= 1
      PROVE  Basis'
  <2>1. shared' \in BOOLEAN /\ gaveUp' \in BOOLEAN
    BY <1>1, <1>2 DEF TypeOK, Recompute
  <2>2. TypeOK'
    BY <1>1, <1>2, <1>3, <2>1 DEF TypeOK
  <2>3. QED BY <1>1, <1>2, <1>3, <2>2 DEF Basis
<1>4. /\ MaxIter \in Nat /\ MaxPasses \in Nat /\ MaxPasses >= 1 /\ MaxTries \in Nat /\ MaxTries >= 1
  BY CompositeAssumption
<1>5. /\ \A z \in Val, type \in Types : \A s : Renewed(s, z) => UpdateBoth(type, z) \o s \in Seq(Calls)
      /\ \A z \in Val : Asked(QuasiNormal(z) \o Tangential(z), z)
  BY ToldBoth, StepLists DEF Renewed
<1>6. "Initial" \in Types /\ "Trial" \in Types /\ "Accept" \in Types /\ "Revert" \in Types
  BY DEF Types
<1>7. "iterate" \in Places /\ "repeated" \in Places /\ "trial" \in Places /\ "recomputed" \in Places
  BY DEF Places
<1>8. CASE Initialize
  <2>1. todo' \in Seq(Calls)
    BY <1>1, <1>8, FirstList DEF Initialize, Begin
  <2>2. place' = "iterate" /\ pc' = "check" /\ UNCHANGED <<x, xtrial, pass, ct, iter>>
    BY <1>8 DEF Initialize, Begin
  <2>3. QED BY <1>1, <1>3, <1>7, <2>1, <2>2
<1>9. CASE Stop
  <2>1. pc' = "done" /\ UNCHANGED <<x, xtrial, pass, ct, iter, todo, place>>
    BY <1>9 DEF Stop, Idle
  <2>2. QED BY <1>1, <1>3, <2>1
<1>10. CASE ComputeTrial
  <2>1. todo' \in Seq(Calls)
    BY <1>1, <1>10, StepLists DEF ComputeTrial, Begin, Asked
  <2>2. /\ place' = "iterate" /\ pc' = "project" /\ pass' = 1 /\ ct' = 1 /\ iter < MaxIter
        /\ UNCHANGED <<x, xtrial, iter>>
    BY <1>10 DEF ComputeTrial, Begin
  <2>3. pass' \in 0 .. MaxPasses /\ ct' \in 0 .. MaxTries /\ pass' >= 1 /\ ct' >= 1
    BY <1>4, <2>2
  <2>4. QED BY <1>1, <1>3, <1>7, <2>1, <2>2, <2>3
<1>11. CASE Project
  <2>1. todo' \in Seq(Calls)
    BY <1>1, <1>11, StepLists DEF Project, Begin, Asked
  <2>2. /\ place' \in Places /\ pc = "project" /\ pc' = "try"
        /\ UNCHANGED <<x, xtrial, pass, ct, iter>>
    BY <1>7, <1>11 DEF Project, Begin
  <2>3. QED BY <1>1, <1>3, <2>1, <2>2
<1>12. CASE TryStep
  <2>1. PICK z \in Val :
          xtrial' = z /\ Begin(UpdateBoth("Trial", z) \o Evaluate(z) \o Multiplier(z), "trial")
    BY <1>12 DEF TryStep
  <2>2. todo' = UpdateBoth("Trial", z) \o Evaluate(z) \o Multiplier(z) /\ place' = "trial"
    BY <2>1 DEF Begin
  <2>3. UpdateBoth("Trial", z) \o Evaluate(z) \o Multiplier(z)
          = UpdateBoth("Trial", z) \o (Evaluate(z) \o Multiplier(z))
    BY <2>1, TrialLists
  <2>4. todo' \in Seq(Calls)
    BY <1>5, <1>6, <2>2, <2>3, StepLists
  <2>5. pc = "try" /\ pc' = "again" /\ UNCHANGED <<x, pass, ct, iter>>
    BY <1>12 DEF TryStep
  <2>6. QED BY <1>1, <1>3, <1>7, <2>1, <2>2, <2>4, <2>5
<1>13. CASE ProjectAgain
  <2>1. /\ pc = "again" /\ pc' = "project" /\ pass < MaxPasses /\ pass' = pass + 1
        /\ UNCHANGED <<x, xtrial, ct, iter, todo, place>>
    BY <1>13 DEF ProjectAgain, Idle
  <2>2. pass' \in 0 .. MaxPasses /\ pass' >= 1
    BY <1>1, <1>4, <2>1
  <2>3. QED BY <1>1, <1>3, <2>1, <2>2
<1>14. CASE Projected
  <2>1. pc = "again" /\ pc' = "fit" /\ UNCHANGED <<x, xtrial, pass, ct, iter, todo, place>>
    BY <1>14 DEF Projected, Idle
  <2>2. QED BY <1>1, <1>3, <2>1
<1>15. CASE Fits
  <2>1. pc = "fit" /\ pc' = "radius" /\ UNCHANGED <<x, xtrial, pass, ct, iter, todo, place>>
    BY <1>15 DEF Fits, Idle
  <2>2. QED BY <1>1, <1>3, <2>1
<1>16. ASSUME NextTry, pc = "fit"
       PROVE  /\ pass' \in 0 .. MaxPasses /\ ct' \in 0 .. MaxTries /\ pc' \in {"project", "radius"}
              /\ iter < MaxIter /\ pass' >= 1 /\ ct' >= 1
  <2>1. /\ pass' = 1 /\ (ct < MaxTries => ct' = ct + 1 /\ pc' = "project")
        /\ ~(ct < MaxTries) => ct' = ct /\ pc' = "radius"
    BY <1>16 DEF NextTry
  <2>2. iter < MaxIter /\ pass >= 1 /\ ct >= 1
    BY <1>1, <1>16
  <2>3. pass' \in 0 .. MaxPasses /\ ct' \in 0 .. MaxTries /\ pass' >= 1 /\ ct' >= 1
    BY <1>1, <1>4, <2>1, <2>2
  <2>4. QED BY <2>1, <2>2, <2>3
<1>17. CASE TryCauchy
  <2>1. pc = "fit" /\ NextTry /\ UNCHANGED <<x, xtrial, iter, todo, place>>
    BY <1>17 DEF TryCauchy, Idle
  <2>2. QED BY <1>1, <1>3, <1>16, <2>1
<1>18. CASE Recompute
  <2>1. /\ pc = "fit" /\ NextTry /\ UNCHANGED <<x, xtrial, iter>>
        /\ todo' = UpdateBoth("Trial", x) \o QuasiNormal(x) \o Tangential(x)
        /\ place' = "recomputed"
    BY <1>18 DEF Recompute, Begin
  <2>2. UpdateBoth("Trial", x) \o QuasiNormal(x) \o Tangential(x)
          = UpdateBoth("Trial", x) \o (QuasiNormal(x) \o Tangential(x))
    BY <1>1, TrialLists
  <2>3. todo' \in Seq(Calls)
    BY <1>1, <1>5, <1>6, <2>1, <2>2, StepLists
  <2>4. QED BY <1>1, <1>3, <1>7, <1>16, <2>1, <2>3
<1>19. CASE Accept
  <2>1. /\ pc = "radius" /\ pc' = "check" /\ x' = xtrial /\ iter' = iter + 1
        /\ todo' = UpdateBoth("Accept", xtrial) \o AfterDecision(xtrial) /\ place' = "iterate"
        /\ UNCHANGED <<xtrial, pass, ct>>
    BY <1>19 DEF Accept, Begin
  <2>2. todo' \in Seq(Calls)
    BY <1>1, <1>5, <1>6, <2>1, StepLists
  <2>3. iter' \in 0 .. MaxIter
    BY <1>1, <1>4, <2>1
  <2>4. QED BY <1>1, <1>3, <1>7, <2>1, <2>2, <2>3
<1>20. CASE Reject
  <2>1. /\ pc = "radius" /\ pc' = "check" /\ iter' = iter + 1
        /\ todo' = UpdateBoth("Revert", x) \o AfterDecision(x) /\ place' = "iterate"
        /\ UNCHANGED <<x, xtrial, pass, ct>>
    BY <1>20 DEF Reject, Begin
  <2>2. todo' \in Seq(Calls)
    BY <1>1, <1>5, <1>6, <2>1, StepLists
  <2>3. iter' \in 0 .. MaxIter
    BY <1>1, <1>4, <2>1
  <2>4. QED BY <1>1, <1>3, <1>7, <2>1, <2>2, <2>3
<1>21. QED BY <1>8, <1>9, <1>10, <1>11, <1>12, <1>13, <1>14, <1>15, <1>17, <1>18, <1>19, <1>20
       DEF Decide

(* Every step of the method lists calls that are safe for functions of     *)
(* which, between two steps, everything is known.                          *)
LEMMA StepSafe ==
  ASSUME Keyed, Basis, Decide, NEW o, NEW r, ~gaveUp', Safe(Stage, o, r, <<>>)
  PROVE  Safe(Stage', o, r, todo')
<1> DEFINE g == Stage
           h == Stage'
<1>1. /\ g.pc = pc /\ g.x = x /\ g.xtrial = xtrial /\ (g.first <=> pass = 1 /\ ct = 1)
      /\ h.pc = pc' /\ h.place = place' /\ h.x = x' /\ h.xtrial = xtrial'
      /\ h.first <=> pass' = 1 /\ ct' = 1
  BY DEF Stage
<1>2. Safe(g, o, r, <<>>)
  OBVIOUS
<1> HIDE DEF g, h
<1>3. /\ BothInOrder(o, r) /\ Stands(g, o)
      /\ pc = "start" => o.isUpdated /\ r.isUpdated
      /\ pc # "start" => Full(o) /\ Full(r) /\ o.isUpdated /\ r.isUpdated
  BY <1>1, <1>2, Settled DEF Full
<1>4. /\ pc \in {"check", "done"} => o.here = x /\ o.base = x /\ o.cand = NoVal
      /\ pc \in {"project", "try"} =>
           /\ o.base = x
           /\ o.cand = NoVal => o.here = x
           /\ o.cand # NoVal => o.here = o.cand
           /\ pass = 1 /\ ct = 1 => o.here = x
      /\ pc \in {"again", "fit", "radius"} => o.base = x /\ o.here = xtrial /\ o.cand = xtrial
  BY <1>1, <1>3 DEF Stands
<1>5. /\ x \in Val /\ xtrial \in Val /\ x # NoVal /\ xtrial # NoVal
      /\ pc \in {"project", "try", "again", "fit", "radius"} => pass >= 1 /\ ct >= 1
      /\ pass \in Nat /\ ct \in Nat
  BY NoValAssumption, CompositeAssumption DEF Basis, TypeOK
<1>6. "Initial" \in Types /\ "Trial" \in Types /\ "Accept" \in Types /\ "Revert" \in Types
  BY DEF Types
<1>7. CASE Initialize
  <2> DEFINE m == 2
             q == <<<<"obj.update", x, "Initial">>, <<"value", x, "">>,
                    <<"con.update", x, "Initial">>, <<"con.value", x, "">>,
                    <<"gradient", x, "">>>> \o Multiplier(x) \o <<<<"adjoint", x, "l">>>>
  <2>1. pc = "start" /\ pc' = "check" /\ place' = "iterate" /\ x' = x /\ todo' = q
    BY <1>7 DEF Initialize, Begin
  <2>2. /\ Len(q) >= 3 /\ q[1] = <<"obj.update", x, "Initial">>
        /\ q[2] = <<"value", x, "">> /\ q[3] = <<"con.update", x, "Initial">>
        /\ Asks(q, 3, x) /\ ObjComes(q, 3) /\ ConComes(q, 3)
    BY <1>5, FirstList
  <2>3. m \in {1, 2} /\ m = 2 /\ m + 1 = 3
    OBVIOUS
  <2> HIDE DEF q, m
  <2>4. \A u : /\ u.here = x /\ u.base = BaseAfter("Initial", x, o.base)
               /\ u.cand = CandAfter("Initial", x, o.cand)
               => Stands(h, u)
    BY <1>1, <2>1 DEF Stands, BaseAfter, CandAfter
  <2>5. /\ Len(q) >= m + 1 /\ q[m + 1] = <<"con.update", x, "Initial">>
        /\ m = 2 => q[2] = <<"value", x, "">>
        /\ Asks(q, m + 1, x) /\ ObjComes(q, m + 1) /\ ConComes(q, m + 1)
    BY <2>2, <2>3
  <2>6. h.pc # "start" /\ h.place # "repeated"
    BY <1>1, <2>1
  <2>7. o.isUpdated /\ r.isUpdated
    BY <1>3, <2>1
  <2>8. Safe(h, o, r, q)
    <3> DEFINE type == "Initial"
    <3>1. /\ type \in Types /\ type # "Revert" /\ type # "Accept" /\ type = "Initial"
          /\ q[1] = <<"obj.update", x, type>> /\ q[m + 1] = <<"con.update", x, type>>
          /\ \A u : /\ u.here = x /\ u.base = BaseAfter(type, x, o.base)
                    /\ u.cand = CandAfter(type, x, o.cand)
                    => Stands(h, u)
      BY <1>6, <2>2, <2>4, <2>5
    <3> HIDE DEF type
    <3>2. QED BY <1>3, <1>5, <2>3, <2>5, <2>6, <2>7, <3>1, NowTold
  <2>9. QED BY <2>1, <2>8 DEF h
<1>8. CASE Stop
  <2>1. pc = "check" /\ pc' = "done" /\ x' = x /\ todo' = <<>>
    BY <1>8 DEF Stop, Idle
  <2>2. Stands(h, o)
    BY <1>1, <1>4, <2>1 DEF Stands
  <2>3. Safe(h, o, r, <<>>)
    BY <1>1, <1>3, <2>1, <2>2, NothingAsked
  <2>4. QED BY <2>1, <2>3 DEF h
<1>9. CASE ComputeTrial
  <2> DEFINE q == Evaluate(x) \o QuasiNormal(x) \o <<<<"adjoint", x, "l">>>> \o Tangential(x)
                    \o <<<<"adjoint", x, "l">>, <<"jacobian", x, "">>>>
  <2>1. pc = "check" /\ pc' = "project" /\ place' = "iterate" /\ x' = x /\ todo' = q
    BY <1>9 DEF ComputeTrial, Begin
  <2>2. Asked(q, x)
    BY <1>5, StepLists
  <2> HIDE DEF q
  <2>3. Stands(h, o)
    BY <1>1, <1>4, <2>1 DEF Stands
  <2>4. Asked(q, h.x) /\ o.here = h.x
    BY <1>1, <1>4, <2>1, <2>2
  <2>5. Safe(h, o, r, q)
    BY <1>1, <1>3, <2>1, <2>3, <2>4, NowAsked
  <2>6. QED BY <2>1, <2>5 DEF h
<1>10. CASE Project
  <2> DEFINE q == <<<<"jacobian", x, "">>>> \o AugmentedSystem(x) \o Hessian(x)
  <2>1. /\ pc = "project" /\ pc' = "try" /\ x' = x /\ pass' = pass /\ ct' = ct /\ todo' = q
        /\ ~(pass = 1 /\ ct = 1) => place' = "repeated"
    BY <1>10 DEF Project, Begin
  <2>2. Asked(q, x)
    BY <1>5, StepLists
  <2> HIDE DEF q
  <2>3. Stands(h, o)
    BY <1>1, <1>4, <2>1 DEF Stands
  <2>4. Asked(q, h.x) /\ (h.place = "repeated" \/ o.here = h.x)
    BY <1>1, <1>4, <2>1, <2>2
  <2>5. Safe(h, o, r, q)
    BY <1>1, <1>3, <2>1, <2>3, <2>4, NowAsked
  <2>6. QED BY <2>1, <2>5 DEF h
<1>11. CASE TryStep
  <2>1. PICK z \in Val :
          xtrial' = z /\ Begin(UpdateBoth("Trial", z) \o Evaluate(z) \o Multiplier(z), "trial")
    BY <1>11 DEF TryStep
  <2>2. pc = "try" /\ pc' = "again" /\ x' = x
    BY <1>11 DEF TryStep
  <2> DEFINE s == Evaluate(z) \o Multiplier(z)
  <2>3. Renewed(s, z) /\ todo' = UpdateBoth("Trial", z) \o s /\ place' = "trial"
    <3>1. Asked(Evaluate(z), z) /\ Asked(Multiplier(z), z) /\ Renewed(s, z)
      BY StepLists
    <3>2. todo' = UpdateBoth("Trial", z) \o Evaluate(z) \o Multiplier(z) /\ place' = "trial"
      BY <2>1 DEF Begin
    <3>3. UpdateBoth("Trial", z) \o Evaluate(z) \o Multiplier(z) = UpdateBoth("Trial", z) \o s
      BY TrialLists
    <3>4. QED BY <3>1, <3>2, <3>3
  <2> HIDE DEF s
  <2>4. \A u : /\ u.here = z /\ u.base = BaseAfter("Trial", z, o.base)
               /\ u.cand = CandAfter("Trial", z, o.cand)
               => Stands(h, u)
    BY <1>1, <1>4, <2>1, <2>2 DEF Stands, BaseAfter, CandAfter
  <2>5. Safe(h, o, r, UpdateBoth("Trial", z) \o s)
    BY <1>1, <1>3, <1>6, <2>2, <2>3, <2>4, NowToldBoth
  <2>6. QED BY <2>3, <2>5 DEF h
<1>12. CASE ProjectAgain
  <2>1. pc = "again" /\ pc' = "project" /\ x' = x /\ pass' = pass + 1 /\ todo' = <<>>
    BY <1>12 DEF ProjectAgain, Idle
  <2>2. pass' # 1
    BY <1>5, <2>1
  <2>3. Stands(h, o)
    BY <1>1, <1>4, <1>5, <2>1, <2>2 DEF Stands
  <2>4. Safe(h, o, r, <<>>)
    BY <1>1, <1>3, <2>1, <2>3, NothingAsked
  <2>5. QED BY <2>1, <2>4 DEF h
<1>13. CASE Projected
  <2>1. pc = "again" /\ pc' = "fit" /\ x' = x /\ xtrial' = xtrial /\ todo' = <<>>
    BY <1>13 DEF Projected, Idle
  <2>2. Stands(h, o)
    BY <1>1, <1>4, <2>1 DEF Stands
  <2>3. Safe(h, o, r, <<>>)
    BY <1>1, <1>3, <2>1, <2>2, NothingAsked
  <2>4. QED BY <2>1, <2>3 DEF h
<1>14. CASE Fits
  <2>1. pc = "fit" /\ pc' = "radius" /\ x' = x /\ xtrial' = xtrial /\ todo' = <<>>
    BY <1>14 DEF Fits, Idle
  <2>2. Stands(h, o)
    BY <1>1, <1>4, <2>1 DEF Stands
  <2>3. Safe(h, o, r, <<>>)
    BY <1>1, <1>3, <2>1, <2>2, NothingAsked
  <2>4. QED BY <2>1, <2>3 DEF h
<1>15. ASSUME NextTry, pc = "fit"
       PROVE  \/ ct < MaxTries /\ pc' = "project" /\ ct' # 1
              \/ ct = MaxTries /\ pc' = "radius"
  <2>1. /\ ct < MaxTries => ct' = ct + 1 /\ pc' = "project"
        /\ ~(ct < MaxTries) => pc' = "radius"
    BY <1>15 DEF NextTry
  <2>2. ct >= 1 /\ ct <= MaxTries /\ ct \in Nat /\ MaxTries \in Nat
    BY <1>15, CompositeAssumption DEF Basis, TypeOK
  <2>3. QED BY <2>1, <2>2
<1>16. CASE TryCauchy
  <2>1. pc = "fit" /\ NextTry /\ x' = x /\ xtrial' = xtrial /\ todo' = <<>>
    BY <1>16 DEF TryCauchy, Idle
  <2>2. (pc' = "project" /\ ct' # 1) \/ pc' = "radius"
    BY <1>15, <2>1
  <2>3. Stands(h, o)
    BY <1>1, <1>4, <1>5, <2>1, <2>2 DEF Stands
  <2>4. Safe(h, o, r, <<>>)
    BY <1>1, <1>3, <2>1, <2>2, <2>3, NothingAsked
  <2>5. QED BY <2>1, <2>4 DEF h
<1>17. CASE Recompute
  <2> DEFINE s == QuasiNormal(x) \o Tangential(x)
  <2>1. /\ pc = "fit" /\ NextTry /\ x' = x /\ place' = "recomputed"
        /\ gaveUp' = (gaveUp \/ ct = MaxTries)
        /\ todo' = UpdateBoth("Trial", x) \o QuasiNormal(x) \o Tangential(x)
    BY <1>17 DEF Recompute, Begin
  <2>2. Renewed(s, x) /\ todo' = UpdateBoth("Trial", x) \o s
    <3>1. Asked(QuasiNormal(x), x) /\ Asked(Tangential(x), x) /\ Renewed(s, x)
      BY <1>5, StepLists
    <3>2. UpdateBoth("Trial", x) \o QuasiNormal(x) \o Tangential(x) = UpdateBoth("Trial", x) \o s
      BY <1>5, TrialLists
    <3>3. QED BY <2>1, <3>1, <3>2
  <2> HIDE DEF s
  <2>3. pc' = "project" /\ ct' # 1
    BY <1>15, <2>1
  <2>4. \A u : /\ u.here = x /\ u.base = BaseAfter("Trial", x, o.base)
               /\ u.cand = CandAfter("Trial", x, o.cand)
               => Stands(h, u)
    BY <1>1, <1>4, <1>5, <2>1, <2>3 DEF Stands, BaseAfter, CandAfter
  <2>5. h.pc # "start" /\ h.place # "repeated" /\ o.isUpdated /\ r.isUpdated
    BY <1>1, <1>3, <2>1, <2>3
  <2>6. Safe(h, o, r, UpdateBoth("Trial", x) \o s)
    BY <1>3, <1>5, <1>6, <2>2, <2>4, <2>5, NowToldBoth
  <2>7. QED BY <2>2, <2>6 DEF h
<1>18. CASE Accept
  <2> DEFINE s == AfterDecision(xtrial)
  <2>1. /\ pc = "radius" /\ pc' = "check" /\ x' = xtrial /\ place' = "iterate"
        /\ todo' = UpdateBoth("Accept", xtrial) \o s
    BY <1>18 DEF Accept, Begin
  <2>2. Renewed(s, xtrial)
    BY <1>5, StepLists
  <2> HIDE DEF s
  <2>3. \A u : /\ u.here = xtrial /\ u.base = BaseAfter("Accept", xtrial, o.base)
               /\ u.cand = CandAfter("Accept", xtrial, o.cand)
               => Stands(h, u)
    BY <1>1, <2>1 DEF Stands, BaseAfter, CandAfter
  <2>4. /\ h.pc # "start" /\ h.place # "repeated" /\ o.isUpdated /\ r.isUpdated
        /\ Full(o) /\ Full(r) /\ xtrial = o.cand
    BY <1>1, <1>3, <1>4, <2>1
  <2>5. Safe(h, o, r, UpdateBoth("Accept", xtrial) \o s)
    BY <1>3, <1>5, <1>6, <2>2, <2>3, <2>4, NowToldBoth
  <2>6. QED BY <2>1, <2>5 DEF h
<1>19. CASE Reject
  <2> DEFINE s == AfterDecision(x)
  <2>1. /\ pc = "radius" /\ pc' = "check" /\ x' = x /\ place' = "iterate"
        /\ todo' = UpdateBoth("Revert", x) \o s
    BY <1>19 DEF Reject, Begin
  <2>2. Renewed(s, x)
    BY <1>5, StepLists
  <2> HIDE DEF s
  <2>3. \A u : /\ u.here = x /\ u.base = BaseAfter("Revert", x, o.base)
               /\ u.cand = CandAfter("Revert", x, o.cand)
               => Stands(h, u)
    BY <1>1, <1>4, <2>1 DEF Stands, BaseAfter, CandAfter
  <2>4. h.pc # "start" /\ h.place # "repeated" /\ o.isUpdated /\ r.isUpdated /\ x = o.base
    BY <1>1, <1>3, <1>4, <2>1
  <2>5. Safe(h, o, r, UpdateBoth("Revert", x) \o s)
    BY <1>3, <1>5, <1>6, <2>2, <2>3, <2>4, NowToldBoth
  <2>6. QED BY <2>1, <2>5 DEF h
<1>20. QED BY <1>7, <1>8, <1>9, <1>10, <1>11, <1>12, <1>13, <1>14, <1>16, <1>17, <1>18, <1>19
       DEF Decide

(* A step of the method keeps the invariant.                               *)
LEMMA DecideInv == ASSUME Keyed, IInv, Decide PROVE IInv'
<1>1. Basis /\ Basis'
  BY StepBasis DEF IInv
<1>2. todo = <<>> /\ UNCHANGED <<fns, stale, shared>> /\ (~gaveUp' => ~gaveUp)
  <2>1. todo = <<>> /\ UNCHANGED <<fns, stale, shared>>
    BY DEF Decide, Begin, Idle, Initialize, Stop, ComputeTrial, Project, TryStep, ProjectAgain,
           Projected, Fits, TryCauchy, Recompute, Accept, Reject
  <2>2. ASSUME ~Recompute PROVE gaveUp' = gaveUp
    BY <2>2 DEF Decide, Initialize, Stop, ComputeTrial, Project, TryStep, ProjectAgain,
                Projected, Fits, TryCauchy, Accept, Reject
  <2>3. ASSUME Recompute PROVE gaveUp' = (gaveUp \/ ct = MaxTries)
    BY <2>3 DEF Recompute
  <2>4. ~gaveUp' => ~gaveUp
    BY <2>2, <2>3
  <2>5. QED BY <2>1, <2>4
<1>3. \A y, w : ~gaveUp' /\ Safe(Stage, y, w, <<>>) => Safe(Stage', y, w, todo')
  BY <1>1, StepSafe
<1>4. QED BY <1>1, <1>2, <1>3, StepInv

(* So does a step that changes nothing.                                    *)
LEMMA StutterInv == ASSUME IInv, UNCHANGED vars PROVE IInv'
<1>1. Basis'
  BY DEF IInv, Basis, TypeOK, vars
<1>2. PICK r : Together(r) /\ Promised(r)
  BY DEF IInv
<1>3. Stage' = Stage
  BY DEF Stage, vars
<1>4. Together(r)' /\ Promised(r)'
  BY <1>2, <1>3 DEF Together, Promised, vars
<1>5. QED BY <1>1, <1>4 DEF IInv

(* Every step of the algorithm keeps the invariant.                        *)
LEMMA NextInv == ASSUME Keyed, IInv, [Next]_vars PROVE IInv'
  BY CallInv, DecideInv, StutterInv DEF Next

-----------------------------------------------------------------------------
(* The results, for whatever points, limits of the loops and storage.      *)

(* Every variable has its type (of the pair of functions the objective),   *)
(* and the loops of accept() keep to their limits.                         *)
THEOREM TypeCorrect == ASSUME Keyed PROVE Spec => []TypeOK
<1>1. Init => IInv
  BY InitInv
<1>2. IInv /\ [Next]_vars => IInv'
  BY NextInv
<1>3. IInv => TypeOK
  BY DEF IInv, Basis
<1>4. QED BY <1>1, <1>2, <1>3, PTL DEF Spec

(* As long as the tries have not ended in Recompute, every answer of the   *)
(* objective and of the constraint is of the point it was asked for, but   *)
(* in a repeated projection: updates told to the two one after the other,  *)
(* and answers in between, never mix the points of one with those of the   *)
(* other, whether or not they share the solutions of the state equation,   *)
(* and whether or not the inner problem keeps what it assembles.           *)
THEOREM AnswersInStep ==
  ASSUME Keyed PROVE Spec => []StaleOnlyWhenRepeated
<1>1. Init => IInv
  BY InitInv
<1>2. IInv /\ [Next]_vars => IInv'
  BY NextInv
<1>3. IInv => StaleOnlyWhenRepeated
  BY DEF IInv, Promised, StaleOnlyWhenRepeated
<1>4. QED BY <1>1, <1>2, <1>3, PTL DEF Spec

(* The point updateRadius accepts is the one both functions were last told *)
(* as a trial.                                                             *)
THEOREM TrialAccepted ==
  ASSUME Keyed PROVE Spec => AcceptsTheTrial
<1>1. Init => IInv
  BY InitInv
<1>2. IInv /\ [Next]_vars => IInv'
  BY NextInv
<1>3. IInv /\ [Next]_vars => [Accept /\ ~gaveUp => fns.o.cand = x' /\ fns.c.cand = x']_vars
  <2>1. SUFFICES ASSUME IInv, Accept, ~gaveUp
                 PROVE  fns.o.cand = x' /\ fns.c.cand = x'
    OBVIOUS
  <2>2. PICK r : Together(r) /\ Promised(r)
    BY <2>1 DEF IInv
  <2>3. /\ Stage.pc = "radius" /\ Stage.xtrial = xtrial /\ x' = xtrial /\ todo = <<>>
    BY <2>1 DEF Accept, Begin, Stage
  <2>4. PICK y, w : Alike(fns.o, y) /\ Alike(r, w) /\ Safe(Stage, y, w, <<>>)
    BY <2>1, <2>2, <2>3 DEF Promised
  <2>5. BothInOrder(y, w) /\ Stands(Stage, y)
    BY <2>4, Settled
  <2>6. y.cand = xtrial /\ w.cand = xtrial
    BY <2>3, <2>5 DEF Stands, BothInOrder, SamePoints
  <2>7. fns.o.cand = y.cand /\ r.cand = w.cand
    BY <2>2, <2>4, AlikeParts DEF Together
  <2>8. fns.c.cand = r.cand
    BY <2>2 DEF Together, Twin, SameAnswers
  <2>9. QED BY <2>3, <2>6, <2>7, <2>8
<1>4. QED BY <1>1, <1>2, <1>3, PTL DEF Spec, AcceptsTheTrial


-----------------------------------------------------------------------------
(* Why the method ends: every step goes on in an order that has no         *)
(* infinite ascent, as TypeOK bounds iter, ct and pass.  Fairness is not   *)
(* needed for this; it says that a next step is taken at all.              *)

(* Of an iteration, what comes after the status test, its loops, and the   *)
(* decision; and of a pass, the halves and the tests.                      *)
Phase ==
  CASE pc = "start" -> 3
    [] pc = "check" -> 2
    [] pc \in {"project", "try", "again", "fit"} -> 1
    [] pc \in {"radius", "done"} -> 0

Position ==
  CASE pc = "project" -> 3
    [] pc = "try" -> 2
    [] pc = "again" -> 1
    [] pc \in {"start", "check", "fit", "radius", "done"} -> 0

GoesOn ==
  \/ iter' > iter
  \/ iter' = iter /\ Phase' < Phase
  \/ UNCHANGED <<iter, Phase>> /\ ct' > ct
  \/ UNCHANGED <<iter, Phase, ct>> /\ pass' > pass
  \/ UNCHANGED <<iter, Phase, ct, pass>> /\ Position' < Position
  \/ UNCHANGED <<iter, Phase, ct, pass, Position>> /\ Len(todo') < Len(todo)

(* The decisions, and the calls between them.                              *)
LEMMA StepGoesOn == ASSUME Basis, Next PROVE GoesOn
<1>1. /\ iter \in Nat /\ ct \in Nat /\ pass \in Nat /\ MaxPasses \in Nat /\ MaxTries \in Nat
      /\ pc \in {"start", "check", "project", "try", "again", "fit", "radius", "done"}
      /\ todo \in Seq(Calls)
  BY CompositeAssumption DEF Basis, TypeOK
<1>2. CASE MakeCall
  <2>1. /\ todo # <<>> /\ todo' = Tail(todo)
        /\ UNCHANGED <<pc, pass, ct, iter>>
    BY <1>2 DEF MakeCall, Returns
  <2>2. Len(todo') < Len(todo)
    BY <1>1, <2>1
  <2>3. UNCHANGED <<iter, Phase, ct, pass, Position>>
    BY <2>1 DEF Phase, Position
  <2>4. QED BY <2>2, <2>3 DEF GoesOn
<1>3. CASE Initialize
  <2>1. pc = "start" /\ pc' = "check" /\ iter' = iter
    BY ZenonT(30), <1>3 DEF Initialize
  <2>2. Phase = 3 /\ Phase' = 2
    BY <2>1 DEF Phase
  <2>3. QED BY <2>1, <2>2 DEF GoesOn
<1>4. CASE Stop
  <2>1. pc = "check" /\ pc' = "done" /\ iter' = iter
    BY <1>4 DEF Stop
  <2>2. Phase = 2 /\ Phase' = 0
    BY <2>1 DEF Phase
  <2>3. QED BY <2>1, <2>2 DEF GoesOn
<1>5. CASE ComputeTrial
  <2>1. pc = "check" /\ pc' = "project" /\ iter' = iter
    BY ZenonT(30), <1>5 DEF ComputeTrial
  <2>2. Phase = 2 /\ Phase' = 1
    BY <2>1 DEF Phase
  <2>3. QED BY <2>1, <2>2 DEF GoesOn
<1>6. CASE Project
  <2>1. pc = "project" /\ pc' = "try" /\ UNCHANGED <<iter, ct, pass>>
    BY ZenonT(30), <1>6 DEF Project
  <2>2. Phase = 1 /\ Phase' = 1 /\ Position = 3 /\ Position' = 2
    BY <2>1 DEF Phase, Position
  <2>3. QED BY <2>1, <2>2 DEF GoesOn
<1>7. CASE TryStep
  BY <1>7 DEF TryStep, GoesOn, Phase, Position
<1>8. CASE ProjectAgain
  BY <1>1, <1>8 DEF ProjectAgain, GoesOn, Phase
<1>9. CASE Projected
  BY <1>9 DEF Projected, GoesOn, Phase, Position
<1>10. CASE Fits
  BY <1>10 DEF Fits, GoesOn, Phase
<1>11. CASE TryCauchy \/ Recompute
  <2>1. pc = "fit" /\ NextTry /\ iter' = iter
    BY <1>11 DEF TryCauchy, Recompute
  <2>2. \/ pc' = "project" /\ ct' = ct + 1
        \/ pc' = "radius"
    BY <2>1 DEF NextTry
  <2>3. QED BY <1>1, <2>1, <2>2 DEF GoesOn, Phase
<1>12. CASE Accept \/ Reject
  <2>1. iter' = iter + 1
    BY <1>12 DEF Accept, Reject
  <2>2. QED BY <1>1, <2>1 DEF GoesOn
<1>13. QED
  BY <1>2, <1>3, <1>4, <1>5, <1>6, <1>7, <1>8, <1>9, <1>10, <1>11, <1>12 DEF Next, Decide

(* The loops of accept() and of run() make progress with every step, for   *)
(* whatever limits: what Terminates needs besides fairness.                *)
THEOREM LoopsGoOn == ASSUME Keyed PROVE Spec => [][GoesOn]_vars
<1>1. Init => IInv
  BY InitInv
<1>2. IInv /\ [Next]_vars => IInv'
  BY NextInv
<1>3. IInv /\ [Next]_vars => [GoesOn]_vars
  BY StepGoesOn DEF IInv
<1>4. QED BY <1>1, <1>2, <1>3, PTL DEF Spec
=============================================================================
