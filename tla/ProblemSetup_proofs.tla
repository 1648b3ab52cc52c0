------------------------- MODULE ProblemSetup_proofs -------------------------
(***************************************************************************)
(* Proofs about a Problem that is built, edited and finalized, for every   *)
(* set of names of constraints and groups.                                 *)
(***************************************************************************)
EXTENDS ProblemSetup, FiniteSetTheorems, TLAPS

-----------------------------------------------------------------------------
(* Counting the constraints of a kind.                                     *)

(* The constraints of a kind can be counted.                               *)
LEMMA CountType ==
  ASSUME NEW map, NEW k
  PROVE  IsFiniteSet(OfKind(map, k)) /\ Cardinality(OfKind(map, k)) \in Nat
<1>1. IsFiniteSet(Names)
  BY ProblemAssumption, FS_Subset
<1>2. OfKind(map, k) \subseteq Names
  BY DEF OfKind
<1> QED BY <1>1, <1>2, FS_Subset, FS_CardinalityType

(* No constraint is of a kind just then when the count is zero.            *)
LEMMA CountZero ==
  ASSUME NEW map, NEW k
  PROVE  Cardinality(OfKind(map, k)) > 0 <=> \E n \in Names : map[n] = k
<1>1. Cardinality(OfKind(map, k)) = 0 <=> OfKind(map, k) = {}
  BY CountType, FS_EmptySet
<1>2. OfKind(map, k) = {} <=> ~\E n \in Names : map[n] = k
  BY DEF OfKind
<1> QED BY <1>1, <1>2, CountType

(* Adding a constraint under a free name raises the count of its kind.     *)
LEMMA CountPut ==
  ASSUME NEW map \in [Names -> Kind], NEW n \in Names, map[n] = "none",
         NEW k \in {"eq", "ineq"}, NEW j \in {"eq", "ineq"}
  PROVE  Cardinality(OfKind([map EXCEPT ![n] = k], j))
           = IF j = k THEN Cardinality(OfKind(map, j)) + 1
                      ELSE Cardinality(OfKind(map, j))
<1> DEFINE new == [map EXCEPT ![n] = k]
<1>1. CASE j = k
  <2>1. OfKind(new, j) = OfKind(map, j) \cup {n} /\ n \notin OfKind(map, j)
    BY <1>1 DEF OfKind
  <2> QED BY <1>1, <2>1, CountType, FS_AddElement
<1>2. CASE j # k
  <2>1. OfKind(new, j) = OfKind(map, j)
    BY <1>2 DEF OfKind
  <2> QED BY <1>2, <2>1
<1> QED BY <1>1, <1>2

(* Removing a name lowers the count of the kind it had.                    *)
LEMMA CountDrop ==
  ASSUME NEW map \in [Names -> Kind], NEW n \in Names, NEW j \in {"eq", "ineq"}
  PROVE  /\ Cardinality(OfKind([map EXCEPT ![n] = "none"], j))
              = IF j = map[n] THEN Cardinality(OfKind(map, j)) - 1
                              ELSE Cardinality(OfKind(map, j))
         /\ j = map[n] => Cardinality(OfKind(map, j)) > 0
<1> DEFINE new == [map EXCEPT ![n] = "none"]
<1>1. CASE j = map[n]
  <2>1. OfKind(new, j) = OfKind(map, j) \ {n} /\ n \in OfKind(map, j)
    BY <1>1 DEF OfKind
  <2> QED BY <1>1, <2>1, CountType, FS_RemoveElement, CountZero
<1>2. CASE j # map[n]
  <2>1. OfKind(new, j) = OfKind(map, j)
    BY <1>2 DEF OfKind
  <2> QED BY <1>2, <2>1
<1> QED BY <1>1, <1>2

-----------------------------------------------------------------------------
(* Types, flags and counters.                                              *)

(* Putting linear constraints together with the others leaves flags.       *)
LEMMA LumpedType ==
  ASSUME has \in [Flag -> BOOLEAN], NEW lump \in BOOLEAN
  PROVE  Lumped(lump) \in [Flag -> BOOLEAN]
  BY DEF Lumped, Flag

(* What finalize makes with slack variables is well typed.                 *)
LEMMA TransformType ==
  ASSUME NEW h \in [Flag -> BOOLEAN], NEW C \in SUBSET Names, NEW L \in SUBSET Names,
         built \in Built
  PROVE  Transform(h, C, L) \in Built /\ Transform(h, C, L).form = "slack"
<1> DEFINE general == h["eq"] \/ h["ineq"]
           linear  == h["leq"] \/ h["lineq"]
           T       == Transform(h, C, L)
<1>0. /\ NeedsSlack(con, lcon, C) \in BOOLEAN /\ NeedsSlack(con, lcon, C \cup L) \in BOOLEAN
      /\ \A f \in Flag : h[f] \in BOOLEAN
      /\ built.reduced \in SUBSET Names /\ built.projected \in SUBSET Names
  BY DEF NeedsSlack, Built
<1>1. CASE h["prox"]
  BY <1>0, <1>1 DEF Transform, Nothing, Built, Flag
<1>2. CASE ~h["prox"] /\ ~linear /\ ~general /\ ~h["bnd"]
  BY <1>0, <1>2 DEF Transform, Nothing, Built, Flag
<1>3. CASE ~h["prox"] /\ ~linear /\ ~general /\ h["bnd"]
  BY <1>0, <1>3 DEF Transform, Nothing, Built, Flag
<1>4. CASE ~h["prox"] /\ ~linear /\ h["eq"] /\ ~h["ineq"] /\ ~h["bnd"]
  BY <1>0, <1>4 DEF Transform, Nothing, Built, Flag
<1>5. CASE ~h["prox"] /\ ~linear /\ general /\ (h["ineq"] \/ h["bnd"])
  BY <1>0, <1>5 DEF Transform, Nothing, Built, Flag
<1>6. CASE ~h["prox"] /\ linear /\ MayReduce(h)
  BY <1>0, <1>6 DEF Transform, Nothing, Built, Flag, MayReduce
<1>7. CASE ~h["prox"] /\ linear /\ ~MayReduce(h)
  BY <1>0, <1>7 DEF Transform, Nothing, Built, Flag, MayReduce
<1> QED BY <1>1, <1>2, <1>3, <1>4, <1>5, <1>6, <1>7

(* The invariant: no constraint is in two groups, so that removing a group *)
(* takes out of the set of grouped names what is in no other group.        *)
GroupsApart == \A g, h \in Groups : g # h => groups[g] \cap groups[h] = {}

Records == TypeOK /\ RecordsAgree /\ GroupsApart

(* Flags f and counters m tell what the containers c and l hold.           *)
CountsAgree(c, l, f, m) ==
  /\ \A k \in {"eq", "ineq"} : /\ m[k] = Cardinality(OfKind(c, k))
                              /\ m[Linear(k)] = Cardinality(OfKind(l, k))
  /\ \A k \in Counter : f[k] <=> m[k] > 0

CountsType(c, l, f, m) ==
  /\ c \in [Names -> Kind] /\ l \in [Names -> Kind] /\ f \in [Flag -> BOOLEAN]
  /\ m \in [Counter -> 0 .. MaxCount]

(* What Records says, conjunct by conjunct.                                 *)
LEMMA RecordsMeans ==
  Records <=> /\ CountsType(con, lcon, has, cnt) /\ CountsAgree(con, lcon, has, cnt)
              /\ pcon \subseteq Names /\ groups \in [Groups -> SUBSET Names]
              /\ grouped \subseteq Names
              /\ grouped = Penalized /\ GroupsApart
              /\ eqs \in [Names -> Nat] /\ linearEqs \in [Names -> Nat]
              /\ isFinalized \in BOOLEAN /\ built \in Built
              /\ asked.state \in {"no", "refused", "given"}
              /\ asked.bounds \in {"none", "penalized", "kept"}
  BY DEF Records, TypeOK, RecordsAgree, CountsAgree, CountsType

(* Adding under a free name keeps counters and flags in step.              *)
LEMMA PutCounts ==
  ASSUME NEW c, NEW l, NEW f, NEW m, CountsType(c, l, f, m), CountsAgree(c, l, f, m),
         NEW n \in Names, c[n] = "none", NEW k \in {"eq", "ineq"}, m[k] < MaxCount
  PROVE  LET cc == [c EXCEPT ![n] = k]
             ff == [f EXCEPT ![k] = TRUE]
             mm == [m EXCEPT ![k] = @ + 1]
         IN CountsType(cc, l, ff, mm) /\ CountsAgree(cc, l, ff, mm)
<1> DEFINE cc == [c EXCEPT ![n] = k]
           ff == [f EXCEPT ![k] = TRUE]
           mm == [m EXCEPT ![k] = @ + 1]
<1>0. /\ c \in [Names -> Kind] /\ f \in [Flag -> BOOLEAN] /\ m \in [Counter -> 0 .. MaxCount]
      /\ MaxCount \in Nat /\ l \in [Names -> Kind]
  BY ProblemAssumption DEF CountsType
<1>1. CountsType(cc, l, ff, mm)
  BY <1>0 DEF CountsType, Kind, Flag, Counter
<1>2. \A j \in {"eq", "ineq"} : mm[j] = Cardinality(OfKind(cc, j))
  <2> TAKE j \in {"eq", "ineq"}
  <2>1. Cardinality(OfKind(cc, j))
          = IF j = k THEN Cardinality(OfKind(c, j)) + 1 ELSE Cardinality(OfKind(c, j))
    BY <1>0, CountPut
  <2>2. m[j] = Cardinality(OfKind(c, j))
    BY DEF CountsAgree
  <2>3. mm[j] = IF j = k THEN m[j] + 1 ELSE m[j]
    BY <1>0 DEF Counter
  <2> QED BY <2>1, <2>2, <2>3
<1>3. \A j \in {"eq", "ineq"} : mm[Linear(j)] = Cardinality(OfKind(l, j))
  BY <1>0 DEF CountsAgree, Linear, Counter
<1>4. \A j \in Counter : ff[j] <=> mm[j] > 0
  BY <1>0 DEF CountsAgree, Counter, Flag
<1> QED BY <1>1, <1>2, <1>3, <1>4 DEF CountsAgree

(* So does adding a linear constraint under a free name.                    *)
LEMMA PutLinearCounts ==
  ASSUME NEW c, NEW l, NEW f, NEW m, CountsType(c, l, f, m), CountsAgree(c, l, f, m),
         NEW n \in Names, l[n] = "none", NEW k \in {"eq", "ineq"}, m[Linear(k)] < MaxCount
  PROVE  LET ll == [l EXCEPT ![n] = k]
             ff == [f EXCEPT ![Linear(k)] = TRUE]
             mm == [m EXCEPT ![Linear(k)] = @ + 1]
         IN CountsType(c, ll, ff, mm) /\ CountsAgree(c, ll, ff, mm)
<1> DEFINE ll == [l EXCEPT ![n] = k]
           ff == [f EXCEPT ![Linear(k)] = TRUE]
           mm == [m EXCEPT ![Linear(k)] = @ + 1]
<1>0. /\ c \in [Names -> Kind] /\ f \in [Flag -> BOOLEAN] /\ m \in [Counter -> 0 .. MaxCount]
      /\ MaxCount \in Nat /\ l \in [Names -> Kind]
  BY ProblemAssumption DEF CountsType
<1>1. CountsType(c, ll, ff, mm)
  BY <1>0 DEF CountsType, Kind, Flag, Counter, Linear
<1>2. \A j \in {"eq", "ineq"} : mm[Linear(j)] = Cardinality(OfKind(ll, j))
  <2> TAKE j \in {"eq", "ineq"}
  <2>1. Cardinality(OfKind(ll, j))
          = IF j = k THEN Cardinality(OfKind(l, j)) + 1 ELSE Cardinality(OfKind(l, j))
    BY <1>0, CountPut
  <2>2. m[Linear(j)] = Cardinality(OfKind(l, j))
    BY DEF CountsAgree
  <2>3. mm[Linear(j)] = IF j = k THEN m[Linear(j)] + 1 ELSE m[Linear(j)]
    BY <1>0 DEF Counter, Linear
  <2> QED BY <2>1, <2>2, <2>3
<1>3. \A j \in {"eq", "ineq"} : mm[j] = Cardinality(OfKind(c, j))
  BY <1>0 DEF CountsAgree, Linear, Counter
<1>4. \A j \in Counter : ff[j] <=> mm[j] > 0
  BY <1>0 DEF CountsAgree, Counter, Flag, Linear
<1> QED BY <1>1, <1>2, <1>3, <1>4 DEF CountsAgree

-----------------------------------------------------------------------------
(* Every action keeps the invariant.                                       *)

(* All that is not about names stays.                                      *)
LEMMA GroupsStay ==
  ASSUME Records, UNCHANGED <<groups, grouped>>
  PROVE  groups' \in [Groups -> SUBSET Names] /\ grouped' = Penalized' /\ GroupsApart'
  BY DEF Records, TypeOK, RecordsAgree, GroupsApart, Penalized

(* A change of names alone keeps the invariant if it keeps the counts.     *)
LEMMA NamesKeepRecords ==
  ASSUME Records, UNCHANGED <<groupVars, madeVars>>, pcon' \subseteq Names,
         CountsType(con', lcon', has', cnt'), CountsAgree(con', lcon', has', cnt')
  PROVE  Records'
<1>1. groups' \in [Groups -> SUBSET Names] /\ grouped' = Penalized' /\ GroupsApart'
  BY GroupsStay DEF groupVars
<1>2. TypeOK'
  BY <1>1 DEF Records, TypeOK, CountsType, groupVars, madeVars
<1>3. RecordsAgree'
  BY <1>1 DEF RecordsAgree, CountsAgree
<1> QED BY <1>1, <1>2, <1>3 DEF Records

(* In a state that satisfies Records the counters are the counts.           *)
LEMMA CountsNow ==
  ASSUME Records
  PROVE  /\ CountsType(con, lcon, has, cnt) /\ CountsAgree(con, lcon, has, cnt)
         /\ pcon \subseteq Names
  BY RecordsMeans

(* addConstraint, for equalities and inequalities, keeps the records.       *)
LEMMA AddKeeps ==
  ASSUME Records, Resets \subseteq {FALSE},
         NEW n \in Names, NEW k \in {"eq", "ineq"}, NEW r \in Resets,
         AddConstraint(n, k, r)
  PROVE  Records'
<1>1. /\ ~r /\ cnt[k] < MaxCount /\ UNCHANGED <<lcon, pcon, groupVars, madeVars>>
  BY DEF AddConstraint
<1>2. CASE Used(n, con, lcon, pcon)
  <2>1. con' = con /\ has' = has /\ cnt' = cnt
    BY <1>1, <1>2 DEF AddConstraint
  <2> QED BY <1>1, <2>1, CountsNow, NamesKeepRecords
<1>3. CASE ~Used(n, con, lcon, pcon)
  <2>1. /\ con[n] = "none" /\ con' = [con EXCEPT ![n] = k]
        /\ has' = [has EXCEPT ![k] = TRUE] /\ cnt' = [cnt EXCEPT ![k] = @ + 1]
    BY <1>1, <1>3 DEF AddConstraint, Used
  <2>2. CountsType(con', lcon, has', cnt') /\ CountsAgree(con', lcon, has', cnt')
    BY <1>1, <2>1, CountsNow, PutCounts
  <2> QED BY <1>1, <2>2, CountsNow, NamesKeepRecords
<1> QED BY <1>2, <1>3

(* addConstraint with a projection operator keeps the records.              *)
LEMMA AddProjectedKeeps ==
  ASSUME Records, Resets \subseteq {FALSE},
         NEW n \in Names, NEW null \in BOOLEAN, NEW r \in Resets,
         AddProjectedConstraint(n, null, r)
  PROVE  Records'
<1>1. /\ ~r /\ cnt["eq"] < MaxCount /\ UNCHANGED <<lcon, groupVars, madeVars>>
  BY DEF AddProjectedConstraint
<1>2. CASE Used(n, con, lcon, pcon) \/ ~null
  <2>1. con' = con /\ has' = has /\ cnt' = cnt /\ pcon' \subseteq Names
    BY <1>1, <1>2, CountsNow DEF AddProjectedConstraint
  <2> QED BY <1>1, <2>1, CountsNow, NamesKeepRecords
<1>3. CASE ~(Used(n, con, lcon, pcon) \/ ~null)
  <2>1. /\ con[n] = "none" /\ con' = [con EXCEPT ![n] = "eq"] /\ pcon' = pcon
        /\ has' = [has EXCEPT !["eq"] = TRUE] /\ cnt' = [cnt EXCEPT !["eq"] = @ + 1]
    BY <1>1, <1>3 DEF AddProjectedConstraint, Used
  <2>2. CountsType(con', lcon, has', cnt') /\ CountsAgree(con', lcon, has', cnt')
    BY <1>1, <2>1, CountsNow, PutCounts
  <2> QED BY <1>1, <2>1, <2>2, CountsNow, NamesKeepRecords
<1> QED BY <1>2, <1>3

(* addLinearConstraint keeps the records.                                   *)
LEMMA AddLinearKeeps ==
  ASSUME Records, Resets \subseteq {FALSE},
         NEW n \in Names, NEW k \in {"eq", "ineq"}, NEW r \in Resets,
         AddLinearConstraint(n, k, r)
  PROVE  Records'
<1>1. /\ ~r /\ cnt[Linear(k)] < MaxCount /\ UNCHANGED <<con, pcon, groupVars, madeVars>>
  BY DEF AddLinearConstraint
<1>2. CASE Used(n, con, lcon, pcon)
  <2>1. lcon' = lcon /\ has' = has /\ cnt' = cnt
    BY <1>1, <1>2 DEF AddLinearConstraint
  <2> QED BY <1>1, <2>1, CountsNow, NamesKeepRecords
<1>3. CASE ~Used(n, con, lcon, pcon)
  <2>1. /\ lcon[n] = "none" /\ lcon' = [lcon EXCEPT ![n] = k]
        /\ has' = [has EXCEPT ![Linear(k)] = TRUE]
        /\ cnt' = [cnt EXCEPT ![Linear(k)] = @ + 1]
    BY <1>1, <1>3 DEF AddLinearConstraint, Used
  <2>2. CountsType(con, lcon', has', cnt') /\ CountsAgree(con, lcon', has', cnt')
    BY <1>1, <2>1, CountsNow, PutLinearCounts
  <2> QED BY <1>1, <2>2, CountsNow, NamesKeepRecords
<1> QED BY <1>2, <1>3

(* Removing a name, whether it is there or not, keeps them in step.        *)
LEMMA RemoveKeeps ==
  ASSUME Records, NEW n \in Names, RemoveConstraint(n)
  PROVE  Records'
<1>1. UNCHANGED <<lcon, groupVars, madeVars>> /\ pcon' \subseteq Names
  BY CountsNow DEF RemoveConstraint
<1>2. /\ con' = [con EXCEPT ![n] = "none"]
      /\ cnt' = [k \in Counter |-> IF k = con[n] THEN cnt[k] - 1 ELSE cnt[k]]
      /\ has' = [has EXCEPT !["eq"] = @ /\ cnt'["eq"] # 0, !["ineq"] = @ /\ cnt'["ineq"] # 0]
  BY Zenon DEF RemoveConstraint
<1>3. /\ con \in [Names -> Kind] /\ lcon \in [Names -> Kind] /\ has \in [Flag -> BOOLEAN]
      /\ cnt \in [Counter -> 0 .. MaxCount] /\ MaxCount \in Nat
  BY CountsNow, ProblemAssumption DEF CountsType
<1>4. /\ has' \in [Flag -> BOOLEAN]
      /\ \A k \in {"eq", "ineq"} : has'[k] <=> has[k] /\ cnt'[k] # 0
      /\ \A k \in {"leq", "lineq"} : has'[k] <=> has[k]
  BY <1>2, <1>3 DEF Flag
<1>5. \A k \in {"eq", "ineq"} : /\ cnt'[k] = Cardinality(OfKind(con', k))
                               /\ cnt'[k] \in 0 .. cnt[k] /\ cnt[k] \in 0 .. MaxCount
  <2> TAKE k \in {"eq", "ineq"}
  <2>1. /\ Cardinality(OfKind(con', k)) = IF k = con[n] THEN Cardinality(OfKind(con, k)) - 1
                                          ELSE Cardinality(OfKind(con, k))
        /\ k = con[n] => Cardinality(OfKind(con, k)) > 0
    BY <1>2, <1>3, CountDrop
  <2>2. cnt[k] = Cardinality(OfKind(con, k)) /\ cnt[k] \in 0 .. MaxCount
    BY <1>3, CountsNow DEF CountsAgree, Counter
  <2>3. cnt'[k] = IF k = con[n] THEN cnt[k] - 1 ELSE cnt[k]
    BY <1>2 DEF Counter
  <2> QED BY <1>3, <2>1, <2>2, <2>3
<1>6. \A k \in {"eq", "ineq"} : cnt'[Linear(k)] = cnt[Linear(k)] /\ cnt[Linear(k)] \in 0 .. MaxCount
  BY <1>2, <1>3 DEF Counter, Linear, Kind
<1>7. CountsType(con', lcon', has', cnt')
  <2>1. con' \in [Names -> Kind] /\ lcon' \in [Names -> Kind]
    BY <1>1, <1>2, <1>3 DEF Kind
  <2>2. cnt' \in [Counter -> 0 .. MaxCount]
    BY <1>2, <1>3, <1>5, <1>6 DEF Counter, Linear
  <2> QED BY <1>4, <2>1, <2>2 DEF CountsType
<1>8. \A k \in Counter : has'[k] <=> cnt'[k] > 0
  <2>1. \A k \in Counter : has[k] <=> cnt[k] > 0
    BY CountsNow DEF CountsAgree
  <2>2. \A k \in {"eq", "ineq"} : cnt'[k] > 0 <=> cnt[k] > 0 /\ cnt'[k] # 0
    BY <1>3, <1>5
  <2>3. \A k \in {"leq", "lineq"} : cnt'[k] > 0 <=> cnt[k] > 0
    BY <1>6 DEF Linear
  <2> QED BY <1>4, <2>1, <2>2, <2>3, Zenon DEF Counter
<1>9. CountsAgree(con', lcon', has', cnt')
  BY <1>1, <1>5, <1>6, <1>8, CountsNow DEF CountsAgree
<1> QED BY <1>1, <1>7, <1>9, NamesKeepRecords

(* removeLinearConstraint keeps them in step as well.                       *)
LEMMA RemoveLinearKeeps ==
  ASSUME Records, NEW n \in Names, RemoveLinearConstraint(n)
  PROVE  Records'
<1>1. UNCHANGED <<con, pcon, groupVars, madeVars>>
  BY DEF RemoveLinearConstraint
<1>2. /\ lcon' = [lcon EXCEPT ![n] = "none"]
      /\ cnt' = [k \in Counter |->
                  IF lcon[n] # "none" /\ k = Linear(lcon[n]) THEN cnt[k] - 1 ELSE cnt[k]]
      /\ has' = [has EXCEPT !["leq"] = @ /\ cnt'["leq"] # 0,
                            !["lineq"] = @ /\ cnt'["lineq"] # 0]
  BY Zenon DEF RemoveLinearConstraint
<1>3. /\ con \in [Names -> Kind] /\ lcon \in [Names -> Kind] /\ has \in [Flag -> BOOLEAN]
      /\ cnt \in [Counter -> 0 .. MaxCount] /\ MaxCount \in Nat
  BY CountsNow, ProblemAssumption DEF CountsType
<1>4. /\ has' \in [Flag -> BOOLEAN]
      /\ \A k \in {"leq", "lineq"} : has'[k] <=> has[k] /\ cnt'[k] # 0
      /\ \A k \in {"eq", "ineq"} : has'[k] <=> has[k]
  BY <1>2, <1>3 DEF Flag
<1>5. \A k \in {"eq", "ineq"} : /\ cnt'[Linear(k)] = Cardinality(OfKind(lcon', k))
                               /\ cnt'[Linear(k)] \in 0 .. cnt[Linear(k)]
                               /\ cnt[Linear(k)] \in 0 .. MaxCount
  <2> TAKE k \in {"eq", "ineq"}
  <2>1. /\ Cardinality(OfKind(lcon', k)) = IF k = lcon[n] THEN Cardinality(OfKind(lcon, k)) - 1
                                           ELSE Cardinality(OfKind(lcon, k))
        /\ k = lcon[n] => Cardinality(OfKind(lcon, k)) > 0
    BY <1>2, <1>3, CountDrop
  <2>2. cnt[Linear(k)] = Cardinality(OfKind(lcon, k)) /\ cnt[Linear(k)] \in 0 .. MaxCount
    BY <1>3, CountsNow DEF CountsAgree, Counter, Linear
  <2>3. cnt'[Linear(k)] = IF k = lcon[n] THEN cnt[Linear(k)] - 1 ELSE cnt[Linear(k)]
    <3>1. lcon[n] \in Kind
      BY <1>3
    <3> QED BY <1>2, <3>1 DEF Counter, Linear, Kind
  <2> QED BY <1>3, <2>1, <2>2, <2>3
<1>6. \A k \in {"eq", "ineq"} : cnt'[k] = cnt[k] /\ cnt[k] \in 0 .. MaxCount
  BY <1>2, <1>3 DEF Counter, Linear
<1>7. CountsType(con', lcon', has', cnt')
  <2>1. con' \in [Names -> Kind] /\ lcon' \in [Names -> Kind]
    BY <1>1, <1>2, <1>3 DEF Kind
  <2>2. cnt' \in [Counter -> 0 .. MaxCount]
    BY <1>2, <1>3, <1>5, <1>6 DEF Counter, Linear
  <2> QED BY <1>4, <2>1, <2>2 DEF CountsType
<1>8. \A k \in Counter : has'[k] <=> cnt'[k] > 0
  <2>1. \A k \in Counter : has[k] <=> cnt[k] > 0
    BY CountsNow DEF CountsAgree
  <2>2. \A k \in {"leq", "lineq"} : cnt'[k] > 0 <=> cnt[k] > 0 /\ cnt'[k] # 0
    BY <1>3, <1>5 DEF Linear
  <2>3. \A k \in {"eq", "ineq"} : cnt'[k] > 0 <=> cnt[k] > 0
    BY <1>6
  <2> QED BY <1>4, <2>1, <2>2, <2>3, Zenon DEF Counter
<1>9. CountsAgree(con', lcon', has', cnt')
  BY <1>1, <1>5, <1>6, <1>8, CountsNow DEF CountsAgree
<1> QED BY <1>1, <1>7, <1>9, CountsNow, NamesKeepRecords

(* Every addition and removal keeps the records.                            *)
LEMMA AddOrRemoveKeeps ==
  ASSUME Records, NEW f \in {"bnd", "prox"}, AddOrRemove(f)
  PROVE  Records'
<1>1. UNCHANGED <<con, lcon, pcon, cnt, groupVars, madeVars>>
  BY DEF AddOrRemove
<1>2. CountsType(con, lcon, has', cnt)
  BY CountsNow DEF CountsType, AddOrRemove, Flag
<1>3. \A c \in Counter : has'[c] = has[c]
  BY CountsNow DEF CountsType, AddOrRemove, Flag, Counter
<1>4. CountsAgree(con, lcon, has', cnt)
  BY <1>3, CountsNow DEF CountsAgree
<1> QED BY <1>1, <1>2, <1>4, CountsNow, NamesKeepRecords

(* A change of groups alone keeps the invariant if they stay apart.        *)
LEMMA GroupsKeepRecords ==
  ASSUME Records, UNCHANGED <<con, lcon, pcon, has, cnt, asked>>,
         groups' \in [Groups -> SUBSET Names], grouped' = Penalized', GroupsApart',
         eqs' \in [Names -> Nat], linearEqs' \in [Names -> Nat],
         isFinalized' \in BOOLEAN, built' \in Built
  PROVE  Records'
<1>1. grouped' \subseteq Names
  BY DEF Penalized
<1>2. RecordsAgree'
  BY DEF Records, RecordsAgree
<1> QED BY <1>1, <1>2 DEF Records, TypeOK

(* Grouped names enter one group.                                          *)
LEMMA AddGroupKeeps ==
  ASSUME Records, NEW g \in Groups, NEW names \in SUBSET Names \ {{}},
         AddConstraintGroup(g, names)
  PROVE  Records'
<1>1. /\ groups \in [Groups -> SUBSET Names] /\ grouped = Penalized /\ GroupsApart
      /\ eqs \in [Names -> Nat] /\ linearEqs \in [Names -> Nat]
      /\ isFinalized \in BOOLEAN /\ built \in Built
  BY RecordsMeans
<1>2. /\ names \cap grouped = {} /\ grouped' = grouped \cup names
      /\ groups' = [groups EXCEPT ![g] = @ \cup names]
      /\ UNCHANGED <<con, lcon, pcon, has, cnt, eqs, linearEqs, madeVars>>
  BY DEF AddConstraintGroup
<1>3. groups' \in [Groups -> SUBSET Names]
  BY <1>1, <1>2
<1>4. grouped' = Penalized'
  BY <1>1, <1>2 DEF Penalized
<1>5. GroupsApart'
  BY <1>1, <1>2 DEF Penalized, GroupsApart
<1> QED BY <1>1, <1>2, <1>3, <1>4, <1>5, GroupsKeepRecords DEF madeVars

(* The names of a removed group are in no other.                           *)
LEMMA RemoveGroupKeeps ==
  ASSUME Records, NEW g \in Groups, RemoveConstraintGroup(g)
  PROVE  Records'
<1>1. /\ groups \in [Groups -> SUBSET Names] /\ grouped = Penalized /\ GroupsApart
      /\ eqs \in [Names -> Nat] /\ linearEqs \in [Names -> Nat]
      /\ isFinalized \in BOOLEAN /\ built \in Built
  BY RecordsMeans
<1>2. /\ grouped' = grouped \ groups[g] /\ groups' = [groups EXCEPT ![g] = {}]
      /\ UNCHANGED <<con, lcon, pcon, has, cnt, eqs, linearEqs, madeVars>>
  BY DEF RemoveConstraintGroup
<1>3. groups' \in [Groups -> SUBSET Names]
  BY <1>1, <1>2
<1>4. grouped' = Penalized'
  <2>1. \A h \in Groups : groups'[h] = groups[h] \ groups[g]
    BY <1>1, <1>2 DEF GroupsApart
  <2> QED BY <1>1, <1>2, <2>1 DEF Penalized
<1>5. GroupsApart'
  BY <1>1, <1>2 DEF GroupsApart
<1> QED BY <1>1, <1>2, <1>3, <1>4, <1>5, GroupsKeepRecords DEF madeVars

(* A constraint that finalize gives a group of its own was in none.        *)
LEMMA FinalizeGroupsKeeps ==
  ASSUME Records, FinalizeIntoGroups
  PROVE  Records'
<1> DEFINE equalities == {n \in Ungrouped : IsEquality(n)}
           others     == Ungrouped \ equalities
<1>1. /\ groups \in [Groups -> SUBSET Names] /\ grouped = Penalized /\ GroupsApart
      /\ eqs \in [Names -> Nat] /\ linearEqs \in [Names -> Nat]
      /\ built \in Built /\ pcon \subseteq Names /\ has \in [Flag -> BOOLEAN]
  BY RecordsMeans DEF CountsType
<1>2. /\ grouped' = grouped \cup others
      /\ groups' = [h \in Groups |-> groups[h] \cup (others \cap {h})]
      /\ linearEqs' = AddedTo(linearEqs, equalities \cap Stated(lcon))
      /\ eqs' = AddedTo(eqs, equalities \ Stated(lcon))
      /\ built' = [built EXCEPT !.form = "groups", !.type = "EB", !.bnd = has["bnd"]]
      /\ isFinalized' = TRUE
      /\ UNCHANGED <<con, lcon, pcon, has, cnt, asked>>
  BY DEF FinalizeIntoGroups
<1>3. /\ Ungrouped \subseteq Names /\ Ungrouped \cap Penalized = {}
      /\ Names \subseteq Groups
  BY <1>1, ProblemAssumption DEF Ungrouped, All, Stated, Penalized
<1>4. others \subseteq Groups /\ others \subseteq Names /\ others \cap Penalized = {}
  BY <1>3
<1>5. groups' \in [Groups -> SUBSET Names]
  BY <1>1, <1>2, <1>4
<1>6. grouped' = Penalized'
  <2> HIDE DEF others
  <2> QED BY <1>1, <1>2, <1>4 DEF Penalized
<1>7. GroupsApart'
  <2> HIDE DEF others
  <2> QED BY <1>1, <1>2, <1>4 DEF Penalized, GroupsApart
<1>8. eqs' \in [Names -> Nat] /\ linearEqs' \in [Names -> Nat]
  BY <1>1, <1>2 DEF AddedTo
<1>9. built' \in Built
  BY <1>1, <1>2 DEF Built, Flag
<1> QED BY <1>2, <1>5, <1>6, <1>7, <1>8, <1>9, GroupsKeepRecords

(* finalize with slack variables, edit and a question change no record.    *)
LEMMA OtherKeeps ==
  ASSUME Records, (\E lump \in BOOLEAN : FinalizeWithSlacks(lump)) \/ Edit \/ AskForGroups
  PROVE  Records'
<1>1. UNCHANGED <<con, lcon, pcon, has, cnt, groups, grouped, eqs, linearEqs>>
  BY DEF FinalizeWithSlacks, Edit, AskForGroups, groupVars
<1>2. isFinalized' \in BOOLEAN
  BY DEF Records, TypeOK, FinalizeWithSlacks, Edit, AskForGroups
<1>3. /\ asked'.state \in {"no", "refused", "given"}
      /\ asked'.bounds \in {"none", "penalized", "kept"}
  BY DEF Records, TypeOK, FinalizeWithSlacks, Edit, AskForGroups, NotAsked, BoundsGo
<1>4. built' \in Built
  <2>1. CASE \E lump \in BOOLEAN : FinalizeWithSlacks(lump)
    <3>1. PICK lump \in BOOLEAN : FinalizeWithSlacks(lump)
      BY <2>1
    <3>2. Lumped(lump) \in [Flag -> BOOLEAN] /\ built \in Built
      BY LumpedType DEF Records, TypeOK
    <3>3. Stated(con) \subseteq Names /\ Stated(lcon) \subseteq Names
      BY DEF Stated
    <3> DEFINE C == IF lump THEN Stated(con) \cup Stated(lcon) ELSE Stated(con)
               L == IF lump THEN {} ELSE Stated(lcon)
    <3>4. C \in SUBSET Names /\ L \in SUBSET Names
      BY <3>3
    <3>5. built' = Transform(Lumped(lump), C, L)
      BY <3>1 DEF FinalizeWithSlacks
    <3> HIDE DEF C, L
    <3> QED BY <3>2, <3>4, <3>5, TransformType
  <2>2. CASE Edit
    BY <2>2 DEF Edit, Built, Nothing
  <2>3. CASE AskForGroups
    BY <2>3 DEF AskForGroups, Records, TypeOK
  <2> QED BY <2>1, <2>2, <2>3
<1>5. grouped' = Penalized' /\ GroupsApart'
  BY <1>1, GroupsStay
<1>6. RecordsAgree'
  BY <1>1, <1>5 DEF Records, RecordsAgree
<1>7. TypeOK'
  BY <1>1, <1>2, <1>3, <1>4 DEF Records, TypeOK
<1> QED BY <1>5, <1>6, <1>7 DEF Records

(* A new problem.                                                          *)
LEMMA RecordsInit == Init => Records
<1> SUFFICES ASSUME Init PROVE Records
  OBVIOUS
<1>1. /\ con = [n \in Names |-> "none"] /\ lcon = [n \in Names |-> "none"] /\ pcon = {}
      /\ has = [f \in Flag |-> FALSE] /\ cnt = [c \in Counter |-> 0]
      /\ groups = [g \in Groups |-> {}] /\ grouped = {}
      /\ eqs = [n \in Names |-> 0] /\ linearEqs = [n \in Names |-> 0]
      /\ isFinalized = FALSE /\ built = Nothing /\ asked = NotAsked
  BY DEF Init
<1>2. TypeOK
  <2>1. built \in Built
    BY <1>1 DEF Nothing, Built
  <2>2. cnt \in [Counter -> 0 .. MaxCount]
    BY <1>1, ProblemAssumption
  <2> QED BY <1>1, <2>1, <2>2 DEF TypeOK, Kind, NotAsked
<1>3. RecordsAgree
  <2>1. \A k \in {"eq", "ineq"} : /\ cnt[k] = Cardinality(OfKind(con, k))
                                 /\ cnt[Linear(k)] = Cardinality(OfKind(lcon, k))
    <3> TAKE k \in {"eq", "ineq"}
    <3>1. OfKind(con, k) = {} /\ OfKind(lcon, k) = {}
      BY <1>1 DEF OfKind
    <3> QED BY <1>1, <3>1, FS_EmptySet DEF Counter, Linear
  <2>2. \A c \in Counter : has[c] <=> cnt[c] > 0
    BY <1>1 DEF Counter, Flag
  <2>3. grouped = Penalized
    BY <1>1 DEF Penalized
  <2> QED BY <2>1, <2>2, <2>3 DEF RecordsAgree
<1>4. GroupsApart
  BY <1>1 DEF GroupsApart
<1> QED BY <1>2, <1>3, <1>4 DEF Records

(* Every step of the problem keeps the records.                             *)
LEMMA RecordsNext ==
  ASSUME Resets \subseteq {FALSE}, Records, [Next]_vars
  PROVE  Records'
<1>1. CASE \E f \in {"bnd", "prox"} : AddOrRemove(f)
  BY <1>1, AddOrRemoveKeeps
<1>2. CASE \E n \in Names, k \in {"eq", "ineq"}, r \in Resets :
             AddConstraint(n, k, r) \/ AddLinearConstraint(n, k, r)
  BY <1>2, AddKeeps, AddLinearKeeps
<1>3. CASE \E n \in Names, null \in BOOLEAN, r \in Resets : AddProjectedConstraint(n, null, r)
  BY <1>3, AddProjectedKeeps
<1>4. CASE \E n \in Names : RemoveConstraint(n) \/ RemoveLinearConstraint(n)
  BY <1>4, RemoveKeeps, RemoveLinearKeeps
<1>5. CASE \E g \in Groups, names \in SUBSET Names \ {{}} : AddConstraintGroup(g, names)
  BY <1>5, AddGroupKeeps
<1>6. CASE \E g \in Groups : RemoveConstraintGroup(g)
  BY <1>6, RemoveGroupKeeps
<1>7. CASE FinalizeIntoGroups
  BY <1>7, FinalizeGroupsKeeps
<1>8. CASE (\E lump \in BOOLEAN : FinalizeWithSlacks(lump)) \/ Edit \/ AskForGroups
  BY <1>8, OtherKeeps
<1>9. CASE UNCHANGED vars
  <2>1. UNCHANGED <<con, lcon, pcon, has, cnt, groupVars, madeVars>>
    BY <1>9 DEF vars, groupVars, madeVars
  <2> QED BY <2>1, CountsNow, NamesKeepRecords
<1> QED BY <1>1, <1>2, <1>3, <1>4, <1>5, <1>6, <1>7, <1>8, <1>9 DEF Next

(* Where no reset is asked for, every variable keeps its type, whatever is *)
(* added, removed, grouped, finalized and edited.                          *)
THEOREM TypeCorrect ==
  ASSUME Resets \subseteq {FALSE}
  PROVE  Spec => []TypeOK
<1>1. Records => TypeOK
  BY DEF Records
<1> QED BY RecordsInit, RecordsNext, <1>1, PTL DEF Spec

(* Where no reset is asked for, the flags, counters and grouped names that *)
(* ROL_Problem_Def.hpp keeps next to its containers always tell what the   *)
(* containers hold.                                                        *)
THEOREM RecordsKept ==
  ASSUME Resets \subseteq {FALSE}
  PROVE  Spec => []RecordsAgree
<1>1. Records => RecordsAgree
  BY DEF Records
<1> QED BY RecordsInit, RecordsNext, <1>1, PTL DEF Spec

-----------------------------------------------------------------------------
(* What finalize makes of the constraints with slack variables.            *)

(* A name is linear or not, and edit leaves nothing of what was made.      *)
NamesApart == \A n \in Names : con[n] = "none" \/ lcon[n] = "none"
NothingLeft == ~isFinalized => built = Nothing

(* What finalize may rely on: flags h tell of what kind the constraints C  *)
(* and the linear constraints L are.                                       *)
FlagsTell(h, C, L) ==
  /\ h \in [Flag -> BOOLEAN] /\ C \subseteq Names /\ L \subseteq Names
  /\ C \cap L = {} /\ C \cup L = Stated(con) \cup Stated(lcon)
  /\ h["eq"] \/ h["ineq"] <=> C # {}
  /\ h["leq"] \/ h["lineq"] <=> L # {}
  /\ h["ineq"] <=> \E n \in C : ~IsEquality(n)
  /\ h["lineq"] <=> \E n \in L : ~IsEquality(n)
  /\ NeedsSlack(con, lcon, C) <=> h["ineq"]
  /\ NeedsSlack(con, lcon, C \cup L) <=> h["ineq"] \/ h["lineq"]
  /\ \A n \in L : IsEquality(n) => lcon[n] = "eq"
  /\ L # {} => (h["ineq"] <=> has["ineq"])
  /\ (h["bnd"] <=> has["bnd"]) /\ (h["prox"] <=> has["prox"])
  /\ h["prox"] => \A f \in Flag \ {"prox"} : ~h[f]

(* Each flag tells whether there is a constraint of its kind.              *)
LEMMA FlagMeans ==
  ASSUME Records
  PROVE  /\ has["eq"] <=> \E n \in Names : con[n] = "eq"
         /\ has["ineq"] <=> \E n \in Names : con[n] = "ineq"
         /\ has["leq"] <=> \E n \in Names : lcon[n] = "eq"
         /\ has["lineq"] <=> \E n \in Names : lcon[n] = "ineq"
<1>1. /\ has["eq"] <=> cnt["eq"] > 0
      /\ has["ineq"] <=> cnt["ineq"] > 0
      /\ has["leq"] <=> cnt["leq"] > 0
      /\ has["lineq"] <=> cnt["lineq"] > 0
  BY CountsNow DEF CountsAgree, Counter
<1>2. /\ cnt["eq"] = Cardinality(OfKind(con, "eq")) /\ cnt["ineq"] = Cardinality(OfKind(con, "ineq"))
      /\ cnt["leq"] = Cardinality(OfKind(lcon, "eq")) /\ cnt["lineq"] = Cardinality(OfKind(lcon, "ineq"))
  BY CountsNow DEF CountsAgree, Linear
<1>3. /\ cnt["eq"] > 0 <=> \E n \in Names : con[n] = "eq"
      /\ cnt["ineq"] > 0 <=> \E n \in Names : con[n] = "ineq"
      /\ cnt["leq"] > 0 <=> \E n \in Names : lcon[n] = "eq"
      /\ cnt["lineq"] > 0 <=> \E n \in Names : lcon[n] = "ineq"
  BY <1>2, CountZero
<1> QED BY <1>1, <1>3, Zenon

(* So do the flags as finalize uses them.                                  *)
LEMMA FinalizeMayRely ==
  ASSUME Records, NamesApart, NEW lump \in BOOLEAN,
         has["prox"] => \A f \in Flag \ {"prox"} : ~has[f]
  PROVE  FlagsTell(Lumped(lump),
                   IF lump THEN Stated(con) \cup Stated(lcon) ELSE Stated(con),
                   IF lump THEN {} ELSE Stated(lcon))
<1>1. /\ con \in [Names -> Kind] /\ lcon \in [Names -> Kind] /\ has \in [Flag -> BOOLEAN]
  BY CountsNow DEF CountsType
<1>2. \A n \in Names : /\ con[n] \in {"none", "eq", "ineq"} /\ lcon[n] \in {"none", "eq", "ineq"}
                       /\ con[n] = "none" \/ lcon[n] = "none"
  BY <1>1 DEF Kind, NamesApart
<1>3. CASE lump
  <2> DEFINE h == Lumped(lump)
             C == Stated(con) \cup Stated(lcon)
  <2>1. /\ h \in [Flag -> BOOLEAN]
        /\ h["eq"] <=> has["eq"] \/ has["leq"]
        /\ h["ineq"] <=> has["ineq"] \/ has["lineq"]
        /\ ~h["leq"] /\ ~h["lineq"] /\ (h["bnd"] <=> has["bnd"]) /\ (h["prox"] <=> has["prox"])
    BY <1>1, <1>3 DEF Lumped, Flag
  <2> HIDE DEF h
  <2>2. h["eq"] \/ h["ineq"] <=> C # {}
    BY <1>2, <2>1, FlagMeans DEF Stated
  <2>3. h["ineq"] <=> \E n \in C : ~IsEquality(n)
    BY <1>2, <2>1, FlagMeans DEF Stated, IsEquality
  <2>4. NeedsSlack(con, lcon, C) <=> h["ineq"]
    BY <1>2, <2>1, FlagMeans DEF Stated, NeedsSlack
  <2>5. h["prox"] => \A f \in Flag \ {"prox"} : ~h[f]
    BY <2>1 DEF Flag
  <2>6. C \cup {} = C /\ C \subseteq Names
    BY DEF Stated
  <2>7. FlagsTell(h, C, {})
    BY <2>1, <2>2, <2>3, <2>4, <2>5, <2>6 DEF FlagsTell
  <2> QED BY <1>3, <2>7 DEF h
<1>4. CASE ~lump
  <2> DEFINE C == Stated(con)
             L == Stated(lcon)
  <2>1. /\ C \subseteq Names /\ L \subseteq Names /\ C \cap L = {}
    BY <1>2 DEF Stated
  <2>2. /\ has["eq"] \/ has["ineq"] <=> C # {}
        /\ has["leq"] \/ has["lineq"] <=> L # {}
    BY <1>2, FlagMeans DEF Stated
  <2>3. /\ has["ineq"] <=> \E n \in C : ~IsEquality(n)
        /\ has["lineq"] <=> \E n \in L : ~IsEquality(n)
    BY <1>2, FlagMeans DEF Stated, IsEquality
  <2>4. /\ NeedsSlack(con, lcon, C) <=> has["ineq"]
        /\ NeedsSlack(con, lcon, C \cup L) <=> has["ineq"] \/ has["lineq"]
    BY <1>2, FlagMeans DEF Stated, NeedsSlack
  <2>5. \A n \in L : IsEquality(n) => lcon[n] = "eq"
    BY <1>2 DEF Stated, IsEquality
  <2>6. Lumped(lump) = has
    BY <1>4 DEF Lumped
  <2>7. FlagsTell(has, C, L)
    BY <1>1, <2>1, <2>2, <2>3, <2>4, <2>5 DEF FlagsTell
  <2> QED BY <1>4, <2>6, <2>7
<1> QED BY <1>3, <1>4

(* From such flags finalize makes the problem that was stated, in each of  *)
(* its branches.                                                           *)
LEMMA TransformRight ==
  ASSUME NEW h, NEW C, NEW L, FlagsTell(h, C, L), built = Nothing,
         has \in [Flag -> BOOLEAN]
  PROVE  AsStated(Transform(h, C, L))
<1> DEFINE general == h["eq"] \/ h["ineq"]
           linear  == h["leq"] \/ h["lineq"]
<1> SUFFICES ASSUME NEW t, t = Transform(h, C, L) PROVE AsStated(t)
  OBVIOUS
<1>0. /\ \A f \in Flag : h[f] \in BOOLEAN
      /\ NeedsSlack(con, lcon, C) = h["ineq"]
      /\ NeedsSlack(con, lcon, C \cup L) = (h["ineq"] \/ h["lineq"])
      /\ h["bnd"] = has["bnd"] /\ h["prox"] = has["prox"]
  BY DEF FlagsTell, NeedsSlack, Flag
<1>1. CASE h["prox"]
  <2>1. /\ t.con = {} /\ t.reduced = {} /\ t.projected = {}
        /\ t.bnd = FALSE /\ t.slacks = FALSE /\ t.slackless = FALSE
        /\ t.type = "P"
    BY <1>0, <1>1 DEF Transform, Nothing, MayReduce
  <2> QED BY <1>0, <1>1, <2>1 DEF AsStated, FlagsTell, Flag
<1>2. CASE ~h["prox"] /\ ~linear /\ ~general /\ ~h["bnd"]
  <2>1. /\ t.con = {} /\ t.reduced = {} /\ t.projected = {}
        /\ t.bnd = FALSE /\ t.slacks = FALSE /\ t.slackless = FALSE
        /\ t.type = "U"
    BY <1>0, <1>2 DEF Transform, Nothing, MayReduce
  <2> QED BY <1>0, <1>2, <2>1 DEF AsStated, FlagsTell, Flag
<1>3. CASE ~h["prox"] /\ ~linear /\ ~general /\ h["bnd"]
  <2>1. /\ t.con = {} /\ t.reduced = {} /\ t.projected = {}
        /\ t.bnd = TRUE /\ t.slacks = FALSE /\ t.slackless = FALSE
        /\ t.type = "B"
    BY <1>0, <1>3 DEF Transform, Nothing, MayReduce
  <2> QED BY <1>0, <1>3, <2>1 DEF AsStated, FlagsTell, Flag
<1>4. CASE ~h["prox"] /\ ~linear /\ h["eq"] /\ ~h["ineq"] /\ ~h["bnd"]
  <2>1. /\ t.con = C /\ t.reduced = {} /\ t.projected = {}
        /\ t.bnd = FALSE /\ t.slacks = FALSE /\ t.slackless = FALSE
        /\ t.type = "E"
    BY <1>0, <1>4 DEF Transform, Nothing, MayReduce
  <2> QED BY <1>0, <1>4, <2>1 DEF AsStated, FlagsTell, Flag
<1>5. CASE ~h["prox"] /\ ~linear /\ general /\ (h["ineq"] \/ h["bnd"])
  <2>1. /\ t.con = C /\ t.reduced = {} /\ t.projected = {}
        /\ t.bnd = h["bnd"] /\ t.slacks = h["ineq"] /\ t.slackless = h["ineq"]
        /\ t.type = "EB"
    BY <1>0, <1>5 DEF Transform, Nothing, MayReduce
  <2> QED BY <1>0, <1>5, <2>1 DEF AsStated, FlagsTell, Flag
<1>6. CASE ~h["prox"] /\ linear /\ ~h["bnd"] /\ ~h["lineq"]
  <2>1. /\ t.con = C /\ t.reduced = L /\ t.projected = {}
        /\ t.bnd = FALSE /\ t.slacks = h["ineq"] /\ t.slackless = h["ineq"]
        /\ t.type = IF ~general THEN "U" ELSE IF h["ineq"] THEN "EB" ELSE "E"
    BY <1>0, <1>6 DEF Transform, Nothing, MayReduce
  <2> QED BY <1>0, <1>6, <2>1 DEF AsStated, FlagsTell, Flag
<1>7. CASE ~h["prox"] /\ linear /\ (h["bnd"] \/ h["lineq"])
  <2>1. /\ t.con = C /\ t.reduced = {} /\ t.projected = L
        /\ t.bnd = h["bnd"] /\ t.slacks = (h["ineq"] \/ h["lineq"]) /\ t.slackless = (h["ineq"] \/ h["lineq"])
        /\ t.type = IF general THEN "EB" ELSE "B"
    BY <1>0, <1>7 DEF Transform, Nothing, MayReduce
  <2> QED BY <1>0, <1>7, <2>1 DEF AsStated, FlagsTell, Flag
<1> QED BY <1>1, <1>2, <1>3, <1>4, <1>5, <1>6, <1>7 DEF MayReduce

(* The invariant of this part.                                             *)
SlackInv == Records /\ NamesApart /\ NothingLeft /\ BuiltAsStated

(* Only finalize makes something, and from then on only edit is left.      *)
LEMMA SlackStep ==
  ASSUME Resets \subseteq {FALSE}, SlackInv, [Next]_vars
  PROVE  SlackInv'
<1>0. Records'
  BY RecordsNext DEF SlackInv
<1>1. /\ con \in [Names -> Kind] /\ lcon \in [Names -> Kind] /\ has \in [Flag -> BOOLEAN]
      /\ NamesApart /\ NothingLeft /\ BuiltAsStated /\ Records /\ isFinalized \in BOOLEAN
  BY CountsNow DEF CountsType, SlackInv, Records, TypeOK
<1>2. NamesApart'
  <2>1. CASE \E n \in Names, k \in {"eq", "ineq"}, r \in Resets :
               AddConstraint(n, k, r) \/ AddLinearConstraint(n, k, r)
    <3>1. PICK n \in Names, k \in {"eq", "ineq"}, r \in Resets :
                 AddConstraint(n, k, r) \/ AddLinearConstraint(n, k, r)
      BY <2>1
    <3>2. ~r
      OBVIOUS
    <3>3. CASE AddConstraint(n, k, r)
      BY <1>1, <3>2, <3>3 DEF AddConstraint, Used, NamesApart
    <3>4. CASE AddLinearConstraint(n, k, r)
      BY <1>1, <3>2, <3>4 DEF AddLinearConstraint, Used, NamesApart
    <3> QED BY <3>1, <3>3, <3>4
  <2>2. CASE \E n \in Names, null \in BOOLEAN, r \in Resets : AddProjectedConstraint(n, null, r)
    <3>1. PICK n \in Names, null \in BOOLEAN, r \in Resets : AddProjectedConstraint(n, null, r)
      BY <2>2
    <3>2. ~r
      OBVIOUS
    <3> QED BY <1>1, <3>1, <3>2 DEF AddProjectedConstraint, Used, NamesApart
  <2>3. CASE \E n \in Names : RemoveConstraint(n) \/ RemoveLinearConstraint(n)
    <3>1. PICK n \in Names : RemoveConstraint(n) \/ RemoveLinearConstraint(n)
      BY <2>3
    <3>2. \/ con' = [con EXCEPT ![n] = "none"] /\ lcon' = lcon
          \/ lcon' = [lcon EXCEPT ![n] = "none"] /\ con' = con
      BY <3>1 DEF RemoveConstraint, RemoveLinearConstraint
    <3> QED BY <1>1, <3>2 DEF NamesApart
  <2>4. CASE UNCHANGED <<con, lcon>>
    BY <1>1, <2>4 DEF NamesApart
  <2> QED BY <2>1, <2>2, <2>3, <2>4
          DEF Next, vars, AddOrRemove, AddConstraintGroup, RemoveConstraintGroup,
              FinalizeWithSlacks, FinalizeIntoGroups, Edit, AskForGroups
<1>3. NothingLeft' /\ BuiltAsStated'
  <2>1. CASE \E lump \in BOOLEAN : FinalizeWithSlacks(lump)
    <3>1. PICK lump \in BOOLEAN : FinalizeWithSlacks(lump)
      BY <2>1
    <3> DEFINE C == IF lump THEN Stated(con) \cup Stated(lcon) ELSE Stated(con)
               L == IF lump THEN {} ELSE Stated(lcon)
    <3>2. /\ ~isFinalized /\ isFinalized' /\ built' = Transform(Lumped(lump), C, L)
          /\ has["prox"] => \A f \in Flag \ {"prox"} : ~has[f]
          /\ UNCHANGED <<con, lcon, has>>
      BY <3>1 DEF FinalizeWithSlacks
    <3>3. FlagsTell(Lumped(lump), C, L)
      BY <1>1, <3>2, FinalizeMayRely
    <3>4. built = Nothing
      BY <1>1, <3>2 DEF NothingLeft
    <3>5. AsStated(Transform(Lumped(lump), C, L))
      BY <1>1, <3>3, <3>4, TransformRight
    <3>6. AsStated(built')
      BY <3>2, <3>5
    <3> QED BY <3>2, <3>6 DEF BuiltAsStated, NothingLeft, AsStated, Stated, IsEquality
  <2>2. CASE FinalizeIntoGroups
    <3>1. built \in Built
      BY <1>1 DEF Records, TypeOK
    <3> QED BY <2>2, <3>1 DEF FinalizeIntoGroups, BuiltAsStated, NothingLeft, Built
  <2>3. CASE Edit
    BY <2>3 DEF Edit, BuiltAsStated, NothingLeft
  <2>4. CASE ~isFinalized /\ UNCHANGED <<isFinalized, built>>
    BY <1>1, <2>4 DEF BuiltAsStated, NothingLeft
  <2>5. CASE UNCHANGED <<con, lcon, has, isFinalized, built>>
    BY <1>1, <2>5 DEF BuiltAsStated, NothingLeft, AsStated, Stated, IsEquality
  <2> QED BY <2>1, <2>2, <2>3, <2>4, <2>5
          DEF Next, vars, madeVars, AddOrRemove, AddConstraint, AddLinearConstraint,
              AddProjectedConstraint, RemoveConstraint, RemoveLinearConstraint,
              AddConstraintGroup, RemoveConstraintGroup, AskForGroups
<1> QED BY <1>0, <1>2, <1>3 DEF SlackInv

(* Where no reset is asked for, a problem that is finalized with slack     *)
(* variables is solved as it was stated, whatever sequence of additions,   *)
(* removals, finalizations and edits came before.                          *)
THEOREM BuiltRight ==
  ASSUME Resets \subseteq {FALSE}
  PROVE  Spec => []BuiltAsStated
<1>1. Init => SlackInv
  <2> SUFFICES ASSUME Init PROVE SlackInv
    OBVIOUS
  <2>1. Records
    BY RecordsInit
  <2>2. NamesApart /\ NothingLeft /\ BuiltAsStated
    BY DEF Init, NamesApart, NothingLeft, BuiltAsStated
  <2> QED BY <2>1, <2>2 DEF SlackInv
<1>2. SlackInv => BuiltAsStated
  BY DEF SlackInv
<1> QED BY <1>1, <1>2, SlackStep, PTL DEF Spec

-----------------------------------------------------------------------------
(* What an augmented Lagrangian algorithm is given.                        *)

(* The lists are empty until finalize fills them; then they and the groups *)
(* have every constraint between them, each in one place; and what was     *)
(* given is still there.                                                   *)
NoLists == ~isFinalized => \A n \in Names : eqs[n] = 0 /\ linearEqs[n] = 0
Sorted ==
  isFinalized /\ built.form = "groups" =>
    /\ All \subseteq Penalized \cup Listed(eqs) \cup Listed(linearEqs)
    /\ \A n \in Listed(eqs) : con[n] = "eq" /\ n \notin Penalized \cup Listed(linearEqs)
    /\ \A n \in Listed(linearEqs) : lcon[n] = "eq" /\ n \notin Penalized
    /\ built.bnd = has["bnd"] /\ ~built.slacks
StillGiven ==
  asked.state = "given" =>
    /\ isFinalized /\ built.form = "groups" /\ ~Refuses
    /\ asked.penalized = Penalized
    /\ asked.kept = Listed(eqs) /\ asked.linear = Listed(linearEqs)
    /\ asked.bounds = BoundsGo
GroupsInv == SlackInv /\ NoLists /\ Sorted /\ StillGiven

(* finalize sorts every constraint into one place.                         *)
LEMMA FinalizeSorts ==
  ASSUME GroupsInv, FinalizeIntoGroups
  PROVE  Sorted'
<1> DEFINE equalities == {n \in Ungrouped : IsEquality(n)}
           others     == Ungrouped \ equalities
<1>1. /\ con \in [Names -> Kind] /\ lcon \in [Names -> Kind] /\ pcon \subseteq Names
      /\ groups \in [Groups -> SUBSET Names] /\ NamesApart
      /\ \A n \in Names : eqs[n] = 0 /\ linearEqs[n] = 0
  BY RecordsMeans DEF GroupsInv, SlackInv, NoLists, CountsType, FinalizeIntoGroups
<1>2. /\ grouped' = grouped \cup others
      /\ linearEqs' = AddedTo(linearEqs, equalities \cap Stated(lcon))
      /\ eqs' = AddedTo(eqs, equalities \ Stated(lcon))
      /\ UNCHANGED <<con, lcon, pcon>>
  BY DEF FinalizeIntoGroups
<1>3. Penalized' = Penalized \cup others
  <2>1. grouped = Penalized /\ grouped' = Penalized'
    BY FinalizeGroupsKeeps, RecordsMeans DEF GroupsInv, SlackInv, Records, RecordsAgree
  <2> QED BY <1>2, <2>1
<1>4. Ungrouped = All \ Penalized /\ Ungrouped \subseteq Names
  BY <1>1 DEF Ungrouped, Penalized, All, Stated
<1>5. Listed(eqs)' = equalities \ Stated(lcon) /\ Listed(linearEqs)' = equalities \cap Stated(lcon)
  BY <1>1, <1>2, <1>4 DEF Listed, AddedTo
<1>6. All' = All
  BY <1>2 DEF All, Stated
<1>7. \A n \in equalities : /\ n \in Names /\ n \notin Penalized /\ n \notin others
                            /\ n \in Stated(lcon) => lcon[n] = "eq"
                            /\ n \notin Stated(lcon) => con[n] = "eq"
  BY <1>1, <1>4 DEF IsEquality, Stated, NamesApart
<1>8. All \subseteq Penalized \cup others \cup equalities
  BY <1>4
<1>9. built'.bnd = has'["bnd"] /\ ~built'.slacks
  BY DEF GroupsInv, SlackInv, NothingLeft, Nothing, FinalizeIntoGroups
<1> HIDE DEF equalities, others
<1> QED BY <1>2, <1>3, <1>5, <1>6, <1>7, <1>8, <1>9 DEF Sorted

(* Every step keeps what finalize by groups relies on, and its result.      *)
LEMMA GroupsStep ==
  ASSUME Resets \subseteq {FALSE}, ~MixedForms, ~EditsLists, GroupsInv, [Next]_vars
  PROVE  GroupsInv'
<1>0. SlackInv' /\ NoLists /\ Sorted /\ StillGiven
  BY SlackStep DEF GroupsInv
<1>1. CASE ~isFinalized /\ UNCHANGED <<eqs, linearEqs, isFinalized, asked>>
  BY <1>0, <1>1 DEF GroupsInv, NoLists, Sorted, StillGiven
<1>2. CASE \E lump \in BOOLEAN : FinalizeWithSlacks(lump)
  <2>1. ~isFinalized /\ isFinalized' /\ UNCHANGED asked
    BY <1>2 DEF FinalizeWithSlacks
  <2>2. built'.form = "slack"
    <3>1. PICK lump \in BOOLEAN : FinalizeWithSlacks(lump)
      BY <1>2
    <3> DEFINE C == IF lump THEN Stated(con) \cup Stated(lcon) ELSE Stated(con)
               L == IF lump THEN {} ELSE Stated(lcon)
    <3>2. Lumped(lump) \in [Flag -> BOOLEAN] /\ built \in Built
      BY LumpedType DEF GroupsInv, SlackInv, Records, TypeOK
    <3>3. C \in SUBSET Names /\ L \in SUBSET Names
      BY DEF Stated
    <3>4. built' = Transform(Lumped(lump), C, L)
      BY <3>1 DEF FinalizeWithSlacks
    <3> HIDE DEF C, L
    <3> QED BY <3>2, <3>3, <3>4, TransformType
  <2> QED BY <1>0, <2>1, <2>2 DEF GroupsInv, NoLists, Sorted, StillGiven
<1>3. CASE FinalizeIntoGroups
  <2>1. ~isFinalized /\ isFinalized' /\ UNCHANGED asked
    BY <1>3 DEF FinalizeIntoGroups
  <2>2. Sorted'
    BY <1>3, FinalizeSorts
  <2> QED BY <1>0, <2>1, <2>2 DEF GroupsInv, NoLists, StillGiven
<1>4. CASE Edit
  BY <1>0, <1>4 DEF Edit, NotAsked, GroupsInv, NoLists, Sorted, StillGiven, groupVars
<1>5. CASE AskForGroups
  <2>1. /\ isFinalized /\ built.form = "groups"
        /\ UNCHANGED <<con, lcon, pcon, has, groups, eqs, linearEqs, isFinalized, built>>
        /\ asked' = IF Refuses THEN [NotAsked EXCEPT !.state = "refused"]
                    ELSE [state |-> "given", penalized |-> Penalized,
                          kept |-> Listed(eqs), linear |-> Listed(linearEqs),
                          bounds |-> BoundsGo]
    BY <1>5 DEF AskForGroups, groupVars
  <2>2. NoLists' /\ Sorted'
    BY <1>0, <2>1 DEF NoLists, Sorted, Listed, Penalized, All, Stated
  <2>3. StillGiven'
    BY <2>1 DEF StillGiven, Refuses, NotAsked, BoundsGo, Listed, Penalized, All, Stated
  <2> QED BY <1>0, <2>2, <2>3 DEF GroupsInv
<1>6. CASE UNCHANGED vars
  BY <1>0, <1>6 DEF vars, GroupsInv, NoLists, Sorted, StillGiven, Refuses, BoundsGo, Listed,
                    Penalized, All, Stated
<1> QED BY <1>1, <1>2, <1>3, <1>4, <1>5, <1>6
        DEF Next, groupVars, madeVars, AddOrRemove, AddConstraint, AddLinearConstraint,
            AddProjectedConstraint, RemoveConstraint, RemoveLinearConstraint,
            AddConstraintGroup, RemoveConstraintGroup

(* Where no reset is asked for, an algorithm asks for groups only of a     *)
(* problem finalized for them, and a problem with equalities in its lists  *)
(* is not edited, the algorithm sees every constraint exactly once.        *)
THEOREM GivenRight ==
  ASSUME Resets \subseteq {FALSE}, ~MixedForms, ~EditsLists
  PROVE  Spec => []GivenAsStated
<1>1. Init => GroupsInv
  <2> SUFFICES ASSUME Init PROVE GroupsInv
    OBVIOUS
  <2>1. Records
    BY RecordsInit
  <2>2. NamesApart /\ NothingLeft /\ BuiltAsStated /\ NoLists /\ Sorted /\ StillGiven
    BY DEF Init, NamesApart, NothingLeft, BuiltAsStated, NoLists, Sorted, StillGiven, NotAsked
  <2> QED BY <2>1, <2>2 DEF GroupsInv, SlackInv
<1>2. GroupsInv => GivenAsStated
  BY DEF GroupsInv, SlackInv, Records, GroupsApart, StillGiven, Sorted, Refuses, BoundsGo,
         GivenAsStated
<1> QED BY <1>1, <1>2, GroupsStep, PTL DEF Spec
=============================================================================
