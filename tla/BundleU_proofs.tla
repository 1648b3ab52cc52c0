--------------------------- MODULE BundleU_proofs ---------------------------
(***************************************************************************)
(* Proofs about BundleU, for every maximum size of the bundle from 3 on,   *)
(* every removal size and every number of iterations.                      *)
(*                                                                         *)
(* What reset() and remove() make of a full bundle is put in closed form   *)
(* first (RemovalOfVictims), by descent to a least counterexample.  The    *)
(* invariant then says where the spared subgradient went.                  *)
(***************************************************************************)
EXTENDS BundleU, Stores_proofs, FiniteSetTheorems, WellFoundedInduction, TLAPS

-----------------------------------------------------------------------------
(* Numbers.                                                                *)

(* Every nonempty set of naturals has a least member.                      *)
LEMMA LeastMember ==
  ASSUME NEW S, S \subseteq Nat, S # {}
  PROVE  \E n \in S : \A m \in S : n <= m
<1> DEFINE R == OpToRel(<, Nat)
<1>1. \E i \in S : \A j \in S : ~(<<j, i>> \in R)
  BY NatLessThanWellFounded, WFMin
<1>2. \A m, n \in Nat : m < n => <<m, n>> \in R
  BY DEF OpToRel
<1> HIDE DEF R
<1>3. PICK i \in S : \A j \in S : ~(<<j, i>> \in R)
  BY <1>1
<1>4. \A j \in S : i \in Nat /\ j \in Nat /\ ~(j < i)
  BY <1>2, <1>3
<1>5. \A j \in S : i <= j
  BY <1>4
<1>6. QED BY <1>3, <1>5

(* A set of naturals below a bound has a greatest member.                  *)
LEMMA GreatestMember ==
  ASSUME NEW n \in Nat, NEW S, S \subseteq 0 .. n - 1, S # {}
  PROVE  \E i \in S : \A j \in S : j <= i
<1> DEFINE D == {n - i : i \in S}
<1>1. D \subseteq Nat /\ D # {}
  OBVIOUS
<1>2. PICK d \in D : \A e \in D : d <= e
  <2> HIDE DEF D
  <2>1. QED BY <1>1, LeastMember
<1>3. PICK i \in S : d = n - i
  BY DEF D
<1>4. \A j \in S : i \in Nat /\ j \in Nat /\ n - i <= n - j
  BY <1>2, <1>3 DEF D
<1>5. \A j \in S : j <= i
  BY <1>4
<1>6. QED BY <1>3, <1>5

-----------------------------------------------------------------------------
(* The bundle.                                                             *)

Places(n) == 0 .. n - 1

(* reset() spares the last subgradient of error zero, if there is one.     *)
LEMMA SparedFacts ==
  ASSUME NEW b, NEW n \in Nat
  PROVE  LET s == Spared(b, n) IN
         /\ s \in 0 .. n
         /\ s < n => b[s].zero
         /\ (\E i \in Places(n) : b[i].zero) => s < n
<1> DEFINE exact == {i \in 0 .. n - 1 : b[i].zero}
<1>1. CASE exact = {}
  BY <1>1 DEF Spared, Places
<1>2. CASE exact # {}
  <2>1. \E i \in exact : \A j \in exact : j <= i
    <3>1. exact \subseteq 0 .. n - 1
      OBVIOUS
    <3> HIDE DEF exact
    <3>2. QED BY <1>2, <3>1, GreatestMember
  <2>2. Spared(b, n) \in exact
    <3>1. Spared(b, n) = CHOOSE i \in exact : \A j \in exact : j <= i
      BY <1>2 DEF Spared
    <3> HIDE DEF exact
    <3>2. QED BY <2>1, <3>1
  <2>3. QED BY <2>2
<1>3. QED BY <1>1, <1>2

(* The bundle b of n subgradients after the last m + 1 of the victims are  *)
(* removed, s being spared.                                                *)
VictimAt(s, j) == IF j - 1 < s THEN j - 1 ELSE j

Shrunk(b, n, s, m) ==
  [j \in Places(n) |->
     IF j < VictimAt(s, remSize - m) THEN b[j]
     ELSE IF j = VictimAt(s, remSize - m) /\ j < s /\ s < remSize THEN b[s]
     ELSE IF j + m + 1 < n THEN b[j + m + 1] ELSE Blank]

(* The first removal, which clears the place that is freed.                *)
LEMMA FirstRemoval ==
  ASSUME NEW n \in Nat, NEW b, DOMAIN b = Places(n), NEW s \in 0 .. n,
         remSize \in 2 .. n - 1
  PROVE  [ShiftFrom(b, n, VictimAt(s, remSize)) EXCEPT ![n - 1] = Blank] = Shrunk(b, n, s, 0)
<1> DEFINE c == [ShiftFrom(b, n, VictimAt(s, remSize)) EXCEPT ![n - 1] = Blank]
           d == Shrunk(b, n, s, 0)
           v == VictimAt(s, remSize)
<1>1. v \in 1 .. n - 1
  BY DEF VictimAt
<1>2. \A j \in Places(n) :
        d[j] = IF j < v THEN b[j]
               ELSE IF j = v /\ j < s /\ s < remSize THEN b[s]
               ELSE IF j + 1 < n THEN b[j + 1] ELSE Blank
  BY DEF Shrunk, Places
<1>3. \A j \in Places(n) : ~(j = v /\ j < s /\ s < remSize)
  BY DEF VictimAt, Places
<1>4. \A j \in Places(n) :
        c[j] = IF j = n - 1 THEN Blank ELSE IF v <= j /\ j < n - 1 THEN b[j + 1] ELSE b[j]
  BY DEF ShiftFrom, Places
<1>5. \A j \in Places(n) : c[j] = d[j]
  <2> HIDE DEF c, d, v
  <2> SUFFICES ASSUME NEW j \in Places(n) PROVE c[j] = d[j]
    OBVIOUS
  <2>1. CASE j < v
    BY <1>1, <1>2, <1>4, <2>1 DEF Places
  <2>2. CASE v <= j /\ j < n - 1
    BY <1>1, <1>2, <1>3, <1>4, <2>2 DEF Places
  <2>3. CASE j = n - 1
    BY <1>1, <1>2, <1>3, <1>4, <2>3 DEF Places
  <2>4. QED BY <1>1, <2>1, <2>2, <2>3 DEF Places
<1>6. c = [j \in Places(n) |-> c[j]] /\ d = [j \in Places(n) |-> d[j]]
  BY DEF ShiftFrom, Shrunk, Places
<1> HIDE DEF c, d
<1>7. QED BY <1>5, <1>6 DEF c, d

(* Each of the others.                                                     *)
LEMMA NextRemoval ==
  ASSUME NEW n \in Nat, NEW b, DOMAIN b = Places(n), NEW s \in 0 .. n,
         remSize \in 2 .. n - 1, NEW m \in 1 .. remSize - 1
  PROVE  ShiftFrom(Shrunk(b, n, s, m - 1), n, VictimAt(s, remSize - m)) = Shrunk(b, n, s, m)
<1> DEFINE a == Shrunk(b, n, s, m - 1)
           d == Shrunk(b, n, s, m)
           v == VictimAt(s, remSize - m)
           w == VictimAt(s, remSize - (m - 1))
           c == ShiftFrom(a, n, v)
<1>1. \A j \in Places(n) :
        d[j] = IF j < v THEN b[j]
               ELSE IF j = v /\ j < s /\ s < remSize THEN b[s]
               ELSE IF j + m + 1 < n THEN b[j + m + 1] ELSE Blank
  BY DEF Shrunk, Places
<1>2. \A j \in Places(n) :
        a[j] = IF j < w THEN b[j]
               ELSE IF j = w /\ j < s /\ s < remSize THEN b[s]
               ELSE IF j + m < n THEN b[j + m] ELSE Blank
  BY DEF Shrunk, Places
<1>3. \A j \in Places(n) :
        c[j] = IF v <= j /\ j < n - 1 THEN a[j + 1] ELSE a[j]
  BY DEF ShiftFrom, Places, Shrunk
<1>4. /\ v \in 0 .. remSize - 1 /\ w \in 1 .. remSize
      /\ IF remSize - m = s THEN v = s - 1 \/ v = s ELSE TRUE
      /\ v = IF remSize - m - 1 < s THEN remSize - m - 1 ELSE remSize - m
      /\ w = IF remSize - m < s THEN remSize - m ELSE remSize - m + 1
  BY DEF VictimAt
<1>5. \A j \in Places(n) : c[j] = d[j]
  <2> HIDE DEF a, c, d, v, w
  <2> SUFFICES ASSUME NEW j \in Places(n) PROVE c[j] = d[j]
    OBVIOUS
  <2>1. CASE j < v
    <3>1. c[j] = a[j] /\ j < w
      BY <1>3, <1>4, <2>1 DEF Places
    <3>2. QED BY <1>1, <1>2, <2>1, <3>1
  <2>2. CASE v <= j /\ j < n - 1
    <3>1. c[j] = a[j + 1] /\ j + 1 \in Places(n)
      BY <1>3, <2>2 DEF Places
    <3>2. CASE j = v
      <4>1. CASE w = v + 1
        <5>1. a[j + 1] = IF j + 1 < s /\ s < remSize THEN b[s]
                         ELSE IF j + 1 + m < n THEN b[j + 1 + m] ELSE Blank
          BY <1>2, <3>1, <3>2, <4>1 DEF Places
        <5>2. d[j] = IF j < s /\ s < remSize THEN b[s]
                     ELSE IF j + m + 1 < n THEN b[j + m + 1] ELSE Blank
          BY <1>1, <1>4, <3>2
        <5>3. s < remSize => (j + 1 < s <=> j < s)
          BY <1>4, <3>2, <4>1
        <5>4. j + 1 + m = j + m + 1
          BY DEF Places
        <5>5. QED BY <3>1, <5>1, <5>2, <5>3, <5>4
      <4>2. CASE w # v + 1
        <5>1. v + 2 = w /\ s = v + 1 /\ s < remSize
          BY <1>4, <4>2
        <5>2. QED BY <1>1, <1>2, <3>1, <3>2, <5>1 DEF Places
      <4>3. QED BY <4>1, <4>2
    <3>3. CASE j > v
      <4>1. ~(j + 1 < w)
        BY <1>4, <3>3 DEF Places
      <4>2. ~(j + 1 = w /\ j + 1 < s /\ s < remSize)
        BY <1>4, <3>3 DEF Places
      <4>3. a[j + 1] = IF j + 1 + m < n THEN b[j + 1 + m] ELSE Blank
        BY <1>2, <3>1, <4>1, <4>2
      <4>4. d[j] = IF j + m + 1 < n THEN b[j + m + 1] ELSE Blank
        BY <1>1, <1>4, <3>3 DEF Places
      <4>5. j + 1 + m = j + m + 1
        BY DEF Places
      <4>6. QED BY <3>1, <4>3, <4>4, <4>5
    <3>4. QED BY <2>2, <3>2, <3>3, <1>4 DEF Places
  <2>3. CASE j = n - 1
    BY <1>1, <1>2, <1>3, <1>4, <2>3 DEF Places
  <2>4. QED BY <2>1, <2>2, <2>3, <1>4 DEF Places
<1>6. c = [j \in Places(n) |-> c[j]] /\ d = [j \in Places(n) |-> d[j]]
  BY DEF ShiftFrom, Shrunk, Places
<1> HIDE DEF c, d
<1>7. QED BY <1>5, <1>6 DEF c, d

(* What reset() leaves of a full bundle: the spared subgradient comes      *)
(* first if it would have been removed, and the others follow in order.    *)
LEMMA RemovalOfVictims ==
  ASSUME NEW n \in Nat, NEW b, DOMAIN b = Places(n), remSize \in 2 .. n - 1
  PROVE  Removal(b, n, Victims(b, n)) =
           [j \in Places(n) |->
              IF j = 0 /\ Spared(b, n) < remSize THEN b[Spared(b, n)]
              ELSE IF j + remSize < n THEN b[j + remSize] ELSE Blank]
<1> DEFINE ind == Victims(b, n)
           s == Spared(b, n)
           S(m) == Shrunk(b, n, s, m)
           First == [ShiftFrom(b, n, Last(ind)) EXCEPT ![n - 1] = Blank]
<1>1. s \in 0 .. n /\ remSize \in Nat
  BY SparedFacts
<1>2. /\ Len(ind) = remSize
      /\ \A j \in 1 .. remSize : ind[j] = VictimAt(s, j)
      /\ Last(ind) = VictimAt(s, remSize)
  <2>1. ind = [j \in 1 .. remSize |-> VictimAt(s, j)]
    BY DEF Victims, VictimAt
  <2> HIDE DEF ind, s
  <2>2. Len(ind) = remSize
    BY <1>1, <2>1
  <2>3. QED BY <1>1, <2>1, <2>2 DEF Last
<1>3. PICK d : /\ d = [m \in 0 .. Len(ind) - 1 |->
                         IF m = 0 THEN First ELSE ShiftFrom(d[m - 1], n, ind[Len(ind) - m])]
               /\ Removal(b, n, ind) = d[Len(ind) - 1]
  <2> DEFINE c == [m \in 0 .. Len(ind) - 1 |-> S(m)]
  <2>1. c = [m \in 0 .. Len(ind) - 1 |->
               IF m = 0 THEN First ELSE ShiftFrom(c[m - 1], n, ind[Len(ind) - m])]
    <3>1. S(0) = First
      <4> HIDE DEF s, ind
      <4>1. QED BY <1>1, <1>2, FirstRemoval
    <3>2. \A m \in 1 .. remSize - 1 : S(m) = ShiftFrom(S(m - 1), n, ind[remSize - m])
      <4>1. \A m \in 1 .. remSize - 1 : ind[remSize - m] = VictimAt(s, remSize - m)
        <5> HIDE DEF s, ind
        <5>1. QED BY <1>1, <1>2
      <4> HIDE DEF s, ind
      <4>2. QED BY <1>1, <4>1, NextRemoval
    <3> HIDE DEF S, First, s, ind
    <3>3. \A m \in 1 .. remSize - 1 : m - 1 \in 0 .. remSize - 1 /\ m # 0
      BY <1>1
    <3>4. \A m \in 1 .. remSize - 1 : c[m - 1] = S(m - 1)
      BY <1>2, <3>3
    <3>5. \A m \in 0 .. remSize - 1 : m = 0 \/ m \in 1 .. remSize - 1
      BY <1>1
    <3>6. QED BY <1>2, <3>1, <3>2, <3>3, <3>4, <3>5
  <2> HIDE DEF c, ind
  <2>2. QED BY <2>1 DEF Removal
<1>4. \A m \in 0 .. remSize - 1 : d[m] = S(m)
  <2> DEFINE bad == {m \in 0 .. remSize - 1 : d[m] # S(m)}
  <2>1. SUFFICES ASSUME bad # {} PROVE FALSE
    OBVIOUS
  <2>2. bad \subseteq Nat
    BY <1>1
  <2>3. PICK m \in bad : \A i \in bad : m <= i
    <3> HIDE DEF bad
    <3>1. QED BY <2>1, <2>2, LeastMember
  <2>4. m \in 0 .. remSize - 1 /\ d[m] # S(m)
    BY <2>3
  <2>5. CASE m = 0
    <3>1. d[0] = First
      <4> HIDE DEF First, ind
      <4>1. QED BY <1>1, <1>2, <1>3
    <3>2. First = S(0)
      <4> HIDE DEF s, ind
      <4>1. QED BY <1>1, <1>2, FirstRemoval
    <3>3. QED BY <2>4, <2>5, <3>1, <3>2
  <2>6. CASE m # 0
    <3>1. m \in 1 .. remSize - 1 /\ m - 1 \in 0 .. remSize - 1
      BY <1>1, <2>4, <2>6
    <3>2. d[m] = ShiftFrom(d[m - 1], n, ind[remSize - m])
      <4> HIDE DEF First, ind
      <4>1. QED BY <1>2, <1>3, <2>4, <2>6
    <3>3. d[m - 1] = S(m - 1)
      <4>1. m - 1 \notin bad
        BY <1>1, <2>3, <2>4
      <4> HIDE DEF S
      <4>2. QED BY <3>1, <4>1
    <3>4. ind[remSize - m] = VictimAt(s, remSize - m)
      <4> HIDE DEF s, ind
      <4>1. QED BY <1>1, <1>2, <3>1
    <3>5. ShiftFrom(S(m - 1), n, ind[remSize - m]) = S(m)
      <4> HIDE DEF s, ind
      <4>1. QED BY <1>1, <3>1, <3>4, NextRemoval
    <3>6. QED BY <2>4, <3>2, <3>3, <3>5
  <2>7. QED BY <2>5, <2>6
<1>5. Removal(b, n, ind) = S(remSize - 1)
  <2> HIDE DEF S, ind
  <2>1. QED BY <1>1, <1>2, <1>3, <1>4
<1>6. S(remSize - 1) = [j \in Places(n) |-> IF j = 0 /\ s < remSize THEN b[s]
                                           ELSE IF j + remSize < n THEN b[j + remSize] ELSE Blank]
  <2> HIDE DEF s
  <2>1. VictimAt(s, remSize - (remSize - 1)) = IF 0 < s THEN 0 ELSE 1
    BY <1>1 DEF VictimAt
  <2>2. \A j \in Places(n) : j + (remSize - 1) + 1 = j + remSize
    BY <1>1 DEF Places
  <2>3. \A j \in Places(n) :
           S(remSize - 1)[j] = IF j < (IF 0 < s THEN 0 ELSE 1) THEN b[j]
             ELSE IF j = (IF 0 < s THEN 0 ELSE 1) /\ j < s /\ s < remSize THEN b[s]
             ELSE IF j + remSize < n THEN b[j + remSize] ELSE Blank
    BY <2>1, <2>2 DEF Shrunk
  <2>4. S(remSize - 1) = [j \in Places(n) |-> S(remSize - 1)[j]]
    BY DEF Shrunk
  <2> HIDE DEF S
  <2>5. \A j \in Places(n) :
           S(remSize - 1)[j] = IF j = 0 /\ s < remSize THEN b[s]
             ELSE IF j + remSize < n THEN b[j + remSize] ELSE Blank
    <3>1. CASE s = 0
      BY <1>1, <2>3, <3>1 DEF Places
    <3>2. CASE 0 < s
      BY <1>1, <2>3, <3>2 DEF Places
    <3>3. QED BY <1>1, <3>1, <3>2
  <2>6. QED BY <2>4, <2>5
<1>7. QED BY <1>5, <1>6

-----------------------------------------------------------------------------
(* The invariant.                                                          *)

(* A Hessian, a gradient or a value is asked for some parameter.           *)
Parameters == Key # {}

(* The removal size is between two and one less than the bundle's, which   *)
(* is never beyond its arrays.                                             *)
Fits == remSize \in 2 .. maxSize - 1 /\ size \in 0 .. maxSize

(* The bundle has a subgradient from the first step on, an iteration is    *)
(* entered below the limit only, and searches are made in the nonconvex    *)
(* case, below theirs.                                                     *)
Placed ==
  /\ pc # "start" => size > 0
  /\ pc \in {"cut", "search", "update"} => iter < MaxIter
  /\ pc = "search" => ~convex /\ nfval < SearchLimit

IInv ==
  /\ TypeOK /\ Fits /\ Placed /\ NoOverrun /\ ExactAtIterate
  /\ Typed(ro)
  /\ convex => Untried(ro)

(* What remains of a bundle after the reset.                               *)
LEMMA ResetFacts ==
  ASSUME TypeOK, Fits, size > 0, NEW r \in ResetBundles
  PROVE  /\ r.b \in [Places(maxSize) -> Entry]
         /\ r.n \in 1 .. maxSize - 1
         /\ size < maxSize => r.b = bundle /\ r.n = size
         /\ size = maxSize =>
              /\ r.n = size - remSize + 1
              /\ \A j \in 0 .. size - remSize - 1 :
                   r.b[j] = IF j = 0 /\ Spared(bundle, size) < remSize
                            THEN bundle[Spared(bundle, size)] ELSE bundle[j + remSize]
<1>1. /\ maxSize \in Nat /\ remSize \in 2 .. maxSize - 1 /\ size \in 1 .. maxSize
      /\ bundle \in [Places(maxSize) -> Entry] /\ DOMAIN bundle = Places(maxSize)
  BY BundleAssumption DEF TypeOK, Fits, Places
<1>2. CASE size < maxSize
  <2>1. r = [b |-> bundle, n |-> size]
    BY <1>2 DEF ResetBundles
  <2>2. r.b = bundle /\ r.n = size
    BY <2>1
  <2>3. QED BY <1>1, <1>2, <2>2
<1>3. CASE size = maxSize
  <2> DEFINE s   == Spared(bundle, size)
             ind == Victims(bundle, size)
             b   == Removal(bundle, size, ind)
             n   == size - Len(ind)
  <2>1. ind = [j \in 1 .. remSize |-> IF j - 1 < s THEN j - 1 ELSE j]
    BY DEF Victims
  <2>2. Len(ind) = remSize
    <3> HIDE DEF ind, s
    <3>1. QED BY <1>1, <2>1
  <2>3. b = [j \in Places(size) |->
               IF j = 0 /\ s < remSize THEN bundle[s]
               ELSE IF j + remSize < size THEN bundle[j + remSize] ELSE Blank]
    BY <1>1, <1>3, RemovalOfVictims
  <2>4. s \in 0 .. size
    BY <1>1, SparedFacts
  <2>5. PICK zero \in BOOLEAN :
          r = [b |-> Put(b, n, [of |-> Agg, zero |-> zero]), n |-> n + 1]
    <3>1. ~(size < maxSize)
      BY <1>1, <1>3
    <3>2. r \in {[b |-> Put(b, n, [of |-> Agg, zero |-> zero]), n |-> n + 1] : zero \in BOOLEAN}
      BY <3>1 DEF ResetBundles
    <3> HIDE DEF b, n
    <3>3. QED BY <3>2
  <2>6. n \in 1 .. size - 2 /\ n = size - remSize
    <3> HIDE DEF ind
    <3>1. QED BY <1>1, <1>3, <2>2
  <2> HIDE DEF s, ind
  <2>7. Blank \in Entry /\ [of |-> Agg, zero |-> zero] \in Entry
    BY DEF Blank, Entry, Content
  <2>8. b \in [Places(size) -> Entry]
    <3> HIDE DEF b
    <3>1. ASSUME NEW j \in Places(size)
          PROVE  (IF j = 0 /\ s < remSize THEN bundle[s]
                  ELSE IF j + remSize < size THEN bundle[j + remSize] ELSE Blank) \in Entry
      <4>1. s < remSize => s \in Places(maxSize)
        BY <1>1, <2>4 DEF Places
      <4>2. j + remSize < size => j + remSize \in Places(maxSize)
        BY <1>1, <1>3 DEF Places
      <4>3. QED BY <1>1, <2>7, <4>1, <4>2
    <3>2. QED BY <2>3, <3>1
  <2> HIDE DEF b, n
  <2>9. r.b = Put(b, n, [of |-> Agg, zero |-> zero]) /\ r.n = n + 1
    BY <2>5
  <2>10. r.b = [b EXCEPT ![n] = [of |-> Agg, zero |-> zero]]
    BY <1>1, <1>3, <2>6, <2>9 DEF Put, InBounds
  <2>11. r.b \in [Places(maxSize) -> Entry]
    BY <1>3, <2>7, <2>8, <2>10
  <2>12. \A j \in 0 .. size - remSize - 1 : j \in Places(size) /\ j # n /\ j + remSize < size
    BY <1>1, <2>6 DEF Places
  <2>13. \A j \in 0 .. size - remSize - 1 : r.b[j] = b[j]
    BY <2>8, <2>10, <2>12
  <2>14. r.n \in 1 .. maxSize - 1 /\ r.n = size - remSize + 1
    BY <1>1, <1>3, <2>6, <2>9
  <2>15. \A j \in 0 .. size - remSize - 1 :
            r.b[j] = IF j = 0 /\ s < remSize THEN bundle[s] ELSE bundle[j + remSize]
    BY <2>3, <2>12, <2>13
  <2>16. ~(size < maxSize)
    BY <1>1, <1>3
  <2>17. QED BY <2>11, <2>14, <2>15, <2>16 DEF s
<1>4. QED BY <1>1, <1>2, <1>3

(* What a step does to the bundle, beyond the reset.                       *)
LEMMA StepTaken ==
  ASSUME TypeOK, Fits, size > 0, TakeStep
  PROVE  \E r \in ResetBundles :
           /\ size' = r.n + 1
           /\ overrun' = (overrun \/ ~InBounds(r.n) \/ r.n > maxSize)
           /\ bundle' \in [Places(maxSize) -> Entry]
           /\ \A i \in 0 .. r.n - 1 : bundle'[i].of = r.b[i].of
           /\ stepFlag # 1 => \A i \in 0 .. r.n - 1 : bundle'[i] = r.b[i]
           /\ stepFlag = 1 => bundle'[r.n].zero
           /\ x' \in Val
<1> DEFINE serious == stepFlag = 1
           new     == [of |-> grad, zero |-> TRUE]
<1>1. PICK r \in ResetBundles :
        /\ \E b \in (IF serious THEN Relinearized(r.b, r.n) ELSE {r.b}) :
              \E z \in (IF serious THEN {TRUE} ELSE BOOLEAN) :
                bundle' = Put(b, r.n, [new EXCEPT !.zero = z])
        /\ size' = r.n + 1
        /\ overrun' = (overrun \/ ~InBounds(r.n) \/ r.n > maxSize)
        /\ x' = IF serious THEN y ELSE x
  BY DEF TakeStep
<1>2. /\ r.b \in [Places(maxSize) -> Entry] /\ r.n \in 1 .. maxSize - 1
      /\ maxSize \in Nat /\ r.n < maxSize
  BY ResetFacts, BundleAssumption DEF TypeOK
<1>3. PICK b \in (IF serious THEN Relinearized(r.b, r.n) ELSE {r.b}) :
        \E z \in (IF serious THEN {TRUE} ELSE BOOLEAN) :
          bundle' = Put(b, r.n, [new EXCEPT !.zero = z])
  BY <1>1
<1>4. PICK z \in (IF serious THEN {TRUE} ELSE BOOLEAN) :
        bundle' = Put(b, r.n, [new EXCEPT !.zero = z])
  BY <1>3
<1>5. /\ b \in [Places(maxSize) -> Entry]
      /\ \A i \in Places(maxSize) : b[i].of = r.b[i].of
      /\ stepFlag # 1 => b = r.b
  <2>1. CASE serious
    <3>1. b \in Relinearized(r.b, r.n)
      BY <1>3, <2>1
    <3>2. PICK zeros \in SUBSET (0 .. r.n - 1) :
            b = [i \in DOMAIN r.b |->
                   IF i < r.n THEN [r.b[i] EXCEPT !.zero = (i \in zeros)]
                   ELSE r.b[i]]
      BY <3>1 DEF Relinearized
    <3>3. ASSUME NEW i \in Places(maxSize)
          PROVE  b[i] \in Entry /\ b[i].of = r.b[i].of
      <4>1. r.b[i] \in Entry
        BY <1>2
      <4> DEFINE e == r.b[i]
                 t == i \in zeros
      <4>2. b[i] = e \/ b[i] = [e EXCEPT !.zero = t]
        BY <1>2, <3>2
      <4>3. t \in BOOLEAN
        OBVIOUS
      <4> HIDE DEF e, t
      <4>4. e \in Entry => [e EXCEPT !.zero = t] \in Entry /\ [e EXCEPT !.zero = t].of = e.of
        BY <4>3 DEF Entry
      <4>5. QED BY <4>1, <4>2, <4>4 DEF e
    <3>4. b = [i \in Places(maxSize) |-> b[i]]
      BY <1>2, <3>2
    <3>5. QED BY <2>1, <3>3, <3>4
  <2>2. CASE ~serious
    BY <1>2, <1>3, <2>2
  <2>3. QED BY <2>1, <2>2
<1> DEFINE e == [new EXCEPT !.zero = z]
<1>6. e \in Entry /\ (serious => e.zero)
  <2>1. z \in BOOLEAN
    BY <1>4
  <2>2. new \in Entry /\ new.zero
    BY DEF Entry, TypeOK
  <2>3. serious => z = TRUE
    BY <1>4
  <2> HIDE DEF new
  <2>4. e \in Entry /\ e.zero = z
    BY <2>1, <2>2 DEF Entry
  <2>5. QED BY <2>3, <2>4
<1> HIDE DEF e
<1>7. bundle' = [b EXCEPT ![r.n] = e]
  BY <1>2, <1>4 DEF Put, InBounds, e
<1>8. bundle' \in [Places(maxSize) -> Entry]
  BY <1>5, <1>6, <1>7
<1>9. r.n \in Places(maxSize) /\ \A i \in 0 .. r.n - 1 : i \in Places(maxSize) /\ i # r.n
  BY <1>2 DEF Places
<1>10. bundle'[r.n] = e /\ \A i \in 0 .. r.n - 1 : bundle'[i] = b[i]
  BY <1>5, <1>7, <1>9
<1>11. x' \in Val
  BY <1>1 DEF TypeOK
<1>12. QED
  <2>1. \A i \in 0 .. r.n - 1 : bundle'[i].of = r.b[i].of
    BY <1>5, <1>9, <1>10
  <2>2. stepFlag # 1 => \A i \in 0 .. r.n - 1 : bundle'[i] = r.b[i]
    BY <1>5, <1>10
  <2>3. stepFlag = 1 => bundle'[r.n].zero
    BY <1>6, <1>10
  <2>4. QED BY <1>1, <1>8, <1>11, <2>1, <2>2, <2>3

(* The initial states.                                                     *)
LEMMA InvInit == Init => IInv
<1> SUFFICES ASSUME Init PROVE IInv
  OBVIOUS
<1>1. maxSize \in Nat /\ maxSize > 2 /\ remSize \in 2 .. maxSize - 1
  <2>1. maxSize \in Nat /\ maxSize > 2
    BY BundleAssumption DEF Init
  <2>2. PICK r \in RemovalSizes : remSize = Clamped(r, maxSize)
    BY DEF Init
  <2>3. r \in Nat
    BY BundleAssumption
  <2>4. QED BY <2>1, <2>2, <2>3 DEF Clamped
<1>2. bundle \in [0 .. maxSize - 1 -> Entry] /\ size \in 0 .. maxSize
  BY <1>1 DEF Init, Blank, Entry, Content
<1>3. Typed(ro) /\ Untried(ro) /\ ro \in ReducedObjectives
  BY NewTyped, NewUntried DEF Init, Typed
<1>4. /\ nfval \in 0 .. SearchLimit /\ iter \in 0 .. MaxIter /\ stepFlag \in 0 .. 2
      /\ run \in 1 .. MaxRuns
  BY BundleAssumption DEF Init
<1>5. /\ pc = "start" /\ maxSize \in Sizes /\ x \in Val /\ y \in Val
      /\ grad \in Content /\ convex \in BOOLEAN /\ flag \in BOOLEAN /\ overrun \in BOOLEAN
      /\ size = 0
  BY BundleAssumption DEF Init, Content
<1>6. TypeOK /\ Fits
  BY <1>1, <1>2, <1>3, <1>4, <1>5 DEF TypeOK, Fits
<1>7. Placed /\ NoOverrun /\ ExactAtIterate
  BY DEF Init, Placed, NoOverrun, ExactAtIterate
<1>8. QED BY <1>3, <1>6, <1>7 DEF IInv

(* The bundle gets its first subgradient, at the iterate.                  *)
LEMMA InvInitialize == Parameters /\ IInv /\ Initialize => IInv'
<1> SUFFICES ASSUME Parameters, IInv, Initialize PROVE IInv'
  OBVIOUS
<1>1. K \in Key /\ x \in Val /\ x \in Content
  BY DEF Parameters, K, IInv, TypeOK, Content
<1>2. Typed(ro') /\ ro' \in ReducedObjectives
  BY <1>1, UpdateTyped, ValueTyped, GradientTyped DEF Initialize, IInv, UpdateType, Typed
<1>3. convex => Untried(ro')
  BY <1>1, AskedUntried DEF Initialize, IInv
<1>4. /\ maxSize \in Nat /\ maxSize > 2 /\ size \in 0 .. maxSize
      /\ bundle \in [0 .. maxSize - 1 -> Entry]
  BY BundleAssumption DEF IInv, TypeOK, Fits
<1>5. /\ bundle' \in [0 .. maxSize - 1 -> Entry] /\ size' \in 1 .. maxSize
      /\ size = 0 => size' = 1 /\ bundle'[0].zero
      /\ size # 0 => bundle' = bundle /\ size' = size
  <2>1. CASE size = 0
    <3> DEFINE e == [of |-> x, zero |-> TRUE]
    <3>1. e \in Entry /\ e.zero
      BY <1>1 DEF Entry
    <3> HIDE DEF e
    <3>2. bundle' = [bundle EXCEPT ![0] = e] /\ size' = 1
      BY <2>1 DEF Initialize, e
    <3>3. QED BY <1>4, <2>1, <3>1, <3>2
  <2>2. CASE size # 0
    BY <1>4, <2>2 DEF Initialize
  <2>3. QED BY <2>1, <2>2
<1>6. ExactAtIterate'
  <2>1. CASE size = 0
    BY <1>5, <2>1 DEF ExactAtIterate, InUse
  <2>2. CASE size # 0
    BY <1>4, <1>5, <2>2 DEF ExactAtIterate, InUse, Initialize, IInv
  <2>3. QED BY <2>1, <2>2
<1>7. TypeOK' /\ Fits'
  BY <1>1, <1>2, <1>4, <1>5 DEF TypeOK, Fits, IInv, Initialize, fixed
<1>8. Placed' /\ NoOverrun'
  BY <1>1, <1>5 DEF Placed, NoOverrun, IInv, Initialize
<1>9. QED BY <1>2, <1>3, <1>6, <1>7, <1>8 DEF IInv, Initialize, fixed

(* The actions that leave the bundle and the objective alone.              *)
LEMMA InvSteer == IInv /\ (Stop \/ Enter \/ GiveUp \/ Restart) => IInv'
<1> SUFFICES ASSUME IInv, Stop \/ Enter \/ GiveUp \/ Restart PROVE IInv'
  OBVIOUS
<1>1. UNCHANGED <<fixed, bundle, size, ro, nfval, overrun>>
  BY DEF Stop, Enter, GiveUp, Restart, fixed
<1>2. TypeOK' /\ Fits'
  <2>1. /\ pc' \in {"start", "check", "cut", "search", "update", "done"}
        /\ x' \in Val /\ y' \in Val /\ stepFlag' \in 0 .. 2 /\ iter' \in 0 .. MaxIter
        /\ run' \in 1 .. MaxRuns /\ flag' \in BOOLEAN /\ grad' \in Content
    <3>1. CASE Stop \/ Enter
      BY <3>1 DEF Stop, Enter, IInv, TypeOK
    <3>2. CASE GiveUp
      BY <3>2 DEF GiveUp, IInv, TypeOK
    <3>3. CASE Restart
      <4>1. /\ pc' = "start" /\ x' \in Val /\ y' = x' /\ stepFlag' = stepFlag /\ iter' = 0
            /\ run' = run + 1 /\ run < MaxRuns /\ flag' = FALSE /\ grad' = NoVal
        BY <3>3 DEF Restart
      <4>2. run \in 1 .. MaxRuns /\ stepFlag \in 0 .. 2 /\ MaxRuns \in Nat /\ MaxIter \in Nat
        BY BundleAssumption DEF IInv, TypeOK
      <4>3. /\ x' \in Val /\ y' \in Val /\ stepFlag' \in 0 .. 2 /\ iter' \in 0 .. MaxIter
            /\ run' \in 1 .. MaxRuns /\ grad' \in Content
        BY <4>1, <4>2 DEF Content
      <4>4. QED BY <4>1, <4>3
    <3>4. QED BY <3>1, <3>2, <3>3
  <2>2. QED BY <1>1, <2>1 DEF IInv, TypeOK, Fits, fixed
<1>3. ExactAtIterate'
  <2>1. run' = run \/ run' # 1
    BY DEF Stop, Enter, GiveUp, Restart, IInv, TypeOK
  <2>2. QED BY <1>1, <2>1 DEF IInv, ExactAtIterate, InUse
<1>4. Placed' /\ NoOverrun'
  BY <1>1 DEF Placed, NoOverrun, IInv, Stop, Enter, GiveUp, Restart, fixed
<1>5. QED BY <1>1, <1>2, <1>3, <1>4 DEF IInv, fixed

(* A candidate is evaluated.                                               *)
LEMMA InvCut == Parameters /\ IInv /\ Cut => IInv'
<1> SUFFICES ASSUME Parameters, IInv, Cut PROVE IInv'
  OBVIOUS
<1>1. K \in Key /\ y' \in Val /\ y' \in Content /\ ro' = Asked(y')
  BY DEF Parameters, K, Cut, Content
<1>2. Typed(ro') /\ ro' \in ReducedObjectives
  <2>1. \A z \in Val : Typed(Asked(z))
    BY <1>1, UpdateTyped, ValueTyped, GradientTyped DEF Asked, IInv, UpdateType
  <2>2. QED BY <1>1, <2>1 DEF Typed
<1>3. convex => Untried(ro')
  <2>1. \A z \in Val : convex => Untried(Asked(z))
    BY <1>1, AskedUntried DEF Asked, IInv
  <2>2. QED BY <1>1, <2>1
<1>4. /\ pc' \in {"update", "search", "cut"} /\ stepFlag' \in 0 .. 2 /\ nfval' \in 0 .. SearchLimit
      /\ pc' = "search" => ~convex /\ nfval' < SearchLimit
  BY BundleAssumption DEF Cut, SeriousCut, NullCut, SearchCut, OtherRadius, IInv, TypeOK
<1>5. UNCHANGED <<fixed, bundle, size, x, flag, iter, run, overrun>> /\ pc = "cut" /\ grad' = y'
  BY DEF Cut
<1>6. TypeOK' /\ Fits'
  BY <1>1, <1>2, <1>4, <1>5 DEF TypeOK, Fits, IInv, fixed
<1>7. Placed' /\ NoOverrun' /\ ExactAtIterate'
  BY <1>1, <1>4, <1>5 DEF Placed, NoOverrun, ExactAtIterate, InUse, IInv, fixed
<1>8. QED BY <1>2, <1>3, <1>5, <1>6, <1>7 DEF IInv, fixed

(* A trial of the line search.                                             *)
LEMMA InvSearch == Parameters /\ IInv /\ Search => IInv'
<1> SUFFICES ASSUME Parameters, IInv, Search PROVE IInv'
  OBVIOUS
<1>1. PICK z \in Val :
        /\ ro' = Value(Update(ro, "Trial", z), K, z)
        /\ nfval' = nfval + 1
        /\ IF nfval' = SearchLimit
           THEN stepFlag' = 0 /\ pc' = "update" /\ UNCHANGED y
           ELSE \/ stepFlag' = 1 /\ y' = z /\ pc' = "update"
                \/ UNCHANGED <<stepFlag, y, pc>>
  BY DEF Search
<1>2. Typed(ro') /\ ro' \in ReducedObjectives
  <2>1. K \in Key /\ z \in Val
    BY DEF Parameters, K
  <2>2. QED BY <1>1, <2>1, UpdateTyped, ValueTyped DEF IInv, UpdateType, Typed
<1>3. ~convex /\ nfval < SearchLimit /\ pc = "search"
  BY DEF Search, IInv, Placed
<1>4. /\ pc' \in {"update", "search"} /\ stepFlag' \in 0 .. 2 /\ nfval' \in 0 .. SearchLimit
      /\ y' \in Val
      /\ pc' = "search" => nfval' < SearchLimit
  BY <1>1, <1>3, BundleAssumption DEF IInv, TypeOK
<1>5. UNCHANGED <<fixed, bundle, size, x, grad, flag, iter, run, overrun>>
  BY DEF Search
<1>6. TypeOK' /\ Fits'
  BY <1>2, <1>4, <1>5 DEF TypeOK, Fits, IInv, fixed
<1>7. Placed' /\ NoOverrun' /\ ExactAtIterate'
  BY <1>3, <1>4, <1>5 DEF Placed, NoOverrun, ExactAtIterate, InUse, IInv, fixed
<1>8. QED BY <1>2, <1>3, <1>5, <1>6, <1>7 DEF IInv, fixed

(* The end of an iteration: the spared subgradient is where the reset left *)
(* it, and the new one is beyond.                                          *)
LEMMA InvFinish == IInv /\ Finish => IInv'
<1> SUFFICES ASSUME IInv, Finish PROVE IInv'
  OBVIOUS
<1>1. /\ UNCHANGED <<fixed, ro, y, grad, nfval, stepFlag, flag, run>>
      /\ pc = "update" /\ pc' = "check"
  BY DEF Finish, fixed
<1>2. iter' \in 0 .. MaxIter
  BY BundleAssumption DEF Finish, IInv, TypeOK, Placed
<1>3. /\ maxSize \in Nat /\ maxSize > 2 /\ remSize \in 2 .. maxSize - 1 /\ size \in 1 .. maxSize
      /\ bundle \in [Places(maxSize) -> Entry]
  BY <1>1, BundleAssumption DEF IInv, TypeOK, Fits, Placed, Places
<1>4. /\ bundle' \in [Places(maxSize) -> Entry] /\ size' \in 1 .. maxSize
      /\ x' \in Val /\ overrun' = FALSE /\ ExactAtIterate'
  <2>1. CASE flag
    <3>1. UNCHANGED <<bundle, size, overrun, x>>
      BY <2>1 DEF Finish
    <3>2. QED BY <1>1, <1>3, <3>1 DEF IInv, TypeOK, NoOverrun, ExactAtIterate, InUse
  <2>2. CASE ~flag
    <3>1. TakeStep
      BY <2>2 DEF Finish
    <3>2. PICK r \in ResetBundles :
            /\ size' = r.n + 1
            /\ overrun' = (overrun \/ ~InBounds(r.n) \/ r.n > maxSize)
            /\ bundle' \in [Places(maxSize) -> Entry]
            /\ stepFlag # 1 => \A i \in 0 .. r.n - 1 : bundle'[i] = r.b[i]
            /\ stepFlag = 1 => bundle'[r.n].zero
            /\ x' \in Val
      BY <1>3, <3>1, StepTaken DEF IInv, Placed
    <3>3. /\ r.n \in 1 .. maxSize - 1
          /\ size < maxSize => r.b = bundle /\ r.n = size
          /\ size = maxSize =>
               /\ r.n = size - remSize + 1
               /\ \A j \in 0 .. size - remSize - 1 :
                    r.b[j] = IF j = 0 /\ Spared(bundle, size) < remSize
                             THEN bundle[Spared(bundle, size)] ELSE bundle[j + remSize]
      BY <1>3, ResetFacts DEF IInv
    <3>4. size' \in 1 .. maxSize /\ overrun' = FALSE
      <4>1. size' \in 1 .. maxSize /\ InBounds(r.n) /\ ~(r.n > maxSize)
        BY <1>3, <3>2, <3>3 DEF InBounds
      <4>2. ~overrun
        BY DEF IInv, NoOverrun
      <4>3. QED BY <3>2, <4>1, <4>2
    <3>5. ASSUME run = 1 PROVE \E i \in 0 .. r.n : bundle'[i].zero
      <4>1. CASE stepFlag = 1
        BY <3>2, <3>3, <4>1
      <4>2. CASE stepFlag # 1
        <5>1. PICK i \in Places(size) : bundle[i].zero
          BY <1>3, <3>5 DEF IInv, ExactAtIterate, InUse, Places
        <5>2. CASE size < maxSize
          BY <1>3, <3>2, <3>3, <4>2, <5>1, <5>2 DEF Places
        <5>3. CASE size = maxSize
          <6> DEFINE s == Spared(bundle, size)
          <6>1. s \in 0 .. size - 1 /\ bundle[s].zero
            BY <1>3, <5>1, SparedFacts
          <6>2. /\ r.n = size - remSize + 1
                /\ \A j \in 0 .. size - remSize - 1 :
                     r.b[j] = IF j = 0 /\ s < remSize THEN bundle[s] ELSE bundle[j + remSize]
            BY <3>3, <5>3
          <6> HIDE DEF s
          <6>3. CASE s < remSize
            <7>1. 0 \in 0 .. size - remSize - 1 /\ 0 \in 0 .. r.n - 1 /\ 0 \in 0 .. r.n
              BY <1>3, <5>3, <6>2
            <7>2. r.b[0] = bundle[s]
              BY <6>2, <6>3, <7>1
            <7>3. bundle'[0] = bundle[s]
              BY <3>2, <4>2, <7>1, <7>2
            <7>4. QED BY <6>1, <7>1, <7>3
          <6>4. CASE remSize <= s
            <7> DEFINE j == s - remSize
            <7>1. /\ j \in 0 .. size - remSize - 1 /\ j \in 0 .. r.n - 1 /\ j \in 0 .. r.n
                  /\ j + remSize = s /\ ~(s < remSize)
              BY <1>3, <5>3, <6>1, <6>2, <6>4
            <7> HIDE DEF j
            <7>2. r.b[j] = bundle[s]
              BY <6>2, <7>1
            <7>3. bundle'[j] = bundle[s]
              BY <3>2, <4>2, <7>1, <7>2
            <7>4. QED BY <6>1, <7>1, <7>3
          <6>5. QED BY <1>3, <6>1, <6>3, <6>4
        <5>4. QED BY <1>3, <5>2, <5>3
      <4>3. QED BY <4>1, <4>2
    <3>6. 0 .. size' - 1 = 0 .. r.n
      BY <3>2, <3>3
    <3>7. ExactAtIterate'
      BY <1>1, <3>5, <3>6 DEF ExactAtIterate, InUse
    <3>8. QED BY <3>2, <3>4, <3>7
  <2>3. QED BY <2>1, <2>2
<1>5. TypeOK' /\ Fits'
  <2>1. /\ bundle' \in [0 .. maxSize' - 1 -> Entry] /\ size' \in 0 .. maxSize' /\ size' \in Nat
        /\ maxSize' = maxSize /\ remSize' = remSize /\ remSize' \in Nat
    BY <1>1, <1>3, <1>4 DEF fixed, Places
  <2>2. convex' \in BOOLEAN /\ flag' \in BOOLEAN /\ overrun' \in BOOLEAN
    BY <1>1, <1>4 DEF IInv, TypeOK, fixed
  <2>3. /\ maxSize' \in Sizes /\ ro' \in ReducedObjectives /\ y' \in Val /\ grad' \in Content
        /\ nfval' \in 0 .. SearchLimit /\ stepFlag' \in 0 .. 2 /\ run' \in 1 .. MaxRuns
    BY <1>1 DEF IInv, TypeOK, fixed
  <2>4. QED BY <1>1, <1>2, <1>3, <1>4, <2>1, <2>2, <2>3 DEF TypeOK, Fits
<1>6. Placed' /\ NoOverrun'
  BY <1>1, <1>4 DEF Placed, NoOverrun
<1>7. QED BY <1>1, <1>4, <1>5, <1>6 DEF IInv, fixed

(* IInv holds in every reachable state of the bundle method.               *)
THEOREM InvariantOfBundle ==
  ASSUME Parameters
  PROVE  Spec => []IInv
<1>1. IInv /\ [Next]_vars => IInv'
  <2> SUFFICES ASSUME IInv, [Next]_vars PROVE IInv'
    OBVIOUS
  <2>1. CASE Initialize
    BY <2>1, InvInitialize
  <2>2. CASE Stop \/ Enter \/ GiveUp \/ Restart
    BY <2>2, InvSteer
  <2>3. CASE Cut
    BY <2>3, InvCut
  <2>4. CASE Search
    BY <2>4, InvSearch
  <2>5. CASE Finish
    BY <2>5, InvFinish
  <2>6. CASE UNCHANGED vars
    BY <2>6 DEF vars, fixed, IInv, TypeOK, Fits, Placed, NoOverrun, ExactAtIterate, InUse
  <2>7. QED BY <2>1, <2>2, <2>3, <2>4, <2>5, <2>6 DEF Next
<1>2. QED BY InvInit, <1>1, PTL DEF Spec

(* Every variable has its type, whatever the sizes asked for, and neither  *)
(* a search nor the method goes on beyond its limit.                       *)
THEOREM TypeCorrect ==
  ASSUME Parameters
  PROVE  Spec => []TypeOK
<1>1. IInv => TypeOK
  BY DEF IInv
<1>2. QED BY InvariantOfBundle, <1>1, PTL

(* Bundle_U never writes beyond its arrays, for every maximum size from 3  *)
(* on and every removal size.                                              *)
THEOREM NeverOverrun ==
  ASSUME Parameters
  PROVE  Spec => []NoOverrun
<1>1. IInv => NoOverrun
  BY DEF IInv
<1>2. QED BY InvariantOfBundle, <1>1, PTL

(* Through the first run a subgradient of error zero stays in the bundle,  *)
(* however often reset() makes room.                                       *)
THEOREM KeepsExact ==
  ASSUME Parameters
  PROVE  Spec => []ExactAtIterate
<1>1. IInv => ExactAtIterate
  BY DEF IInv
<1>2. QED BY InvariantOfBundle, <1>1, PTL

(* In the convex case the objective answers for the point it is asked for, *)
(* although candidates are announced as accepted.                          *)
THEOREM Fresh ==
  ASSUME Parameters
  PROVE  Spec => []FreshIfConvex
<1>1. IInv => FreshIfConvex
  BY DEF IInv, FreshIfConvex, AnswersAreFresh, Untried
<1>2. QED BY InvariantOfBundle, <1>1, PTL

(* The victims, and how many of them come before a subgradient that stays. *)
LEMMA ChosenFacts ==
  ASSUME NEW s \in 0 .. size, s = Spared(bundle, size),
         maxSize \in Nat, size = maxSize, remSize \in 2 .. maxSize - 1,
         NEW i \in (0 .. size - 1) \ Chosen
  PROVE  LET c == Cardinality({v \in Chosen : v < i}) IN
         \/ s < remSize /\ i = s /\ c = i
         \/ i - remSize \in 0 .. size - remSize - 1 /\ c = remSize
            /\ ~(i - remSize = 0 /\ s < remSize)
<1> DEFINE below == {v \in Chosen : v < i}
<1>1. /\ remSize \in Nat /\ remSize > 1 /\ size \in Nat /\ remSize < size
      /\ s \in Nat /\ i \in 0 .. size - 1
  OBVIOUS
<1>2. Chosen = {(IF j - 1 < s THEN j - 1 ELSE j) : j \in 1 .. remSize}
  <2> DEFINE ind == Victims(bundle, size)
  <2>1. ind = [j \in 1 .. remSize |-> IF j - 1 < s THEN j - 1 ELSE j]
    BY DEF Victims
  <2>2. Chosen = {ind[j] : j \in DOMAIN ind}
    BY DEF Chosen, ToSet
  <2> HIDE DEF ind
  <2>3. QED BY <2>1, <2>2
<1>3. CASE s < remSize
  <2>1. Chosen = (0 .. remSize) \ {s}
    <3>1. ASSUME NEW v \in (0 .. remSize) \ {s} PROVE v \in Chosen
      <4>1. CASE v < s
        <5>1. v + 1 \in 1 .. remSize /\ (v + 1) - 1 < s /\ (v + 1) - 1 = v
          BY <1>1, <1>3, <4>1
        <5>2. QED BY <1>2, <5>1
      <4>2. CASE s < v
        <5>1. v \in 1 .. remSize /\ ~(v - 1 < s)
          BY <1>1, <1>3, <4>2
        <5>2. QED BY <1>2, <5>1
      <4>3. QED BY <1>1, <4>1, <4>2
    <3>2. ASSUME NEW v \in Chosen PROVE v \in (0 .. remSize) \ {s}
      <4>1. PICK j \in 1 .. remSize : v = IF j - 1 < s THEN j - 1 ELSE j
        BY <1>2
      <4>2. QED BY <1>1, <4>1
    <3>3. QED BY <3>1, <3>2
  <2>2. CASE i = s
    <3>1. below = 0 .. s - 1
      BY <1>1, <1>3, <2>1, <2>2
    <3>2. Cardinality(0 .. s - 1) = s
      BY <1>1, FS_Interval
    <3>3. QED BY <1>3, <2>2, <3>1, <3>2
  <2>3. CASE i # s
    <3>1. i > remSize
      BY <1>1, <2>1, <2>3
    <3>2. below = (0 .. remSize) \ {s}
      BY <1>1, <2>1, <3>1
    <3>3. IsFiniteSet(0 .. remSize) /\ Cardinality(0 .. remSize) = remSize + 1
      <4>1. \A h, j \in Int : IsFiniteSet(h .. j) /\ Cardinality(h .. j) = IF h > j THEN 0 ELSE j - h + 1
        BY FS_Interval
      <4>2. 0 \in Int /\ remSize \in Int /\ ~(0 > remSize) /\ remSize - 0 + 1 = remSize + 1
        BY <1>1
      <4>3. QED BY <4>1, <4>2
    <3>4. s \in 0 .. remSize
      BY <1>1, <1>3
    <3>5. Cardinality((0 .. remSize) \ {s}) = remSize
      <4> DEFINE S == 0 .. remSize
      <4>1. IsFiniteSet(S) /\ Cardinality(S) = remSize + 1 /\ s \in S
        BY <3>3, <3>4
      <4> HIDE DEF S
      <4>2. Cardinality(S \ {s}) = Cardinality(S) - 1
        BY <4>1, FS_RemoveElement
      <4>3. (remSize + 1) - 1 = remSize
        BY <1>1
      <4>4. QED BY <4>1, <4>2, <4>3 DEF S
    <3>6. QED BY <1>1, <3>1, <3>2, <3>5
  <2>4. QED BY <2>2, <2>3
<1>4. CASE remSize <= s
  <2>1. Chosen = 0 .. remSize - 1
    <3>1. ASSUME NEW v \in 0 .. remSize - 1 PROVE v \in Chosen
      <4>1. v + 1 \in 1 .. remSize /\ (v + 1) - 1 < s /\ (v + 1) - 1 = v
        BY <1>1, <1>4
      <4>2. QED BY <1>2, <4>1
    <3>2. ASSUME NEW v \in Chosen PROVE v \in 0 .. remSize - 1
      <4>1. PICK j \in 1 .. remSize : v = IF j - 1 < s THEN j - 1 ELSE j
        BY <1>2
      <4>2. QED BY <1>1, <1>4, <4>1
    <3>3. QED BY <3>1, <3>2
  <2>2. i >= remSize
    BY <1>1, <2>1
  <2>3. below = 0 .. remSize - 1
    BY <1>1, <2>1, <2>2
  <2>4. Cardinality(0 .. remSize - 1) = remSize
    BY <1>1, FS_Interval
  <2>5. /\ i - remSize \in 0 .. size - remSize - 1
        /\ ~(s < remSize)
    BY <1>1, <1>4, <2>2
  <2>6. QED BY <2>3, <2>4, <2>5
<1>5. QED BY <1>1, <1>3, <1>4

(* A reset moves the subgradients it keeps down by the number of victims   *)
(* before them, and neither drops nor doubles any.                         *)
THEOREM OnlyVictimsGo ==
  ASSUME Parameters
  PROVE  Spec => RemovesOnlyVictims
<1> DEFINE Step == pc = "update" /\ ~flag /\ size = maxSize =>
                     \A i \in (0 .. size - 1) \ Chosen :
                       bundle'[i - Cardinality({v \in Chosen : v < i})].of = bundle[i].of
<1>1. IInv /\ [Next]_vars => [Step]_vars
  <2> SUFFICES ASSUME IInv, Next, pc = "update", ~flag, size = maxSize,
                      NEW i \in (0 .. size - 1) \ Chosen
               PROVE  bundle'[i - Cardinality({v \in Chosen : v < i})].of = bundle[i].of
    OBVIOUS
  <2>1. Finish /\ TakeStep
    BY DEF Next, Initialize, Stop, Enter, GiveUp, Cut, Search, Finish, Restart
  <2>2. /\ maxSize \in Nat /\ maxSize > 2 /\ remSize \in 2 .. maxSize - 1 /\ size > 0
        /\ TypeOK /\ Fits
    BY BundleAssumption DEF IInv, TypeOK, Fits, Placed
  <2>3. PICK r \in ResetBundles : \A j \in 0 .. r.n - 1 : bundle'[j].of = r.b[j].of
    BY <2>1, <2>2, StepTaken
  <2> DEFINE s == Spared(bundle, size)
             c == Cardinality({v \in Chosen : v < i})
  <2>4. /\ r.n = size - remSize + 1
        /\ \A j \in 0 .. size - remSize - 1 :
             r.b[j] = IF j = 0 /\ s < remSize THEN bundle[s] ELSE bundle[j + remSize]
    BY <2>2, ResetFacts
  <2>5. s \in 0 .. size
    BY <2>2, SparedFacts
  <2>6. \/ s < remSize /\ i = s /\ c = i
        \/ i - remSize \in 0 .. size - remSize - 1 /\ c = remSize
           /\ ~(i - remSize = 0 /\ s < remSize)
    <3> DEFINE t == s
    <3>1. t \in 0 .. size /\ t = Spared(bundle, size)
      BY <2>5
    <3> HIDE DEF t
    <3>2. \/ t < remSize /\ i = t /\ c = i
          \/ i - remSize \in 0 .. size - remSize - 1 /\ c = remSize
             /\ ~(i - remSize = 0 /\ t < remSize)
      BY <2>2, <3>1, ChosenFacts
    <3>3. QED BY <3>2 DEF t
  <2> HIDE DEF s, c
  <2>7. CASE s < remSize /\ i = s /\ c = i
    <3>1. i - c = 0 /\ 0 \in 0 .. size - remSize - 1 /\ 0 \in 0 .. r.n - 1
      BY <2>2, <2>4, <2>5, <2>7
    <3>2. r.b[0] = bundle[s]
      BY <2>4, <2>7, <3>1
    <3>3. bundle'[i - c].of = bundle[i].of
      BY <2>3, <2>7, <3>1, <3>2
    <3>4. QED BY <3>3 DEF c
  <2>8. CASE /\ i - remSize \in 0 .. size - remSize - 1 /\ c = remSize
             /\ ~(i - remSize = 0 /\ s < remSize)
    <3>1. i - c \in 0 .. size - remSize - 1 /\ i - c \in 0 .. r.n - 1 /\ (i - c) + remSize = i
      BY <2>2, <2>4, <2>8
    <3>2. r.b[i - c] = bundle[i]
      BY <2>4, <2>8, <3>1
    <3>3. bundle'[i - c].of = bundle[i].of
      BY <2>3, <3>1, <3>2
    <3>4. QED BY <3>3 DEF c
  <2>9. QED BY <2>6, <2>7, <2>8
<1>2. QED BY InvariantOfBundle, <1>1, PTL DEF Spec, RemovesOnlyVictims
=============================================================================
