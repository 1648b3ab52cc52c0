------------------------------- MODULE BundleU -------------------------------
(***************************************************************************)
(* ROL::TypeU::BundleAlgorithm and the bundle of subgradients it keeps     *)
(* (Bundle_U), minimizing a reduced objective.                             *)
(*                                                                         *)
(* The bundle is a block of arrays of fixed length, of which the first     *)
(* `size` places are in use.  A subgradient is represented by the point it *)
(* belongs to, or by Agg if it is an aggregate, and its linearization      *)
(* error by whether it is zero.  The cutting plane problem leads anywhere, *)
(* and the tests of its solution, and those of the line search, may go     *)
(* either way.                                                             *)
(***************************************************************************)
EXTENDS ReducedObjective, Integers, SequencesExt

CONSTANTS
  Sizes,         (* values of Maximum Bundle Size                           *)
  RemovalSizes,  (* values of Removal Size for Bundle Update                *)
  Convexities,   (* whether the distance measure coefficient is zero        *)
  SearchLimit,   (* the line search's limit of evaluations, and ls_maxit_   *)
  MaxIter,       (* iteration limit of the status test: serious steps       *)
  MaxRuns,       (* runs of the same algorithm, with a reset() in between   *)
  Agg

(* Two places for the aggregate and the new subgradient, and one for a     *)
(* subgradient of zero error that is kept.                                 *)
ASSUME BundleAssumption ==
  /\ Sizes \subseteq Nat \ (0 .. 2) /\ RemovalSizes \subseteq Nat
  /\ Convexities \subseteq BOOLEAN
  /\ SearchLimit \in Nat \ {0} /\ MaxIter \in Nat /\ MaxRuns \in Nat \ {0}
  /\ Agg \notin Content

VARIABLES
  pc,               (* "start", "check", "cut", "search", "update", "done"  *)
  convex,           (* the problem                                          *)
  maxSize, remSize, (* parameters of the bundle                             *)
  bundle, size,
  ro,               (* the objective                                        *)
  x, y,             (* the iterate, and where its step leads                *)
  grad,             (* whose gradient state_->gradientVec is                *)
  nfval,            (* evaluations of the line search                       *)
  stepFlag, flag,   (* step_flag_, state_->flag                             *)
  iter, run,
  overrun           (* history: a write beyond the arrays                   *)

vars == <<pc, convex, maxSize, remSize, bundle, size, ro, x, y, grad, nfval,
          stepFlag, flag, iter, run, overrun>>

fixed == <<convex, maxSize, remSize>>

K == CHOOSE k \in Key : TRUE

-----------------------------------------------------------------------------
(* The bundle.                                                             *)

Entry == [of : Content \cup {Agg}, zero : BOOLEAN]
Blank == [of |-> NoVal, zero |-> FALSE]

(* Faulty variant: one place is made, and two are needed.                  *)
ClampedToOne(asked, max) ==
  IF asked < 1 THEN 1 ELSE IF asked > max - 1 THEN max - 1 ELSE asked

(* remSize_ of a bundle of at most max subgradients.                       *)
Clamped(asked, max) ==
  IF asked < 2 THEN 2 ELSE IF asked > max - 1 THEN max - 1 ELSE asked

(* Faulty variant: the oldest subgradients are removed.                    *)
OldestVictims(b, n) == SubSeq([i \in 1 .. n |-> i - 1], 1, remSize)

(* reset(): the last subgradient with error zero is spared, and the first  *)
(* remSize_ others are removed.                                            *)
Spared(b, n) ==
  LET exact == {i \in 0 .. n - 1 : b[i].zero}
  IN IF exact = {} THEN n ELSE CHOOSE i \in exact : \A j \in exact : j <= i

Victims(b, n) ==
  [j \in 1 .. remSize |-> IF j - 1 < Spared(b, n) THEN j - 1 ELSE j]

(* Place i is overwritten by the next, and so on to the end.               *)
ShiftFrom(b, n, i) ==
  [j \in DOMAIN b |-> IF i <= j /\ j < n - 1 THEN b[j + 1] ELSE b[j]]

(* Faulty variant: from the first index to the last.                       *)
RemovalAscending(b, n, ind) ==
  LET Shift(a, i) == ShiftFrom(a, n, i)
  IN FoldLeft(Shift, [ShiftFrom(b, n, Head(ind)) EXCEPT ![n - 1] = Blank], Tail(ind))

(* remove(ind): the last index first, so that the others stay right; the   *)
(* place that is freed first is cleared.                                   *)
Removal(b, n, ind) ==
  LET after[m \in 0 .. Len(ind) - 1] ==
        IF m = 0 THEN [ShiftFrom(b, n, Last(ind)) EXCEPT ![n - 1] = Blank]
        ELSE ShiftFrom(after[m - 1], n, ind[Len(ind) - m])
  IN after[Len(ind) - 1]

InBounds(n) == n < maxSize

Put(b, n, e) == IF InBounds(n) THEN [b EXCEPT ![n] = e] ELSE b

(* reset(g, le, dm) of a full bundle, with the aggregate added.            *)
ResetBundles ==
  IF size < maxSize THEN {[b |-> bundle, n |-> size]}
  ELSE LET ind == Victims(bundle, size)
           b   == Removal(bundle, size, ind)
           n   == size - Len(ind)
       IN {[b |-> Put(b, n, [of |-> Agg, zero |-> z]), n |-> n + 1] : z \in BOOLEAN}

(* update(flag, ...): a serious step changes all errors, and any of them   *)
(* may become zero.                                                        *)
Relinearized(b, n) ==
  {[i \in DOMAIN b |-> IF i < n THEN [b[i] EXCEPT !.zero = (i \in zeros)] ELSE b[i]] :
     zeros \in SUBSET (0 .. n - 1)}

-----------------------------------------------------------------------------
Init ==
  /\ pc = "start"
  /\ convex \in Convexities
  /\ maxSize \in Sizes
  /\ remSize \in {Clamped(r, maxSize) : r \in RemovalSizes}
  /\ bundle = [i \in 0 .. maxSize - 1 |-> Blank] /\ size = 0
  /\ ro = NewReducedObjective
  /\ x \in Val /\ y = x
  /\ grad = NoVal /\ nfval = 0
  /\ stepFlag = 0 /\ flag = FALSE /\ iter = 0 /\ run = 1 /\ overrun = FALSE

(* initialize(): the bundle is filled only the first time.                 *)
Initialize ==
  /\ pc = "start" /\ pc' = "check"
  /\ ro' = Gradient(Value(Update(ro, "Initial", x), K, x), K, x)
  /\ grad' = x
  /\ IF size = 0
     THEN /\ bundle' = [bundle EXCEPT ![0] = [of |-> x, zero |-> TRUE]]
          /\ size' = 1
     ELSE UNCHANGED <<bundle, size>>
  /\ UNCHANGED <<fixed, x, y, nfval, stepFlag, flag, iter, run, overrun>>

(* The status test: the limit, the flag, or a test of the user's.          *)
Stop ==
  /\ pc = "check" /\ pc' = "done"
  /\ UNCHANGED <<fixed, bundle, size, ro, x, y, grad, nfval, stepFlag, flag, iter, run,
                 overrun>>

(* Faulty variant: only the flag stops the loop.                           *)
EnterUnlimited ==
  /\ pc = "check" /\ pc' = "cut"
  /\ ~flag
  /\ UNCHANGED <<fixed, bundle, size, ro, x, y, grad, nfval, stepFlag, flag, iter, run,
                 overrun>>

Enter ==
  /\ pc = "check" /\ pc' = "cut"
  /\ iter < MaxIter /\ ~flag
  /\ UNCHANGED <<fixed, bundle, size, ro, x, y, grad, nfval, stepFlag, flag, iter, run,
                 overrun>>

(* The aggregate is small enough, or not a number.                         *)
GiveUp ==
  /\ pc = "cut" /\ pc' = "update"
  /\ stepFlag' \in {1, 2} /\ flag' = TRUE /\ y' = x
  /\ UNCHANGED <<fixed, bundle, size, ro, x, grad, nfval, iter, run, overrun>>

(* Faulty variant: the objective is not told of the candidate.             *)
AskedUntold(z) == Gradient(Value(ro, K, z), K, z)

(* The candidate is announced as accepted before it is evaluated.          *)
Asked(z) == Gradient(Value(Update(ro, "Accept", z), K, z), K, z)

(* A candidate is evaluated and found a serious step (SS1, and SS2 in the  *)
(* convex case), a null step (NS2, and NS3 in the nonconvex case), to need *)
(* a line search, or another radius.                                       *)
SeriousCut == stepFlag' = 1 /\ pc' = "update" /\ UNCHANGED nfval

NullCut == stepFlag' = 0 /\ pc' = "update" /\ UNCHANGED nfval

SearchCut == ~convex /\ nfval' = 0 /\ pc' = "search" /\ UNCHANGED stepFlag

OtherRadius == pc' = "cut" /\ UNCHANGED <<stepFlag, nfval>>

Cut ==
  /\ pc = "cut"
  /\ y' \in Val
  /\ ro' = Asked(y') /\ grad' = y'
  /\ SeriousCut \/ NullCut \/ SearchCut \/ OtherRadius
  /\ UNCHANGED <<fixed, bundle, size, x, flag, iter, run, overrun>>

(* A trial of the line search.  A search that used up its evaluations is a *)
(* null step, even if the last of them was good enough.  The gradient      *)
(* stays that of the candidate the search started from.                    *)
Search ==
  /\ pc = "search"
  /\ \E z \in Val :
       /\ ro' = Value(Update(ro, "Trial", z), K, z)
       /\ nfval' = nfval + 1
       /\ IF nfval' = SearchLimit
          THEN stepFlag' = 0 /\ pc' = "update" /\ UNCHANGED y
          ELSE \/ stepFlag' = 1 /\ y' = z /\ pc' = "update"
               \/ UNCHANGED <<stepFlag, y, pc>>
  /\ UNCHANGED <<fixed, bundle, size, x, grad, flag, iter, run, overrun>>

-----------------------------------------------------------------------------
(* The end of an iteration: unless it gave up, the bundle is reset if full *)
(* and updated, and a serious step is taken.                               *)
TakeStep ==
  \E r \in ResetBundles :
    LET serious == stepFlag = 1
        new     == [of |-> grad, zero |-> TRUE]
    IN /\ \E b \in (IF serious THEN Relinearized(r.b, r.n) ELSE {r.b}) :
          \E z \in (IF serious THEN {TRUE} ELSE BOOLEAN) :
            bundle' = Put(b, r.n, [new EXCEPT !.zero = z])
       /\ size' = r.n + 1
       /\ overrun' = (overrun \/ ~InBounds(r.n) \/ r.n > maxSize)
       /\ x' = IF serious THEN y ELSE x

Finish ==
  /\ pc = "update" /\ pc' = "check"
  /\ IF flag THEN UNCHANGED <<bundle, size, overrun, x>> ELSE TakeStep
  /\ iter' = IF stepFlag = 1 THEN iter + 1 ELSE iter
  /\ UNCHANGED <<fixed, ro, y, grad, nfval, stepFlag, flag, run>>

(* Solver::reset(), and another solve from some starting point.            *)
Restart ==
  /\ pc = "done" /\ run < MaxRuns /\ pc' = "start"
  /\ run' = run + 1 /\ x' \in Val /\ y' = x'
  /\ flag' = FALSE /\ iter' = 0 /\ grad' = NoVal
  /\ UNCHANGED <<fixed, bundle, size, ro, nfval, stepFlag, overrun>>

Next ==
  \/ Initialize \/ Stop \/ Enter \/ GiveUp
  \/ Cut \/ Search \/ Finish \/ Restart

Spec == Init /\ [][Next]_vars

-----------------------------------------------------------------------------
InUse == {bundle[i] : i \in 0 .. size - 1}

(* Every variable has its type, and no iteration is begun at the limit of  *)
(* the status test, which null steps do not count towards.                 *)
TypeOK ==
  /\ pc \in {"start", "check", "cut", "search", "update", "done"}
  /\ convex \in BOOLEAN /\ maxSize \in Sizes /\ remSize \in Nat
  /\ bundle \in [0 .. maxSize - 1 -> Entry] /\ size \in Nat
  /\ ro \in ReducedObjectives /\ x \in Val /\ y \in Val /\ grad \in Content
  /\ nfval \in 0 .. SearchLimit /\ stepFlag \in 0 .. 2 /\ flag \in BOOLEAN
  /\ iter \in 0 .. MaxIter /\ run \in 1 .. MaxRuns /\ overrun \in BOOLEAN

(* A full bundle gives up enough places for the aggregate and the new      *)
(* subgradient, whatever removal size was asked for.                       *)
NoOverrun == ~overrun

(* From the start of the first run, the cutting plane model has a cut it   *)
(* takes to be exact at the iterate: of the subgradients in use one has    *)
(* error zero, however often the bundle was full.  (After a line search it *)
(* is the candidate's subgradient that is stored with error zero.)         *)
ExactAtIterate == run = 1 /\ size > 0 => \E e \in InUse : e.zero

(* The answers of the objective belong to the candidates, although null    *)
(* candidates are announced as accepted as well: always, or only as long   *)
(* as there are no line searches, whose trials are left pending.           *)
AnswersAreFresh == ro.fresh
FreshIfConvex   == convex => AnswersAreFresh

(* The places in use hold subgradients, none of them cleared or doubled by *)
(* the removal: what a reset keeps is what it did not choose to remove, in *)
(* the order it was in.                                                    *)
Chosen == ToSet(Victims(bundle, size))

RemovesOnlyVictims ==
  [][pc = "update" /\ ~flag /\ size = maxSize =>
       \A i \in (0 .. size - 1) \ Chosen :
         bundle'[i - Cardinality({v \in Chosen : v < i})].of = bundle[i].of]_vars
=============================================================================
