-------------------- MODULE ReducedDynamicObjective_proofs --------------------
(***************************************************************************)
(* Proofs about ReducedDynamicObjective, for every number of intervals,    *)
(* every set of controls, every maximum rank and rank factor, with plain,  *)
(* sketched and adaptive histories, and solves that throw anywhere.        *)
(***************************************************************************)
EXTENDS ReducedDynamicObjective, TLAPS

(* What is assumed of the constants: with a sketch no temporary points,    *)
(* which would drop the adjoint of the iterate for good, and an adjoint    *)
(* sketch whose rank follows the state's where that is raised.             *)
Served ==
  /\ ~Probes
  /\ \A m \in Modes : m.sketch /\ m.inexact => m.sync

(* The object has all its members.                                         *)
Whole(o) ==
  DOMAIN o = {"state", "cache", "adjoint", "rank", "u", "l", "val", "valCache",
              "valDone", "stDone", "adDone", "valCached", "stCached"}

(* What a history holds: states of x, adjoints of x, or nothing.           *)
Solved(s, x) == \A i \in Interval : s.col[i] = State(x, i)

Adjoined(s, x) == \A i \in Interval : s.col[i] = Adjoint(x, i)

Empty(s) == ~s.read /\ \A i \in Interval : s.col[i] = Zero

(* The terms of the value at x, the first n of them.                       *)
Terms(x, n) == [i \in 1 .. n |-> State(x, i)]

Derivatives == {"gradient", "hessVec"}

-----------------------------------------------------------------------------
(* The inductive invariant, by parts.                                      *)

(* Where the caller stands.                                                *)
Stands ==
  /\ last \in {"None", "Initial", "Quiet", "Trial", "Temp", "Accept", "Revert"}
  /\ last \in {"Initial", "Accept", "Revert"} => here \in Point /\ base = here /\ trials = 0
  /\ last \in {"Trial", "Temp"} => here \in Point /\ base \in Point /\ trials # 0
  /\ last \in {"None", "Quiet"} => base = NoPoint /\ trials = 0
  /\ last = "None" => here = NoPoint
  /\ mode.sketch => last # "Temp"
  /\ mode.sketch /\ last = "Trial" =>
       asked \subseteq {"value"} /\ (stage # "idle" => job = "value")
  /\ trials \in 0 .. 2

(* Which method is at which stage.                                         *)
Runs ==
  /\ stage # "idle" => ~torn /\ here \in Point /\ k # 0 /\ (job # "value" => last # "Quiet")
  /\ stage = "rank"   => job = "gradient" /\ mode.sketch /\ mode.inexact
  /\ stage = "back"   => job # "value"
  /\ stage = "answer" => job # "gradient"

(* A value marked computed is that of here; else there is none, or what    *)
(* the sweep under way has added so far.                                   *)
ValueHeld ==
  /\ ob.valDone => ob.val = Terms(here, K)
  /\ ~ob.valDone /\ ~torn /\ ~(stage = "forward" /\ job = "value") => ob.val = <<>>
  /\ stage = "forward" /\ job = "value" => ~ob.valDone /\ ob.val = Terms(here, k - 1)
  /\ stage = "answer" /\ job = "value" => ob.valDone

(* A state marked computed is that of here, unless a sweep is under way or *)
(* was left; with a sketch, the backward sweep finds the state it starts   *)
(* from in the working vector.                                             *)
StateHeld ==
  /\ ob.stDone /\ ~torn /\ stage # "forward" => Solved(ob.state, here)
  /\ stage \in {"rank", "back"} => ob.stDone
  /\ stage = "answer" /\ job = "hessVec" => ob.stDone
  /\ stage = "forward" =>
       /\ \A i \in 1 .. k - 1 : ob.state.col[i] = State(here, i)
       /\ mode.sketch => /\ ob.u[1] = State(here, k - 1)
                         /\ \A i \in k .. K : ob.state.col[i] = Zero
  /\ mode.sketch /\ stage = "back" => ob.u[1] = State(here, k)
  /\ mode.sketch /\ stage = "idle" /\ ~torn /\ ob.stDone /\ asked \subseteq {"value"} =>
       ob.u[1] = State(here, K)
  /\ mode.sketch /\ stage = "answer" /\ job = "value" /\ ob.stDone /\ asked \subseteq {"value"} =>
       ob.u[1] = State(here, K)

(* The adjoint of a sketched objective is that of the iterate, also while  *)
(* the caller is away; that of a plain one is that of here.                *)
Owner == IF mode.sketch THEN base ELSE here

AdjointHeld ==
  /\ ob.adDone => \A i \in Interval : ob.adjoint.col[i] # Zero
  /\ ob.adDone /\ last # "Quiet" => Adjoined(ob.adjoint, Owner)
  /\ stage = "answer" /\ job = "hessVec" => ob.adDone
  /\ mode.sketch /\ ~ob.adDone /\ last # "Quiet" /\ stage # "back" /\ (torn => last = "Trial") =>
       Empty(ob.adjoint)
  /\ stage = "back" /\ ~ob.adDone =>
       /\ \A i \in k + 1 .. K : ob.adjoint.col[i] = Adjoint(here, i)
       /\ k # K => ob.l = Adjoint(here, k + 1)
       /\ mode.sketch => ~ob.adjoint.read /\ \A i \in 1 .. k : ob.adjoint.col[i] = Zero

(* What the caller has been told of here is still there; a value never     *)
(* outlives the state it was computed from.                                *)
Remembered ==
  mode.sketch =>
    /\ "value" \in asked => ob.valDone
    /\ ~torn /\ (stage # "idle" => job # "gradient") =>
         /\ ob.valDone => ob.stDone
         /\ asked \cap Method # {} => ob.stDone
         /\ asked \cap Derivatives # {} => ob.adDone

(* One step away from the iterate, what is known of it has been put aside. *)
Aside ==
  mode.sketch /\ trials = 1 =>
    /\ ob.valCached => ob.valCache = Terms(base, K)
    /\ ~ob.valCached => ob.valCache = <<>>
    /\ ob.stCached => Solved(ob.cache, base)
    /\ ob.valCached => ob.stCached
    /\ "value" \in askedBase => ob.valCached
    /\ askedBase \cap Method # {} => ob.stCached
    /\ askedBase \cap Derivatives # {} => ob.adDone

IInv ==
  /\ TypeOK /\ Whole(ob) /\ Stands /\ Runs
  /\ ValueHeld /\ StateHeld /\ AdjointHeld /\ Remembered /\ Aside
  /\ fresh = TRUE /\ ~refused

-----------------------------------------------------------------------------
(* Vectors and sketches.                                                   *)

(* Which vectors there are, and which differ.                              *)
LEMMA VectorFacts ==
  /\ Zero \in Vector /\ Junk \in Vector /\ State(NoPoint, 0) \in Vector
  /\ \A x \in Point, i \in 0 .. K : State(x, i) \in Vector
  /\ \A x \in Point, i \in Interval : Adjoint(x, i) \in Vector /\ Adjoint(x, i) # Zero
  /\ \A x, i : State(x, i) # Zero
  /\ \A x : State(x, 0) = State(NoPoint, 0)
  /\ Junk # Zero
<1>1. K \in Nat /\ K >= 2
  BY DynamicAssumption
<1>2. \A x \in Point, i \in 0 .. K : State(x, i) \in Vector
  <2> TAKE x \in Point, i \in 0 .. K
  <2>1. CASE i = 0
    BY <2>1 DEF State, Vector
  <2>2. CASE i # 0
    <3>1. i \in Interval
      BY <1>1, <2>2 DEF Interval
    <3>2. QED BY <3>1 DEF Vector
  <2>3. QED BY <2>1, <2>2
<1>3. QED BY <1>2 DEF Vector, Zero, Junk, State, Adjoint

(* A new sketch is empty.                                                  *)
LEMMA SetRankFacts ==
  ASSUME NEW r \in 1 .. MaxRank
  PROVE  SetRank(r) \in Sketch /\ Empty(SetRank(r)) /\ SetRank(r).rank = r
  BY VectorFacts DEF SetRank, Sketch, Empty

(* So is one that is reset.                                                *)
LEMMA ResetFacts ==
  ASSUME NEW s \in Sketch
  PROVE  ResetSketch(s) \in Sketch /\ Empty(ResetSketch(s))
  BY SetRankFacts DEF ResetSketch, Sketch

(* Reading a sketch changes no column.                                     *)
LEMMA ReadFacts ==
  ASSUME NEW s \in Sketch, mode \in Modes
  PROVE  Read(s) \in Sketch /\ Read(s).col = s.col /\ Read(s).rank = s.rank
<1>1. mode.sketch \in BOOLEAN
  BY DynamicAssumption
<1>2. QED BY <1>1 DEF Read, Sketch

(* advance() of an empty column, and storing in a plain history.           *)
LEMMA PutFacts ==
  ASSUME NEW s \in Sketch, NEW i \in Interval, NEW v \in Vector
  PROVE  LET p == Put(s, i, v) IN
         /\ p \in Sketch /\ p.read = s.read /\ p.rank = s.rank
         /\ \A j \in Interval \ {i} : p.col[j] = s.col[j]
         /\ ~mode.sketch \/ s.col[i] = Zero => p.col[i] = v
<1>1. Put(s, i, v).col \in [Interval -> Vector]
  BY VectorFacts DEF Put, Sketch
<1>2. QED BY <1>1 DEF Put, Sketch

(* The terms of a value.                                                   *)
LEMMA TermsFacts ==
  ASSUME NEW x, NEW n \in Nat
  PROVE  /\ Len(Terms(x, n)) = n
         /\ Append(Terms(x, n), State(x, n + 1)) = Terms(x, n + 1)
         /\ Terms(x, 0) = <<>>
  BY DEF Terms

-----------------------------------------------------------------------------
(* Updates of the object.                                                  *)

(* Update(x, Initial), and any update without a sketch: all is forgotten.  *)
LEMMA InitialFacts ==
  ASSUME TypeOK, Whole(ob), NEW type, type = "Initial" \/ ~mode.sketch
  PROVE  LET o == UpdateObject(ob, type) IN
         /\ Whole(o)
         /\ o.state \in Sketch /\ o.cache \in Sketch /\ o.adjoint \in Sketch
         /\ o.u = <<Zero, Zero>> /\ o.l = ob.l /\ o.rank = ob.rank
         /\ o.val = <<>> /\ ~o.valDone /\ ~o.stDone /\ ~o.adDone
         /\ mode.sketch => Empty(o.adjoint)
<1>1. /\ ob.state \in Sketch /\ ob.cache \in Sketch /\ ob.adjoint \in Sketch
  BY DEF TypeOK
<1>2. /\ ResetSketch(ob.state) \in Sketch /\ ResetSketch(ob.cache) \in Sketch
      /\ ResetSketch(ob.adjoint) \in Sketch /\ Empty(ResetSketch(ob.adjoint))
  BY <1>1, ResetFacts
<1>3. CASE mode.sketch
  BY <1>1, <1>2, <1>3 DEF UpdateObject, UpdateSketched, NoAdjoint, Cleared, Whole
<1>4. CASE ~mode.sketch
  BY <1>1, <1>2, <1>4 DEF UpdateObject, NoAdjoint, Cleared, Whole
<1>5. QED BY <1>3, <1>4

(* The deprecated update, which keeps the adjoint unless told otherwise.   *)
LEMMA FlagFacts ==
  ASSUME TypeOK, Whole(ob), NEW flag \in BOOLEAN
  PROVE  LET o == UpdateObjectFlag(ob, flag) IN
         /\ Whole(o)
         /\ o.state \in Sketch /\ o.cache = ob.cache /\ o.adjoint \in Sketch
         /\ o.u = <<Zero, Zero>> /\ o.l = ob.l /\ o.rank = ob.rank
         /\ o.val = <<>> /\ ~o.valDone /\ ~o.stDone
         /\ flag => ~o.adDone /\ (mode.sketch => Empty(o.adjoint))
         /\ ~flag => (o.adDone <=> ob.adDone) /\ o.adjoint = ob.adjoint
<1>1. /\ ob.state \in Sketch /\ ob.adjoint \in Sketch
  BY DEF TypeOK
<1>2. /\ ResetSketch(ob.state) \in Sketch
      /\ ResetSketch(ob.adjoint) \in Sketch /\ Empty(ResetSketch(ob.adjoint))
  BY <1>1, ResetFacts
<1>3. CASE flag
  BY <1>1, <1>2, <1>3 DEF UpdateObjectFlag, NoAdjoint, Cleared, Whole
<1>4. CASE ~flag
  BY <1>1, <1>2, <1>4 DEF UpdateObjectFlag, Cleared, Whole
<1>5. QED BY <1>3, <1>4

(* Trial with a sketch: value, flags and sketch are put aside.             *)
LEMMA TrialFacts ==
  ASSUME TypeOK, Whole(ob), mode.sketch
  PROVE  LET o == UpdateObject(ob, "Trial") IN
         /\ Whole(o)
         /\ o.state \in Sketch /\ o.cache = ob.state /\ o.adjoint = ob.adjoint
         /\ o.u = <<Zero, Zero>> /\ o.l = ob.l /\ o.rank = ob.rank
         /\ o.val = <<>> /\ ~o.valDone /\ ~o.stDone /\ (o.adDone <=> ob.adDone)
         /\ o.valCache = ob.val /\ (o.valCached <=> ob.valDone)
         /\ (o.stCached <=> ob.stDone)
<1>1. ResetSketch(ob.cache) \in Sketch
  BY ResetFacts DEF TypeOK
<1>2. QED BY <1>1 DEF UpdateObject, UpdateSketched, PutAside, Cleared, Whole

(* Accept with a sketch: only the adjoint is dropped.                      *)
LEMMA AcceptFacts ==
  ASSUME TypeOK, Whole(ob), mode.sketch
  PROVE  LET o == UpdateObject(ob, "Accept") IN
         /\ Whole(o)
         /\ o.state = ob.state /\ o.cache = ob.cache /\ o.adjoint \in Sketch
         /\ o.u = ob.u /\ o.l = ob.l /\ o.rank = ob.rank
         /\ o.val = ob.val /\ (o.valDone <=> ob.valDone) /\ (o.stDone <=> ob.stDone)
         /\ ~o.adDone /\ Empty(o.adjoint)
<1>1. ResetSketch(ob.adjoint) \in Sketch /\ Empty(ResetSketch(ob.adjoint))
  BY ResetFacts DEF TypeOK
<1>2. QED BY <1>1 DEF UpdateObject, UpdateSketched, NoAdjoint, Whole

(* Revert with a sketch: what was put aside is taken back.                 *)
LEMMA RevertFacts ==
  ASSUME TypeOK, Whole(ob), mode.sketch
  PROVE  LET o == UpdateObject(ob, "Revert") IN
         /\ Whole(o)
         /\ o.state = ob.cache /\ o.cache = ob.state /\ o.adjoint = ob.adjoint
         /\ o.u = <<Zero, Zero>> /\ o.l = ob.l /\ o.rank = ob.rank
         /\ o.val = ob.valCache /\ (o.valDone <=> ob.valCached) /\ (o.stDone <=> ob.stCached)
         /\ (o.adDone <=> ob.adDone)
  BY DEF UpdateObject, UpdateSketched, TakeBack, Whole

-----------------------------------------------------------------------------
(* The invariant at the start and after each update.                       *)

(* The object that the constructor makes.                                  *)
LEMMA InitHolds == Init => IInv
<1> SUFFICES ASSUME Init PROVE IInv
  OBVIOUS
<1>1. 1 \in 1 .. MaxRank /\ K \in Nat
  BY DynamicAssumption
<1>2. SetRank(1) \in Sketch /\ Empty(SetRank(1))
  BY <1>1, SetRankFacts
<1>3. /\ ob.state = SetRank(1) /\ ob.cache = SetRank(1) /\ ob.adjoint = SetRank(1)
      /\ ob.rank = 1 /\ ob.u = <<Zero, Zero>> /\ ob.l = Zero /\ ob.val = <<>>
      /\ ~ob.valDone /\ ~ob.stDone /\ ~ob.adDone
      /\ Whole(ob)
  BY DEF Init, NewObject, Whole
<1>4. TypeOK
  BY <1>1, <1>2, <1>3, VectorFacts DEF Init, TypeOK, Method
<1>5. Stands /\ Runs
  BY DEF Init, Stands, Runs
<1>6. ValueHeld /\ StateHeld /\ AdjointHeld
  BY <1>2, <1>3 DEF Init, ValueHeld, StateHeld, AdjointHeld
<1>7. Remembered /\ Aside
  BY <1>3 DEF Init, Remembered, Aside
<1>8. QED BY <1>3, <1>4, <1>5, <1>6, <1>7 DEF Init, IInv

(* What an update leaves of the method under way.                          *)
LEMMA TellsFacts ==
  ASSUME IInv, NEW type, NEW x, Tells(type, x)
  PROVE  /\ stage = "idle" /\ stage' = "idle" /\ torn' = FALSE
         /\ last' = type /\ here' = x
         /\ mode' = mode /\ job' = job /\ k' = k /\ need' = need
         /\ fresh' = TRUE /\ ~refused' /\ Runs'
  BY DEF Tells, IInv, Runs, working

(* An update that makes the object forget everything.                      *)
LEMMA ForgottenHolds ==
  ASSUME IInv, Whole(ob'), NEW type, NEW x \in Point, Tells(type, x),
         ob'.state \in Sketch, ob'.cache \in Sketch, ob'.adjoint \in Sketch,
         ob'.u = <<Zero, Zero>>, ob'.l = ob.l, ob'.rank = ob.rank,
         ob'.val = <<>>, ~ob'.valDone, ~ob'.stDone,
         ob'.adDone => type = "Quiet" /\ ob.adDone /\ ob'.adjoint = ob.adjoint,
         ~ob'.adDone /\ type # "Quiet" /\ mode.sketch => Empty(ob'.adjoint),
         base' \in Point \cup {NoPoint}, Stands',
         mode.sketch => asked' = {} /\ trials' # 1
  PROVE  IInv'
<1>1. /\ stage = "idle" /\ stage' = "idle" /\ torn' = FALSE
      /\ last' = type /\ here' = x
      /\ mode' = mode /\ job' = job /\ k' = k /\ need' = need
      /\ fresh' = TRUE /\ ~refused' /\ Runs'
  BY TellsFacts
<1>2. ob'.adDone => \A i \in Interval : ob'.adjoint.col[i] # Zero
  BY DEF IInv, AdjointHeld
<1>3. TypeOK'
  BY <1>1, <1>2, VectorFacts DEF IInv, TypeOK
<1>4. ValueHeld' /\ StateHeld'
  BY <1>1 DEF ValueHeld, StateHeld
<1>5. AdjointHeld'
  BY <1>1, <1>2 DEF AdjointHeld
<1>6. Remembered' /\ Aside'
  BY <1>1 DEF Remembered, Aside
<1>7. QED BY <1>1, <1>3, <1>4, <1>5, <1>6 DEF IInv

(* Update(x, Initial).                                                     *)
LEMMA InitialHolds == ASSUME IInv, NEW x \in Point, UpdateInitial(x) PROVE IInv'
<1>1. /\ Tells("Initial", x) /\ base' = x /\ asked' = {} /\ trials' = 0
      /\ ob' = UpdateObject(ob, "Initial")
  BY DEF UpdateInitial
<1>2. /\ stage' = "idle" /\ torn' = FALSE /\ last' = "Initial" /\ here' = x /\ mode' = mode
  BY <1>1, TellsFacts
<1>3. Stands'
  BY <1>1, <1>2 DEF Stands
<1>4. /\ Whole(ob')
      /\ ob'.state \in Sketch /\ ob'.cache \in Sketch /\ ob'.adjoint \in Sketch
      /\ ob'.u = <<Zero, Zero>> /\ ob'.l = ob.l /\ ob'.rank = ob.rank
      /\ ob'.val = <<>> /\ ~ob'.valDone /\ ~ob'.stDone /\ ~ob'.adDone
      /\ mode.sketch => Empty(ob'.adjoint)
  BY <1>1, InitialFacts DEF IInv
<1>5. QED BY <1>1, <1>3, <1>4, ForgottenHolds

(* update(x, flag).                                                        *)
LEMMA FlagHolds ==
  ASSUME IInv, NEW x \in Point, NEW flag \in BOOLEAN, UpdateFlag(x, flag)
  PROVE  IInv'
<1> DEFINE type == IF flag THEN "Initial" ELSE "Quiet"
<1>1. /\ Tells(type, x) /\ base' = (IF flag THEN x ELSE NoPoint)
      /\ asked' = {} /\ trials' = 0 /\ ob' = UpdateObjectFlag(ob, flag)
  BY DEF UpdateFlag
<1>2. type \in {"Initial", "Quiet"} /\ (type = "Quiet" <=> ~flag)
  OBVIOUS
<1> HIDE DEF type
<1>3. /\ stage' = "idle" /\ torn' = FALSE /\ last' = type /\ here' = x /\ mode' = mode
  BY <1>1, TellsFacts
<1>4. Stands'
  BY <1>1, <1>2, <1>3 DEF Stands
<1>5. /\ Whole(ob')
      /\ ob'.state \in Sketch /\ ob'.cache \in Sketch /\ ob'.adjoint \in Sketch
      /\ ob'.u = <<Zero, Zero>> /\ ob'.l = ob.l /\ ob'.rank = ob.rank
      /\ ob'.val = <<>> /\ ~ob'.valDone /\ ~ob'.stDone
      /\ flag => ~ob'.adDone /\ (mode.sketch => Empty(ob'.adjoint))
      /\ ~flag => (ob'.adDone <=> ob.adDone) /\ ob'.adjoint = ob.adjoint
  BY <1>1, FlagFacts DEF IInv, TypeOK
<1>6. QED BY <1>1, <1>2, <1>4, <1>5, ForgottenHolds

(* Where the caller stands after it left for another point.                *)
LEMMA LeaveFacts ==
  ASSUME IInv, NEW type \in {"Trial", "Temp"}, NEW x \in Point, Leave(type, x),
         mode.sketch => type = "Trial"
  PROVE  /\ Tells(type, x) /\ ob' = UpdateObject(ob, type)
         /\ base' = base /\ base \in Point /\ asked' = {}
         /\ trials' = 1 => trials = 0 /\ askedBase' = asked
         /\ trials' # 0 /\ Stands'
<1>1. /\ Tells(type, x) /\ ob' = UpdateObject(ob, type)
      /\ base' = base /\ base # NoPoint /\ asked' = {}
      /\ askedBase' = (IF trials = 0 THEN asked ELSE askedBase)
      /\ trials' = (IF trials = 2 THEN 2 ELSE trials + 1)
  BY DEF Leave
<1>2. base \in Point /\ trials \in 0 .. 2
  BY <1>1 DEF IInv, TypeOK, Stands
<1>3. trials' \in 1 .. 2 /\ (trials' = 1 => trials = 0)
  BY <1>1, <1>2
<1>4. /\ stage' = "idle" /\ last' = type /\ here' = x /\ mode' = mode
  BY <1>1, TellsFacts
<1>5. Stands'
  BY <1>1, <1>2, <1>3, <1>4 DEF Stands
<1>6. QED BY <1>1, <1>2, <1>3, <1>5

(* Without a sketch, an update makes the object forget.                    *)
LEMMA PlainHolds ==
  ASSUME IInv, ~mode.sketch, NEW type, NEW x \in Point, Tells(type, x),
         ob' = UpdateObject(ob, type), base' \in Point, Stands'
  PROVE  IInv'
<1>1. /\ Whole(ob')
      /\ ob'.state \in Sketch /\ ob'.cache \in Sketch /\ ob'.adjoint \in Sketch
      /\ ob'.u = <<Zero, Zero>> /\ ob'.l = ob.l /\ ob'.rank = ob.rank
      /\ ob'.val = <<>> /\ ~ob'.valDone /\ ~ob'.stDone /\ ~ob'.adDone
  BY InitialFacts DEF IInv
<1>2. QED BY <1>1, ForgottenHolds

(* With one, a trial point leaves the adjoint where it is, and what is     *)
(* known of the iterate aside.                                             *)
LEMMA TrialHolds == ASSUME IInv, NEW x \in Point, UpdateTrial(x) PROVE IInv'
<1>1. /\ Tells("Trial", x) /\ ob' = UpdateObject(ob, "Trial")
      /\ base' = base /\ base \in Point /\ asked' = {}
      /\ trials' = 1 => trials = 0 /\ askedBase' = asked
      /\ trials' # 0 /\ Stands'
  BY LeaveFacts DEF UpdateTrial
<1>2. CASE ~mode.sketch
  BY <1>1, <1>2, PlainHolds
<1>3. CASE mode.sketch
  <2>1. /\ stage = "idle" /\ stage' = "idle" /\ torn' = FALSE
        /\ last' = "Trial" /\ here' = x
        /\ mode' = mode /\ job' = job /\ k' = k /\ need' = need
        /\ fresh' = TRUE /\ ~refused' /\ Runs'
    BY <1>1, TellsFacts
  <2>2. /\ Whole(ob')
        /\ ob'.state \in Sketch /\ ob'.cache = ob.state /\ ob'.adjoint = ob.adjoint
        /\ ob'.u = <<Zero, Zero>> /\ ob'.l = ob.l /\ ob'.rank = ob.rank
        /\ ob'.val = <<>> /\ ~ob'.valDone /\ ~ob'.stDone /\ (ob'.adDone <=> ob.adDone)
        /\ ob'.valCache = ob.val /\ (ob'.valCached <=> ob.valDone)
        /\ (ob'.stCached <=> ob.stDone)
    BY <1>1, <1>3, TrialFacts DEF IInv
  <2>3. torn => last = "Trial"
    BY <1>3 DEF UpdateTrial, Leave, Recovers
  <2>4. last \notin {"None", "Quiet"}
    BY <1>1, DynamicAssumption DEF IInv, Stands
  <2>5. TypeOK'
    BY <1>1, <2>1, <2>2, VectorFacts DEF IInv, TypeOK, AdjointHeld
  <2>6. ValueHeld' /\ StateHeld'
    BY <1>1, <2>1, <2>2 DEF ValueHeld, StateHeld
  <2>7. AdjointHeld'
    BY <1>1, <1>3, <2>1, <2>2, <2>3, <2>4 DEF IInv, AdjointHeld, Owner, Adjoined, Empty
  <2>8. Remembered'
    BY <1>1, <2>1, <2>2 DEF Remembered
  <2>9. Aside'
    <3> SUFFICES ASSUME trials' = 1 PROVE Aside'
      BY DEF Aside
    <3>1. trials = 0 /\ askedBase' = asked
      BY <1>1
    <3>2. last # "Trial" /\ ~torn
      BY <2>3, <3>1 DEF IInv, Stands
    <3>3. here = base
      BY <2>4, <3>1, <3>2 DEF IInv, Stands
    <3>4. /\ ob.valDone => ob.val = Terms(base, K)
          /\ ~ob.valDone => ob.val = <<>>
      BY <2>1, <3>2, <3>3 DEF IInv, ValueHeld
    <3>5. ob.stDone => Solved(ob.state, base)
      BY <2>1, <3>2, <3>3 DEF IInv, StateHeld
    <3>6. /\ "value" \in asked => ob.valDone
          /\ ob.valDone => ob.stDone
          /\ asked \cap Method # {} => ob.stDone
          /\ asked \cap Derivatives # {} => ob.adDone
      BY <1>3, <2>1, <3>2 DEF IInv, Remembered
    <3>7. QED BY <1>1, <2>2, <3>1, <3>4, <3>5, <3>6 DEF Aside, Solved
  <2>10. QED BY <1>1, <2>1, <2>2, <2>5, <2>6, <2>7, <2>8, <2>9 DEF IInv
<1>4. QED BY <1>2, <1>3

(* No sketched objective is probed.                                        *)
LEMMA TempHolds == ASSUME Served, IInv, NEW x \in Point, UpdateTemp(x) PROVE IInv'
<1>1. ~mode.sketch
  BY DEF Served, UpdateTemp
<1>2. Tells("Temp", x) /\ ob' = UpdateObject(ob, "Temp") /\ base' \in Point /\ Stands'
  BY <1>1, LeaveFacts DEF UpdateTemp
<1>3. QED BY <1>1, <1>2, PlainHolds

(* The trial point becomes the iterate.                                    *)
LEMMA AcceptHolds == ASSUME IInv, UpdateAccept PROVE IInv'
<1>1. /\ last = "Trial" /\ Recovers("Accept")
      /\ Tells("Accept", here)
      /\ base' = here /\ askedBase' = {} /\ trials' = 0
      /\ ob' = UpdateObject(ob, "Accept") /\ asked' = asked
  BY DEF UpdateAccept
<1>2. here \in Point
  BY <1>1 DEF IInv, Stands
<1>3. /\ stage = "idle" /\ stage' = "idle" /\ torn' = FALSE
      /\ last' = "Accept" /\ here' = here
      /\ mode' = mode /\ job' = job /\ k' = k /\ need' = need
      /\ fresh' = TRUE /\ ~refused' /\ Runs'
  BY <1>1, TellsFacts
<1>4. Stands'
  BY <1>1, <1>2, <1>3 DEF Stands
<1>5. CASE ~mode.sketch
  BY <1>1, <1>2, <1>4, <1>5, PlainHolds
<1>6. CASE mode.sketch
  <2>1. /\ Whole(ob')
        /\ ob'.state = ob.state /\ ob'.cache = ob.cache /\ ob'.adjoint \in Sketch
        /\ ob'.u = ob.u /\ ob'.l = ob.l /\ ob'.rank = ob.rank
        /\ ob'.val = ob.val /\ (ob'.valDone <=> ob.valDone) /\ (ob'.stDone <=> ob.stDone)
        /\ ~ob'.adDone /\ Empty(ob'.adjoint)
    BY <1>1, <1>6, AcceptFacts DEF IInv
  <2>2. ~torn
    BY <1>1, <1>6 DEF Recovers
  <2>3. TypeOK'
    BY <1>1, <1>3, <2>1 DEF IInv, TypeOK
  <2>4. ValueHeld'
    BY <1>3, <2>1, <2>2 DEF IInv, ValueHeld
  <2>5. StateHeld'
    BY <1>1, <1>3, <2>1, <2>2 DEF IInv, StateHeld
  <2>6. AdjointHeld'
    BY <1>3, <2>1 DEF AdjointHeld
  <2>7. Remembered'
    <3>1. asked \subseteq {"value"}
      BY <1>1, <1>6 DEF IInv, Stands
    <3>2. QED BY <1>1, <1>3, <2>1, <2>2, <3>1 DEF IInv, Remembered, Derivatives
  <2>8. Aside'
    BY <1>1 DEF Aside
  <2>9. QED BY <1>3, <1>4, <2>1, <2>3, <2>4, <2>5, <2>6, <2>7, <2>8 DEF IInv
<1>7. QED BY <1>5, <1>6

(* Back to the iterate, which is one step away if there is a sketch.       *)
LEMMA RevertHolds == ASSUME IInv, UpdateRevert PROVE IInv'
<1>1. /\ last \in {"Trial", "Temp"} /\ (mode.sketch => trials = 1) /\ Recovers("Revert")
      /\ Tells("Revert", base)
      /\ asked' = askedBase \cup {"revert"} /\ askedBase' = {} /\ trials' = 0
      /\ ob' = UpdateObject(ob, "Revert") /\ base' = base
  BY DEF UpdateRevert
<1>2. base \in Point
  BY <1>1 DEF IInv, Stands
<1>3. /\ stage = "idle" /\ stage' = "idle" /\ torn' = FALSE
      /\ last' = "Revert" /\ here' = base
      /\ mode' = mode /\ job' = job /\ k' = k /\ need' = need
      /\ fresh' = TRUE /\ ~refused' /\ Runs'
  BY <1>1, TellsFacts
<1>4. Stands'
  BY <1>1, <1>2, <1>3 DEF Stands
<1>5. CASE ~mode.sketch
  BY <1>1, <1>2, <1>4, <1>5, PlainHolds
<1>6. CASE mode.sketch
  <2>1. /\ Whole(ob')
        /\ ob'.state = ob.cache /\ ob'.cache = ob.state /\ ob'.adjoint = ob.adjoint
        /\ ob'.u = <<Zero, Zero>> /\ ob'.l = ob.l /\ ob'.rank = ob.rank
        /\ ob'.val = ob.valCache /\ (ob'.valDone <=> ob.valCached)
        /\ (ob'.stDone <=> ob.stCached) /\ (ob'.adDone <=> ob.adDone)
    BY <1>1, <1>6, RevertFacts DEF IInv
  <2>2. /\ ob.valCached => ob.valCache = Terms(base, K)
        /\ ~ob.valCached => ob.valCache = <<>>
        /\ ob.stCached => Solved(ob.cache, base)
        /\ ob.valCached => ob.stCached
        /\ "value" \in askedBase => ob.valCached
        /\ askedBase \cap Method # {} => ob.stCached
        /\ askedBase \cap Derivatives # {} => ob.adDone
    BY <1>1, <1>6 DEF IInv, Aside
  <2>3. last = "Trial"
    BY <1>1, <1>6 DEF IInv, Stands
  <2>4. ob'.valDone => Len(ob'.val) = K
    BY <2>1, <2>2, TermsFacts, DynamicAssumption
  <2>5. TypeOK'
    BY <1>1, <1>3, <2>1, <2>4, VectorFacts DEF IInv, TypeOK, AdjointHeld
  <2>6. ValueHeld'
    BY <1>3, <2>1, <2>2 DEF ValueHeld
  <2>7. StateHeld'
    BY <1>1, <1>3, <2>1, <2>2 DEF StateHeld, Solved
  <2>8. AdjointHeld'
    BY <1>1, <1>3, <1>6, <2>1, <2>3 DEF IInv, AdjointHeld, Owner, Adjoined, Empty
  <2>9. Remembered'
    <3>1. /\ "value" \in asked' => "value" \in askedBase
          /\ asked' \cap Method = askedBase \cap Method
          /\ asked' \cap Derivatives = askedBase \cap Derivatives
      BY <1>1 DEF Method, Derivatives
    <3>2. QED BY <1>1, <1>3, <2>1, <2>2, <3>1 DEF Remembered
  <2>10. Aside'
    BY <1>1 DEF Aside
  <2>11. QED BY <1>3, <1>4, <2>1, <2>5, <2>6, <2>7, <2>8, <2>9, <2>10 DEF IInv
<1>7. QED BY <1>5, <1>6

-----------------------------------------------------------------------------
(* The invariant through the methods.                                      *)

(* For derivatives a sketched objective is at the iterate.                 *)
LEMMA AtIterate ==
  ASSUME IInv, mode.sketch, here \in Point, last \notin {"Quiet", "Trial"}
  PROVE  base = here /\ trials = 0
  BY DynamicAssumption DEF IInv, Stands

(* The forward sweep begins with an empty sketch.                          *)
LEMMA BeginFacts ==
  ASSUME NEW o, Whole(o), o.state \in Sketch
  PROVE  LET b == BeginForward(o) IN
         /\ Whole(b)
         /\ b.state \in Sketch /\ b.cache = o.cache /\ b.adjoint = o.adjoint
         /\ b.l = o.l /\ b.rank = o.rank /\ b.val = o.val /\ b.valCache = o.valCache
         /\ (b.valDone <=> o.valDone) /\ (b.stDone <=> o.stDone) /\ (b.adDone <=> o.adDone)
         /\ (b.valCached <=> o.valCached) /\ (b.stCached <=> o.stCached)
         /\ mode.sketch => b.u = <<State(NoPoint, 0), State(NoPoint, 0)>> /\ Empty(b.state)
         /\ ~mode.sketch => b = o
<1>1. ResetSketch(o.state) \in Sketch /\ Empty(ResetSketch(o.state))
  BY ResetFacts
<1>2. CASE mode.sketch
  BY <1>1, <1>2 DEF BeginForward, Whole
<1>3. CASE ~mode.sketch
  BY <1>3 DEF BeginForward
<1>4. QED BY <1>2, <1>3

(* A method that is called.                                                *)
LEMMA AskFacts ==
  ASSUME IInv, NEW j \in Method, Ask(j)
  PROVE  /\ stage = "idle" /\ here \in Point /\ ~torn /\ ~torn'
         /\ j # "value" => last # "Quiet"
         /\ mode.sketch /\ j # "value" => last # "Trial"
         /\ mode.sketch /\ j = "gradient" => mode.inexact \/ asked \subseteq {"value"}
         /\ mode.sketch /\ j = "hessVec" =>
              asked \cap Derivatives # {} \/ asked \subseteq {"value"}
         /\ job' = j /\ need' \in 1 .. MaxRank /\ Enter(ob, j)
         /\ mode' = mode /\ last' = last /\ here' = here /\ base' = base /\ trials' = trials
         /\ asked' = asked /\ askedBase' = askedBase /\ fresh' = fresh /\ refused' = refused
         /\ torn' = torn
<1>1. 1 \in 1 .. MaxRank
  BY DynamicAssumption
<1>2. QED BY <1>1 DEF Ask, MayAsk, TerminalKept, Derivatives, caller, IInv, TypeOK

(* It begins with a sweep for the state,                                   *)
LEMMA AskForwardHolds ==
  ASSUME IInv, NEW j \in Method, Ask(j), NeedsState(ob, j)
  PROVE  IInv'
<1>1. /\ stage = "idle" /\ here \in Point /\ ~torn /\ ~torn'
      /\ j # "value" => last # "Quiet"
      /\ mode.sketch /\ j # "value" => last # "Trial"
      /\ job' = j /\ need' \in 1 .. MaxRank /\ Enter(ob, j)
      /\ mode' = mode /\ last' = last /\ here' = here /\ base' = base /\ trials' = trials
      /\ asked' = asked /\ askedBase' = askedBase /\ fresh' = fresh /\ refused' = refused
      /\ torn' = torn
  BY AskFacts
<1>2. stage' = "forward" /\ k' = 1 /\ ob' = BeginForward(ob)
  BY <1>1 DEF Enter
<1>3. /\ Whole(ob')
      /\ ob'.state \in Sketch /\ ob'.cache = ob.cache /\ ob'.adjoint = ob.adjoint
      /\ ob'.l = ob.l /\ ob'.rank = ob.rank /\ ob'.val = ob.val /\ ob'.valCache = ob.valCache
      /\ (ob'.valDone <=> ob.valDone) /\ (ob'.stDone <=> ob.stDone)
      /\ (ob'.adDone <=> ob.adDone)
      /\ (ob'.valCached <=> ob.valCached) /\ (ob'.stCached <=> ob.stCached)
      /\ mode.sketch => ob'.u = <<State(NoPoint, 0), State(NoPoint, 0)>> /\ Empty(ob'.state)
      /\ ~mode.sketch => ob' = ob
  BY <1>2, BeginFacts DEF IInv, TypeOK
<1>4. ob'.u \in Vector \X Vector
  BY <1>3, VectorFacts DEF IInv, TypeOK
<1>5. K \in Nat /\ 1 \in 0 .. K
  BY DynamicAssumption
<1>6. TypeOK'
  BY <1>1, <1>2, <1>3, <1>4, <1>5 DEF IInv, TypeOK
<1>7. Stands' /\ Runs'
  BY <1>1, <1>2 DEF IInv, Stands, Runs, Method
<1>8. ValueHeld'
  BY <1>1, <1>2, <1>3, TermsFacts DEF IInv, ValueHeld, NeedsState
<1>9. StateHeld'
  BY <1>1, <1>2, <1>3, VectorFacts DEF StateHeld, Empty, Interval
<1>10. AdjointHeld'
  BY <1>1, <1>2, <1>3 DEF IInv, AdjointHeld, Owner, Adjoined, Empty
<1>11. Remembered' /\ Aside'
  BY <1>1, <1>2, <1>3 DEF IInv, Remembered, Aside, Solved
<1>12. QED BY <1>1, <1>3, <1>6, <1>7, <1>8, <1>9, <1>10, <1>11 DEF IInv

(* or goes on at once, from a state that is there and a working vector     *)
(* that holds the final one if it is needed.                               *)
LEMMA AskHeldHolds ==
  ASSUME IInv, NEW j \in Method, Ask(j), ~NeedsState(ob, j)
  PROVE  IInv'
<1>1. /\ stage = "idle" /\ here \in Point /\ ~torn /\ ~torn'
      /\ j # "value" => last # "Quiet"
      /\ mode.sketch /\ j # "value" => last # "Trial"
      /\ mode.sketch /\ j = "gradient" => mode.inexact \/ asked \subseteq {"value"}
      /\ mode.sketch /\ j = "hessVec" =>
           asked \cap Derivatives # {} \/ asked \subseteq {"value"}
      /\ job' = j /\ need' \in 1 .. MaxRank /\ Enter(ob, j)
      /\ mode' = mode /\ last' = last /\ here' = here /\ base' = base /\ trials' = trials
      /\ asked' = asked /\ askedBase' = askedBase /\ fresh' = fresh /\ refused' = refused
      /\ torn' = torn
  BY AskFacts
<1>2. stage' = AfterState(ob, j) /\ k' = K /\ ob' = ob
  BY <1>1 DEF Enter
<1>3. K \in Nat /\ K >= 2
  BY DynamicAssumption
<1>4. /\ j = "value" => stage' = "answer" /\ ob.valDone
      /\ j # "value" => ob.stDone
      /\ j = "gradient" => stage' = IF mode.sketch /\ mode.inexact THEN "rank" ELSE "back"
      /\ j = "hessVec" => stage' = IF ob.adDone THEN "answer" ELSE "back"
  BY <1>2 DEF AfterState, NeedsState
<1>5. stage' \in {"rank", "back", "answer"} /\ j \in {"value", "gradient", "hessVec"}
  BY <1>4 DEF Method
<1>6. mode.sketch /\ stage' = "back" => asked \subseteq {"value"}
  BY <1>1, <1>4, <1>5 DEF IInv, Remembered
<1>7. TypeOK'
  BY <1>1, <1>2, <1>3, <1>5 DEF IInv, TypeOK
<1>8. Stands' /\ Runs'
  BY <1>1, <1>2, <1>3, <1>4, <1>5 DEF IInv, Stands, Runs
<1>9. ValueHeld'
  BY <1>1, <1>2, <1>4, <1>5 DEF IInv, ValueHeld
<1>10. StateHeld'
  BY <1>1, <1>2, <1>4, <1>5, <1>6 DEF IInv, StateHeld, Solved
<1>11. AdjointHeld'
  <2>1. mode.sketch /\ ~ob.adDone /\ last # "Quiet" => Empty(ob.adjoint)
    BY <1>1 DEF IInv, AdjointHeld
  <2>2. \A i \in K + 1 .. K : FALSE
    BY <1>3
  <2>3. QED BY <1>1, <1>2, <1>4, <1>5, <2>1, <2>2 DEF IInv, AdjointHeld, Owner, Adjoined, Empty, Interval
<1>12. Remembered' /\ Aside'
  BY <1>1, <1>2 DEF IInv, Remembered, Aside, Solved
<1>13. QED BY <1>1, <1>2, <1>7, <1>8, <1>9, <1>10, <1>11, <1>12 DEF IInv

(* One interval of the forward sweep: the next state is that of here, and  *)
(* stored in a column that was free.                                       *)
LEMMA ForwardFacts ==
  ASSUME IInv, Forward
  PROVE  /\ Whole(ob') /\ k \in 1 .. K
         /\ ob'.state \in Sketch /\ ob'.cache = ob.cache /\ ob'.adjoint = ob.adjoint
         /\ ob'.l = ob.l /\ ob'.rank = ob.rank /\ ob'.valCache = ob.valCache
         /\ (ob'.valCached <=> ob.valCached) /\ (ob'.stCached <=> ob.stCached)
         /\ (ob'.adDone <=> ob.adDone)
         /\ ob'.state.col[k] = State(here, k)
         /\ \A i \in Interval \ {k} : ob'.state.col[i] = ob.state.col[i]
         /\ ob'.u \in Vector \X Vector /\ (mode.sketch => ob'.u[1] = State(here, k))
         /\ ob'.val = IF job = "value" THEN Append(ob.val, State(here, k)) ELSE ob.val
         /\ (ob'.stDone <=> ob.stDone \/ k = K)
         /\ (ob'.valDone <=> ob.valDone \/ (k = K /\ job = "value"))
         /\ stage' = IF k = K THEN AfterState(ob', job) ELSE "forward"
         /\ k' = IF k = K THEN K ELSE k + 1
<1> DEFINE old == IF mode.sketch THEN ob.u[1] ELSE Kept(k - 1)
           new == IF old = State(here, k - 1) THEN State(here, k) ELSE Junk
<1>1. K \in Nat /\ K >= 2
  BY DynamicAssumption
<1>2. stage = "forward" /\ k \in 1 .. K /\ here \in Point
  BY <1>1 DEF Forward, IInv, TypeOK, Runs
<1>3. old = State(here, k - 1)
  <2>1. CASE mode.sketch
    BY <1>2, <2>1 DEF IInv, StateHeld
  <2>2. CASE ~mode.sketch /\ k = 1
    BY <2>2, VectorFacts DEF Kept
  <2>3. CASE ~mode.sketch /\ k # 1
    BY <1>2, <2>3 DEF Kept, IInv, StateHeld
  <2>4. QED BY <2>1, <2>2, <2>3
<1>4. new = State(here, k) /\ new \in Vector
  BY <1>2, <1>3, VectorFacts
<1>5. ob' = [ob EXCEPT !.state = Put(ob.state, k, new),
                       !.u = IF mode.sketch THEN <<new, new>> ELSE ob.u,
                       !.val = IF job = "value" THEN Append(ob.val, new) ELSE ob.val,
                       !.stDone = ob.stDone \/ k = K,
                       !.valDone = ob.valDone \/ (k = K /\ job = "value")]
  BY DEF Forward, IInv, Whole
<1>6. /\ stage' = IF k = K THEN AfterState(ob', job) ELSE "forward"
      /\ k' = IF k = K THEN K ELSE k + 1
  BY DEF Forward
<1> HIDE DEF old, new
<1>7. mode.sketch => ob.state.col[k] = Zero
  BY <1>1, <1>2 DEF IInv, StateHeld
<1>8. LET q == Put(ob.state, k, new) IN
      /\ q \in Sketch /\ q.col[k] = new
      /\ \A i \in Interval \ {k} : q.col[i] = ob.state.col[i]
  <2>1. k \in Interval /\ ob.state \in Sketch
    BY <1>2 DEF Interval, IInv, TypeOK
  <2>2. QED BY <1>4, <1>7, <2>1, PutFacts
<1>9. ob'.u \in Vector \X Vector /\ (mode.sketch => ob'.u[1] = new)
  BY <1>4, <1>5 DEF IInv, TypeOK, Whole
<1>10. QED BY <1>2, <1>4, <1>5, <1>6, <1>8, <1>9 DEF IInv, Whole

(* The invariant then holds, in the middle of the sweep and at its end.    *)
LEMMA ForwardHolds == ASSUME IInv, Forward PROVE IInv'
<1>1. /\ stage = "forward"
      /\ mode' = mode /\ last' = last /\ here' = here /\ base' = base /\ trials' = trials
      /\ asked' = asked /\ askedBase' = askedBase /\ fresh' = fresh /\ refused' = refused
      /\ torn' = torn /\ job' = job /\ need' = need
  BY DEF Forward, caller
<1>2. /\ Whole(ob') /\ k \in 1 .. K
      /\ ob'.state \in Sketch /\ ob'.cache = ob.cache /\ ob'.adjoint = ob.adjoint
      /\ ob'.l = ob.l /\ ob'.rank = ob.rank /\ ob'.valCache = ob.valCache
      /\ (ob'.valCached <=> ob.valCached) /\ (ob'.stCached <=> ob.stCached)
      /\ (ob'.adDone <=> ob.adDone)
      /\ ob'.state.col[k] = State(here, k)
      /\ \A i \in Interval \ {k} : ob'.state.col[i] = ob.state.col[i]
      /\ ob'.u \in Vector \X Vector /\ (mode.sketch => ob'.u[1] = State(here, k))
      /\ ob'.val = (IF job = "value" THEN Append(ob.val, State(here, k)) ELSE ob.val)
      /\ (ob'.stDone <=> ob.stDone \/ k = K)
      /\ (ob'.valDone <=> ob.valDone \/ (k = K /\ job = "value"))
      /\ stage' = (IF k = K THEN AfterState(ob', job) ELSE "forward")
      /\ k' = (IF k = K THEN K ELSE k + 1)
  BY ForwardFacts
<1>3. K \in Nat /\ K >= 2
  BY DynamicAssumption
<1>4. /\ ~torn /\ here \in Point /\ (job # "value" => last # "Quiet")
      /\ job \in {"value", "gradient", "hessVec"}
  BY <1>1 DEF IInv, Runs, TypeOK, Method
<1>5. k = K =>
        /\ ob'.stDone
        /\ job = "value" => stage' = "answer" /\ ob'.valDone
        /\ job = "gradient" => stage' = (IF mode.sketch /\ mode.inexact THEN "rank" ELSE "back")
        /\ job = "hessVec" => stage' = (IF ob.adDone THEN "answer" ELSE "back")
  BY <1>2 DEF AfterState
<1>6. stage' \in {"forward", "rank", "back", "answer"} /\ (stage' = "forward" <=> k # K)
  BY <1>2, <1>4, <1>5
<1>7. \A i \in 1 .. k : ob'.state.col[i] = State(here, i)
  BY <1>1, <1>2, <1>3 DEF IInv, StateHeld, Interval
<1>8. ob'.val = (IF job = "value" THEN Terms(here, k) ELSE ob.val)
  <2>1. Append(Terms(here, k - 1), State(here, k)) = Terms(here, k)
    <3>1. k - 1 \in Nat /\ (k - 1) + 1 = k
      BY <1>2
    <3>2. QED BY <3>1, TermsFacts
  <2>2. QED BY <1>1, <1>2, <2>1 DEF IInv, ValueHeld
<1>9. TypeOK'
  <2>1. ob'.valDone => Len(ob'.val) = K
    <3>1. CASE job = "value"
      <4>1. ob'.valDone => k = K
        BY <1>1, <1>2, <3>1 DEF IInv, ValueHeld
      <4>2. QED BY <1>3, <1>8, <3>1, <4>1, TermsFacts
    <3>2. CASE job # "value"
      BY <1>2, <1>8, <3>2 DEF IInv, TypeOK
    <3>3. QED BY <3>1, <3>2
  <2>2. k' \in 0 .. K
    BY <1>2, <1>3
  <2>3. QED BY <1>1, <1>2, <1>6, <2>1, <2>2 DEF IInv, TypeOK
<1>10. Stands' /\ Runs'
  <2>1. k' # 0
    BY <1>2, <1>3
  <2>2. Stands'
    BY <1>1, <1>6 DEF IInv, Stands
  <2>3. QED BY <1>1, <1>2, <1>4, <1>5, <1>6, <2>1, <2>2 DEF Runs
<1>11. ValueHeld'
  <2>1. CASE job = "value"
    <3>1. ~ob.valDone
      BY <1>1, <2>1 DEF IInv, ValueHeld
    <3>2. k # K => k' - 1 = k
      BY <1>2, <1>3
    <3>3. QED BY <1>1, <1>2, <1>4, <1>5, <1>6, <1>8, <2>1, <3>1, <3>2 DEF ValueHeld
  <2>2. CASE job # "value"
    BY <1>1, <1>2, <1>4, <1>5, <1>6, <1>8, <2>2 DEF IInv, ValueHeld
  <2>3. QED BY <2>1, <2>2
<1>12. StateHeld'
  <2>1. CASE k # K
    <3>1. k' = k + 1 /\ k' - 1 = k /\ stage' = "forward"
      BY <1>2, <1>6, <2>1
    <3>2. mode.sketch => \A i \in k + 1 .. K : ob'.state.col[i] = Zero
      BY <1>1, <1>2, <1>3 DEF IInv, StateHeld, Interval
    <3>3. QED BY <1>1, <1>2, <1>7, <3>1, <3>2 DEF StateHeld
  <2>2. CASE k = K
    BY <1>1, <1>2, <1>5, <1>6, <1>7, <2>2 DEF StateHeld, Solved, Interval
  <2>3. QED BY <2>1, <2>2
<1>13. AdjointHeld'
  <2>1. mode.sketch /\ ~ob.adDone /\ last # "Quiet" => Empty(ob.adjoint)
    BY <1>1, <1>4 DEF IInv, AdjointHeld
  <2>2. /\ ob.adDone => \A i \in Interval : ob.adjoint.col[i] # Zero
        /\ ob.adDone /\ last # "Quiet" => Adjoined(ob.adjoint, Owner)
    BY DEF IInv, AdjointHeld
  <2>3. \A i \in K + 1 .. K : FALSE
    BY <1>3
  <2>4. Owner' = Owner
    BY <1>1 DEF Owner
  <2>5. stage' = "answer" /\ job = "hessVec" => ob.adDone
    BY <1>5, <1>6
  <2>6. stage' = "back" => k' = K /\ last # "Quiet"
    BY <1>2, <1>4, <1>5, <1>6
  <2>7. stage' = "back" /\ ~ob.adDone /\ mode.sketch =>
          ~ob.adjoint.read /\ \A i \in 1 .. K : ob.adjoint.col[i] = Zero
    BY <2>1, <2>6 DEF Empty, Interval
  <2>8. /\ ob'.adDone => \A i \in Interval : ob'.adjoint.col[i] # Zero
        /\ ob'.adDone /\ last' # "Quiet" => Adjoined(ob'.adjoint, Owner')
    BY <1>1, <1>2, <2>2, <2>4
  <2>9. mode'.sketch /\ ~ob'.adDone /\ last' # "Quiet" => Empty(ob'.adjoint)
    BY <1>1, <1>2, <2>1
  <2>10. stage' = "back" /\ ~ob'.adDone =>
           /\ \A i \in k' + 1 .. K : ob'.adjoint.col[i] = Adjoint(here', i)
           /\ k' = K
           /\ mode'.sketch => ~ob'.adjoint.read /\ \A i \in 1 .. k' : ob'.adjoint.col[i] = Zero
    BY <1>1, <1>2, <2>3, <2>6, <2>7
  <2>11. QED BY <1>1, <1>2, <2>5, <2>8, <2>9, <2>10 DEF AdjointHeld
<1>14. Remembered'
  <2>1. mode.sketch =>
          /\ "value" \in asked => ob.valDone
          /\ job # "gradient" =>
               /\ ob.valDone => ob.stDone
               /\ asked \cap Method # {} => ob.stDone
               /\ asked \cap Derivatives # {} => ob.adDone
    BY <1>1, <1>4 DEF IInv, Remembered
  <2>2. stage' # "idle" /\ (ob.valDone => ob'.valDone) /\ (ob.stDone => ob'.stDone)
    BY <1>2, <1>6
  <2>3. QED BY <1>1, <1>2, <2>1, <2>2 DEF Remembered
<1>15. Aside'
  BY <1>1, <1>2 DEF IInv, Aside, Solved
<1>16. QED BY <1>1, <1>2, <1>9, <1>10, <1>11, <1>12, <1>13, <1>14, <1>15 DEF IInv

(* The rank is tested, and raised for another sweep if it does not do.     *)
LEMMA TestRankHolds == ASSUME Served, IInv, TestRank PROVE IInv'
<1>1. /\ stage = "rank" /\ job = "gradient" /\ mode.sketch /\ mode.inexact
      /\ ~torn /\ here \in Point /\ last # "Quiet"
      /\ mode' = mode /\ last' = last /\ here' = here /\ base' = base /\ trials' = trials
      /\ asked' = asked /\ askedBase' = askedBase /\ fresh' = fresh /\ refused' = refused
      /\ torn' = torn /\ job' = job /\ need' = need
  BY DEF TestRank, IInv, Runs, caller
<1>2. K \in Nat /\ K >= 2 /\ mode.sync
  BY <1>1, DynamicAssumption DEF Served, IInv, TypeOK
<1>3. last # "Trial" /\ trials = 0 /\ base = here
  <2>1. last # "Trial"
    BY <1>1 DEF IInv, Stands
  <2>2. QED BY <1>1, <2>1, AtIterate
<1>4. /\ ob.stDone /\ Solved(ob.state, here)
      /\ ob.valDone => ob.val = Terms(here, K)
      /\ ~ob.valDone => ob.val = <<>>
      /\ "value" \in asked => ob.valDone
  BY <1>1 DEF IInv, StateHeld, ValueHeld, Remembered
<1>5. CASE ob.state.rank >= need
  <2>1. /\ ob' = [ob EXCEPT !.state = Read(ob.state), !.u = <<ob.state.col[K], ob.state.col[K]>>]
        /\ stage' = "back" /\ k' = K
    BY <1>5 DEF TestRank, IInv, Whole
  <2>2. Read(ob.state) \in Sketch /\ Read(ob.state).col = ob.state.col
    BY ReadFacts DEF IInv, TypeOK
  <2>3. ob.state.col[K] = State(here, K) /\ State(here, K) \in Vector
    BY <1>1, <1>2, <1>4, VectorFacts DEF Solved, Interval
  <2>4. /\ Whole(ob') /\ ob'.state \in Sketch /\ ob'.state.col = ob.state.col
        /\ ob'.cache = ob.cache /\ ob'.adjoint = ob.adjoint
        /\ ob'.u = <<State(here, K), State(here, K)>>
        /\ ob'.l = ob.l /\ ob'.rank = ob.rank /\ ob'.val = ob.val
        /\ (ob'.valDone <=> ob.valDone) /\ (ob'.stDone <=> ob.stDone)
        /\ (ob'.adDone <=> ob.adDone)
    BY <2>1, <2>2, <2>3 DEF IInv, Whole
  <2>5. TypeOK'
    BY <1>1, <1>2, <2>1, <2>3, <2>4 DEF IInv, TypeOK
  <2>6. Stands' /\ Runs'
    BY <1>1, <1>2, <1>3, <2>1 DEF IInv, Stands, Runs
  <2>7. ValueHeld' /\ StateHeld'
    BY <1>1, <1>4, <2>1, <2>4 DEF ValueHeld, StateHeld, Solved
  <2>8. AdjointHeld'
    <3>1. ~ob.adDone => Empty(ob.adjoint)
      BY <1>1 DEF IInv, AdjointHeld
    <3>2. \A i \in K + 1 .. K : FALSE
      BY <1>2
    <3>3. QED BY <1>1, <2>1, <2>4, <3>1, <3>2 DEF IInv, AdjointHeld, Owner, Adjoined, Empty, Interval
  <2>9. Remembered' /\ Aside'
    BY <1>1, <1>3, <1>4, <2>1, <2>4 DEF Remembered, Aside
  <2>10. QED BY <1>1, <2>4, <2>5, <2>6, <2>7, <2>8, <2>9 DEF IInv
<1>6. CASE ~(ob.state.rank >= need)
  <2> DEFINE r == Raised(ob.rank)
             o == RaiseRank(ob, r)
  <2>1. r \in 1 .. MaxRank
    BY DynamicAssumption DEF IInv, TypeOK, Raised
  <2>2. Enter(o, "gradient")
    BY <1>6 DEF TestRank
  <2> HIDE DEF r
  <2>3. SetRank(r) \in Sketch /\ Empty(SetRank(r))
    BY <2>1, SetRankFacts
  <2>4. /\ Whole(o) /\ o.state = SetRank(r) /\ o.adjoint = SetRank(r)
        /\ o.cache = ob.cache /\ o.l = ob.l /\ o.rank = r /\ o.val = ob.val
        /\ (o.valDone <=> ob.valDone) /\ ~o.stDone /\ ~o.adDone
    BY <1>2 DEF RaiseRank, IInv, Whole
  <2> HIDE DEF o
  <2>5. stage' = "forward" /\ k' = 1 /\ ob' = BeginForward(o)
    BY <2>2, <2>4 DEF Enter, NeedsState
  <2>6. /\ Whole(ob')
        /\ ob'.state \in Sketch /\ ob'.cache = ob.cache /\ ob'.adjoint = SetRank(r)
        /\ ob'.l = ob.l /\ ob'.rank = r /\ ob'.val = ob.val
        /\ (ob'.valDone <=> ob.valDone) /\ ~ob'.stDone /\ ~ob'.adDone
        /\ ob'.u = <<State(NoPoint, 0), State(NoPoint, 0)>> /\ Empty(ob'.state)
    BY <1>1, <2>3, <2>4, <2>5, BeginFacts
  <2>7. TypeOK'
    BY <1>1, <1>2, <2>1, <2>3, <2>5, <2>6, VectorFacts DEF IInv, TypeOK
  <2>8. Stands' /\ Runs'
    BY <1>1, <1>3, <2>5 DEF IInv, Stands, Runs
  <2>9. ValueHeld'
    BY <1>1, <1>4, <2>5, <2>6 DEF ValueHeld
  <2>10. StateHeld'
    BY <1>1, <2>5, <2>6, VectorFacts DEF StateHeld, Empty, Interval
  <2>11. AdjointHeld'
    BY <2>3, <2>5, <2>6 DEF AdjointHeld
  <2>12. Remembered' /\ Aside'
    BY <1>1, <1>3, <1>4, <2>5, <2>6 DEF Remembered, Aside
  <2>13. QED BY <1>1, <2>6, <2>7, <2>8, <2>9, <2>10, <2>11, <2>12 DEF IInv
<1>7. QED BY <1>5, <1>6

(* What the backward sweep finds at interval k: the states of here, and    *)
(* the adjoint of here, which no sketch refuses to store.                  *)
LEMMA BackFacts ==
  ASSUME IInv, stage = "back"
  PROVE  /\ k \in Interval /\ here \in Point /\ ~torn /\ Owner = here
         /\ job \in Derivatives /\ last # "Quiet" /\ (mode.sketch => trials = 0 /\ last # "Trial")
         /\ Pair = <<State(here, k - 1), State(here, k)>>
         /\ AdjointFound = Adjoint(here, k)
         /\ ~Refuses
<1>1. K \in Nat /\ K >= 2
  BY DynamicAssumption
<1>2. /\ k \in 1 .. K /\ here \in Point /\ ~torn /\ job \in Derivatives /\ last # "Quiet"
      /\ ob.stDone
  BY <1>1 DEF IInv, TypeOK, Runs, StateHeld, Method, Derivatives
<1>3. mode.sketch => last # "Trial"
  BY <1>2 DEF IInv, Stands, Derivatives
<1>4. mode.sketch => base = here /\ trials = 0
  BY <1>2, <1>3, AtIterate
<1>5. Owner = here
  BY <1>4 DEF Owner
<1>6. Solved(ob.state, here)
  BY <1>2 DEF IInv, StateHeld
<1>7. Pair = <<State(here, k - 1), State(here, k)>>
  <2>1. (IF k = 1 THEN State(NoPoint, 0) ELSE ob.state.col[k - 1]) = State(here, k - 1)
    <3>1. CASE k = 1
      BY <3>1, VectorFacts
    <3>2. CASE k # 1
      <4>1. k - 1 \in Interval
        BY <1>1, <1>2, <3>2 DEF Interval
      <4>2. QED BY <1>6, <3>2, <4>1 DEF Solved
    <3>3. QED BY <3>1, <3>2
  <2>2. (IF mode.sketch THEN ob.u[1] ELSE Kept(k)) = State(here, k)
    BY <1>2, <1>6 DEF Kept, Solved, Interval, IInv, StateHeld
  <2>3. QED BY <2>1, <2>2 DEF Pair
<1>8. AdjointFound = Adjoint(here, k)
  <2>1. CASE ob.adDone
    BY <1>2, <1>5, <2>1 DEF AdjointFound, IInv, AdjointHeld, Adjoined, Interval
  <2>2. CASE ~ob.adDone
    BY <1>7, <2>2 DEF AdjointFound, PairIsRight, IInv, AdjointHeld
  <2>3. QED BY <2>1, <2>2
<1>9. ~Refuses
  BY DEF Refuses, IInv, AdjointHeld
<1>10. QED BY <1>2, <1>3, <1>4, <1>5, <1>7, <1>8, <1>9 DEF Interval

(* The object with the states of an interval recovered.                    *)
LEMMA RecoveredFacts ==
  ASSUME IInv, stage = "back"
  PROVE  /\ Whole(Recovered)
         /\ Recovered.state \in Sketch /\ Recovered.state.col = ob.state.col
         /\ Recovered.adjoint \in Sketch /\ Recovered.adjoint.col = ob.adjoint.col
         /\ ~ob.adDone => Recovered.adjoint = ob.adjoint
         /\ Recovered.u \in Vector \X Vector
         /\ mode.sketch => Recovered.u[1] = State(here, k - 1)
         /\ Recovered.cache = ob.cache /\ Recovered.rank = ob.rank /\ Recovered.l = ob.l
         /\ Recovered.val = ob.val /\ (Recovered.valDone <=> ob.valDone)
         /\ (Recovered.stDone <=> ob.stDone) /\ (Recovered.adDone <=> ob.adDone)
<1>1. /\ Read(ob.state) \in Sketch /\ Read(ob.state).col = ob.state.col
      /\ Read(ob.adjoint) \in Sketch /\ Read(ob.adjoint).col = ob.adjoint.col
  BY ReadFacts DEF IInv, TypeOK
<1>2. Pair = <<State(here, k - 1), State(here, k)>> /\ k \in Interval /\ here \in Point
  BY BackFacts
<1>3. State(here, k - 1) \in Vector /\ State(here, k) \in Vector
  <2>1. K \in Nat /\ k - 1 \in 0 .. K /\ k \in 0 .. K
    BY <1>2, DynamicAssumption DEF Interval
  <2>2. QED BY <1>2, <2>1, VectorFacts
<1>4. CASE mode.sketch
  BY <1>1, <1>2, <1>3, <1>4 DEF Recovered, IInv, TypeOK, Whole
<1>5. CASE ~mode.sketch
  BY <1>5 DEF Recovered, IInv, TypeOK
<1>6. QED BY <1>4, <1>5

(* One interval of the backward sweep, and the end of the sweep.           *)
LEMMA BackwardHolds == ASSUME IInv, Backward PROVE IInv'
<1> DEFINE w == Adjoint(here, k)
<1>1. /\ stage = "back"
      /\ mode' = mode /\ last' = last /\ here' = here /\ base' = base /\ trials' = trials
      /\ askedBase' = askedBase /\ refused' = refused
      /\ torn' = torn /\ job' = job /\ need' = need
      /\ k' = (IF k = 1 THEN K ELSE k - 1)
      /\ stage' = (IF k > 1 THEN "back" ELSE IF job = "gradient" THEN "idle" ELSE "answer")
      /\ asked' = (IF k = 1 /\ job = "gradient" THEN asked \cup {job} ELSE asked)
  BY DEF Backward
<1>2. /\ k \in Interval /\ here \in Point /\ ~torn /\ Owner = here
      /\ job \in Derivatives /\ last # "Quiet"
      /\ mode.sketch => trials = 0 /\ last # "Trial"
      /\ Pair = <<State(here, k - 1), State(here, k)>>
      /\ AdjointFound = w
  BY <1>1, BackFacts
<1>3. /\ Whole(Recovered)
      /\ Recovered.state \in Sketch /\ Recovered.state.col = ob.state.col
      /\ Recovered.adjoint \in Sketch /\ Recovered.adjoint.col = ob.adjoint.col
      /\ ~ob.adDone => Recovered.adjoint = ob.adjoint
      /\ Recovered.u \in Vector \X Vector
      /\ mode.sketch => Recovered.u[1] = State(here, k - 1)
      /\ Recovered.cache = ob.cache /\ Recovered.rank = ob.rank /\ Recovered.l = ob.l
      /\ Recovered.val = ob.val /\ (Recovered.valDone <=> ob.valDone)
      /\ (Recovered.stDone <=> ob.stDone) /\ (Recovered.adDone <=> ob.adDone)
  BY <1>1, RecoveredFacts
<1>4. K \in Nat /\ K >= 2 /\ k \in 1 .. K
  BY <1>2, DynamicAssumption DEF Interval
<1>5. w \in Vector /\ w # Zero
  BY <1>2, VectorFacts
<1>6. fresh' = TRUE
  BY <1>2 DEF Backward, PairIsRight, IInv
<1>7. ob' = [Recovered EXCEPT !.l = w,
                              !.adjoint = IF ob.adDone THEN Recovered.adjoint
                                          ELSE Put(Recovered.adjoint, k, w),
                              !.adDone = Recovered.adDone \/ k = 1]
  BY <1>2, <1>3 DEF Backward, Whole
<1> HIDE DEF w
<1>8. /\ Whole(ob')
      /\ ob'.state \in Sketch /\ ob'.state.col = ob.state.col
      /\ ob'.cache = ob.cache /\ ob'.rank = ob.rank /\ ob'.l = w
      /\ ob'.u = Recovered.u
      /\ ob'.val = ob.val /\ (ob'.valDone <=> ob.valDone)
      /\ (ob'.stDone <=> ob.stDone) /\ (ob'.adDone <=> ob.adDone \/ k = 1)
      /\ ob'.adjoint = (IF ob.adDone THEN Recovered.adjoint ELSE Put(ob.adjoint, k, w))
  BY <1>3, <1>7 DEF Whole
<1>9. ob.adDone => ob'.adjoint \in Sketch /\ ob'.adjoint.col = ob.adjoint.col
  BY <1>3, <1>8
<1>10. /\ ob.adDone => \A i \in Interval : ob.adjoint.col[i] # Zero
       /\ ob.adDone => Adjoined(ob.adjoint, Owner)
       /\ ~ob.adDone =>
            /\ \A i \in k + 1 .. K : ob.adjoint.col[i] = Adjoint(here, i)
            /\ mode.sketch => ~ob.adjoint.read /\ \A i \in 1 .. k : ob.adjoint.col[i] = Zero
  BY <1>1, <1>2 DEF IInv, AdjointHeld
<1>11. ~ob.adDone =>
         /\ ob'.adjoint \in Sketch /\ ob'.adjoint.read = ob.adjoint.read
         /\ ob'.adjoint.col[k] = w
         /\ \A i \in Interval \ {k} : ob'.adjoint.col[i] = ob.adjoint.col[i]
  <2> SUFFICES ASSUME ~ob.adDone
               PROVE  /\ ob'.adjoint \in Sketch /\ ob'.adjoint.read = ob.adjoint.read
                      /\ ob'.adjoint.col[k] = w
                      /\ \A i \in Interval \ {k} : ob'.adjoint.col[i] = ob.adjoint.col[i]
    OBVIOUS
  <2>1. ob.adjoint \in Sketch
    BY DEF IInv, TypeOK
  <2>2. ~mode.sketch \/ ob.adjoint.col[k] = Zero
    BY <1>4, <1>10
  <2>3. LET p == Put(ob.adjoint, k, w) IN
        /\ p \in Sketch /\ p.read = ob.adjoint.read
        /\ \A j \in Interval \ {k} : p.col[j] = ob.adjoint.col[j]
        /\ p.col[k] = w
    BY <1>2, <1>5, <2>1, <2>2, PutFacts
  <2>4. ob'.adjoint = Put(ob.adjoint, k, w)
    BY <1>8
  <2>5. QED BY <2>3, <2>4
<1>12. ob'.adDone => Adjoined(ob'.adjoint, here) /\ \A i \in Interval : ob'.adjoint.col[i] # Zero
  <2>1. CASE ob.adDone
    BY <1>2, <1>9, <1>10, <2>1 DEF Adjoined
  <2>2. CASE ~ob.adDone /\ k = 1
    <3>1. Adjoined(ob'.adjoint, here)
      BY <1>4, <1>10, <1>11, <2>2 DEF Adjoined, Interval, w
    <3>2. QED BY <1>2, <3>1, VectorFacts DEF Adjoined
  <2>3. QED BY <1>8, <2>1, <2>2
<1>13. mode.sketch => ob'.u[1] = State(here, k - 1)
  BY <1>3, <1>8
<1>14. /\ ob.stDone /\ Solved(ob.state, here)
       /\ ob.valDone => ob.val = Terms(here, K)
       /\ ~ob.valDone => ob.val = <<>>
  BY <1>1, <1>2 DEF IInv, StateHeld, ValueHeld, Derivatives
<1>15. TypeOK'
  <2>1. k' \in 0 .. K
    BY <1>1, <1>4
  <2>2. stage' \in {"idle", "forward", "rank", "back", "answer"}
    BY <1>1
  <2>3. ob'.adjoint \in Sketch
    BY <1>9, <1>11
  <2>4. ob'.adDone => Zero \notin {ob'.adjoint.col[i] : i \in Interval}
    BY <1>12
  <2>5. ob'.valDone => Len(ob'.val) = K
    BY <1>8 DEF IInv, TypeOK
  <2>6. ob'.u \in Vector \X Vector
    BY <1>3, <1>8
  <2>7. QED BY <1>1, <1>5, <1>8, <2>1, <2>2, <2>3, <2>4, <2>5, <2>6 DEF IInv, TypeOK
<1>16. Stands'
  BY <1>1, <1>2 DEF IInv, Stands
<1>17. Runs'
  BY <1>1, <1>2, <1>4 DEF Runs, Derivatives
<1>18. ValueHeld'
  BY <1>1, <1>2, <1>8, <1>14 DEF ValueHeld, Derivatives
<1>19. CASE k > 1
  <2>1. k' = k - 1 /\ k' + 1 = k /\ stage' = "back" /\ asked' = asked
    BY <1>1, <1>4, <1>19
  <2>2. StateHeld'
    BY <1>1, <1>8, <1>13, <1>14, <2>1 DEF StateHeld, Solved
  <2>3. AdjointHeld'
    <3>1. ~ob'.adDone => ~ob.adDone
      BY <1>8
    <3>2. ~ob.adDone => \A i \in k .. K : ob'.adjoint.col[i] = Adjoint(here, i)
      BY <1>4, <1>10, <1>11 DEF Interval, w
    <3>3. ~ob.adDone /\ mode.sketch =>
            ~ob'.adjoint.read /\ \A i \in 1 .. k - 1 : ob'.adjoint.col[i] = Zero
      BY <1>4, <1>10, <1>11 DEF Interval
    <3>4. ob'.l = Adjoint(here, k)
      BY <1>8 DEF w
    <3>5. Owner' = here'
      BY <1>1, <1>2 DEF Owner
    <3>6. QED BY <1>1, <1>12, <2>1, <3>1, <3>2, <3>3, <3>4, <3>5 DEF AdjointHeld
  <2>4. Remembered'
    BY <1>1, <1>8, <1>14, <2>1 DEF IInv, Remembered, Derivatives
  <2>5. Aside'
    BY <1>1, <1>2 DEF Aside
  <2>6. QED BY <1>1, <1>6, <1>8, <1>15, <1>16, <1>17, <1>18, <2>2, <2>3, <2>4, <2>5 DEF IInv
<1>20. CASE k = 1
  <2>1. /\ stage' = (IF job = "gradient" THEN "idle" ELSE "answer") /\ ob'.adDone
        /\ asked' = (IF job = "gradient" THEN asked \cup {job} ELSE asked)
    BY <1>1, <1>8, <1>20
  <2>2. StateHeld'
    <3>1. stage' = "idle" => "gradient" \in asked'
      BY <2>1
    <3>2. job = "gradient" \/ job = "hessVec"
      BY <1>2 DEF Derivatives
    <3>3. QED BY <1>1, <1>8, <1>14, <2>1, <3>1, <3>2 DEF StateHeld, Solved
  <2>3. AdjointHeld'
    <3>1. Owner' = here'
      BY <1>1, <1>2 DEF Owner
    <3>2. QED BY <1>1, <1>12, <2>1, <3>1 DEF AdjointHeld
  <2>4. Remembered'
    <3>1. "value" \in asked' => "value" \in asked
      BY <2>1
    <3>2. QED BY <1>1, <1>8, <1>14, <2>1, <3>1 DEF IInv, Remembered
  <2>5. Aside'
    BY <1>1, <1>2 DEF Aside
  <2>6. QED BY <1>1, <1>6, <1>8, <1>15, <1>16, <1>17, <1>18, <2>2, <2>3, <2>4, <2>5 DEF IInv
<1>21. QED BY <1>4, <1>19, <1>20

(* What hessVec makes of the object at interval i.                         *)
LEMMA ReconstructedFacts ==
  ASSUME IInv, NEW i \in Interval
  PROVE  LET o == Reconstructed(i) IN
         /\ Whole(o)
         /\ o.state \in Sketch /\ o.state.col = ob.state.col /\ o.state.rank = ob.state.rank
         /\ o.adjoint \in Sketch /\ o.adjoint.col = ob.adjoint.col
         /\ o.cache = ob.cache /\ o.rank = ob.rank
         /\ o.u \in Vector \X Vector /\ o.l \in Vector
         /\ o.val = ob.val /\ (o.valDone <=> ob.valDone)
         /\ (o.stDone <=> ob.stDone) /\ (o.adDone <=> ob.adDone)
<1> DEFINE first == IF i = 1 THEN State(NoPoint, 0) ELSE ob.state.col[i - 1]
           read  == [ob EXCEPT !.state = Read(ob.state), !.adjoint = Read(ob.adjoint),
                               !.l = ob.adjoint.col[i], !.u = <<first, ob.state.col[i]>>]
           o     == Reconstructed(i)
<1>1. o = IF ~mode.sketch THEN ob ELSE read
  BY DEF Reconstructed, IInv, Whole
<1>2. /\ Read(ob.state) \in Sketch /\ Read(ob.state).col = ob.state.col
      /\ Read(ob.state).rank = ob.state.rank
      /\ Read(ob.adjoint) \in Sketch /\ Read(ob.adjoint).col = ob.adjoint.col
  BY ReadFacts DEF IInv, TypeOK
<1>3. ob.adjoint.col[i] \in Vector /\ ob.state.col[i] \in Vector /\ first \in Vector
  <2>1. i # 1 => i - 1 \in Interval
    BY DynamicAssumption DEF Interval
  <2>2. QED BY <2>1, VectorFacts DEF IInv, TypeOK, Sketch
<1> HIDE DEF first
<1>4. CASE mode.sketch
  BY <1>1, <1>2, <1>3, <1>4 DEF IInv, Whole
<1>5. CASE ~mode.sketch
  BY <1>1, <1>5 DEF IInv, TypeOK
<1>6. QED BY <1>4, <1>5

(* The answer: the value that was computed, or a product formed from the   *)
(* states and adjoints that were.                                          *)
LEMMA AnswerHolds == ASSUME IInv, Answer PROVE IInv'
<1>1. /\ stage = "answer" /\ stage' = "idle" /\ asked' = asked \cup {job}
      /\ mode' = mode /\ last' = last /\ here' = here /\ base' = base /\ trials' = trials
      /\ askedBase' = askedBase /\ refused' = refused
      /\ torn' = torn /\ job' = job /\ need' = need /\ k' = k
  BY DEF Answer
<1>2. /\ ~torn /\ here \in Point /\ job \in {"value", "hessVec"}
      /\ job # "value" => last # "Quiet"
  BY <1>1 DEF IInv, Runs, TypeOK, Method
<1>3. K \in Nat /\ K >= 2
  BY DynamicAssumption
<1>4. Stands'
  BY <1>1, <1>2 DEF IInv, Stands
<1>5. Runs'
  BY <1>1 DEF Runs
<1>6. CASE job = "value"
  <2>1. ob' = ob /\ ob.valDone /\ ob.val = Terms(here, K)
    BY <1>1, <1>6 DEF Answer, IInv, ValueHeld
  <2>2. fresh' = TRUE
    BY <1>6, <2>1 DEF Answer, IInv, Terms, Interval
  <2>3. TypeOK'
    BY <1>1, <1>6, <2>1, VectorFacts DEF IInv, TypeOK, AdjointHeld
  <2>4. ValueHeld' /\ AdjointHeld'
    BY <1>1, <1>2, <1>6, <2>1 DEF IInv, ValueHeld, AdjointHeld, Owner, Adjoined, Empty
  <2>5. StateHeld'
    <3>1. asked' \subseteq {"value"} => asked \subseteq {"value"}
      BY <1>1
    <3>2. QED BY <1>1, <1>2, <1>6, <2>1, <3>1 DEF IInv, StateHeld, Solved
  <2>6. Remembered'
    <3>1. mode.sketch => ob.stDone /\ (asked \cap Derivatives # {} => ob.adDone)
      BY <1>1, <1>2, <1>6, <2>1 DEF IInv, Remembered
    <3>2. asked' \cap Derivatives = asked \cap Derivatives
      BY <1>1, <1>6 DEF Derivatives
    <3>3. QED BY <1>1, <2>1, <3>1, <3>2 DEF Remembered
  <2>7. Aside'
    BY <1>1, <2>1 DEF IInv, Aside, Solved
  <2>8. QED BY <1>1, <1>4, <1>5, <2>1, <2>2, <2>3, <2>4, <2>5, <2>6, <2>7 DEF IInv
<1>7. CASE job = "hessVec"
  <2>1. last # "Quiet" /\ ob.stDone /\ ob.adDone
    BY <1>1, <1>2, <1>7 DEF IInv, StateHeld, AdjointHeld
  <2>2. mode.sketch => base = here /\ trials = 0
    <3>1. mode.sketch => last # "Trial"
      BY <1>1, <1>7 DEF IInv, Stands
    <3>2. QED BY <1>2, <2>1, <3>1, AtIterate
  <2>3. Owner = here /\ Owner' = here'
    BY <1>1, <2>2 DEF Owner
  <2>4. Solved(ob.state, here) /\ Adjoined(ob.adjoint, here)
    BY <1>1, <1>2, <2>1, <2>3 DEF IInv, StateHeld, AdjointHeld
  <2>5. fresh' = TRUE
    BY <1>7, <2>4 DEF Answer, IInv, Solved, Adjoined
  <2>6. /\ Whole(ob')
        /\ ob'.state \in Sketch /\ ob'.state.col = ob.state.col
        /\ ob'.adjoint \in Sketch /\ ob'.adjoint.col = ob.adjoint.col
        /\ ob'.cache = ob.cache /\ ob'.rank = ob.rank
        /\ ob'.u \in Vector \X Vector /\ ob'.l \in Vector
        /\ ob'.val = ob.val /\ (ob'.valDone <=> ob.valDone)
        /\ ob'.stDone /\ ob'.adDone
    <3>1. 1 \in Interval
      BY <1>3 DEF Interval
    <3>2. ob' = Reconstructed(1)
      BY <1>7 DEF Answer
    <3>3. QED BY <2>1, <3>1, <3>2, ReconstructedFacts
  <2>7. ob.valDone => Len(ob.val) = K
    BY DEF IInv, TypeOK
  <2>8. \A i \in Interval : ob.adjoint.col[i] # Zero
    BY <2>1 DEF IInv, AdjointHeld
  <2>9. TypeOK'
    BY <1>1, <2>6, <2>7, <2>8 DEF IInv, TypeOK
  <2>10. ValueHeld'
    BY <1>1, <1>2, <1>7, <2>6 DEF IInv, ValueHeld
  <2>11. StateHeld'
    <3>1. "hessVec" \in asked'
      BY <1>1, <1>7
    <3>2. QED BY <1>1, <2>4, <2>6, <3>1 DEF StateHeld, Solved
  <2>12. AdjointHeld'
    BY <1>1, <2>3, <2>4, <2>6, <2>8 DEF AdjointHeld, Adjoined
  <2>13. Remembered'
    <3>1. "value" \in asked' => "value" \in asked
      BY <1>1, <1>7
    <3>2. QED BY <1>1, <2>6, <3>1 DEF IInv, Remembered
  <2>14. Aside'
    BY <1>1, <2>2 DEF Aside
  <2>15. QED BY <1>1, <1>4, <1>5, <2>5, <2>6, <2>9, <2>10, <2>11, <2>12, <2>13, <2>14 DEF IInv
<1>8. QED BY <1>2, <1>6, <1>7

(* An exception in the forward sweep, while an adjoint is solved for, or   *)
(* in a sweep of hessVec.                                                  *)
LEMMA ThrowHolds == ASSUME IInv, Throw PROVE IInv'
<1>1. /\ stage \in {"forward", "back", "answer"} /\ stage' = "idle" /\ torn' = TRUE
      /\ mode' = mode /\ last' = last /\ here' = here /\ base' = base /\ trials' = trials
      /\ asked' = asked /\ askedBase' = askedBase
      /\ job' = job /\ need' = need /\ k' = k /\ fresh' = TRUE
  BY DEF Throw, IInv, caller
<1>2. Stands' /\ Runs'
  BY <1>1 DEF IInv, Stands, Runs
<1>3. CASE stage = "forward"
  <2>1. ob' = ob /\ refused' = refused
    BY <1>3 DEF Throw
  <2>2. TypeOK'
    BY <1>1, <1>3, <2>1, VectorFacts DEF IInv, TypeOK, AdjointHeld
  <2>3. ValueHeld' /\ StateHeld'
    BY <1>1, <2>1 DEF IInv, ValueHeld, StateHeld
  <2>4. AdjointHeld'
    <3>1. ~torn
      BY <1>3 DEF IInv, Runs
    <3>2. QED BY <1>1, <1>3, <2>1, <3>1 DEF IInv, AdjointHeld, Owner, Adjoined, Empty
  <2>5. Remembered' /\ Aside'
    BY <1>1, <2>1 DEF IInv, Remembered, Aside, Solved
  <2>6. QED BY <1>1, <1>2, <2>1, <2>2, <2>3, <2>4, <2>5 DEF IInv
<1>4. CASE stage = "back"
  <2>1. ob' = Recovered /\ ~ob.adDone /\ ~refused'
    BY <1>4, BackFacts DEF Throw, IInv
  <2>2. mode.sketch => trials = 0 /\ last # "Trial"
    BY <1>4, BackFacts
  <2>3. /\ Whole(ob')
        /\ ob'.state \in Sketch /\ ob'.state.col = ob.state.col
        /\ ob'.adjoint = ob.adjoint /\ ob'.u \in Vector \X Vector
        /\ ob'.cache = ob.cache /\ ob'.rank = ob.rank /\ ob'.l = ob.l
        /\ ob'.val = ob.val /\ (ob'.valDone <=> ob.valDone)
        /\ (ob'.stDone <=> ob.stDone) /\ ~ob'.adDone
    BY <1>4, <2>1, RecoveredFacts
  <2>4. TypeOK'
    BY <1>1, <2>3 DEF IInv, TypeOK
  <2>5. ValueHeld' /\ StateHeld'
    BY <1>1, <2>3 DEF IInv, ValueHeld, StateHeld
  <2>6. AdjointHeld'
    BY <1>1, <2>2, <2>3 DEF AdjointHeld
  <2>7. Remembered' /\ Aside'
    BY <1>1, <2>2, <2>3 DEF IInv, Remembered, Aside
  <2>8. QED BY <1>1, <1>2, <2>1, <2>3, <2>4, <2>5, <2>6, <2>7 DEF IInv
<1>5. CASE stage = "answer"
  <2>1. job = "hessVec" /\ refused' = refused /\ \E i \in Interval : ob' = Reconstructed(i)
    BY <1>5 DEF Throw
  <2>2. last # "Quiet" /\ ~torn /\ here \in Point /\ ob.stDone /\ ob.adDone
    BY <1>5, <2>1 DEF IInv, Runs, StateHeld, AdjointHeld
  <2>3. mode.sketch => base = here /\ trials = 0
    <3>1. mode.sketch => last # "Trial"
      BY <1>5, <2>1 DEF IInv, Stands
    <3>2. QED BY <2>2, <3>1, AtIterate
  <2>4. Owner = here /\ Owner' = here'
    BY <1>1, <2>3 DEF Owner
  <2>5. /\ Whole(ob')
        /\ ob'.state \in Sketch /\ ob'.state.col = ob.state.col
        /\ ob'.adjoint \in Sketch /\ ob'.adjoint.col = ob.adjoint.col
        /\ ob'.cache = ob.cache /\ ob'.rank = ob.rank
        /\ ob'.u \in Vector \X Vector /\ ob'.l \in Vector
        /\ ob'.val = ob.val /\ (ob'.valDone <=> ob.valDone)
        /\ ob'.stDone /\ ob'.adDone
    BY <2>1, <2>2, ReconstructedFacts
  <2>6. \A i \in Interval : ob.adjoint.col[i] # Zero
    BY <2>2 DEF IInv, AdjointHeld
  <2>7. TypeOK'
    BY <1>1, <2>5, <2>6 DEF IInv, TypeOK
  <2>8. ValueHeld' /\ StateHeld'
    BY <1>1, <2>5 DEF IInv, ValueHeld, StateHeld
  <2>9. AdjointHeld'
    <3>1. Adjoined(ob.adjoint, here)
      BY <1>5, <2>1, <2>2, <2>4 DEF IInv, AdjointHeld
    <3>2. QED BY <1>1, <2>4, <2>5, <2>6, <3>1 DEF AdjointHeld, Adjoined
  <2>10. Remembered' /\ Aside'
    BY <1>1, <2>3, <2>5 DEF IInv, Remembered, Aside
  <2>11. QED BY <1>1, <1>2, <2>1, <2>5, <2>7, <2>8, <2>9, <2>10 DEF IInv
<1>6. QED BY <1>1, <1>3, <1>4, <1>5

(* No step leaves the invariant.                                           *)
LEMMA NextHolds == ASSUME Served, IInv, [Next]_vars PROVE IInv'
<1>1. ASSUME NEW x \in Point, UpdateInitial(x) PROVE IInv'
  BY <1>1, InitialHolds
<1>2. ASSUME NEW x \in Point, UpdateTrial(x) PROVE IInv'
  BY <1>2, TrialHolds
<1>3. ASSUME NEW x \in Point, UpdateTemp(x) PROVE IInv'
  BY <1>3, TempHolds
<1>4. ASSUME NEW x \in Point, NEW flag \in BOOLEAN, UpdateFlag(x, flag) PROVE IInv'
  BY <1>4, FlagHolds
<1>5. CASE UpdateAccept
  BY <1>5, AcceptHolds
<1>6. CASE UpdateRevert
  BY <1>6, RevertHolds
<1>7. ASSUME NEW j \in Method, Ask(j) PROVE IInv'
  <2>1. CASE NeedsState(ob, j)
    BY <1>7, <2>1, AskForwardHolds
  <2>2. CASE ~NeedsState(ob, j)
    BY <1>7, <2>2, AskHeldHolds
  <2>3. QED BY <2>1, <2>2
<1>8. CASE Work
  BY <1>8, ForwardHolds, TestRankHolds, BackwardHolds, AnswerHolds DEF Work
<1>9. CASE Throw
  BY <1>9, ThrowHolds
<1>10. CASE UNCHANGED vars
  BY <1>10 DEF vars, working, caller, IInv, TypeOK, Stands, Runs, ValueHeld, StateHeld,
               AdjointHeld, Owner, Adjoined, Empty, Remembered, Aside, Solved
<1>11. QED BY <1>1, <1>2, <1>3, <1>4, <1>5, <1>6, <1>7, <1>8, <1>9, <1>10 DEF Next

-----------------------------------------------------------------------------
(* The theorems.                                                           *)

(* The invariant holds in every behaviour: value, states and adjoints that *)
(* are marked computed are those of the point they are kept for, the       *)
(* working vector holds the final state when the backward sweep needs it,  *)
(* and what was put aside at a trial point is what was known of the        *)
(* iterate.                                                                *)
THEOREM InvariantOfDynamic == ASSUME Served PROVE Spec => []IInv
<1>1. Init => IInv
  BY InitHolds
<1>2. IInv /\ [Next]_vars => IInv'
  BY NextHolds
<1>3. QED BY <1>1, <1>2, PTL DEF Spec

(* Types; a value marked computed has a term for every interval, and a     *)
(* history of adjoints marked computed has no empty column.                *)
THEOREM TypeCorrect == ASSUME Served PROVE Spec => []TypeOK
<1>1. Spec => []IInv
  BY InvariantOfDynamic
<1>2. IInv => TypeOK
  BY DEF IInv
<1>3. QED BY <1>1, <1>2, PTL

(* Every value, gradient and Hessian-vector product is formed from states  *)
(* and adjoints of the point it was asked for, each interval's with its    *)
(* own neighbours.                                                         *)
THEOREM Fresh == ASSUME Served PROVE Spec => []AnswersAreFresh
<1>1. Spec => []IInv
  BY InvariantOfDynamic
<1>2. IInv => AnswersAreFresh
  BY DEF IInv, AnswersAreFresh
<1>3. QED BY <1>1, <1>2, PTL

(* No sketch is asked to store a column after it has been read.            *)
THEOREM NeverRefuses == ASSUME Served PROVE Spec => []NeverRefused
<1>1. Spec => []IInv
  BY InvariantOfDynamic
<1>2. IInv => NeverRefused
  BY DEF IInv, NeverRefused
<1>3. QED BY <1>1, <1>2, PTL

(* With a sketch the states of a point are solved for once: neither        *)
(* rejecting nor accepting a trial point loses them.                       *)
THEOREM SolvedOnce == ASSUME Served PROVE Spec => NoSecondSolve
<1> DEFINE Once == \A j \in Method :
                     mode.sketch /\ Ask(j) /\ stage' = "forward" =>
                       asked \cap (IF j = "value" THEN {"value"} ELSE Method) = {}
<1>1. Spec => []IInv
  BY InvariantOfDynamic
<1>2. IInv => Once
  <2> SUFFICES ASSUME IInv, NEW j \in Method, mode.sketch, Ask(j), stage' = "forward"
               PROVE  asked \cap (IF j = "value" THEN {"value"} ELSE Method) = {}
    OBVIOUS
  <2>1. stage = "idle" /\ ~torn
    BY AskFacts
  <2>2. NeedsState(ob, j)
    BY DEF Ask, Enter, AfterState, Method
  <2>3. "value" \in asked => ob.valDone
    BY DEF IInv, Remembered
  <2>4. asked \cap Method # {} => ob.stDone
    BY <2>1 DEF IInv, Remembered
  <2>5. QED BY <2>2, <2>3, <2>4 DEF NeedsState
<1> HIDE DEF Once
<1>3. Spec => [][Once]_vars
  BY <1>1, <1>2, PTL DEF Spec
<1>4. QED BY <1>3 DEF NoSecondSolve, Once

-----------------------------------------------------------------------------
(* Why calls return: every step of a method goes on in an order that has   *)
(* no infinite ascent, as TypeOK bounds ranks and intervals.               *)

Position ==
  CASE stage = "forward" -> 4
    [] stage = "rank" -> 3
    [] stage = "back" -> 2
    [] stage = "answer" -> 1
    [] stage = "idle" -> 0

GoesOn ==
  \/ ob'.state.rank > ob.state.rank
  \/ ob'.state.rank = ob.state.rank /\ Position' < Position
  \/ /\ ob'.state.rank = ob.state.rank /\ Position' = Position
     /\ IF stage = "forward" THEN k' > k ELSE k' < k

(* No sketch of states has more than the rank of the object; it may have   *)
(* less, if the rank was raised at a trial point.                          *)
Ranked == ob.state.rank <= ob.rank /\ ob.cache.rank <= ob.rank

(* What updates do with ranks: they keep them, or swap them.               *)
SameRanks(o) ==
  /\ o.rank = ob.rank
  /\ \/ o.state.rank = ob.state.rank /\ o.cache.rank = ob.cache.rank
     \/ o.state.rank = ob.cache.rank /\ o.cache.rank = ob.state.rank

LEMMA ResetRank == ASSUME NEW s PROVE ResetSketch(s).rank = s.rank
  BY DEF ResetSketch, SetRank

LEMMA UpdateRanks ==
  ASSUME Whole(ob), NEW type \in {"Initial", "Trial", "Accept", "Revert", "Temp"}
  PROVE  SameRanks(UpdateObject(ob, type))
<1> DEFINE a == ResetSketch(ob.state)
           b == ResetSketch(ob.cache)
<1>1. a.rank = ob.state.rank /\ b.rank = ob.cache.rank
  BY ResetRank
<1>2. LET o == UpdateObject(ob, type) IN
      /\ o.rank = ob.rank
      /\ \/ o.state \in {ob.state, a} /\ o.cache \in {ob.cache, b}
         \/ o.state \in {ob.cache, b} /\ o.cache = ob.state
  <2> HIDE DEF a, b
  <2>1. CASE ~mode.sketch
    BY <2>1 DEF UpdateObject, NoAdjoint, Cleared, Whole, a
  <2>2. CASE mode.sketch /\ type = "Initial"
    <3> DEFINE n == NoAdjoint(Cleared(ob))
    <3>1. Whole(n) /\ n.state = ob.state /\ n.cache = ob.cache /\ n.rank = ob.rank
      BY DEF NoAdjoint, Cleared, Whole
    <3> HIDE DEF n
    <3>2. UpdateObject(ob, type) = [n EXCEPT !.state = ResetSketch(n.state),
                                             !.cache = ResetSketch(n.cache)]
      BY <2>2 DEF UpdateObject, UpdateSketched, n
    <3>3. QED BY <3>1, <3>2 DEF Whole, a, b
  <2>3. CASE mode.sketch /\ type = "Trial"
    BY ZenonT(20), <2>3 DEF UpdateObject, UpdateSketched, PutAside, Cleared, Whole, b
  <2>4. CASE mode.sketch /\ type = "Accept"
    BY <2>4 DEF UpdateObject, UpdateSketched, NoAdjoint, Whole
  <2>5. CASE mode.sketch /\ type = "Revert"
    BY <2>5 DEF UpdateObject, UpdateSketched, TakeBack, Whole
  <2>6. CASE mode.sketch /\ type = "Temp"
    <3> DEFINE n == PutAside(ob)
    <3>1. Whole(n) /\ n.state = b /\ n.cache = ob.state /\ n.rank = ob.rank
      BY ZenonT(20) DEF PutAside, Cleared, Whole, b
    <3> HIDE DEF n
    <3>2. UpdateObject(ob, type) = NoAdjoint(n)
      BY <2>6 DEF UpdateObject, UpdateSketched, n
    <3>3. QED BY <3>1, <3>2 DEF NoAdjoint, Whole
  <2>7. QED BY <2>1, <2>2, <2>3, <2>4, <2>5, <2>6
<1> HIDE DEF a, b
<1>3. QED BY <1>1, <1>2 DEF SameRanks

LEMMA FlagRanks ==
  ASSUME Whole(ob), NEW flag \in BOOLEAN
  PROVE  SameRanks(UpdateObjectFlag(ob, flag))
<1>1. /\ UpdateObjectFlag(ob, flag).state = ResetSketch(ob.state)
      /\ UpdateObjectFlag(ob, flag).cache = ob.cache
      /\ UpdateObjectFlag(ob, flag).rank = ob.rank
  BY DEF UpdateObjectFlag, NoAdjoint, Cleared, Whole
<1>2. QED BY <1>1, ResetRank DEF SameRanks

(* A sweep begins with the rank there is.                                  *)
LEMMA BeginRank ==
  ASSUME NEW o, Whole(o)
  PROVE  /\ BeginForward(o).state.rank = o.state.rank
         /\ BeginForward(o).cache = o.cache /\ BeginForward(o).rank = o.rank
<1>1. CASE mode.sketch
  <2>1. /\ BeginForward(o).state = ResetSketch(o.state)
        /\ BeginForward(o).cache = o.cache /\ BeginForward(o).rank = o.rank
    BY <1>1 DEF BeginForward, Whole
  <2>2. QED BY <2>1, ResetRank
<1>2. CASE ~mode.sketch
  BY <1>2 DEF BeginForward
<1>3. QED BY <1>1, <1>2

(* The steps of methods, the raising of the rank aside, keep ranks too.    *)
LEMMA ForwardRanks ==
  ASSUME IInv, Forward
  PROVE  ob'.state.rank = ob.state.rank /\ ob'.cache = ob.cache /\ ob'.rank = ob.rank
<1> DEFINE old == IF mode.sketch THEN ob.u[1] ELSE Kept(k - 1)
           new == IF old = State(here, k - 1) THEN State(here, k) ELSE Junk
<1>1. ob'.state = Put(ob.state, k, new)
  BY DEF Forward, IInv, Whole
<1> HIDE DEF new
<1>2. Put(ob.state, k, new).rank = ob.state.rank
  BY DEF Put, Sketch, IInv, TypeOK
<1>3. QED BY <1>1, <1>2, ForwardFacts

LEMMA RecoveredRanks ==
  ASSUME IInv, stage = "back"
  PROVE  /\ Recovered.state.rank = ob.state.rank
         /\ Recovered.cache = ob.cache /\ Recovered.rank = ob.rank
<1>1. Read(ob.state).rank = ob.state.rank
  BY ReadFacts DEF IInv, TypeOK
<1>2. Recovered.state \in {ob.state, Read(ob.state)}
  BY DEF Recovered, IInv, Whole
<1>3. QED BY <1>1, <1>2, RecoveredFacts

LEMMA BackwardRanks ==
  ASSUME IInv, Backward
  PROVE  ob'.state.rank = ob.state.rank /\ ob'.cache = ob.cache /\ ob'.rank = ob.rank
<1>1. stage = "back"
  BY DEF Backward
<1>2. Whole(Recovered)
  BY <1>1, RecoveredFacts
<1>3. ob'.state = Recovered.state /\ ob'.cache = Recovered.cache /\ ob'.rank = Recovered.rank
  BY <1>2 DEF Backward, Whole
<1>4. QED BY <1>1, <1>3, RecoveredRanks

LEMMA AnswerRanks ==
  ASSUME IInv, Answer
  PROVE  ob'.state.rank = ob.state.rank /\ ob'.cache = ob.cache /\ ob'.rank = ob.rank
<1>1. 1 \in Interval
  BY DynamicAssumption DEF Interval
<1>2. ob' = ob \/ ob' = Reconstructed(1)
  BY DEF Answer
<1>3. QED BY <1>1, <1>2, ReconstructedFacts

LEMMA ThrowRanks ==
  ASSUME IInv, Throw
  PROVE  ob'.state.rank = ob.state.rank /\ ob'.cache = ob.cache /\ ob'.rank = ob.rank
<1>1. \/ ob' = ob
      \/ stage = "back" /\ ob' = Recovered
      \/ \E i \in Interval : ob' = Reconstructed(i)
  BY DEF Throw
<1>2. QED BY <1>1, RecoveredRanks, ReconstructedFacts

(* The test of the rank: it meets the need, or a greater one is taken, and *)
(* the sweep begins again.                                                 *)
LEMMA TestRanks ==
  ASSUME IInv, Ranked, TestRank
  PROVE  \/ /\ ob'.state.rank = ob.state.rank /\ ob'.cache = ob.cache /\ ob'.rank = ob.rank
            /\ stage' = "back"
         \/ /\ ob'.state.rank > ob.state.rank /\ ob'.state.rank = ob'.rank
            /\ ob'.rank \in Nat /\ ob'.rank >= ob.rank /\ ob'.cache = ob.cache
<1> DEFINE r == Raised(ob.rank)
           o == RaiseRank(ob, r)
<1>1. /\ MaxRank \in Nat /\ Factor \in Nat \ {0} /\ ob.rank \in 1 .. MaxRank
      /\ need \in 1 .. MaxRank /\ ob.state \in Sketch /\ ob.state.rank \in 1 .. MaxRank
  BY DynamicAssumption DEF IInv, TypeOK, Sketch
<1>2. CASE ob.state.rank >= need
  <2>1. /\ ob'.state = Read(ob.state) /\ ob'.cache = ob.cache /\ ob'.rank = ob.rank
        /\ stage' = "back"
    BY <1>2 DEF TestRank, IInv, Whole
  <2>2. QED BY <2>1, ReadFacts DEF IInv, TypeOK
<1>3. CASE ~(ob.state.rank >= need)
  <2>1. r \in Nat /\ r >= ob.rank /\ r > ob.state.rank
    BY <1>1, <1>3 DEF Raised, Ranked
  <2>2. Enter(o, "gradient")
    BY <1>3 DEF TestRank
  <2> HIDE DEF r
  <2>3. Whole(o) /\ ~o.stDone /\ o.rank = r /\ o.state = SetRank(r) /\ o.cache = ob.cache
    BY DEF RaiseRank, IInv, Whole
  <2> HIDE DEF o
  <2>4. ob' = BeginForward(o)
    BY <2>2, <2>3 DEF Enter, NeedsState
  <2>5. ob'.state.rank = r /\ ob'.rank = r /\ ob'.cache = ob.cache
    BY <2>3, <2>4, BeginRank DEF SetRank
  <2>6. QED BY <1>1, <2>1, <2>5
<1>4. QED BY <1>2, <1>3

(* Ranks stay below the object's.                                          *)
LEMMA RankedHolds == ASSUME IInv, Ranked, [Next]_vars PROVE Ranked'
<1>1. /\ ob.rank \in Nat /\ ob.state.rank \in Nat /\ ob.cache.rank \in Nat /\ Whole(ob)
  BY DynamicAssumption DEF IInv, TypeOK, Sketch
<1>2. ASSUME SameRanks(ob') PROVE Ranked'
  BY <1>2 DEF SameRanks, Ranked
<1>3. ASSUME NEW x \in Point, UpdateInitial(x) \/ UpdateTrial(x) \/ UpdateTemp(x) PROVE Ranked'
  BY <1>1, <1>2, <1>3, UpdateRanks DEF UpdateInitial, UpdateTrial, UpdateTemp, Leave
<1>4. ASSUME NEW x \in Point, NEW flag \in BOOLEAN, UpdateFlag(x, flag) PROVE Ranked'
  BY <1>1, <1>2, <1>4, FlagRanks DEF UpdateFlag
<1>5. CASE UpdateAccept \/ UpdateRevert
  <2>1. ob' = UpdateObject(ob, "Accept") \/ ob' = UpdateObject(ob, "Revert")
    BY <1>5 DEF UpdateAccept, UpdateRevert
  <2>2. SameRanks(UpdateObject(ob, "Accept")) /\ SameRanks(UpdateObject(ob, "Revert"))
    BY <1>1, UpdateRanks
  <2>3. QED BY <1>2, <2>1, <2>2
<1>6. ASSUME NEW j \in Method, Ask(j) PROVE Ranked'
  <2>1. ob' = BeginForward(ob) \/ ob' = ob
    BY <1>6 DEF Ask, Enter
  <2>2. SameRanks(ob')
    BY <1>1, <2>1, BeginRank DEF SameRanks
  <2>3. QED BY <1>2, <2>2
<1>7. CASE Work \/ Throw
  <2>1. CASE TestRank
    BY <1>1, <2>1, TestRanks DEF Ranked, IInv, TypeOK
  <2>2. CASE Forward \/ Backward \/ Answer \/ Throw
    BY <1>2, <2>2, ForwardRanks, BackwardRanks, AnswerRanks, ThrowRanks DEF SameRanks
  <2>3. QED BY <1>7, <2>1, <2>2 DEF Work
<1>8. CASE UNCHANGED vars
  BY <1>8 DEF vars, Ranked
<1>9. QED BY <1>3, <1>4, <1>5, <1>6, <1>7, <1>8 DEF Next

(* The steps of a method.                                                  *)
LEMMA StepGoesOn == ASSUME IInv, Ranked, Next, stage # "idle" PROVE GoesOn
<1>1. K \in Nat /\ k \in 0 .. K /\ job \in Method
  BY DynamicAssumption DEF IInv, TypeOK
<1>2. Work \/ Throw
  BY DEF Next, UpdateInitial, UpdateTrial, UpdateTemp, Leave, UpdateFlag, UpdateAccept,
         UpdateRevert, Tells, Ask
<1>3. CASE Forward
  <2>1. stage = "forward" /\ ob'.state.rank = ob.state.rank
    BY <1>3, ForwardRanks DEF Forward
  <2>2. CASE k = K
    <3>1. stage' \in {"answer", "rank", "back"}
      BY <1>1, <1>3, <2>2, ForwardFacts DEF AfterState, Method
    <3>2. Position = 4 /\ Position' \in {1, 2, 3}
      BY <2>1, <3>1 DEF Position
    <3>3. QED BY <2>1, <3>2 DEF GoesOn
  <2>3. CASE k # K
    <3>1. stage' = "forward" /\ k' = k + 1
      BY <1>3, <2>3, ForwardFacts
    <3>2. Position' = Position
      BY <2>1, <3>1 DEF Position
    <3>3. QED BY <1>1, <2>1, <3>1, <3>2 DEF GoesOn
  <2>4. QED BY <2>2, <2>3
<1>4. CASE TestRank
  <2>1. stage = "rank" /\ (stage' = "back" => Position = 3 /\ Position' = 2)
    BY <1>4 DEF TestRank, Position
  <2>2. QED BY <1>4, <2>1, TestRanks DEF GoesOn
<1>5. CASE Backward
  <2>1. stage = "back" /\ ob'.state.rank = ob.state.rank
    BY <1>5, BackwardRanks DEF Backward
  <2>2. CASE k > 1
    <3>1. stage' = "back" /\ k' = k - 1
      BY <1>1, <1>5, <2>2 DEF Backward
    <3>2. Position' = Position
      BY <2>1, <3>1 DEF Position
    <3>3. QED BY <1>1, <2>1, <3>1, <3>2 DEF GoesOn
  <2>3. CASE ~(k > 1)
    <3>1. stage' \in {"idle", "answer"}
      BY <1>5, <2>3 DEF Backward
    <3>2. Position = 2 /\ Position' \in {0, 1}
      BY <2>1, <3>1 DEF Position
    <3>3. QED BY <2>1, <3>2 DEF GoesOn
  <2>4. QED BY <2>2, <2>3
<1>6. CASE Answer
  <2>1. stage = "answer" /\ stage' = "idle" /\ ob'.state.rank = ob.state.rank
    BY <1>6, AnswerRanks DEF Answer
  <2>2. Position = 1 /\ Position' = 0
    BY <2>1 DEF Position
  <2>3. QED BY <2>1, <2>2 DEF GoesOn
<1>7. CASE Throw
  <2>1. /\ stage \in {"forward", "back", "answer"} /\ stage' = "idle"
        /\ ob'.state.rank = ob.state.rank
    BY <1>7, ThrowRanks DEF Throw
  <2>2. Position \in {1, 2, 4} /\ Position' = 0
    BY <2>1 DEF Position
  <2>3. QED BY <2>1, <2>2 DEF GoesOn
<1>8. QED BY <1>2, <1>3, <1>4, <1>5, <1>6, <1>7 DEF Work

(* While a method runs, every step goes on; in particular a rank that does *)
(* not meet the tolerance is replaced by a greater one, which never fails  *)
(* to be found, as no need exceeds maxRank_: what EveryCallReturns needs   *)
(* besides fairness.                                                       *)
THEOREM CallsGoOn == ASSUME Served PROVE Spec => [][stage # "idle" => GoesOn]_vars
<1> DEFINE On == stage # "idle" => GoesOn
<1>1. Init => IInv /\ Ranked
  <2>1. Init => Ranked
    BY DEF Init, NewObject, SetRank, Ranked
  <2>2. QED BY <2>1, InitHolds
<1>2. IInv /\ Ranked /\ [Next]_vars => (IInv /\ Ranked)'
  BY NextHolds, RankedHolds
<1>3. IInv /\ Ranked /\ [Next]_vars => [On]_vars
  BY StepGoesOn
<1> HIDE DEF On
<1>4. Spec => [][On]_vars
  BY <1>1, <1>2, <1>3, PTL DEF Spec
<1>5. QED BY <1>4 DEF On
=============================================================================
