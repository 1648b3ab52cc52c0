------------------------ MODULE ReducedDynamicObjective ------------------------
(***************************************************************************)
(* ROL::ReducedDynamicObjective: an objective that depends on a control    *)
(* through a time-dependent equation.  A forward sweep over the intervals  *)
(* solves for the states, a backward sweep for the adjoints.  The          *)
(* histories are stored in full or in a Sketch: a sketch is filled once    *)
(* (advance), read many times (reconstruct), and refuses to be filled      *)
(* again once it has been read, until it is reset.                         *)
(*                                                                         *)
(* The object keeps its own flags for value, state and adjoint, and swaps  *)
(* two sketches around trial points, beside a caller that keeps the        *)
(* protocol of UpdateType.  Vectors are represented by what they are: the  *)
(* state or adjoint of a point at an interval.                             *)
(***************************************************************************)
EXTENDS Naturals, Sequences

CONSTANTS
  Point, NoPoint,    (* controls; and none                                 *)
  K,                 (* intervals: Nt_ - 1                                 *)
  Modes,             (* useSketch_, useInexact_, syncHessRank_             *)
  MaxRank, Factor,   (* maxRank_, updateFactor_                            *)
  Probes             (* whether a sketched objective is probed (Temp)      *)

ASSUME DynamicAssumption ==
  /\ NoPoint \notin Point
  /\ K \in Nat /\ K >= 2        (* a sketch needs a state before the last  *)
  /\ MaxRank \in Nat \ {0} /\ Factor \in Nat \ {0} /\ Probes \in BOOLEAN
  /\ Modes \subseteq [sketch : BOOLEAN, inexact : BOOLEAN, sync : BOOLEAN]

VARIABLES
  mode,               (* a member of Modes                                 *)
  ob,                 (* the object                                        *)
  job, stage, k,      (* method under way, where it is, and the interval   *)
  need,               (* rank that meets the tolerance asked for           *)
  last, here, base,   (* the caller: last update, its point, the iterate   *)
  asked, askedBase,   (* what it has been told of here, and of the iterate *)
  trials,             (* Trial updates since the last Accept or Revert     *)
  torn,               (* whether the last evaluation was left by a throw   *)
  fresh, refused      (* history: answers all of their point; a sketch     *)
                      (* was asked to advance after it had been read       *)

working == <<job, stage, k, need>>
caller  == <<last, here, base, asked, askedBase, trials>>
vars    == <<mode, ob, working, caller, torn, fresh, refused>>

Method   == {"value", "gradient", "hessVec"}
Interval == 1 .. K

(* Vectors. The state at time 0 is u0_, whatever the control.              *)
Zero == <<"zero", NoPoint, 0>>
Junk == <<"junk", NoPoint, 0>>
State(x, i) == <<"state", IF i = 0 THEN NoPoint ELSE x, i>>
Adjoint(x, i) == <<"adjoint", x, i>>

Vector ==
  {Zero, Junk, State(NoPoint, 0)} \cup {State(x, i) : x \in Point, i \in Interval}
                                  \cup {Adjoint(x, i) : x \in Point, i \in Interval}

-----------------------------------------------------------------------------
(* Sketch: its columns, whether it has been read, its rank.                *)
Sketch == [col : [Interval -> Vector], read : BOOLEAN, rank : 1 .. MaxRank]

SetRank(r) == [col |-> [i \in Interval |-> Zero], read |-> FALSE, rank |-> r]

ResetSketch(s) == SetRank(s.rank)

(* advance adds to a column; a plain history is overwritten.               *)
Put(s, i, v) ==
  [s EXCEPT !.col[i] = IF mode.sketch /\ @ # Zero THEN Junk ELSE v]

Read(s) == [s EXCEPT !.read = mode.sketch]

(* Faulty variant: maxRank_ forgotten.                                     *)
RaisedUncapped(r) == r + Factor

(* updateSketch: the next rank after r.                                    *)
Raised(r) == IF r + Factor > MaxRank THEN MaxRank ELSE r + Factor

-----------------------------------------------------------------------------
(* The object. u is uhist_[0], uhist_[1] of a sketched objective, l is the *)
(* adjoint last solved for; val lists what was added to val_.              *)
NewObject ==
  [state |-> SetRank(1), cache |-> SetRank(1), adjoint |-> SetRank(1), rank |-> 1,
   u |-> <<Zero, Zero>>, l |-> Zero, val |-> <<>>, valCache |-> <<>>,
   valDone |-> FALSE, stDone |-> FALSE, adDone |-> FALSE,
   valCached |-> FALSE, stCached |-> FALSE]

(* What every update but Accept starts with.                               *)
Cleared(o) ==
  [o EXCEPT !.u = <<Zero, Zero>>, !.val = <<>>, !.valDone = FALSE, !.stDone = FALSE]

(* Faulty variant: the flag is lowered and the sketch left as it is.       *)
NoAdjointFlagOnly(o) == [o EXCEPT !.adDone = FALSE]

NoAdjoint(o) ==
  [o EXCEPT !.adDone = FALSE, !.adjoint = IF mode.sketch THEN ResetSketch(@) ELSE @]

(* Value, flags and sketch are put aside, and the spare sketch taken.      *)
PutAside(o) ==
  [Cleared(o) EXCEPT !.valCache = o.val, !.valCached = o.valDone, !.stCached = o.stDone,
                     !.cache = o.state, !.state = ResetSketch(o.cache)]

(* Faulty variant: the sketches are swapped, the flags forgotten.          *)
TakeBackSketch(o) == [Cleared(o) EXCEPT !.state = o.cache, !.cache = o.state]

TakeBack(o) ==
  [o EXCEPT !.u = <<Zero, Zero>>, !.val = o.valCache, !.valDone = o.valCached,
            !.stDone = o.stCached, !.state = o.cache, !.cache = o.state]

(* update(x, type) of an objective that sketches.                          *)
UpdateSketched(o, type) ==
  CASE type = "Initial" -> [NoAdjoint(Cleared(o)) EXCEPT !.state = ResetSketch(@),
                                                         !.cache = ResetSketch(@)]
    [] type = "Trial"   -> PutAside(o)
    [] type = "Accept"  -> NoAdjoint(o)
    [] type = "Revert"  -> TakeBack(o)
    [] type = "Temp"    -> NoAdjoint(PutAside(o))

(* update(x, type): without a sketch, everything is forgotten.             *)
UpdateObject(o, type) ==
  IF mode.sketch THEN UpdateSketched(o, type)
  ELSE NoAdjoint([Cleared(o) EXCEPT !.state = ResetSketch(@)])

(* update(x, flag), deprecated.                                            *)
UpdateObjectFlag(o, flag) ==
  LET c == [Cleared(o) EXCEPT !.state = ResetSketch(@)]
  IN  IF flag THEN NoAdjoint(c) ELSE c

-----------------------------------------------------------------------------
Init ==
  /\ mode \in Modes /\ ob = NewObject
  /\ job = "value" /\ stage = "idle" /\ k = 0 /\ need = 1
  /\ last = "None" /\ here = NoPoint /\ base = NoPoint
  /\ asked = {} /\ askedBase = {} /\ trials = 0
  /\ torn = FALSE /\ fresh = TRUE /\ refused = FALSE

(* The caller's side of an update. After an evaluation that threw, any     *)
(* update will do without a sketch.  With one, a caller who was at a trial *)
(* point goes back to the iterate, or tries another point, or starts anew; *)
(* at the iterate it can only start anew: what a trial would put aside,    *)
(* and Revert bring back, is the value and the sketch half done.           *)
Tells(type, x) ==
  /\ stage = "idle"
  /\ last' = type /\ here' = x /\ torn' = FALSE
  /\ UNCHANGED <<mode, working, fresh, refused>>

Recovers(type) ==
  torn => type = "Initial" \/ ~mode.sketch \/ (last = "Trial" /\ type \in {"Trial", "Revert"})

UpdateInitial(x) ==
  /\ Tells("Initial", x)
  /\ base' = x /\ asked' = {} /\ askedBase' = {} /\ trials' = 0
  /\ ob' = UpdateObject(ob, "Initial")

UpdateFlag(x, flag) ==
  /\ Tells(IF flag THEN "Initial" ELSE "Quiet", x)
  /\ base' = IF flag THEN x ELSE NoPoint
  /\ asked' = {} /\ askedBase' = {} /\ trials' = 0
  /\ ob' = UpdateObjectFlag(ob, flag)

(* What has been asked of the iterate is remembered while away from it.    *)
Leave(type, x) ==
  /\ base # NoPoint /\ Recovers(type)
  /\ Tells(type, x)
  /\ asked' = {} /\ askedBase' = IF trials = 0 THEN asked ELSE askedBase
  /\ trials' = IF trials = 2 THEN 2 ELSE trials + 1
  /\ ob' = UpdateObject(ob, type)
  /\ UNCHANGED base

UpdateTrial(x) == Leave("Trial", x)

UpdateTemp(x) ==
  /\ mode.sketch => Probes /\ trials = 0
  /\ Leave("Temp", x)

UpdateAccept ==
  /\ last = "Trial" /\ Recovers("Accept")
  /\ Tells("Accept", here)
  /\ base' = here /\ askedBase' = {} /\ trials' = 0
  /\ ob' = UpdateObject(ob, "Accept")
  /\ UNCHANGED asked

(* With a sketch, one step back is all there is.                           *)
UpdateRevert ==
  /\ last \in {"Trial", "Temp"} /\ (mode.sketch => trials = 1) /\ Recovers("Revert")
  /\ Tells("Revert", base)
  /\ asked' = askedBase \cup {"revert"} /\ askedBase' = {} /\ trials' = 0
  /\ ob' = UpdateObject(ob, "Revert")
  /\ UNCHANGED base

-----------------------------------------------------------------------------
(* What a caller with a sketched objective may ask: derivatives at the     *)
(* iterate only (or at a probe), a gradient once and before any Hessian,   *)
(* unless the rank is adaptive. The backward sweep starts from the final   *)
(* state, which the forward sweep leaves in a working vector; TerminalKept *)
(* is when the caller knows it is still there.                             *)
TerminalKept == asked \subseteq {"value"}

MayAsk(j) ==
  /\ here # NoPoint /\ ~torn
  /\ j # "value" => last # "Quiet"
  /\ mode.sketch /\ j # "value" => last \in {"Initial", "Accept", "Revert", "Temp"}
  /\ mode.sketch /\ j = "gradient" => mode.inexact \/ TerminalKept
  /\ mode.sketch /\ j = "hessVec" => asked \cap {"gradient", "hessVec"} # {} \/ TerminalKept

(* Whether method j has to solve for the state first.                      *)
NeedsState(o, j) == IF j = "value" THEN ~o.valDone ELSE ~o.stDone

(* Where method j goes on when the state is there.                         *)
AfterState(o, j) ==
  CASE j = "value" -> "answer"
    [] j = "gradient" -> IF mode.sketch /\ mode.inexact THEN "rank" ELSE "back"
    [] j = "hessVec" -> IF o.adDone THEN "answer" ELSE "back"

(* The beginning of value and solveState: initial condition, empty sketch. *)
BeginForward(o) ==
  IF mode.sketch THEN [o EXCEPT !.u = <<State(NoPoint, 0), State(NoPoint, 0)>>,
                                !.state = ResetSketch(@)]
  ELSE o

Enter(o, j) ==
  IF NeedsState(o, j)
  THEN stage' = "forward" /\ k' = 1 /\ ob' = BeginForward(o)
  ELSE stage' = AfterState(o, j) /\ k' = K /\ ob' = o

Ask(j) ==
  /\ stage = "idle" /\ MayAsk(j)
  /\ job' = j /\ need' \in (IF j = "gradient" /\ mode.inexact THEN 1 .. MaxRank ELSE {1})
  /\ Enter(ob, j)
  /\ UNCHANGED <<mode, caller, torn, fresh, refused>>

(* The state at interval i, in a plain history.                            *)
Kept(i) == IF i = 0 THEN State(NoPoint, 0) ELSE ob.state.col[i]

(* One interval of the forward sweep.                                      *)
Forward ==
  LET old  == IF mode.sketch THEN ob.u[1] ELSE Kept(k - 1)
      new  == IF old = State(here, k - 1) THEN State(here, k) ELSE Junk
      done == k = K
      o    == [ob EXCEPT !.state = Put(@, k, new),
                         !.u = IF mode.sketch THEN <<new, new>> ELSE @,
                         !.val = IF job = "value" THEN Append(@, new) ELSE @,
                         !.stDone = @ \/ done, !.valDone = @ \/ (done /\ job = "value")]
  IN  /\ stage = "forward"
      /\ ob' = o
      /\ stage' = IF done THEN AfterState(o, job) ELSE "forward"
      /\ k' = IF done THEN K ELSE k + 1
      /\ UNCHANGED <<mode, job, need, caller, torn, fresh, refused>>

(* Faulty variant: the sketch is not told of the new rank.                 *)
RaiseRankOnly(o, r) ==
  [o EXCEPT !.rank = r, !.state = ResetSketch(@), !.stDone = FALSE, !.adDone = FALSE,
            !.adjoint = IF mode.sync THEN SetRank(r) ELSE @]

(* updateSketch: one round of its loop. The states reconstructed are       *)
(* tested against the equation; if the rank does not do, it is raised, and *)
(* the equation solved again.                                              *)
RaiseRank(o, r) ==
  [o EXCEPT !.rank = r, !.state = SetRank(r), !.stDone = FALSE, !.adDone = FALSE,
            !.adjoint = IF mode.sync THEN SetRank(r) ELSE @]

TestRank ==
  /\ stage = "rank"
  /\ IF ob.state.rank >= need
     THEN /\ ob' = [ob EXCEPT !.state = Read(@), !.u = <<ob.state.col[K], ob.state.col[K]>>]
          /\ stage' = "back" /\ k' = K
     ELSE Enter(RaiseRank(ob, Raised(ob.rank)), "gradient")
  /\ UNCHANGED <<mode, job, need, caller, torn, fresh, refused>>

(* Faulty variant: the working vector is not shifted.                      *)
PairUnshifted == <<IF k = 1 THEN State(NoPoint, 0) ELSE ob.state.col[k - 1],
                   IF mode.sketch THEN ob.u[2] ELSE Kept(k)>>

(* The states before and after interval k, as the backward sweep gets      *)
(* them: with a sketch, the later one is the earlier one of interval k+1.  *)
Pair == <<IF k = 1 THEN State(NoPoint, 0) ELSE ob.state.col[k - 1],
          IF mode.sketch THEN ob.u[1] ELSE Kept(k)>>

(* The object with the states of interval k recovered.                     *)
Recovered ==
  IF mode.sketch
  THEN [ob EXCEPT !.u = Pair, !.state = IF k = 1 THEN @ ELSE Read(@),
                  !.adjoint = IF ob.adDone THEN Read(@) ELSE @]
  ELSE ob

PairIsRight == Pair = <<State(here, k - 1), State(here, k)>>

(* The adjoint of interval k: stored, or solved for with the next one.     *)
AdjointFound ==
  IF ob.adDone THEN ob.adjoint.col[k]
  ELSE IF PairIsRight /\ (k = K \/ ob.l = Adjoint(here, k + 1)) THEN Adjoint(here, k)
  ELSE Junk

Refuses == mode.sketch /\ ~ob.adDone /\ ob.adjoint.read

(* One interval of the backward sweep of gradient and solveAdjoint.        *)
Backward ==
  LET o == [Recovered EXCEPT !.l = AdjointFound,
                             !.adjoint = IF ob.adDone THEN @ ELSE Put(@, k, AdjointFound),
                             !.adDone = @ \/ k = 1]
  IN  /\ stage = "back" /\ ~Refuses
      /\ ob' = o
      /\ fresh' = (fresh /\ (job = "gradient" =>
                               PairIsRight /\ AdjointFound = Adjoint(here, k)))
      /\ k' = IF k = 1 THEN K ELSE k - 1
      /\ stage' = IF k > 1 THEN "back" ELSE IF job = "gradient" THEN "idle" ELSE "answer"
      /\ asked' = IF k = 1 /\ job = "gradient" THEN asked \cup {job} ELSE asked
      /\ UNCHANGED <<mode, job, need, last, here, base, askedBase, trials, torn, refused>>

(* hessVec at interval i, in either of its sweeps: the states before and   *)
(* after it, and its adjoint, are taken from the histories.                *)
Reconstructed(i) ==
  IF ~mode.sketch THEN ob
  ELSE [ob EXCEPT !.state = Read(@), !.adjoint = Read(@), !.l = ob.adjoint.col[i],
                  !.u = <<IF i = 1 THEN State(NoPoint, 0) ELSE ob.state.col[i - 1],
                          ob.state.col[i]>>]

(* value returns val_; hessVec sweeps forward and backward over the stored *)
(* states and adjoints, with sensitivities of its own.                     *)
Answer ==
  /\ stage = "answer" /\ stage' = "idle"
  /\ asked' = asked \cup {job}
  /\ \/ /\ job = "value"
        /\ fresh' = (fresh /\ ob.val = [i \in Interval |-> State(here, i)])
        /\ UNCHANGED ob
     \/ /\ job = "hessVec"
        /\ fresh' = (fresh /\ \A i \in Interval : /\ ob.state.col[i] = State(here, i)
                                                  /\ ob.adjoint.col[i] = Adjoint(here, i))
        /\ ob' = Reconstructed(1)
  /\ UNCHANGED <<mode, job, k, need, last, here, base, askedBase, trials, torn, refused>>

(* A solve that throws, for a state, an adjoint, or a sensitivity of       *)
(* hessVec, leaves everything as it is.                                    *)
Throw ==
  /\ \/ stage = "forward" /\ UNCHANGED <<ob, refused>>
     \/ stage = "back" /\ ~ob.adDone /\ ob' = Recovered /\ refused' = (refused \/ Refuses)
     \/ /\ stage = "answer" /\ job = "hessVec"
        /\ \E i \in Interval : ob' = Reconstructed(i)
        /\ UNCHANGED refused
  /\ stage' = "idle" /\ torn' = TRUE
  /\ UNCHANGED <<mode, job, k, need, caller, fresh>>

Work == Forward \/ TestRank \/ Backward \/ Answer

Next ==
  \/ \E x \in Point : UpdateInitial(x) \/ UpdateTrial(x) \/ UpdateTemp(x)
  \/ \E x \in Point, flag \in BOOLEAN : UpdateFlag(x, flag)
  \/ UpdateAccept \/ UpdateRevert
  \/ \E j \in Method : Ask(j)
  \/ Work \/ Throw

Spec == Init /\ [][Next]_vars

(* A method that was called runs on: there is one thread.                  *)
FairSpec == Spec /\ WF_vars(Work \/ Throw)

-----------------------------------------------------------------------------
(* Types; a value that is marked computed has all its terms, and a history *)
(* marked computed has no empty column.                                    *)
TypeOK ==
  /\ mode \in Modes
  /\ ob.state \in Sketch /\ ob.cache \in Sketch /\ ob.adjoint \in Sketch
  /\ ob.u \in Vector \X Vector /\ ob.l \in Vector
  /\ ob.valDone => Len(ob.val) = K
  /\ stage # "back" /\ ob.adDone => Zero \notin {ob.adjoint.col[i] : i \in Interval}
  /\ job \in Method /\ stage \in {"idle", "forward", "rank", "back", "answer"}
  /\ k \in 0 .. K /\ need \in 1 .. MaxRank /\ ob.rank \in 1 .. MaxRank
  /\ here \in Point \cup {NoPoint} /\ base \in Point \cup {NoPoint}

(* Every value, gradient and Hessian-vector product is formed from states  *)
(* and adjoints of the point it was asked for, each interval's with its    *)
(* own neighbours, whatever was tried, rejected, or left by an exception   *)
(* in between.                                                             *)
AnswersAreFresh == fresh

(* The sketches are reset in time: no sweep is broken off because a sketch *)
(* had been read before it was filled (advance returns an error then).     *)
NeverRefused == ~refused

(* With a sketch, neither rejecting a trial point nor accepting it makes   *)
(* the object solve again for a state it has solved for.                   *)
NoSecondSolve ==
  [][ \A j \in Method :
        mode.sketch /\ Ask(j) /\ stage' = "forward" =>
          asked \cap (IF j = "value" THEN {"value"} ELSE Method) = {} ]_vars

(* Every evaluation returns or throws: sweeps end, and the loop that       *)
(* raises the rank reaches one that meets the tolerance.                   *)
EveryCallReturns == (stage # "idle") ~> (stage = "idle")
=============================================================================
