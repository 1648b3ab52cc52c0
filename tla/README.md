# A verification project for ROL

ROL (the Rapid Optimization Library) minimizes functions whose evaluation is
expensive: a value may need the solution of a PDE, a gradient that of its
adjoint. So objectives keep what they have solved, and the algorithms tell them,
with `update(x, type)`, what each new point is: the first iterate, a candidate,
an accepted or a rejected one, a point only probed. Nothing in the type system
ties the two sides together. An update that is missing, out of order or sent with
the wrong point does not fail; it makes an objective answer with the data of
another point, and the optimizer converges to something else, slowly or not at
all. This is the part of ROL modelled here: the cache, its clients, and the
algorithms that drive them.

Paths below are relative to the repository root.

## 1. Inventory

| Component | State | Operations | Correct if |
|---|---|---|---|
| `UpdateType`, `VectorController`, `ScalarController` (`src/function/ROL_VectorController*.hpp`) | three tiers (iterate, trial, temporary) of vectors and computed-flags by parameter; two flags that select a tier, two that pair updates | `objectiveUpdate`, `constraintUpdate` (typed and deprecated), `isNull`, `isComputed`, `allocate`, `get`, `set`, internally `reset*`, `accept` | what is reported computed was computed at the current point; accepting or reverting forgets nothing |
| `Reduced_Objective_SimOpt` (`src/function/simopt`) | stores of states and adjoints, pending update, working vectors | `update`, `value`, `gradient`, `hessVec`, `precond` | every answer is that of the point asked for; one state solve per point and sample |
| `Reduced_Constraint_SimOpt` | as above, for a constraint | as above, Jacobian, its adjoint, adjoint Hessian | the same, and an adjoint belongs to the multiplier it is asked for |
| `Objective`, `Constraint` (`src/function/objective`, `constraint`) | work vectors | finite-difference defaults, which send updates themselves | leave the object in the mode they found it in |
| `ReduceLinearConstraint`, `AffineTransform*` | one store shared by objective and constraints | `transform`, `update`, evaluations | each wrapped function is updated at the image of the current point |
| TypeU trust region (`src/algorithm/TypeU`) | iterate, value, gradient, radius, nonmonotone references | `initialize`, `computeValue`, ratio test, accept, reject | protocol kept; no ascent (or ascent bounded by the reference); state agrees when the loop condition is evaluated |
| TypeU line search | iterate, step length, limits, best value so far | `initialize`, `run` of a search, `status`, `setMaxitUpdate` | protocol kept; no ascent; curvature tested where it should be |
| Scalar-minimization searches | brackets | searches | accepted point is the one the objective was told |
| TypeU bundle (`BundleAlgorithm`, `Bundle_U`) | iterate, arrays of subgradients, errors and dual variables of fixed length | cuts, serious and null steps, line search; `initialize`, `reset`, `remove`, `add`, `update` | arrays not overrun; the cut that touches the objective at the iterate is never lost; answers are those of the candidate |
| TypeE composite step | iterate, trial point, multiplier, penalty, radius; limits of three nested loops | `initialize`, `computeTrial`, `accept`, `updateRadius` | objective and constraint kept in step; loops end |
| Other TypeE, TypeB, TypeG, TypeP algorithms | iterate, multiplier, penalty | outer loops around other solvers | as for TypeU |
| `Problem`, `Solver`, `ConstraintAssembler`, `StochasticProblem` | inputs by name, counters and flags about them, groups, finalized or not, transformed problem | `add*`, `remove*`, `finalize` (two forms), `edit`, getters that finalize | records agree with containers; the problem solved is the one stated, also after edits |
| Stochastic objectives and samplers (`src/sol`) | sums, samples, refinement index, stores by sample | `update`, `value`, `gradient`, `refine` | each sample counted once per point |
| `ReducedDynamicObjective`, `Sketch` | histories or sketches of states and adjoints, flags and a value cached around trials, rank | `update`, `value`, `gradient`, `hessVec`; `advance`, `reconstruct`, `setRank` | flag, history and sketch belong together; a sketch is reset before it is filled; the rank loop ends |
| `VectorWorkspace` | pool of vectors by type and size | `clone`, `copy`, `status` | no vector in use twice |
| Secants, Krylov methods, status tests, vectors, bounds, projections | numerical | numerical | out of scope: accuracy is not a matter of control |
| Adapters, Python bindings, zoo, OED, MOL, legacy steps, tests | | | no core logic of their own |

*Interaction.* A `Problem` builds the objective that an algorithm receives, for
instance by composing it with the elimination of linear constraints; `Solver`
asks the problem for its type, which already finalizes it, and runs an algorithm. The
algorithm sends `update` and evaluates. The objective forwards updates to its
stores at once and to its inner problem lazily. Everything runs in one thread.
The concurrency is that of two parties taking turns: which evaluations fall
between which updates is decided by options, by the data, and by exceptions.

*What is hard.* Sequences, not steps: a defect needs a trial with an evaluation,
another without, and then an acceptance. Ordering: re-evaluations at the iterate
before or after a trial update; probes in the middle of either. Sharing: two
functions, one store. Limits: a search that gives up, a bundle that is full, a rank
that does not suffice. Partial failure: a solve that throws in the middle of a sweep.
Redundant records: flags, counters and caches kept by hand beside the data they are about.
Loops with several ways out. Floating point: infinities
and NaN, for which both `a < b` and `a >= b` fail. There is no persistence, no
message passing and no waiting, so crashes, lost messages and deadlock do not
arise. `PROJECT.json` lists the hazards line by line.

## 2. The modules

```
VectorController              the cache: operators on a record
 |-- UpdateProtocol           one cache, any legal optimizer    --implements--> IterateMemo
 |    `-- SharedStore         one cache, an objective and several constraints
 `-- ReducedObjective         two caches and a lazily told inner problem: operators on a record
      |-- ReducedProtocol     any legal optimizer, several samples (optimizer side: IterateMemo)
      |-- AlgorithmU          what the next two have in common
      |    |-- TrustRegionU   the trust-region loop
      |    `-- LineSearchU    the line-search loop
      |-- BundleU             the bundle method and its bundle
      `-- ReducedConstraint   the same stores, with adjoints that belong to a multiplier
           `-- CompositeStep  the composite-step loop, on an objective and a constraint

ReducedDynamicObjective       its own flags and sketches, any legal optimizer
ProblemSetup                  named constraints, finalize, edit
```

Theorems are in modules of their own: `SharedStore_proofs` (on `UpdateProtocol` and `SharedStore`),
`ReducedProtocol_proofs`, `AlgorithmU_proofs` (on `TrustRegionU` and `LineSearchU`), `BundleU_proofs`,
`CompositeStep_proofs`, `ReducedDynamicObjective_proofs` and `ProblemSetup_proofs`. `Stores_proofs` holds
the lemmas about the operators of `VectorController` and `ReducedObjective` that the first five share.

Each specification has an `MC` module with the bounds and symmetries of its runs.

**VectorController.** A controller is a record with the three tiers (a function
from keys to slots `alloc`, `flag`, `val`), `trial`, `temp`, `objUpdated` and
`conUpdated`, as the class has them. The index maps and the vectors of pointers
are one function here: indices are handed out once and never reused. The operators carry
the names of the methods. Vectors are opaque: a slot holds the point its contents
were computed at, or `NoVal` if it was cloned and never written. A read is stale
exactly when that value is not the current point.

**UpdateProtocol** has one action per kind of update and one per way the clients
evaluate: copy out or compute and copy in (`EvaluateByCopy`, as in
`solve_state_equation`), fill the vector where it lies (`EvaluateInPlace`, as in
`getObjectiveGradient` of the augmented Lagrangian), or look and store nothing
(`LookUp`: `get` leaves a slot behind). `getObjectiveGradient` calls `set(key)`, which marks the
vector computed, before it computes the gradient; `ThrowInPlace` is the computation that throws after that,
with the vector as it was, complete, or neither. `torn` is history: for which keys that happened, at
the iterate, at the candidate and at a probe. Nothing stops the caller from asking again afterwards.
`push`, which copies into another controller and is never called in `src/`, is left out. `Initial`, `Trial` and `Temp` may come at
any point, `Accept` at the point of the pending trial, `Revert` at the iterate:
the comments of `ROL_UpdateType.hpp`.

**IterateMemo** is the promise, with no word of tiers or flags: three places
(iterate, candidate, probe) and for each the set of keys known there.

**ReducedObjective** holds the class's two stores, pending update, `u` and `p` (the
working vectors `state_` and `adjoint_`), and the
inner constraint and objective. These are user code, hence external: what they may
do under the protocol is to keep what they assemble in a store of their own, and
that is how they are modelled (`InnerStores`). The operators are the public
methods. `fresh`, `legal`, `solves`, `here`, `base`, `cand` are history for the
properties: whether all data of every answer so far belonged to the point asked for; whether the
caller kept the protocol; state solves since the last update.

**ReducedProtocol** puts any legal optimizer on top, several samples, and a
finite-difference Hessian that sends updates of its own.

**TrustRegionU** follows `TrustRegionAlgorithm::run` statement by statement as far
as order matters: `Initialize`, `SolveSubproblem`, `ComputeValue`, then `Accept`,
`Reject`, or `Undecided`. `Ratio` is `analyzeRatio` with exact fractions, an
infinity and a NaN. **LineSearchU** does the same for `LineSearchAlgorithm::run`
with `LineSearch_U::status` as the action `Status` and `setMaxitUpdate` as
`NextPoints`. **AlgorithmU** declares what both have: the problem, the objective, the
vector, the place in `run`, the iteration limit.

**SharedStore** is the elimination of linear constraints: `UpdateObjective` opens a
round in which `UpdateConstraint` then updates each constraint in order, as
`Constraint_Partitioned` does.

**BundleU** has `Bundle_U` as operators on arrays (`Removal`, a recursive function, shifts them as
`remove` does, one index after another; `Spared` is the place `reset` keeps, `Victims` the places it gives up) and `BundleAlgorithm::run` as actions: `Cut` announces
a candidate with `Accept`, evaluates it and goes one of four ways (serious, null,
line search, another radius), `Finish` is the update of bundle and iterate, `Restart`
is `Solver::reset` and another solve with the same algorithm. A subgradient is the point it
belongs to, or `Agg`; of its linearization error only zero or not is kept, and a serious step may
make any of the errors zero or not. Neither values nor the tests on them are modelled: every candidate
and every trial may turn out any way, so the runs cover all objectives.

**ReducedConstraint** extends the operators of `ReducedObjective`, whose stores and
notification the class repeats; its store of adjoints holds pairs of point and
multiplier, so that a wrong multiplier shows. **CompositeStep** makes every decision
of the algorithm an action that lists the calls to be made (`todo`), and `MakeCall` makes them
one by one on both functions, whose states are stored separately or together
(`shared`). Steps and tests of size are arbitrary; the loops of `accept` and their
limits are those of the code. `stale` records in which part of an iteration
an answer belonged to another point.

**ReducedDynamicObjective** has the members of the class as a record `ob` (three
sketches, working vectors `u` and `l`, flags, cached value and flags) and every sweep as
one step per interval, so that a solve may throw in between (`Throw`); the two sweeps of `hessVec` over
stored states are one step, or one that throws at any interval. A
sketch is its columns, whether it has been read, and its rank: `advance` adds to a
column, `reconstruct` closes the sketch, and a closed sketch refuses. `TestRank` is
a round of `updateSketch`. The caller keeps the protocol of `UpdateType` and, with
a sketch, the further rules under *Assumptions* below.

**ProblemSetup** keeps the containers as functions from names to kinds, with counters and
flags beside them as in the class. `Transform` is `finalize` with slack variables,
branch by branch: it tells the type, what `con_`, `rlc_` and `proj_` stand for, and
whether there are bounds and slacks. `FinalizeIntoGroups` is its other form, and
`AskForGroups` how `AugmentedLagrangianAlgorithm2::run` takes the result apart: groups and, next to
equalities, bounds into penalties, the rest into a subproblem.

Each specification also defines *faulty variants*, marked as such, beside the
operator they differ from: what the code would be with a plausible bug. No action
uses them. Each property has one that violates it, named in `PROJECT.json` under
`mutants`, so that no property is true for want of anything that could break it.

## 3. Runs

| Run | Shows | Bounds |
|---|---|---|
| `update_protocol` | no stale read but where a computation threw, and no second computation there; nothing forgotten, refinement of `IterateMemo`, the inductive invariant | 2 keys, 2 points, at most two broken computations remembered at a time (`MaxTorn`) |
| `reduced_objective` | answers are fresh, one solve per point and sample | 2 samples, 3 points, 4 updates |
| `trust_region` | fresh answers, protocol kept, state agrees at the loop condition, monotone descent, reference never rises, no solve after a decision | 3 points, values 0, 1, 2, infinity, NaN; 4 iterations |
| `line_search` | no leak between trials, protocol kept, no ascent | 3 points, values 0..2; 3 evaluations per search, 3 iterations; Wolfe and Goldstein conditions, or none, where they matter |
| `shared_store` | wrapped functions updated at the current point, point mapped once | 1 constraint, 3 points; the whole state graph |
| `bundle` | arrays never overrun, a cut of error zero always there in the first run, removal keeps the right subgradients, convex answers fresh | bundles of 3 and 4 places, removal sizes 0, 2, 3, 7; 2 points, any objective; 2 evaluations per search, 2 serious steps, 2 runs |
| `composite_step` | objective and constraint in step, accepted step was the one announced, the algorithm ends | 3 points, 2 iterations, 3 passes, 3 tries |
| `dynamic_objective` | answers are fresh, no sketch refuses, no second solve, calls return | 3 intervals, 2 points, rank at most 2; full, sketched and adaptive; the whole state graph |
| `problem` | records agree with containers, the problem solved is the one stated in both forms | 3 names, one more group; the whole state graph |

*Why the bounds suffice.* Keys do not interact in a controller, so two show any
confusion between them. Two broken computations let a throw at a trial follow one at the
iterate, or both keys be broken at one point; more at a time add nothing, as the proof has no such bound. Staleness needs two points, and three let iterate, trial and
probe differ. Four updates are enough for first iterate, trial, probe and
acceptance in any order. Four trust-region iterations let the nonmonotone counter
(limit 2) wrap around and a reference be used after it was moved; three values
give every order of current value, reference and trial. Three evaluations per search
give a first, a second and a last trial; three iterations a search that follows
one that met its limit. A bundle of three or four places is full after a few null steps,
which nothing bounds, and is reset over and over; two victims and more (three of four places)
are enough for the order of removal to matter. Three intervals are the fewest with a
first, an inner and a last one in the backward sweep, and two the fewest the sketch can
serve at all. Three passes and tries let a pass, or a try, follow one that
was itself repeated. Three names allow two constraints of one kind next to one of another,
which is what a wrong counter needs. Points, keys and names are only ever compared, so symmetry is
sound (no run with symmetry checks liveness).

*Fairness.* Two runs check liveness: `Terminates` of `composite_step` and
`EveryCallReturns` of `dynamic_objective`. Both assume weak fairness of the steps of
a computation under way, and of nothing the caller does: one thread runs the algorithm (or the
method) and nothing else, each call returns or throws, and the next statement follows.
That the loops end is not assumed; it rests on the limits `MaxPasses`, `MaxTries`, `MaxIter`
and on the rank being raised, and is proved step by step (`LoopsGoOn`, `CallsGoOn`). The other specifications state no fairness: what may be wrong
there is an answer, not its absence. Deadlock is checked except where the program really ends or a
caller may have nothing left to do (the four algorithms and `ProblemSetup`).

The `violation` runs are disagreements between the code and what its comments say:

| Run | What happens |
|---|---|
| `line_search_limit` | by default, a search that meets its limit takes no step but still sends `Accept`, which promotes the last trial's state |
| `composite_multiplier` | the stored adjoint of a reduced constraint is handed out for any multiplier (`ROL_Reduced_Constraint_SimOpt_Def.hpp:47`) |
| `problem_mixed` | `Solver`'s constructor finalizes with slacks; the augmented Lagrangian algorithm that wants groups gets empty ones |

### Assumptions of the passing runs

Some sequences the interfaces allow do go wrong in the code. The passing runs
exclude exactly these causes, by a named constant or conjunct each, which can be lifted to see the
counterexample.

* `CompleteTrials = TRUE` (`UpdateProtocol`): at an `Accept`, every slot of the trial tier was
  computed for that trial. It holds for an objective with one kind of evaluation per
  trial. Without it `accept` (`ROL_VectorController_Def.hpp:358`) marks a leftover slot computed.
* `Prompt` (`ReducedProtocol`): an update other than `Revert` is followed by an evaluation
  before the next update. The modelled algorithms do so.
* `torn` (`UpdateProtocol`): `NoStaleRead` exempts the keys whose computation in place threw at the very
  point asked about. There the code hands out what the exception left
  (`ROL_AugmentedLagrangianObjective.hpp:219`), and `BrokenIsNotRetried` says that it goes on doing so until the point
  is left. What is exempt ends with the point: a `Revert` forgets what threw at a trial or a probe, a later trial what threw at an earlier one.
* `PlainStep` (`LineSearchU`): the accepted point is the last trial, and no derivative is
  asked for at trial points. With a curvature condition the adjoint of an early trial is
  promoted with a later one (`ROL_LineSearch_U.hpp:173`); backtracking, moreover, tests the
  curvature one step beyond the trial (`ROL_BackTracking_U.hpp:58`, modelled by `DerivativePoints`).
* `NoMinimizer` (`MCLineSearchU`): `acceptMin_` is off, as by default; `fmin_` and `alphaMin_` are
  never reset (`ROL_LineSearch_U.hpp:187`), so that with it a later search takes an earlier one's step.
* `IterateAgrees` exempts an infinite value at the iterate, and `MCProblems` starts the
  monotone method at a value that is no infinity: from one, a step to a finite value has a NaN ratio and is
  neither accepted nor rejected (`ROL_TypeU_TrustRegionAlgorithm_Def.hpp:197`).
* `NumCon = 1` (`SharedStore`): a second constraint puts the pairing of updates out of
  step (`ROL_ReduceLinearConstraint_Def.hpp:32`).
* `FreshIfConvex` (`BundleU`): a line search leaves its last trial pending, and the
  next candidate's `Accept` promotes that trial's state. `Sizes` are 3 and more: with 2
  places there is no room for an aggregate and a new subgradient, and the arrays are written beyond
  their end. `ExactAtIterate` speaks of the first run: `Bundle_U::initialize` fills the bundle only
  once, although `ROL_Solver.hpp:87` says that a reset reinitializes the step.
* `StaleOnlyWhenRepeated`, `AcceptsTheTrial` (`CompositeStep`): the projection, repeated in a second pass or try,
  asks at `x` while both functions are in the `Trial` mode of `x+s`; such answers are exempt (`"repeated"`). If
  the last try ends in a recomputation, which announces `x` itself as the trial
  (`ROL_TypeE_CompositeStepAlgorithm_Def.hpp:830`), the following `Accept` of `x+s` promotes the states of `x`;
  runs in which that has happened are exempt (`gaveUp`). `useFDhessVec_` of the reduced constraint is off, as by
  default: with it, `Constraint::applyAdjointHessian` (`ROL_ConstraintDef.hpp:148`) announces its probe with `Temp` and never
  sends a `Revert`, so that the constraint would answer from its temporary tier from then on.
* `ReducedDynamicObjective`, with a sketch: derivatives are asked for at the iterate only, and one gradient
  between updates unless the rank is adaptive (`MayAsk`, `TerminalKept`), since the backward sweep starts from a working vector
  that the first gradient consumed; `Revert` follows exactly one `Trial`, since there is one spare sketch;
  no `Temp` (`Probes = FALSE`), which drops the adjoint for good; the adjoint
  sketch's rank follows the state's, the default. After a throw the caller sends an update before it
  goes on, since a plain second call would add to the terms in `val_`. Without a sketch any update will do. With one (`Recovers`),
  a caller at a trial point may send `Trial`, `Revert` or `Initial`, but one at the iterate only `Initial`: a `Trial` would put aside
  the value and the sketch half done, and a `Revert` bring them back as the iterate's. Some rank up to `MaxRank` meets
  the tolerance (else the loop of l.700 has no end), and `K >= 2` (else column -1 is reconstructed, l.418).
* `ProblemSetup`: `MixedForms = FALSE`, the subject of `problem_mixed`. `EditsLists = FALSE`: `edit` keeps
  the lists of ungrouped equalities and the groups, so that finalizing again lists names twice (refused), keeps
  removed ones (refused), or both penalizes and keeps an equality re-added as something else. `Resets = {FALSE}`:
  `reset = true` clears a container but not its flag and counter. No constraint is added with a `ZeroProjection` of the
  user's own, which `finalize` would list as an equality (`IsEquality`, l.567).

Further abstractions. Predicted reductions are not negative (they may be NaN), as subproblem
solvers return them; radii and stopping tolerances are left out (a loop may stop
whenever the status test is made, and the bundle method may try any number of radii). The safeguard `eps` of the ratio and the
sufficient decrease of the Armijo test are infinitesimals. Steps and directions
lead anywhere. The algorithms run with one parameter key; `ReducedProtocol` has several.
Tolerances of solves are not modelled: a state is the point it was solved at. All constraints and
bounds of a problem are active, and the names in one call of `addConstraintGroup` differ. The copy constructor of `Problem` is
the action `Edit`.

## 4. Proofs

### 4.1 The stores: `Stores_proofs`, and `UpdateProtocol` in `SharedStore_proofs`

`Stores_proofs` states what each operator returns, field by field, and then what it leaves true of two
predicates. `Matches(s, here, base, cand)` says of a controller what each tier is for:
computed slots of the iterate's tier belong to the iterate, those of the trial tier to the
pending candidate, those of the temporary tier to where the caller stands, and flags are honest (no client of these
lemmas fills a vector in place).
`Good(ro)` says it of all four stores of a reduced objective, the inner ones
one announced update behind while `isUpdated_` is lowered. Every update, solve and
evaluation preserves `Good` and is fresh (`SolveStateGood`, `GradientGood`, ...); the proofs about clients
cite these lemmas and seldom open a store themselves.

`SharedStore_proofs`, first part, for every set of keys and of points, under `CompleteTrials`:

| Theorem | Statement |
|---|---|
| `InvariantOfProtocol` | `Spec => []IInv` |
| `TypeCorrect` | `Spec => []TypeOK` |
| `StaysCoherent` | `Spec => []Coherent` |
| `NeverStale` | `Spec => []NoStaleRead` |
| `BrokenStays` | `Spec => []BrokenIsNotRetried` |
| `NeverRecomputed` | `Spec => NothingRecomputed` |
| `RefinesMemo` | `Spec => ImplementsMemo` |

`NoStaleRead` is not inductive: it speaks of the active tier only, and a `Revert`
or an `Accept` makes another one active. `Coherent` says what each tier is for, and with
`TypeOK`, whose last conjunct is that nothing is marked computed without a vector, it is inductive; the run checks it too.
For `BrokenIsNotRetried` the invariant has a third part, `BrokenAreMarked`: what is in `torn` is marked computed in the
tier of its place, which an `Accept` must carry over. Flags are not honest here, as `ThrowInPlace` shows; what is proved is
where they are: everywhere but in `torn`.
The one place where this needs an assumption is `Accept`, which
copies without looking at flags: there `CompleteTrials` turns "allocated" into
"computed at the candidate". For the refinement, every step is mapped to a step of
`IterateMemo` or a stutter.

### 4.2 `SharedStore`, in `SharedStore_proofs`

For every set of points, under `Paired` (at most one constraint): `InvariantOfStore`, `ToldRight`
(`SharedSpec => []UpdatedHere`), `ImageRight` (`SharedSpec => []ImageIsCurrent`) and `SharingPays`
(`SharedSpec => MappedOnce`). The invariant is `Matches` and `RoundInv`: between the objective's
update and the constraint's the pair is open (`objUpdated`, except after `Temp`), so that the second
update does not act. With two constraints the second one's update closes nothing and
opens the next pair; `RoundInv` then fails, and so do the theorems.

### 4.3 `ReducedProtocol_proofs`

For every set of samples and points, with and without storage, under `Prompt`: `InvariantOfProtocol`, `TypeCorrect`,
`Fresh` (`Spec => []AnswersAreFresh`) and `SolvedOnce` (`Spec => OneSolvePerPoint`). The invariant is
`Good` and three parts that tie the objective to the optimizer: both have the same points
(`SamePoints`), the active tier is that of the place where the optimizer stands (`Placed`), and the state of
each sample known at a place is flagged in the tier of that place (`Paid`). `Fresh` rests on the first, `SolvedOnce` on the last.

### 4.4 `AlgorithmU_proofs`

The trust-region loop, for every set of points, objective, iteration limit and combination of options,
and an arbitrary subproblem solver, under `WellPosed`:

| Theorem | Statement | Further assumption |
|---|---|---|
| `InvariantOfTrustRegion` | `Spec => []IInv` | |
| `TypeCorrect` | `Spec => []TypeOK` | |
| `Fresh` | `Spec => []AnswersAreFresh` | |
| `Protocol` | `Spec => []KeepsProtocol` | |
| `Agreement` | `Spec => []IterateAgrees` | |
| `DecisionsAreFree` | `Spec => NoSolveAfterDecision` | |
| `Descends` | `Spec => Descent` | `Reduces` |
| `ReferenceFalls` | `Spec => ReferenceNeverRises` | `Reduces` |

`WellPosed` gives types and one condition: the value at the start is not an infinity, unless the
Hessian is a secant and values are exact. From an infinite value no step is accepted, and one to
a finite value is not rejected either; the objective is left at the trial point, where an exact Hessian or
an inexact value of the iterate would be asked for.
`RatioDecides` is the lemma about `analyzeRatio` that shows this to be the only such case.
`Reduces` says that predicted reductions are not negative or NaN; without it `aRed == pRed`, tested
before the signs, accepts a step that increases the value. `ReferenceFalls` needs `Referenced`
besides: for the nonmonotone method no value that counts exceeds the reference, and the sums of
predicted reductions are not negative.

The line-search loop, for every set of points, objective, kind of search and direction and both limits, under
`SearchPosed` (types, and that there is a key):

| Theorem | Statement | Further assumption |
|---|---|---|
| `InvariantOfLineSearch` | `SearchSpec => []SearchInv` | |
| `TrialsFresh` | `SearchSpec => TrialAnswersAreFresh` | |
| `TrialsProtocol` | `SearchSpec => TrialsKeepProtocol` | |
| `NeverAscends` | `SearchSpec => NoAscent` | `NoMinimum`: `acceptMin_` is off |
| `FreshUnstored` | `SearchSpec => []AnswersAreFresh` | neither store is used |

Here the code does break the protocol, at a limit (`line_search_limit`), and the properties speak of the *first*
stale answer and the *first* illegal update, so that the invariant must survive both. It holds as two
implications: while `ro.legal`, the objective's points are those of the search (`Kept`); while `ro.fresh`, all
four stores belong to these points (`Placed`). The second needs that an `Accept` of a point that
was not the last trial cannot go unnoticed, as then the stores would be wrong with every answer
right so far: `WrongAccept` shows that the value asked for next is already stale if anything is stored, because
the promoted vector of the trial is found computed. If nothing is, no answer is stale at all
(`FreshUnstored`), whatever is accepted: the finding of `line_search_limit` is a matter of storage alone.
The Wolfe conditions, which conjugate gradients meet, ask for derivatives where no update has been, and `Kept` and
`Placed` leave them out (`Direct`).
`NoAscent` rests on `Compared`: the values compared are those of `x` and `trial`, and
a search with a test ends at its limit or with a smaller value.

### 4.5 `BundleU_proofs`

For every bundle of 3 and more places, removal size, objective and number of runs (`Parameters` is only that
there is a key): `InvariantOfBundle`, `TypeCorrect`, `NeverOverrun` (`Spec => []NoOverrun`),
`KeepsExact` (`Spec => []ExactAtIterate`), `Fresh` (`Spec => []FreshIfConvex`) and `OnlyVictimsGo`
(`Spec => RemovesOnlyVictims`). The work is in `RemovalOfVictims`: shifting the arrays once per
victim leaves, in closed form, the spared subgradient in a known place and all survivors in order. It is an
induction over the victims; since the induction theorems of the library cannot be instantiated
here, it is done by descent to a least counterexample (`LeastMember`, from the well-foundedness of the naturals).
`NeverOverrun` needs that `Clamped` leaves between two victims and one fewer than the places, so that the
bundle is never longer than its arrays (`Fits`).

### 4.6 `CompositeStep_proofs`

For every set of points, limit and number of tries, passes and iterations, with shared or separate states,
and with each kind of storage, under `Keyed` (there is a key) alone: `TypeCorrect` (`Spec => []TypeOK`),
`AnswersInStep` (`Spec => []StaleOnlyWhenRepeated`), `TrialAccepted` (`Spec => AcceptsTheTrial`) and
`LoopsGoOn` (`Spec => [][GoesOn]_vars`).

* *A twin.* A reduced constraint does to its store of states, and to the inner stores, what a
  reduced objective does. So the constraint has a *twin* (`Together`): a reduced objective told and asked the same,
  from whose stores those of the constraint differ in the multipliers of adjoints only. The lemmas of
  `Stores_proofs` then hold for the constraint too, and the theorems do not depend on the
  defect that `composite_multiplier` shows.
* *Calls to come.* `MakeCall` makes one call per step, and after half of a decision's calls objective and
  constraint are at different points, with a shared store told by one of them only. `StaleOnlyWhenRepeated`
  is not inductive for this reason. The invariant (`Promised`) speaks of the calls in `todo`: until the tries give up, either
  both functions are in order and are only asked from now on (`Asking`), or the objective has been told of
  an update and the constraint will be before anything is asked of it (`TellingCon`), or both will be (`TellingBoth`).
  A repeated projection is the one place where what is asked is not where the functions stand.
* *No inner stores.* What the inner problem holds then does not matter, since it is assembled at every
  call; the invariant is stated of two functions that agree with the real ones in everything else (`Alike`).

`GoesOn` is a lexicographic order: the iteration, what comes of it (`Phase`), the try, the pass, the half
of the pass (`Position`), the calls left. Every step goes on in it and `TypeOK` bounds its parts, so the method cannot cycle.

### 4.7 `ReducedDynamicObjective_proofs`

For every set of points, number of intervals, maximum rank and rank factor, with plain, sketched and adaptive histories and
exceptions anywhere, under `Served` (no temporary points with a sketch, adjoint rank synchronized with that of the state
when it adapts; both are causes listed above):

| Theorem | Statement |
|---|---|
| `InvariantOfDynamic` | `Spec => []IInv` |
| `TypeCorrect` | `Spec => []TypeOK` |
| `Fresh` | `Spec => []AnswersAreFresh` |
| `NeverRefuses` | `Spec => []NeverRefused` |
| `SolvedOnce` | `Spec => NoSecondSolve` |
| `CallsGoOn` | `Spec => [][stage # "idle" => GoesOn]_vars` |

The invariant has a part for each thing the object keeps. `ValueHeld` and `StateHeld`: what is
marked computed is that of `here`, or as much of it as the sweep under way has done; with a sketch the working vector
holds the final state as long as no derivative was asked for. `AdjointHeld`: the adjoint of a
sketched objective stays that of the *iterate* while the caller is at a trial point, and
an adjoint sketch that is not computed is empty and unread, which is why none refuses; after an exception this is
known only at a trial point, and `Recovers` is what makes it true again. `Remembered`: what has been asked of this point is still computed.
`Aside`: one trial away from the iterate, the spare sketch and cached flags hold what is known of
the iterate; this makes `Revert` right, and is why only one step back is allowed. Proving it showed that
`Remembered` alone is not inductive: a value must not outlive its states, as it would if `updateSketch` lowered the flag of the
states and the caller could then ask for the value (it cannot before the sweep has ended).

`CallsGoOn` is about the loop of `updateSketch`, which ends only if a raised rank is greater than
that of the sketch in use. A sketch brought back by `Revert` may have a lower rank than the object, so this needs an invariant
of its own, `Ranked`: neither of the two sketches has more than the object's rank.

### 4.8 `ProblemSetup_proofs`

For every finite set of names and groups, under `Resets \subseteq {FALSE}`:

| Theorem | Statement | Further assumption |
|---|---|---|
| `TypeCorrect` | `Spec => []TypeOK` | |
| `RecordsKept` | `Spec => []RecordsAgree` | |
| `BuiltRight` | `Spec => []BuiltAsStated` | |
| `GivenRight` | `Spec => []GivenAsStated` | `~MixedForms`, `~EditsLists` |

Three inductive invariants, each resting on the one before.

* `Records` is `TypeOK`, `RecordsAgree` and `GroupsApart`: without the counts nothing says that a
  counter stays a natural number, and without disjoint groups removing one group would take names
  out of `grouped` that another still has. The lemmas `CountPut` and `CountDrop` say what adding and
  removing a name does to the number of names of a kind.
* `SlackInv` adds `NamesApart` (no name in two containers), `NothingLeft` (an open problem has
  nothing left of an earlier finalization, which is what `edit` must provide) and `BuiltAsStated` itself. The heart is
  `TransformRight`: in each branch of `finalize` the result is the stated problem. The branches
  are chosen by flags, and `FlagMeans` and `FinalizeMayRely` turn a flag into the presence of a constraint of its kind.
* `GroupsInv` adds `NoLists` (an open problem has empty lists), `Sorted` (a problem finalized into groups has each
  constraint in one place, and its bounds) and `StillGiven` (what the algorithm was given is still what the problem
  holds). `FinalizeSorts` is its heart.

### 4.9 What is only model-checked

Every safety property of a passing run is stated by a theorem. Out of the prover's reach are liveness under
fairness (`Terminates`, `EveryCallReturns`) and `ENABLED`: these stay with TLC. What is proved of the two
is that no step of a loop leads nowhere (`LoopsGoOn`, `CallsGoOn`); that there is a next step as long as
the loop has not ended, and the conclusion from both by induction, is not. Only model-checked too are, by
their nature, the counterexamples of the `violation` runs. Each theorem is about the specification its run checks (`Spec`,
`SharedSpec`, `SearchSpec`); runs that check liveness use `FairSpec`, which implies `Spec`.

## 5. Not modelled, and the plan

1. Scalar-minimization searches as further kinds of search in `LineSearchU`; the default
   finite-difference gradient, whose `Revert` is sent at a trial point.
2. The augmented Lagrangian, whose stored values depend on multiplier and penalty;
   `RiskNeutral` with refinement of samples; `VectorWorkspace`, its pool and its ordering of keys.

Subproblem and cutting-plane solvers, projections, secants, quadratures, norms and radii stay outside: their hazards are
numerical, and TLC has no reals. The other outer loops (types B, G and P, LCL, Fletcher, progressive hedging) drive the same
objectives through the same protocol as the loops modelled, and add numerical updates of multipliers. Most of the
repository's lines are example applications, test problems, bindings, and vendored linear algebra, which have no
control of their own to model.
