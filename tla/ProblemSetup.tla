----------------------------- MODULE ProblemSetup -----------------------------
(***************************************************************************)
(* ROL::Problem: constraints are added and removed by name, finalize turns *)
(* what is there into the form an algorithm solves (the constraint of      *)
(* type E or G, the null space of linear equalities, the polyhedron of a   *)
(* projection), or sorts it into the groups of augmented Lagrangian        *)
(* penalties, and edit opens the problem again.                            *)
(*                                                                         *)
(* A constraint is its name; every one is active, and so are the bounds.   *)
(***************************************************************************)
EXTENDS Integers, FiniteSets

CONSTANTS
  Names,         (* names of constraints                                    *)
  Groups,        (* names of groups, and any constraint may name one        *)
  Resets,        (* values of the parameter reset                           *)
  MixedForms,    (* may groups be asked of a problem finalized with slacks? *)
  EditsLists,    (* may a problem be edited that has lists of equalities?   *)
  MaxCount       (* bound on the counters, which a reset lets grow          *)

ASSUME ProblemAssumption ==
  /\ Names \subseteq Groups /\ IsFiniteSet(Groups)
  /\ Resets \subseteq BOOLEAN /\ MixedForms \in BOOLEAN /\ EditsLists \in BOOLEAN
  /\ MaxCount \in Nat

VARIABLES
  con, lcon,     (* INPUT_con_, INPUT_linear_con_: the kind under each name *)
  pcon,          (* INPUT_proj_                                             *)
  has,           (* the flags hasBounds_, hasEquality_, ...                 *)
  cnt,           (* the counters cnt_econ_, cnt_icon_, ...                  *)
  groups,        (* groups_: the members of each group, none if absent      *)
  grouped,       (* grouped_constraint_names_                               *)
  eqs, linearEqs,(* the lists of ungrouped equalities, as bags: in these    *)
                 (* vectors no order is observed                            *)
  isFinalized,
  built,         (* what finalize made                                      *)
  asked          (* history: what AugmentedLagrangianAlgorithm2 was given   *)

vars == <<con, lcon, pcon, has, cnt, groups, grouped, eqs, linearEqs,
          isFinalized, built, asked>>
groupVars == <<groups, grouped, eqs, linearEqs>>
madeVars == <<isFinalized, built, asked>>

Kind == {"none", "eq", "ineq"}
Flag == {"bnd", "eq", "ineq", "leq", "lineq", "prox"}
Counter == {"eq", "ineq", "leq", "lineq"}

Stated(map) == {n \in Names : map[n] # "none"}
OfKind(map, k) == {n \in Names : map[n] = k}
All == Stated(con) \cup Stated(lcon) \cup pcon

(* problemType_, what con_, rlc_ and proj_ stand for (null if nothing),    *)
(* whether bnd_ holds the bounds of the problem, whether xprim_ has slacks *)
(* and whether obj_ is a SlacklessObjective; form tells which of its two   *)
(* ways finalize took.                                                     *)
Built == [form : {"none", "slack", "groups"}, type : {"U", "P", "B", "E", "EB"},
          con : SUBSET Names, reduced : SUBSET Names, projected : SUBSET Names,
          bnd : BOOLEAN, slacks : BOOLEAN, slackless : BOOLEAN]
Nothing == [form |-> "none", type |-> "U", con |-> {}, reduced |-> {},
            projected |-> {}, bnd |-> FALSE, slacks |-> FALSE, slackless |-> FALSE]

NotAsked == [state |-> "no", penalized |-> {}, kept |-> {}, linear |-> {},
             bounds |-> "none"]

Init ==
  /\ con = [n \in Names |-> "none"] /\ lcon = con /\ pcon = {}
  /\ has = [f \in Flag |-> FALSE] /\ cnt = [c \in Counter |-> 0]
  /\ groups = [g \in Groups |-> {}] /\ grouped = {}
  /\ eqs = [n \in Names |-> 0] /\ linearEqs = eqs
  /\ isFinalized = FALSE /\ built = Nothing /\ asked = NotAsked

-----------------------------------------------------------------------------
(* Bounds and the proximable objective.                                    *)

AddOrRemove(f) ==
  /\ ~isFinalized
  /\ has' = [has EXCEPT ![f] = ~@]
  /\ UNCHANGED <<con, lcon, pcon, cnt, groupVars, madeVars>>

(* The nonlinear constraints of either kind.  A reset clears the container *)
(* before the name is looked at.                                           *)
Used(n, c, l, p) == c[n] # "none" \/ l[n] # "none" \/ n \in p

AddConstraint(n, k, reset) ==
  /\ ~isFinalized /\ cnt[k] < MaxCount
  /\ LET kept == IF reset THEN [m \in Names |-> "none"] ELSE con
         used == Used(n, kept, lcon, pcon)
     IN /\ con' = IF used THEN kept ELSE [kept EXCEPT ![n] = k]
        /\ has' = IF used THEN has ELSE [has EXCEPT ![k] = TRUE]
        /\ cnt' = IF used THEN cnt ELSE [cnt EXCEPT ![k] = @ + 1]
  /\ UNCHANGED <<lcon, pcon, groupVars, madeVars>>

(* The overload with a projection, which may be null.                      *)
AddProjectedConstraint(n, null, reset) ==
  /\ ~isFinalized /\ cnt["eq"] < MaxCount
  /\ LET kept == IF reset THEN {} ELSE pcon
         used == Used(n, con, lcon, kept)
     IN /\ pcon' = IF used \/ null THEN kept ELSE kept \cup {n}
        /\ con' = IF ~used /\ null THEN [con EXCEPT ![n] = "eq"] ELSE con
        /\ has' = IF ~used /\ null THEN [has EXCEPT !["eq"] = TRUE] ELSE has
        /\ cnt' = IF ~used /\ null THEN [cnt EXCEPT !["eq"] = @ + 1] ELSE cnt
  /\ UNCHANGED <<lcon, groupVars, madeVars>>

Linear(k) == IF k = "eq" THEN "leq" ELSE "lineq"

AddLinearConstraint(n, k, reset) ==
  /\ ~isFinalized /\ cnt[Linear(k)] < MaxCount
  /\ LET kept == IF reset THEN [m \in Names |-> "none"] ELSE lcon
         used == Used(n, con, kept, pcon)
     IN /\ lcon' = IF used THEN kept ELSE [kept EXCEPT ![n] = k]
        /\ has' = IF used THEN has ELSE [has EXCEPT ![Linear(k)] = TRUE]
        /\ cnt' = IF used THEN cnt ELSE [cnt EXCEPT ![Linear(k)] = @ + 1]
  /\ UNCHANGED <<con, pcon, groupVars, madeVars>>

(* Faulty variant: the counter goes down whether the name is there or not. *)
RemoveConstraintAnyway(n) ==
  /\ ~isFinalized
  /\ LET k == IF con[n] = "ineq" THEN "ineq" ELSE "eq"
         c == [cnt EXCEPT ![k] = @ - 1]
     IN /\ cnt' = c
        /\ has' = [has EXCEPT !["eq"] = @ /\ c["eq"] # 0, !["ineq"] = @ /\ c["ineq"] # 0]
  /\ con' = [con EXCEPT ![n] = "none"]
  /\ pcon' = pcon \ {n}
  /\ UNCHANGED <<lcon, groupVars, madeVars>>

(* The groups keep the name.                                               *)
RemoveConstraint(n) ==
  /\ ~isFinalized
  /\ LET c == [k \in Counter |-> IF k = con[n] THEN cnt[k] - 1 ELSE cnt[k]]
     IN /\ cnt' = c
        /\ has' = [has EXCEPT !["eq"] = @ /\ c["eq"] # 0, !["ineq"] = @ /\ c["ineq"] # 0]
  /\ con' = [con EXCEPT ![n] = "none"]
  /\ pcon' = pcon \ {n}
  /\ UNCHANGED <<lcon, groupVars, madeVars>>

(* Faulty variant: the flags are left as they are.                         *)
RemoveLinearConstraintOnly(n) ==
  /\ ~isFinalized
  /\ cnt' = [k \in Counter |->
              IF lcon[n] # "none" /\ k = Linear(lcon[n]) THEN cnt[k] - 1 ELSE cnt[k]]
  /\ lcon' = [lcon EXCEPT ![n] = "none"]
  /\ UNCHANGED <<con, pcon, has, groupVars, madeVars>>

RemoveLinearConstraint(n) ==
  /\ ~isFinalized
  /\ LET c == [k \in Counter |->
                IF lcon[n] # "none" /\ k = Linear(lcon[n]) THEN cnt[k] - 1 ELSE cnt[k]]
     IN /\ cnt' = c
        /\ has' = [has EXCEPT !["leq"] = @ /\ c["leq"] # 0, !["lineq"] = @ /\ c["lineq"] # 0]
  /\ lcon' = [lcon EXCEPT ![n] = "none"]
  /\ UNCHANGED <<con, pcon, groupVars, madeVars>>

(* A name in two groups, or of no constraint, throws before anything is    *)
(* done.  The names of one call differ.                                    *)
AddConstraintGroup(g, names) ==
  /\ ~isFinalized
  /\ names \cap grouped = {} /\ names \subseteq All
  /\ groups' = [groups EXCEPT ![g] = @ \cup names]
  /\ grouped' = grouped \cup names
  /\ UNCHANGED <<con, lcon, pcon, has, cnt, eqs, linearEqs, madeVars>>

RemoveConstraintGroup(g) ==
  /\ ~isFinalized /\ groups[g] # {}
  /\ grouped' = grouped \ groups[g]
  /\ groups' = [groups EXCEPT ![g] = {}]
  /\ UNCHANGED <<con, lcon, pcon, has, cnt, eqs, linearEqs, madeVars>>

-----------------------------------------------------------------------------
(* finalize, with slack variables.                                         *)

(* ConstraintAssembler gives an inequality among these a slack.            *)
NeedsSlack(c, l, names) == \E n \in names : c[n] = "ineq" \/ l[n] = "ineq"

(* The linear constraints can be put into their null space.               *)
MayReduce(h) == ~h["bnd"] /\ ~h["lineq"]

(* The flags as finalize uses them.                                        *)
Lumped(lump) ==
  IF ~lump THEN has
  ELSE [has EXCEPT !["eq"] = @ \/ has["leq"], !["ineq"] = @ \/ has["lineq"],
                   !["leq"] = FALSE, !["lineq"] = FALSE]

(* What finalize makes of flags h, constraints C and linear constraints L. *)
(* rlc_ is assigned only where linear constraints are reduced, and proj_   *)
(* not for type P.                                                         *)
Transform(h, C, L) ==
  LET general   == h["eq"] \/ h["ineq"]
      linear    == h["leq"] \/ h["lineq"]
      slack     == NeedsSlack(con, lcon, C)
      slackAny  == NeedsSlack(con, lcon, C \cup L)
      base      == [Nothing EXCEPT !.form = "slack", !.reduced = built.reduced]
  IN CASE h["prox"] -> [base EXCEPT !.type = "P", !.projected = built.projected]
     [] ~h["prox"] /\ ~linear /\ ~general /\ ~h["bnd"] -> base
     [] ~h["prox"] /\ ~linear /\ ~general /\ h["bnd"] ->
          [base EXCEPT !.type = "B", !.bnd = TRUE]
     [] ~h["prox"] /\ ~linear /\ h["eq"] /\ ~h["ineq"] /\ ~h["bnd"] ->
          [base EXCEPT !.type = "E", !.con = C]
     [] ~h["prox"] /\ ~linear /\ general /\ (h["ineq"] \/ h["bnd"]) ->
          [base EXCEPT !.type = "EB", !.con = C, !.bnd = h["bnd"],
                       !.slacks = slack, !.slackless = slack]
     [] ~h["prox"] /\ linear /\ MayReduce(h) ->
          [base EXCEPT !.type = IF ~general THEN "U" ELSE IF h["ineq"] THEN "EB" ELSE "E",
                       !.reduced = L, !.con = C, !.slacks = slack, !.slackless = h["ineq"]]
     [] ~h["prox"] /\ linear /\ ~MayReduce(h) ->
          [base EXCEPT !.type = IF general THEN "EB" ELSE "B",
                       !.con = C, !.projected = L, !.bnd = h["bnd"],
                       !.slacks = slackAny, !.slackless = slackAny]

(* A proximable objective next to anything else throws.  Called by every   *)
(* getter with lump = FALSE, and by Solver's constructor through one.      *)
FinalizeWithSlacks(lump) ==
  /\ ~isFinalized
  /\ has["prox"] => \A f \in Flag \ {"prox"} : ~has[f]
  /\ built' = Transform(Lumped(lump),
                        IF lump THEN Stated(con) \cup Stated(lcon) ELSE Stated(con),
                        IF lump THEN {} ELSE Stated(lcon))
  /\ isFinalized' = TRUE
  /\ UNCHANGED <<con, lcon, pcon, has, cnt, groupVars, asked>>

(* finalize, into groups: what is in no group and is no equality becomes a *)
(* group of its own.  An equality is a constraint whose data has a         *)
(* ZeroProjection; a user who passes one with a projected constraint makes *)
(* that an equality too, which is left out: those of pcon are sets of more *)
(* than the zero vector.                                                   *)
IsEquality(n) == con[n] = "eq" \/ lcon[n] = "eq"

(* Faulty variant: what the user has grouped is not taken out.             *)
UngroupedAll == All

Ungrouped == All \ UNION {groups[g] : g \in Groups}

AddedTo(bag, names) == [n \in Names |-> IF n \in names THEN bag[n] + 1 ELSE bag[n]]

FinalizeIntoGroups ==
  LET equalities == {n \in Ungrouped : IsEquality(n)}
      others     == Ungrouped \ equalities
  IN /\ ~isFinalized
     /\ groups' = [g \in Groups |-> groups[g] \cup (others \cap {g})]
     /\ grouped' = grouped \cup others
     /\ linearEqs' = AddedTo(linearEqs, equalities \cap Stated(lcon))
     /\ eqs' = AddedTo(eqs, equalities \ Stated(lcon))
     /\ built' = [built EXCEPT !.form = "groups", !.type = "EB", !.bnd = has["bnd"]]
     /\ isFinalized' = TRUE
     /\ UNCHANGED <<con, lcon, pcon, has, cnt, asked>>

(* Faulty variant: the null space of the linear constraints is kept.       *)
EditKeepsReduction ==
  /\ isFinalized
  /\ EditsLists \/ \A n \in Names : eqs[n] = 0 /\ linearEqs[n] = 0
  /\ isFinalized' = FALSE /\ asked' = NotAsked
  /\ built' = [Nothing EXCEPT !.reduced = built.reduced]
  /\ UNCHANGED <<con, lcon, pcon, has, cnt, groupVars>>

(* edit(), and the copy constructor, which starts unfinalized.  It leaves  *)
(* what finalize will overwrite on every path, and drops rlc_ and proj_.   *)
Edit ==
  /\ isFinalized
  /\ EditsLists \/ \A n \in Names : eqs[n] = 0 /\ linearEqs[n] = 0
  /\ isFinalized' = FALSE /\ asked' = NotAsked
  /\ built' = Nothing
  /\ UNCHANGED <<con, lcon, pcon, has, cnt, groupVars>>

-----------------------------------------------------------------------------
(* AugmentedLagrangianAlgorithm2::run after its call of finalize: every    *)
(* group is penalized, and the listed equalities are added to a            *)
(* subproblem, the linear ones first.  The bounds are penalized if there   *)
(* are nonlinear equalities to keep, and handed on if not.  A group or list with a name that is *)
(* no more makes getConstraintData throw, a name added twice makes         *)
(* addConstraint throw.  Solver comes here after its constructor finalized *)
(* the problem with slacks to learn its type, if that is EB, and the call  *)
(* of finalize then does nothing.                                          *)
Penalized == UNION {groups[g] : g \in Groups}
Listed(bag) == {n \in Names : bag[n] > 0}

Refuses ==
  \/ ~(Penalized \cup Listed(eqs) \cup Listed(linearEqs) \subseteq All)
  \/ \E n \in Names : eqs[n] + linearEqs[n] > 1

(* A finalize with slack variables left its slacks' bounds in bnd_ too.    *)
BoundsGo ==
  IF ~(built.bnd \/ built.slacks) THEN "none"
  ELSE IF Listed(eqs) # {} THEN "penalized" ELSE "kept"

AskForGroups ==
  /\ isFinalized
  /\ built.form = "groups" \/ (MixedForms /\ built.type = "EB")
  /\ asked' = IF Refuses THEN [NotAsked EXCEPT !.state = "refused"]
              ELSE [state |-> "given", penalized |-> Penalized,
                    kept |-> Listed(eqs), linear |-> Listed(linearEqs),
                    bounds |-> BoundsGo]
  /\ UNCHANGED <<con, lcon, pcon, has, cnt, groupVars, isFinalized, built>>

Next ==
  \/ \E f \in {"bnd", "prox"} : AddOrRemove(f)
  \/ \E n \in Names, k \in {"eq", "ineq"}, r \in Resets :
       AddConstraint(n, k, r) \/ AddLinearConstraint(n, k, r)
  \/ \E n \in Names, null \in BOOLEAN, r \in Resets : AddProjectedConstraint(n, null, r)
  \/ \E n \in Names : RemoveConstraint(n) \/ RemoveLinearConstraint(n)
  \/ \E g \in Groups, names \in SUBSET Names \ {{}} : AddConstraintGroup(g, names)
  \/ \E g \in Groups : RemoveConstraintGroup(g)
  \/ \E lump \in BOOLEAN : FinalizeWithSlacks(lump)
  \/ FinalizeIntoGroups
  \/ Edit
  \/ AskForGroups

Spec == Init /\ [][Next]_vars

-----------------------------------------------------------------------------
(* Type invariant.                                                         *)
TypeOK ==
  /\ con \in [Names -> Kind] /\ lcon \in [Names -> Kind] /\ pcon \subseteq Names
  /\ has \in [Flag -> BOOLEAN] /\ cnt \in [Counter -> 0 .. MaxCount]
  /\ groups \in [Groups -> SUBSET Names] /\ grouped \subseteq Names
  /\ eqs \in [Names -> Nat] /\ linearEqs \in [Names -> Nat]
  /\ isFinalized \in BOOLEAN /\ built \in Built
  /\ asked.state \in {"no", "refused", "given"}
  /\ asked.bounds \in {"none", "penalized", "kept"}

(* The flags, counters and the set of grouped names, which are kept by     *)
(* hand next to the containers, tell what the containers hold, after any   *)
(* sequence of additions, removals, groups and edits.  finalize looks at   *)
(* the flags only.                                                         *)
RecordsAgree ==
  /\ \A k \in {"eq", "ineq"} :
       /\ cnt[k] = Cardinality(OfKind(con, k))
       /\ cnt[Linear(k)] = Cardinality(OfKind(lcon, k))
  /\ \A c \in Counter : has[c] <=> cnt[c] > 0
  /\ grouped = Penalized

(* A transformed problem t is the problem as it was stated.                *)
AsStated(t) ==
  LET bounded == t.bnd \/ t.slacks
  IN /\ Stated(con) \cup Stated(lcon) = t.con \cup t.reduced \cup t.projected
     /\ t.con \cap t.reduced = {} /\ t.con \cap t.projected = {}
     /\ t.reduced \cap t.projected = {}
     /\ \A n \in t.reduced : lcon[n] = "eq"
     /\ t.bnd = has["bnd"]
     /\ t.slacks <=> \E n \in t.con \cup t.projected : ~IsEquality(n)
     /\ t.slackless = t.slacks
     /\ t.type = CASE has["prox"] -> "P"
                   [] ~has["prox"] /\ t.con = {} -> (IF bounded THEN "B" ELSE "U")
                   [] OTHER -> (IF bounded THEN "EB" ELSE "E")
     /\ t.reduced # {} => (t.slacks <=> has["ineq"])

(* A problem finalized with slack variables is solved as it was stated:    *)
(* every constraint that was added with bounds or none is enforced in      *)
(* exactly one way, and only an equality by reduction to its null space;   *)
(* the bounds are handed on; the type is the least general one that has    *)
(* room for what is left; the objective ignores slacks if and only if      *)
(* there are any; and finalizeIteration, which takes an xprim_ of reduced  *)
(* variables apart by hasInequality_, finds slacks in it just then.        *)
BuiltAsStated == isFinalized /\ built.form = "slack" => AsStated(built)

(* An augmented Lagrangian algorithm that is not refused by the problem    *)
(* sees every constraint exactly once: in one group, or, if it is an       *)
(* equality, in the list for its kind.  It also sees the bounds, if there  *)
(* are any.                                                                *)
GivenAsStated ==
  asked.state = "given" =>
    /\ asked.penalized \cup asked.kept \cup asked.linear = All
    /\ \A n \in asked.kept : con[n] = "eq" /\ n \notin asked.penalized \cup asked.linear
    /\ \A n \in asked.linear : lcon[n] = "eq" /\ n \notin asked.penalized
    /\ \A g, h \in Groups : g # h => groups[g] \cap groups[h] = {}
    /\ asked.bounds # "none" <=> has["bnd"]
=============================================================================
