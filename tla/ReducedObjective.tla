-------------------------- MODULE ReducedObjective --------------------------
(***************************************************************************)
(* ROL::Reduced_Objective_SimOpt: the objective z |-> J(S(z), z), where    *)
(* S(z) solves a state equation.  Solved states and adjoints are kept in   *)
(* two VectorControllers, keyed by the parameter of the problem.  The      *)
(* inner constraint and objective are told of an update only when the next *)
(* evaluation needs them, and then only of the last one.                   *)
(*                                                                         *)
(* Operators over a record, used by the modules of the optimizers.  A      *)
(* state, an adjoint or an answer is represented by the point it belongs   *)
(* to, and by NoVal if it mixes data of different points.                  *)
(*                                                                         *)
(* The inner constraint and objective are the user's.  Each is modelled by *)
(* what they may do under the UpdateType protocol: with InnerStores, keep  *)
(* what they assemble for a point in a VectorController of their own       *)
(* (`con` and `obj`).                                                      *)
(***************************************************************************)
EXTENDS VectorController, Naturals

CONSTANTS
  Storage,     (* storage_: keep states and adjoints                        *)
  InnerStores  (* the inner problem keeps what it assembles                 *)

ASSUME StorageAssumption == Storage \in BOOLEAN /\ InnerStores \in BOOLEAN

(* The fields after p are history, read by the properties only:            *)
(*   solves        state equations solved since the last update (nstat_),   *)
(*                 counted up to MaxSolves                                  *)
(*   fresh         every answer so far belonged to the point asked for      *)
(*   here, base, cand   the points of the last update, the last Initial or  *)
(*                 Accept, and the pending Trial                            *)
(*   legal         the caller has kept the protocol of UpdateType so far    *)
MaxSolves == 3

ReducedObjectives ==
  [state : Controller, adjoint : Controller, con : Controller, obj : Controller,
   isUpdated : BOOLEAN, newUpdate : BOOLEAN, updateType : UpdateType,
   updateFlag : BOOLEAN, u : Content, p : Content,
   solves : 0 .. MaxSolves, fresh : BOOLEAN, legal : BOOLEAN,
   here : Content, base : Content, cand : Content]

(* Faulty variant: the kind of the pending update is left unset.           *)
Uninitialized ==
  [state |-> NewController, adjoint |-> NewController,
   con |-> NewController, obj |-> NewController,
   isUpdated |-> TRUE, newUpdate |-> FALSE, updateType |-> "None",
   updateFlag |-> TRUE, u |-> NoVal, p |-> NoVal,
   solves |-> 0, fresh |-> TRUE, legal |-> TRUE,
   here |-> NoVal, base |-> NoVal, cand |-> NoVal]

NewReducedObjective ==
  [state |-> NewController, adjoint |-> NewController,
   con |-> NewController, obj |-> NewController,
   isUpdated |-> TRUE, newUpdate |-> FALSE, updateType |-> "Initial",
   updateFlag |-> TRUE, u |-> NoVal, p |-> NoVal,
   solves |-> 0, fresh |-> TRUE, legal |-> TRUE,
   here |-> NoVal, base |-> NoVal, cand |-> NoVal]

-----------------------------------------------------------------------------
(* What the comments of UpdateType ask of a caller.                        *)
LegalUpdate(r, type, z) ==
  CASE type = "Initial" -> TRUE
    [] type = "Accept"  -> r.cand # NoVal /\ z = r.cand
    [] type = "Revert"  -> r.base # NoVal /\ z = r.base
    [] OTHER            -> r.base # NoVal

Noted(r, type, z) ==
  [r EXCEPT !.here = z, !.solves = 0,
            !.base = IF type \in {"Initial", "Accept"} THEN z ELSE @,
            !.cand = CASE type = "Trial" -> z [] type = "Temp" -> @ [] OTHER -> NoVal,
            !.legal = @ /\ LegalUpdate(r, type, z)]

(* Faulty variant: the store of adjoints hears of no update.               *)
UpdateStatesOnly(r, type, z) ==
  [Noted(r, type, z) EXCEPT
     !.isUpdated = FALSE, !.newUpdate = TRUE, !.updateType = type,
     !.state = ObjectiveUpdate(@, type)]

(* update(z, type) and the deprecated update(z, flag).                     *)
Update(r, type, z) ==
  [Noted(r, type, z) EXCEPT
     !.isUpdated = FALSE, !.newUpdate = TRUE, !.updateType = type,
     !.state = ObjectiveUpdate(@, type), !.adjoint = ObjectiveUpdate(@, type)]

UpdateDeprecated(r, flag, z) ==
  [Noted(r, "Initial", z) EXCEPT
     !.isUpdated = FALSE, !.newUpdate = FALSE, !.updateFlag = flag,
     !.state = ObjectiveUpdateFlag(@, TRUE), !.adjoint = ObjectiveUpdateFlag(@, flag)]

-----------------------------------------------------------------------------
(* The inner problem.                                                      *)

Deliver(c, r) ==
  IF r.newUpdate THEN ObjectiveUpdate(c, r.updateType) ELSE ObjectiveUpdateFlag(c, r.updateFlag)

Assemble(c, k, z) == IF InnerStores /\ IsComputed(c, k) THEN c ELSE Set(c, k, z)

Combine(z, parts) == IF parts = {z} THEN z ELSE NoVal

-----------------------------------------------------------------------------
(* Faulty variant: the solved state is not stored.                         *)
SolveAndForget(r, k, z) ==
  LET told == IF r.isUpdated THEN r.con ELSE Deliver(r.con, r)
      con  == Assemble(told, k, z)
  IN [r EXCEPT !.con = con, !.obj = IF r.isUpdated THEN @ ELSE Deliver(@, r),
               !.isUpdated = TRUE, !.u = Combine(z, {Peek(con, k)}),
               !.solves = IF @ = MaxSolves THEN @ ELSE @ + 1]

(* solve_state_equation: update_2 of the constraint before the solve,      *)
(* update_1 and the update of the objective after it, both at most once    *)
(* per update of the reduced objective, whatever the parameter.            *)
SolveState(r, k, z) ==
  LET hit    == Storage /\ IsComputed(r.state, k)
      told   == IF r.isUpdated THEN r.con ELSE Deliver(r.con, r)
      con    == IF hit THEN told ELSE Assemble(told, k, z)
      u      == IF hit THEN Peek(r.state, k) ELSE Combine(z, {Peek(con, k)})
      looked == Allocate(r.state, k)
  IN [r EXCEPT !.state = IF ~Storage THEN @ ELSE IF hit THEN looked ELSE Set(looked, k, u),
               !.con = con,
               !.obj = IF r.isUpdated THEN @ ELSE Deliver(@, r),
               !.isUpdated = TRUE, !.u = u,
               !.solves = IF hit \/ @ = MaxSolves THEN @ ELSE @ + 1]

(* solve_adjoint_equation, for the state held in state_.                   *)
SolveAdjoint(r, k, z) ==
  LET hit    == Storage /\ IsComputed(r.adjoint, k)
      obj    == IF hit THEN r.obj ELSE Assemble(r.obj, k, z)
      con    == IF hit THEN r.con ELSE Assemble(r.con, k, z)
      p      == IF hit THEN Peek(r.adjoint, k)
                ELSE Combine(z, {r.u, Peek(obj, k), Peek(con, k)})
      looked == Allocate(r.adjoint, k)
  IN [r EXCEPT !.adjoint = IF ~Storage THEN @ ELSE IF hit THEN looked ELSE Set(looked, k, p),
               !.con = con, !.obj = obj, !.p = p]

Answered(r, z, parts) ==
  [r EXCEPT !.fresh = @ /\ parts = {z}, !.legal = @ /\ r.here = z]

Value(r, k, z) ==
  LET s   == SolveState(r, k, z)
      obj == Assemble(s.obj, k, z)
  IN Answered([s EXCEPT !.obj = obj], z, {s.u, Peek(obj, k)})

(* Gradient and Hessian of the reduced objective need the same solves; the *)
(* sensitivities of hessVec are recomputed by every call and never stored. *)
Gradient(r, k, z) ==
  LET s   == SolveAdjoint(SolveState(r, k, z), k, z)
      obj == Assemble(s.obj, k, z)
      con == Assemble(s.con, k, z)
  IN Answered([s EXCEPT !.obj = obj, !.con = con], z, {s.u, s.p, Peek(obj, k), Peek(con, k)})

HessVec(r, k, z) == Gradient(r, k, z)

(* hessVec with useFDhessVec_: Objective::hessVec at z, stepping to z + hv. *)
FDHessVec(r, k, z, probe) ==
  LET g == Gradient(r, k, z)
      h == Gradient(Update(g, "Temp", probe), k, probe)
  IN [Update(h, "Revert", z) EXCEPT !.solves = g.solves]
=============================================================================
