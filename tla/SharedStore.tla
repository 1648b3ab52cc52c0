----------------------------- MODULE SharedStore -----------------------------
(***************************************************************************)
(* A linear constraint eliminated by ROL::ReduceLinearConstraint: the      *)
(* objective and each remaining constraint are composed with the same      *)
(* affine map, and share one VectorController in which the image of the    *)
(* current point is kept (AffineTransformObjective and                     *)
(* AffineTransformConstraint).  An optimizer updates the objective, then   *)
(* the constraints one after the other (Constraint_Partitioned), and the   *)
(* controller has to act on the first update of such a round only.         *)
(*                                                                         *)
(* The image of a point is represented by the point.  The store and the    *)
(* optimizer's points here, base and cand are those of UpdateProtocol, of  *)
(* which only the actions are replaced; CompleteTrials plays no part, and  *)
(* torn stays as it is, for images are copied in once they are computed.   *)
(***************************************************************************)
EXTENDS UpdateProtocol, Naturals

CONSTANT NumCon   (* constraints that share the store with the objective   *)

ASSUME NumConAssumption == NumCon \in Nat

(* Number 0 is the objective.                                              *)
Function == 0 .. NumCon

VARIABLES
  told,              (* point each wrapped function was last updated with  *)
  turn,              (* next function to update; NumCon + 1 when all are   *)
  kind               (* the update under way: an UpdateType, or "Flag"     *)

sharedVars == <<store, told, turn, kind, here, base, cand, torn>>

Kind == UpdateType \cup {"Flag"}

K == CHOOSE k \in Key : TRUE

SharedInit ==
  /\ Init
  /\ told = [i \in Function |-> NoVal]
  /\ turn = NumCon + 1 /\ kind = "Initial"

-----------------------------------------------------------------------------
(* Faulty variant: each function's update acts on the store, as it would   *)
(* if the store were its own.                                              *)
TellAll(s, i, type) ==
  CASE type = "Flag" -> Reset(Select(s, FALSE, FALSE), TRUE)
    [] type # "Flag" -> Switch(s, type)

(* What function i does to the store when it is updated.                   *)
Tell(s, i, type) ==
  CASE i = 0 /\ type = "Flag" -> ObjectiveUpdateFlag(s, TRUE)
    [] i = 0 /\ type # "Flag" -> ObjectiveUpdate(s, type)
    [] i > 0 /\ type = "Flag" -> ConstraintUpdateFlag(s, TRUE)
    [] i > 0 /\ type # "Flag" -> ConstraintUpdate(s, type)

(* transform(z): the image is looked up, and computed and kept if absent.  *)
Transform(s, z) ==
  IF IsComputed(s, K) THEN s ELSE Set(Allocate(s, K), K, z)

(* update(z, type): the store, then the wrapped function, at the image.    *)
UpdateFunction(i, type, z) ==
  /\ store' = Transform(Tell(store, i, type), z)
  /\ told' = [told EXCEPT ![i] = Peek(store', K)]

(* The optimizer's side; what may be asked of whom is as in UpdateProtocol.*)
Moves(type, z) ==
  /\ here' = z
  /\ CASE type \in {"Initial", "Flag"} -> base' = z /\ cand' = NoVal
       [] type = "Trial"  -> base # NoVal /\ cand' = z /\ UNCHANGED base
       [] type = "Accept" -> cand # NoVal /\ z = cand /\ base' = z /\ cand' = NoVal
       [] type = "Revert" -> base # NoVal /\ z = base /\ cand' = NoVal /\ UNCHANGED base
       [] type = "Temp"   -> base # NoVal /\ UNCHANGED <<base, cand>>

UpdateObjective ==
  /\ turn = NumCon + 1
  /\ \E type \in Kind, z \in Val :
       Moves(type, z) /\ UpdateFunction(0, type, z) /\ kind' = type
  /\ turn' = 1

UpdateConstraint ==
  /\ turn \in 1 .. NumCon
  /\ UpdateFunction(turn, kind, here)
  /\ turn' = turn + 1
  /\ UNCHANGED <<kind, here, base, cand>>

(* A value or derivative of a function that has been updated.              *)
Evaluate ==
  /\ here # NoVal
  /\ store' = Transform(store, here)
  /\ UNCHANGED <<told, turn, kind, here, base, cand>>

SharedNext == (UpdateObjective \/ UpdateConstraint \/ Evaluate) /\ UNCHANGED torn

SharedSpec == SharedInit /\ [][SharedNext]_sharedVars

-----------------------------------------------------------------------------
(* Whoever was updated in this round was updated at the point the          *)
(* optimizer moved to, and not at an image left over from another point.   *)
UpdatedHere == here # NoVal => \A i \in Function : i < turn => told[i] = here

(* The image that value, gradient and the rest start from is that of the   *)
(* point they are asked about.                                             *)
ImageIsCurrent == here # NoVal /\ IsComputed(store, K) => SlotOf(store, K).val = here

(* Sharing pays: the image computed for the objective serves the           *)
(* constraints, so that a round of updates maps the point once.            *)
MappedOnce ==
  [][UpdateConstraint /\ kind # "Temp" => IsComputed(Tell(store, turn, kind), K)]_sharedVars
=============================================================================
