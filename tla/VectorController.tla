-------------------------- MODULE VectorController --------------------------
(***************************************************************************)
(* The three-tier cache of ROL::VectorController (and of ScalarController, *)
(* which derives from it).  A controller keeps, per parameter key, a       *)
(* vector and a "computed" flag, three times over: for the iterate         *)
(* ("main"), for the candidate of the next iterate ("trial") and for       *)
(* throw-away points such as finite-difference probes ("temp").  update()  *)
(* calls select the tier that reads and writes go to.                      *)
(*                                                                         *)
(* This module is a data structure: operators over a controller record,    *)
(* used by the modules of the protocols that drive it.  The contents of a  *)
(* vector are abstracted to a value of Val (which point, or which datum,   *)
(* was stored); NoVal is what a freshly cloned vector holds.               *)
(***************************************************************************)

CONSTANTS
  Key,    (* parameter keys; a deterministic problem uses a single one     *)
  Val,    (* what can be stored                                            *)
  NoVal   (* contents of a vector never written since it was cloned, or    *)
          (* left half written                                             *)

ASSUME NoValAssumption == NoVal \notin Val

UpdateType == {"Initial", "Accept", "Revert", "Trial", "Temp"}
Tier == {"main", "trial", "temp"}

Content == Val \cup {NoVal}

(* alloc: the key is in the tier's index map; flag: it is marked computed. *)
Slot == [alloc : BOOLEAN, flag : BOOLEAN, val : Content]
Absent == [alloc |-> FALSE, flag |-> FALSE, val |-> NoVal]
Written(v) == [alloc |-> TRUE, flag |-> TRUE, val |-> v]

Controller ==
  [tier : [Tier -> [Key -> Slot]], trial : BOOLEAN, temp : BOOLEAN,
   objUpdated : BOOLEAN, conUpdated : BOOLEAN]

NewController ==
  [tier |-> [t \in Tier |-> [k \in Key |-> Absent]], trial |-> FALSE, temp |-> FALSE,
   objUpdated |-> FALSE, conUpdated |-> FALSE]

-----------------------------------------------------------------------------
(* Switching and clearing tiers.  Clearing lowers flags; the vectors stay. *)

(* Faulty variant: a probe reads and writes the tier of the iterate.       *)
ProbesInPlace(s) == IF s.trial THEN "trial" ELSE "main"

ActiveTier(s) ==
  IF s.temp THEN "temp" ELSE IF s.trial THEN "trial" ELSE "main"

Refill(s, t, slots) == [s EXCEPT !.tier = [@ EXCEPT ![t] = slots]]

Lower(slots) == [k \in Key |-> [slots[k] EXCEPT !.flag = FALSE]]

Reset(s, flag) == IF flag THEN Refill(s, "main", Lower(s.tier["main"])) ELSE s

(* Faulty variant: a new trial keeps the flags of the last one.            *)
KeepTrial(s)   == s

ResetTrial(s)  == Refill(s, "trial", Lower(s.tier["trial"]))
ResetTemp(s)   == Refill(s, "temp", Lower(s.tier["temp"]))

(* Faulty variant: what the trial did not touch stays marked computed.     *)
PromotedOver(s, k) ==
  IF s.tier["trial"][k].alloc THEN Written(s.tier["trial"][k].val) ELSE s.tier["main"][k]

(* accept(): every key the trial tier has a slot for is copied to the main *)
(* tier and marked computed there, whatever its flag in the trial tier.    *)
PromotedSlot(s, k) ==
  IF s.tier["trial"][k].alloc
  THEN Written(s.tier["trial"][k].val)
  ELSE Lower(s.tier["main"])[k]

(* Faulty variant: accepting only invalidates what was known.              *)
DropTrial(s) == Reset(s, TRUE)

AcceptTrial(s) == Refill(s, "main", [k \in Key |-> PromotedSlot(s, k)])

(* Faulty variant: a probe stays selected until the next trial.            *)
SelectSticky(s, temp, trial) == [s EXCEPT !.temp = temp \/ (@ /\ ~trial), !.trial = trial]

Select(s, temp, trial) == [s EXCEPT !.temp = temp, !.trial = trial]

(* The switch of objectiveUpdate(UpdateType) and constraintUpdate(UpdateType). *)
Switch(s, type) ==
  CASE type = "Initial" -> Reset(Select(s, FALSE, FALSE), TRUE)
    [] type = "Trial"   -> ResetTrial(Select(s, FALSE, TRUE))
    [] type = "Accept"  -> AcceptTrial(Select(s, FALSE, FALSE))
    [] type = "Revert"  -> Select(s, FALSE, FALSE)
    [] type = "Temp"    -> ResetTemp(Select(s, TRUE, FALSE))

Pair(s, obj, con) == [s EXCEPT !.objUpdated = obj, !.conUpdated = con]

(* Of the two updates of a controller shared by an objective and a         *)
(* constraint, the first acts and the second only closes the pair.         *)
ObjectiveUpdate(s, type) ==
  IF type = "Temp" THEN Pair(Switch(s, type), FALSE, FALSE)
  ELSE IF s.conUpdated THEN Pair(s, FALSE, FALSE)
  ELSE Pair(Switch(s, type), TRUE, FALSE)

(* Faulty variant: the second update counts as the first of the next pair. *)
LeftOpen(s, type) ==
  IF type = "Temp" THEN Pair(Switch(s, type), FALSE, FALSE)
  ELSE IF s.objUpdated THEN Pair(s, FALSE, TRUE)
  ELSE Pair(Switch(s, type), FALSE, TRUE)

ConstraintUpdate(s, type) ==
  IF type = "Temp" THEN Pair(Switch(s, type), FALSE, FALSE)
  ELSE IF s.objUpdated THEN Pair(s, FALSE, FALSE)
  ELSE Pair(Switch(s, type), FALSE, TRUE)

(* The deprecated form update(x, flag): always back to the main tier.      *)
ObjectiveUpdateFlag(s, flag) ==
  LET t == Select(s, FALSE, FALSE)
  IN IF s.conUpdated THEN Pair(t, FALSE, FALSE) ELSE Pair(Reset(t, flag), TRUE, FALSE)

ConstraintUpdateFlag(s, flag) ==
  LET t == Select(s, FALSE, FALSE)
  IN IF s.objUpdated THEN Pair(t, FALSE, FALSE) ELSE Pair(Reset(t, flag), FALSE, TRUE)

-----------------------------------------------------------------------------
(* Reads and writes, all on the active tier.                               *)

SlotOf(s, k) == s.tier[ActiveTier(s)][k]

IsNull(s, k)     == ~SlotOf(s, k).alloc
IsComputed(s, k) == SlotOf(s, k).flag

Fill(s, k, slot) ==
  Refill(s, ActiveTier(s), [s.tier[ActiveTier(s)] EXCEPT ![k] = slot])

(* allocate(x,k), and what get(x,k) does to a key it does not know.        *)
Allocate(s, k) == Fill(s, k, [SlotOf(s, k) EXCEPT !.alloc = TRUE])

(* get(k): a pointer to the vector, computed or not.                       *)
Peek(s, k) == SlotOf(s, k).val

(* set(k): hands out the vector to be overwritten and marks it computed;   *)
(* throws if there is none, or if it is so marked.                         *)
Claim(s, k) == Fill(s, k, [SlotOf(s, k) EXCEPT !.flag = TRUE])

(* What the holder of that vector then writes to it.                       *)
Overwrite(s, k, v) == Fill(s, k, [SlotOf(s, k) EXCEPT !.val = v])

(* set(x,k).                                                               *)
Set(s, k, v) == Fill(s, k, Written(v))
=============================================================================
