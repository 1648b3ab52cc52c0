--------------------------- MODULE ReducedProtocol ---------------------------
(***************************************************************************)
(* A reduced objective under the UpdateType protocol, for a problem with   *)
(* several parameters (samples): between two updates, any kind of          *)
(* evaluation for any parameter.  The optimizer's side of the protocol,    *)
(* and the set of parameters whose state has been paid for at each of its  *)
(* points, are the variables and actions of IterateMemo.                   *)
(***************************************************************************)
EXTENDS ReducedObjective

(* TRUE: an update is followed by an evaluation before the next update,    *)
(* which is what the trust-region and line-search methods do except after  *)
(* a Revert.  Without it the lazily notified inner problem may never hear  *)
(* of an Accept.                                                           *)
CONSTANT Prompt

ASSUME PromptAssumption == Prompt \in BOOLEAN

VARIABLES
  ro,                              (* the reduced objective                *)
  here, base, cand, at, known      (* the optimizer, as in IterateMemo     *)

vars == <<ro, here, base, cand, at, known>>

Memo == INSTANCE IterateMemo WITH Point <- Val, NoPoint <- NoVal

Init ==
  /\ ro = NewReducedObjective
  /\ Memo!Init

(* The inner problem may miss a Revert, never another update.              *)
MayUpdate == Prompt => ro.isUpdated \/ (ro.newUpdate /\ ro.updateType = "Revert")

UpdateInitial(z) == MayUpdate /\ Memo!Start(z) /\ ro' = Update(ro, "Initial", z)
UpdateFlag(z)    == MayUpdate /\ Memo!Start(z) /\ ro' = UpdateDeprecated(ro, TRUE, z)
UpdateTrial(z)   == MayUpdate /\ Memo!Try(z)   /\ ro' = Update(ro, "Trial", z)
UpdateTemp(z)    == MayUpdate /\ Memo!Probe(z) /\ ro' = Update(ro, "Temp", z)
UpdateRevert     == MayUpdate /\ Memo!GiveUp   /\ ro' = Update(ro, "Revert", base)

(* Accepted only when each tier of the trial point that will be promoted   *)
(* was completed at that point.                                            *)
Complete(s) == \A k \in Key : s.tier["trial"][k].alloc => s.tier["trial"][k].flag

UpdateAccept ==
  /\ MayUpdate
  /\ Complete(ro.state) /\ Complete(ro.adjoint) /\ Complete(ro.con) /\ Complete(ro.obj)
  /\ Memo!Take /\ ro' = Update(ro, "Accept", cand)

Evaluate(k) ==
  /\ Memo!Learn(k)
  /\ ro' \in {Value(ro, k, here), Gradient(ro, k, here)}

(* A finite-difference Hessian at the iterate; it ends with a Revert, so   *)
(* that it is of no use anywhere else.                                     *)
EvaluateFD(k) ==
  /\ at = "base"
  /\ Memo!Learn(k)
  /\ \E z \in Val : ro' = FDHessVec(ro, k, here, z)

Next ==
  \/ \E z \in Val : \/ UpdateInitial(z) \/ UpdateFlag(z)
                    \/ UpdateTrial(z) \/ UpdateTemp(z)
  \/ UpdateAccept \/ UpdateRevert
  \/ \E k \in Key : Evaluate(k) \/ EvaluateFD(k)

Spec == Init /\ [][Next]_vars

-----------------------------------------------------------------------------
(* Types.                                                                  *)
TypeOK ==
  /\ ro \in ReducedObjectives
  /\ here \in Content /\ base \in Content /\ cand \in Content
  /\ at \in Memo!Where
  /\ known \in [Memo!Where -> SUBSET Key]

(* Every value, gradient and Hessian returned is the one of the point it   *)
(* was asked for: no state, adjoint or inner datum of another point enters *)
(* it, however updates and evaluations of the samples interleave.          *)
AnswersAreFresh == ro.fresh

(* With storage, the state equation is solved once per point and sample:   *)
(* not again for the gradient after the value, nor after an Accept of the  *)
(* point it was solved at, nor after a Revert to it.  An evaluation that   *)
(* adds nothing to what is known solves nothing; updates reset the count.  *)
OneSolvePerPoint ==
  [][Storage /\ known' = known => ro'.solves <= ro.solves]_vars
=============================================================================
