-------------------------- MODULE MCReducedProtocol --------------------------
(* ReducedProtocol with several samples and a bounded number of updates; a *)
(* finite-difference Hessian makes two.                                    *)
EXTENDS ReducedProtocol, TLC

CONSTANT MaxUpdates

VARIABLE updates

AnyUpdate ==
  \/ \E z \in Val : \/ UpdateInitial(z) \/ UpdateFlag(z)
                    \/ UpdateTrial(z) \/ UpdateTemp(z)
  \/ UpdateAccept \/ UpdateRevert

BoundedInit == Init /\ updates = 0

BoundedNext ==
  \/ AnyUpdate /\ updates < MaxUpdates /\ updates' = updates + 1
  \/ \E k \in Key : Evaluate(k) /\ UNCHANGED updates
  \/ \E k \in Key : EvaluateFD(k) /\ updates + 1 < MaxUpdates /\ updates' = updates + 2

BoundedSpec == BoundedInit /\ [][BoundedNext]_<<vars, updates>>

Symmetry == Permutations(Key) \cup Permutations(Val)
=============================================================================
