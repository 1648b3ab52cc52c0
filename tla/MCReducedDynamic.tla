--------------------------- MODULE MCReducedDynamic ---------------------------
(* ReducedDynamicObjective on small instances. *)
EXTENDS ReducedDynamicObjective

(* A plain history, a sketch, and a sketch of adaptive rank whose adjoint  *)
(* sketch follows it, as by default.                                       *)
MCModes ==
  {[sketch |-> FALSE, inexact |-> FALSE, sync |-> FALSE],
   [sketch |-> TRUE, inexact |-> FALSE, sync |-> FALSE],
   [sketch |-> TRUE, inexact |-> TRUE, sync |-> TRUE]}
=============================================================================
