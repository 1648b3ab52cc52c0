------------------------------ MODULE MCBundleU ------------------------------
(* BundleU on small instances: two points. *)
EXTENDS BundleU

CONSTANTS v1, v2

Points == Permutations({v1, v2})
MCSizes == {3, 4}
MCRemovalSizes == {0, 2, 3, 7}
=============================================================================
