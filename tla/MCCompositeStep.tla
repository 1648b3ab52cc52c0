--------------------------- MODULE MCCompositeStep ---------------------------
(* CompositeStep on small instances. *)
EXTENDS CompositeStep
=============================================================================
