---------------------------- MODULE MCProblemSetup ----------------------------
(* ProblemSetup on small instances: three constraints, one named group. *)
EXTENDS ProblemSetup, TLC

CONSTANTS n1, n2, n3, g1

MCNames == {n1, n2, n3}
MCGroups == {n1, n2, n3, g1}
Symmetric == Permutations(MCNames)
=============================================================================
