---------------------------- MODULE MCPreflight ----------------------------
(* The hubs start either with any mix of clusters and a backup round at any   *)
(* stage, or with any mix of observability, its permissions, options and one  *)
(* broken fact; Change does the rest.                                         *)
EXTENDS Preflight, TLC

CONSTANTS c1, c2
MCClusters == {c1, c2}
Symmetry == Permutations(MCClusters)

Old(k) == [made |-> 1, keeps |-> k]

MCStarts ==
  [options : {[skipRbac |-> TRUE, passive |-> FALSE]},
   cluster : [MCClusters -> {Absent, Old(TRUE), Old(FALSE)}],
   phase : {p \in [Kinds -> Phases] : ~ \A k \in Kinds : p[k] = "InProgress"},
   obs : {{}}, permitted : {{}}, broken : {{}}]
  \cup
  [options : [skipRbac : BOOLEAN, passive : BOOLEAN],
   cluster : {[c \in MCClusters |-> Old(TRUE)]},
   phase : {[k \in Kinds |-> "Completed"]},
   obs : SUBSET Hubs, permitted : SUBSET Hubs,
   broken : {{}} \cup {{f} : f \in Facts}]
=============================================================================
