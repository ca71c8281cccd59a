-------------------------- MODULE MCPostActivation --------------------------
(***************************************************************************)
(* A cluster the tool can reach, and a late one that it cannot.            *)
(***************************************************************************)
EXTENDS PostActivation

MCClusters == {"c1", "c2"}
MCReach == {"c1"}
MCLate == {"c2"}
MCMsa == MCClusters
=============================================================================
