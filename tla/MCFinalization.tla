--------------------------- MODULE MCFinalization ---------------------------
(***************************************************************************)
(* One backup of the old hub, some of the new hub's own and one that is    *)
(* not ACM's; two clusters left on the old hub.                            *)
(***************************************************************************)
EXTENDS Finalization

MCClusters == {"c1", "c2"}
=============================================================================
