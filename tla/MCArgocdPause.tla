--------------------------- MODULE MCArgocdPause ---------------------------
(***************************************************************************)
(* An Application on the old hub and one on the new hub, where the         *)
(* passive-sync restore overwrites.                                        *)
(***************************************************************************)
EXTENDS ArgocdPause

MCApps == {"p1", "s1"}
OnSecondary == {"s1"}
=============================================================================
