---------------------------- MODULE MCActivation ----------------------------
(***************************************************************************)
(* The three methods, with and without the managed import strategy, and    *)
(* an ACM that knows neither strategy nor annotation.                      *)
(***************************************************************************)
EXTENDS Activation

MCClusters == {"c1", "c2"}
MCOptions ==
  [method : Methods, modern : {TRUE}, manage : BOOLEAN]
    \cup [method : {"patch"}, modern : {FALSE}, manage : {TRUE}]
=============================================================================
