----------------------------- MODULE MCApiClient -----------------------------
(***************************************************************************)
(* Two bodies, so that others can set the one asked for or another.        *)
(***************************************************************************)
EXTENDS ApiClient

MCBodies == {"a", "b"}
=============================================================================
