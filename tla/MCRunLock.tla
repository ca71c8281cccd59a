------------------------------ MODULE MCRunLock ------------------------------
(***************************************************************************)
(* Three processes on one state file, one of them started with             *)
(* --reset-state where the run says so.                                    *)
(***************************************************************************)
EXTENDS RunLock

MCProcs == {"a", "b", "c"}
OneResets == {"c"}
=============================================================================
