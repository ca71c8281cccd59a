-------------------------- MODULE MCBackupHandover --------------------------
(***************************************************************************)
(* Two Restores on the new hub; A's schedule enabled or paused by hand,    *)
(* B's absent or paused.                                                   *)
(***************************************************************************)
EXTENDS BackupHandover

MCRestores == {"restore-acm-passive-sync", "restore-acm-activate"}

Everywhere == Labels \ {"down"}
=============================================================================
