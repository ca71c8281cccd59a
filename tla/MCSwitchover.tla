---------------------------- MODULE MCSwitchover ----------------------------
(***************************************************************************)
(* Instances of Switchover for TLC: one or two steps in every phase that   *)
(* records steps, two context pairs, and the command lines of a run.       *)
(***************************************************************************)
EXTENDS Switchover

MCSteps == {"pause_backup_schedule", "disable_auto_import",
            "activate_managed_clusters", "verify_clusters_connected",
            "enable_backup_schedule"}

MCPlan == <<  <<>>,
              <<"pause_backup_schedule", "disable_auto_import">>,
              <<"activate_managed_clusters">>,
              <<"verify_clusters_connected">>,
              <<"enable_backup_schedule">>  >>

Plain == [ctx |-> "a_b", dry |-> FALSE, validate |-> FALSE, force |-> FALSE,
          reset |-> FALSE]
OtherHubs == [Plain EXCEPT !.ctx = "b_a"]
DryRun == [Plain EXCEPT !.dry = TRUE]
ValidateOnly == [Plain EXCEPT !.validate = TRUE]
Forced == [Plain EXCEPT !.force = TRUE]
ResetState == [Plain EXCEPT !.reset = TRUE]

Real == {Plain, OtherHubs, ValidateOnly, Forced, ResetState}
PlainAndDry == {Plain, DryRun}
=============================================================================
