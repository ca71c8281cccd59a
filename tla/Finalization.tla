---------------------------- MODULE Finalization ----------------------------
(***************************************************************************)
(* The finalization (modules/finalization.py) around the handover of the   *)
(* BackupSchedule: the proof that the new hub B makes backups, and what    *)
(* becomes of the old hub A.  Velero shows on B the backups of both hubs,  *)
(* as they share the storage; backups are made, fail, grow old and expire  *)
(* while runs stop anywhere and are started again.  When all is done an    *)
(* operator may still decommission A with --decommission.                  *)
(*                                                                         *)
(* Data abstraction.  A backup is a number, in the order of the creation   *)
(* timestamps.  `late` says that the timestamp the code looks at is at or  *)
(* after backup_schedule_enabled_at.  "Started" stands for New and         *)
(* InProgress, "Failed" for everything the integrity check raises on, and  *)
(* "Aged" for Completed and older than the threshold; as that is longer    *)
(* than the interval of the schedule (where the code can read the cron     *)
(* expression) the youngest is never aged.  B shows a backup of A only     *)
(* when it is over; nothing waits for those that are under way on A when   *)
(* its schedule is paused, so they may come to be shown at any time.  The  *)
(* clocks of the tool and of the hubs agree.  The handover of the schedule *)
(* itself (BackupHandover) is the one step enable_backup_schedule here,    *)
(* the strategy and Argo CD steps are those of Activation and ArgocdPause. *)
(***************************************************************************)
EXTENDS Decommission

CONSTANTS
  Held,      \* the ACM backups of A, shown by B or still under way on A at the start
  Own,       \* those B's schedule makes
  Foreign,   \* backups that are not ACM's, of any time
  Actions,   \* the values of --old-hub-action
  None

Acm == Held \cup Own
Backups == Acm \cup Foreign

ASSUME BackupsAssumption ==
  /\ Backups \subseteq Nat /\ None \notin Backups
  /\ IsFiniteSet(Own)
  /\ Foreign \cap Acm = {}
  /\ \A o \in Own, a \in Held : a < o
ASSUME ActionsAssumption == Actions \subseteq {"secondary", "decommission", "none"}

StepNames == <<"disable_observability_on_secondary", "enable_backup_schedule",
               "verify_new_backups", "verify_backup_integrity", "verify_mch_health",
               "handle_old_hub", "verify_old_hub_state">>
Labels == {StepNames[k] : k \in 1..7}
            \cup {"stamp", "poll", "await", "age", "decommission", "record",
                  "standalone", "down"}

VARIABLES
  phase,     \* of a backup on B: "none" before there is one, "gone" after
  late,      \* the backups with that property
  arrived,   \* history: those of A that came to be shown once B's schedule was enabled
  enabled,   \* B's BackupSchedule is enabled
  stamped,   \* backup_schedule_enabled_at is set
  name,      \* post_switchover_backup_name
  recorded,  \* how many of the steps are recorded, or passed over by the options
  standby,   \* A has the passive-sync Restore
  action,    \* --old-hub-action
  disable,   \* --disable-observability-on-secondary
  pc,        \* where the process is; "down" when there is none
  initial,   \* initial_backup_names of _verify_new_backups
  subject,   \* the backup whose integrity is verified
  proof      \* history: the backup that passed

backups == <<phase, late, arrived>>
file == <<enabled, stamped, name, recorded>>
options == <<action, disable>>
locals == <<initial, subject>>
vars == <<oldHub, decommission, faults, backups, file, standby, options, pc, locals, proof>>

\* What a step of the process on B leaves alone.
OldSide == <<oldHub, decommission, standby>>

\* The locals of a step that is over.
Forget == initial' = {} /\ subject' = None

\* The ACM-owned backups that B shows (_list_acm_owned_velero_backups).
Shown == {b \in Acm : phase[b] \notin {"none", "gone"}}

\* _backup_is_detectable: a backup that is being finalized is not.
Detectable(b) == phase[b] \in {"Started", "Completed", "Aged"}

-----------------------------------------------------------------------------
(* The process. *)

Start ==
  /\ pc = "down" /\ recorded < 7
  /\ pc' = StepNames[recorded + 1]
  /\ UNCHANGED <<OldSide, faults, backups, file, options, locals, proof>>

\* StepContext.__exit__, then the next step
Record ==
  /\ pc = "record"
  /\ recorded' = recorded + 1
  /\ pc' = IF recorded' < 7 THEN StepNames[recorded' + 1] ELSE "down"
  /\ UNCHANGED <<OldSide, faults, backups, enabled, stamped, name, options, locals, proof>>

\* A call raises, with or without its effect, the hub is unhealthy when the wait
\* for it ends, or the process is killed.
Stop ==
  /\ pc # "down"
  /\ Adverse
  /\ pc' = "down" /\ at' = "idle"
  /\ Forget
  /\ UNCHANGED <<oldHub, interactive, todo, deleted, backups, file, standby,
                 options, proof>>

\* _disable_observability_on_old_hub, when asked for and A becomes the standby
DisableObservability ==
  /\ pc = "disable_observability_on_secondary"
  /\ observability' = IF disable /\ action = "secondary" /\ observability # "gone"
                      THEN "dying" ELSE observability
  /\ pc' = "record"
  /\ UNCHANGED <<clusters, leaving, mch, decommission, standby, faults, backups,
                 file, options, locals, proof>>

\* ensure_enabled: backups may be made from now on.
EnableSchedule ==
  /\ pc = "enable_backup_schedule"
  /\ enabled' = TRUE
  /\ pc' = "stamp"
  /\ UNCHANGED <<OldSide, faults, backups, stamped, name, recorded, options, locals, proof>>

\* backup_schedule_enabled_at = now; a rerun of the step takes a later time.
StampEnabled ==
  /\ pc = "stamp"
  /\ stamped' = TRUE /\ late' = Foreign
  /\ pc' = "record"
  /\ UNCHANGED <<OldSide, faults, phase, arrived, enabled, name, recorded, options,
                 locals, proof>>

VerifyHealth ==
  /\ pc = "verify_mch_health"
  /\ pc' = "record"
  /\ UNCHANGED <<OldSide, faults, backups, file, options, locals, proof>>

-----------------------------------------------------------------------------
(* _verify_new_backups. *)

\* Mutant: any backup that is under way or done will do, whatever its time.
MutFindBackup ==
  /\ pc = "verify_new_backups"
  /\ \E b \in Shown : Detectable(b) /\ name' = b
  /\ pc' = "record"
  /\ UNCHANGED <<OldSide, faults, backups, enabled, stamped, recorded, options,
                 locals, proof>>

\* The recorded backup again, or one from after the schedule was enabled
\* (_find_post_enable_backup; which of several is left open).
FindBackup ==
  /\ pc = "verify_new_backups"
  /\ \E b \in Shown :
       /\ Detectable(b)
       /\ b = name \/ (b \in late /\ ~(name \in Shown /\ Detectable(name)))
       /\ name' = b
  /\ pc' = "record"
  /\ UNCHANGED <<OldSide, faults, backups, enabled, stamped, recorded, options,
                 locals, proof>>

\* There is none: wait for a name that is not listed now.
NoBackupYet ==
  /\ pc = "verify_new_backups"
  /\ \A b \in Shown : Detectable(b) => b # name /\ b \notin late
  /\ initial' = Shown
  /\ pc' = "poll"
  /\ UNCHANGED <<OldSide, faults, backups, file, options, subject, proof>>

NewBackupSeen(b) ==
  /\ pc = "poll"
  /\ b \in Shown \ initial /\ Detectable(b)
  /\ name' = b
  /\ pc' = "record"
  /\ Forget
  /\ UNCHANGED <<OldSide, faults, backups, enabled, stamped, recorded, options, proof>>

NoNewBackup ==
  /\ pc = "poll"
  /\ pc' = "down"
  /\ Forget
  /\ UNCHANGED <<OldSide, faults, backups, file, options, proof>>

-----------------------------------------------------------------------------
(* _verify_backup_integrity. *)

\* The recorded backup, or the youngest when that one is there no longer.  One that
\* has arrived from A was created on B when it did: its place is left open.
Subject(s) ==
  IF name \in Shown THEN s = name
  ELSE s \in Shown /\ (s \in arrived \/ \A t \in Shown \ arrived : t <= s)

\* Mutant: only the recorded backup will do.
MutChooseSubject ==
  /\ pc = "verify_backup_integrity"
  /\ IF name \notin Shown
     THEN pc' = "down" /\ UNCHANGED subject
     ELSE \/ phase[name] \in {"Completed", "Aged"} /\ pc' = "age" /\ subject' = name
          \/ phase[name] \in {"Started", "Finalizing"} /\ pc' = "await" /\ subject' = name
          \/ phase[name] = "Failed" /\ pc' = "down" /\ UNCHANGED subject
  /\ UNCHANGED <<OldSide, faults, backups, file, options, initial, proof>>

ChooseSubject ==
  /\ pc = "verify_backup_integrity"
  /\ \/ Shown = {} /\ pc' = "down" /\ UNCHANGED subject
     \/ \E s \in Shown :
          /\ Subject(s)
          /\ \/ phase[s] \in {"Completed", "Aged"} /\ pc' = "age" /\ subject' = s
             \/ phase[s] \in {"Started", "Finalizing"} /\ pc' = "await" /\ subject' = s
             \/ phase[s] = "Failed" /\ pc' = "down" /\ UNCHANGED subject
  /\ UNCHANGED <<OldSide, faults, backups, file, options, initial, proof>>

\* A backup that failed or disappeared raises, and so does the timeout.
AwaitCompletion ==
  /\ pc = "await"
  /\ IF phase[subject] \in {"Completed", "Aged"}
     THEN pc' = "age" /\ UNCHANGED locals
     ELSE pc' = "down" /\ Forget
  /\ UNCHANGED <<OldSide, faults, backups, file, options, proof>>

\* A backup from before the schedule was enabled is let pass with a warning.
CheckAge ==
  /\ pc = "age"
  /\ IF subject \in late /\ phase[subject] # "Completed"
     THEN pc' = "down" /\ UNCHANGED proof
     ELSE pc' = "record" /\ proof' = subject
  /\ Forget
  /\ UNCHANGED <<OldSide, faults, backups, file, options>>

-----------------------------------------------------------------------------
(* _handle_old_hub and _verify_old_hub_state. *)

\* _setup_old_hub_as_secondary, or nothing
SetUpStandby ==
  /\ pc = "handle_old_hub" /\ action \in {"secondary", "none"}
  /\ standby' = (standby \/ action = "secondary")
  /\ pc' = "record"
  /\ UNCHANGED <<oldHub, decommission, faults, backups, file, options, locals, proof>>

BeginDecommission ==
  /\ pc = "handle_old_hub" /\ action = "decommission"
  /\ Begin(FALSE)
  /\ pc' = "decommission"
  /\ UNCHANGED <<faults, backups, file, standby, options, locals, proof>>

Decommissioning ==
  /\ pc \in {"decommission", "standalone"}
  /\ DecommissionStep
  /\ UNCHANGED <<faults, backups, file, standby, options, pc, locals, proof>>

\* Mutant: what decommission() returns is not looked at.
MutEndDecommission ==
  /\ pc \in {"decommission", "standalone"} /\ at \in {"done", "failed"}
  /\ pc' = IF pc = "decommission" THEN "record" ELSE "down"
  /\ at' = "idle"
  /\ UNCHANGED <<oldHub, interactive, todo, deleted, faults, backups, file,
                 standby, options, locals, proof>>

\* decommission() returned True or False; the latter raises.
EndDecommission ==
  /\ pc \in {"decommission", "standalone"} /\ at \in {"done", "failed"}
  /\ pc' = IF pc = "decommission" /\ at = "done" THEN "record" ELSE "down"
  /\ at' = "idle"
  /\ UNCHANGED <<oldHub, interactive, todo, deleted, faults, backups, file,
                 standby, options, locals, proof>>

\* _scale_down_old_hub_observability; everything else it finds is a warning.
VerifyOldHub ==
  /\ pc = "verify_old_hub_state"
  /\ observability' = IF action = "secondary" /\ observability = "there"
                      THEN "scaled" ELSE observability
  /\ pc' = "record"
  /\ UNCHANGED <<clusters, leaving, mch, decommission, standby, faults, backups,
                 file, options, locals, proof>>

\* run_decommission on A; bound: only where --old-hub-action left A alone.
Standalone ==
  /\ pc = "down" /\ recorded = 7 /\ action = "none"
  /\ \E asking \in BOOLEAN : Begin(asking)
  /\ pc' = "standalone"
  /\ UNCHANGED <<faults, backups, file, standby, options, locals, proof>>

-----------------------------------------------------------------------------
(* The backups. *)

Process == <<OldSide, file, options, pc, locals, proof>>

\* Bound: no later step looks at a backup.
Watched == recorded < 4

YoungerOwn(b) == \E o \in Own : b < o /\ phase[o] # "none"
Last(b) == \A o \in Own : o <= b

\* The schedule makes one backup after the other; bound: it keeps the last one
\* for the time after the step that enables it.
Create(b) ==
  /\ enabled /\ b \in Own /\ phase[b] = "none" /\ Watched
  /\ recorded < 2 => ~Last(b)
  /\ \A o \in Own : o < b => phase[o] \notin {"none", "Started", "Finalizing"}
  /\ phase' = [phase EXCEPT ![b] = "Started"]
  /\ late' = IF stamped THEN late \cup {b} ELSE late
  /\ UNCHANGED <<Process, faults, arrived>>

\* A backup that was under way on A is over, and B comes to show it; one that does
\* so before B's schedule is enabled is there from the start.  Its completion may be
\* from before that time too.  One that failed is an adverse event.
Arrive(b) ==
  /\ enabled /\ b \in Held /\ phase[b] = "none" /\ Watched
  /\ \/ phase' = [phase EXCEPT ![b] = "Completed"] /\ UNCHANGED faults
        /\ late' \in {late, IF stamped THEN late \cup {b} ELSE late}
     \/ phase' = [phase EXCEPT ![b] = "Failed"] /\ UNCHANGED late /\ Adverse
  /\ arrived' = arrived \cup {b}
  /\ UNCHANGED Process

Progress(b) ==
  /\ Watched
  /\ \/ phase[b] = "Started" /\ phase' = [phase EXCEPT ![b] = "Finalizing"] /\ UNCHANGED late
     \/ /\ phase[b] = "Finalizing" /\ phase' = [phase EXCEPT ![b] = "Completed"]
        /\ late' = IF stamped THEN late \cup {b} ELSE late
  /\ UNCHANGED <<Process, faults, arrived>>

\* Bound: the last backup does not fail; another would follow it.
Fail(b) ==
  /\ phase[b] \in {"Started", "Finalizing"} /\ ~Last(b) /\ Watched
  /\ Adverse
  /\ phase' = [phase EXCEPT ![b] = "Failed"]
  /\ UNCHANGED <<Process, late, arrived>>

\* The age of those that are not late is not enforced; bound: none grows old before it
\* is recorded.
Age(b) ==
  /\ phase[b] = "Completed" /\ b \in late /\ b = name /\ YoungerOwn(b) /\ Watched
  /\ phase' = [phase EXCEPT ![b] = "Aged"]
  /\ UNCHANGED <<Process, faults, late, arrived>>

\* Retention: the ttl of a backup runs out.  The last ones of A that are shown all
\* along outlive the finalization.
Expire(b) ==
  /\ phase[b] \in IF b \in late THEN {"Aged", "Failed"} ELSE {"Completed", "Failed"}
  /\ b \notin Held \ arrived /\ YoungerOwn(b) /\ Watched
  /\ phase' = [phase EXCEPT ![b] = "gone"]
  /\ UNCHANGED <<Process, faults, late, arrived>>

\* An operator deletes a backup that failed.
Discard(b) ==
  /\ phase[b] = "Failed" /\ Watched
  /\ Adverse
  /\ phase' = [phase EXCEPT ![b] = "gone"]
  /\ UNCHANGED <<Process, late, arrived>>

Velero == \E b \in Backups : Create(b) \/ Arrive(b) \/ Progress(b) \/ Age(b) \/ Expire(b)

OldHubMoves ==
  /\ Controllers
  /\ UNCHANGED <<backups, file, standby, options, pc, locals, proof>>

ClusterComesBack ==
  /\ \E c \in Clusters : Reimported(c)
  /\ UNCHANGED <<backups, file, standby, options, pc, locals, proof>>

-----------------------------------------------------------------------------
Init ==
  /\ DecommissionInit
  /\ \E there \in SUBSET Held :
       phase = [b \in Backups |-> IF b \in there \cup Foreign THEN "Completed" ELSE "none"]
  /\ late = Foreign /\ arrived = {}
  /\ enabled = FALSE /\ stamped = FALSE /\ name = None /\ recorded = 0
  /\ standby = FALSE
  /\ action \in Actions /\ disable \in BOOLEAN
  /\ disable => action = "secondary"
  /\ pc = "down" /\ initial = {} /\ subject = None /\ proof = None

ProcessStep ==
  \/ Record
  \/ DisableObservability \/ EnableSchedule \/ StampEnabled \/ VerifyHealth
  \/ FindBackup \/ NoBackupYet \/ (\E b \in Acm : NewBackupSeen(b)) \/ NoNewBackup
  \/ ChooseSubject \/ AwaitCompletion \/ CheckAge
  \/ SetUpStandby \/ BeginDecommission \/ Decommissioning \/ EndDecommission \/ VerifyOldHub

Next ==
  \/ Start \/ ProcessStep \/ Standalone
  \/ Velero \/ (\E b \in Backups : Fail(b) \/ Discard(b))
  \/ OldHubMoves \/ ClusterComesBack
  \/ Stop

Spec == Init /\ [][Next]_vars

\* The process goes on, the operator runs the command again after a failure, the
\* schedule makes backups, retention removes them, and finalizers come to an end.
FairSpec == Spec /\ WF_vars(Start) /\ WF_vars(ProcessStep)
                 /\ WF_vars(Velero) /\ WF_vars(OldHubMoves)
-----------------------------------------------------------------------------
(* Properties. *)

TypeOK ==
  /\ DecommissionTypeOK
  /\ phase \in [Backups -> {"none", "Started", "Finalizing", "Completed", "Aged",
                            "Failed", "gone"}]
  /\ late \subseteq Backups /\ arrived \subseteq Held
  /\ enabled \in BOOLEAN /\ stamped \in BOOLEAN
  /\ name \in Acm \cup {None} /\ recorded \in 0..7
  /\ standby \in BOOLEAN /\ action \in Actions /\ disable \in BOOLEAN
  /\ pc \in Labels
  /\ initial \subseteq Acm /\ subject \in Acm \cup {None} /\ proof \in Acm \cup {None}

\* The finalization takes the old hub apart only when a completed backup has been
\* seen, through failures, expiry and reruns, and not one of A's that B showed when
\* its schedule was enabled: one of B's own, or one that was then under way on A and
\* is let pass because it is over late or has a new name.  But for an operator who
\* deletes the failed backup that is recorded, after which any completed ACM backup
\* passes (_verify_new_backups, _verify_backup_integrity).
OldHubGoesAfterProof ==
  pc = "decommission" =>
    /\ proof \in Acm /\ phase[proof] \in {"Completed", "Aged", "gone"}
    /\ proof \in Own \cup arrived \/ phase[name] = "gone"

\* A decommissioning that is recorded has removed every cluster and begun to
\* remove the MultiClusterHub, however many runs it took (_decommission_old_hub).
RecordedMeansDecommissioned ==
  recorded >= 6 /\ action = "decommission" => clusters = {} /\ mch # "there"

\* With enough reruns the finalization ends, though the backup it recorded has
\* failed or grown old and every rerun raises on it: once that one has expired,
\* another is taken (_verify_backup_integrity).
EventuallyFinalized == <>(recorded = 7)
=============================================================================
