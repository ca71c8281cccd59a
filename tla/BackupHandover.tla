--------------------------- MODULE BackupHandover ---------------------------
(***************************************************************************)
(* The right to write backups goes from the old hub A to the new hub B:    *)
(* primary_prep pauses or deletes A's BackupSchedule and saves it in the   *)
(* state file, finalization removes the Restores of B, enables or          *)
(* recreates B's BackupSchedule, verifies it, recreates it once more       *)
(* against a BackupCollision, and turns A into the standby hub.  A process *)
(* may stop between any two calls to the API, by an error or a crash, and  *)
(* the next one starts at the first step that is not recorded.             *)
(*                                                                         *)
(* Data abstraction.  A BackupSchedule is its uid and spec.paused, where   *)
(* a missing `paused` is FALSE; of the saved document only its existence   *)
(* matters, as it is always restored with paused: false; the archive of    *)
(* the deleted Restores, which nothing reads, is left out.  The order of   *)
(* the steps across phases is Switchover's; here they are one sequence,    *)
(* so the recorded ones are a number.  Each hub has at most one schedule   *)
(* (max_items=1) and it has a name.                                        *)
(***************************************************************************)
EXTENDS Naturals, Sequences, FiniteSets

CONSTANTS
  Restores,       \* Restore objects on hub B
  None,
  PausesInPlace,  \* is the ACM version 2.12 or later, with spec.paused?
  StartA,         \* A's schedule at the start: a subset of Kinds
  StartB,         \* B's schedule at the start: a subset of Kinds
  SlowDeletes,    \* may a deleted object stay for a while (finalizers)?
  FaultAt,        \* the labels at which a process may stop
  MaxFaults,      \* bound on the stops and failed calls of a behaviour
  MaxMeddles      \* bound on what other controllers do to B's schedule

Kinds == {"none", "paused", "enabled"}

\* Labels inside a step, after its first.
Inner == {"pause", "cleanup", "schedule", "reread", "delete", "wait", "create"}

StepNames == <<"pause_backup_schedule", "enable_backup_schedule",
               "verify_backup_schedule_enabled", "fix_backup_collision",
               "handle_old_hub">>
Labels == Inner \cup {StepNames[k] : k \in 1..5} \cup {"record", "down"}

ASSUME KindsAssumption == StartA \subseteq Kinds /\ StartB \subseteq Kinds
\* Two hubs that both write before the switchover are not its business.
ASSUME StandbyAssumption == "enabled" \notin StartB
ASSUME SwitchAssumption == PausesInPlace \in BOOLEAN /\ SlowDeletes \in BOOLEAN
ASSUME BoundsAssumption == MaxFaults \in Nat /\ MaxMeddles \in Nat
ASSUME FaultAtAssumption == FaultAt \subseteq Labels \ {"down"}
ASSUME NobodyAssumption == None \notin Nat /\ None \notin [uid : Nat, paused : BOOLEAN]

VARIABLES
  schedA, schedB,  \* the BackupSchedule of a hub, or None
  standbyA,        \* the passive-sync Restore exists on A
  restores,        \* the Restores that exist on B
  dying,           \* those of them that have been asked to go
  dyingB,          \* B's schedule has been asked to go
  saved,           \* config saved_backup_schedule is set
  recorded,        \* how many of the steps are recorded
  pc,              \* where the process is; "down" when there is none
  todo, failed,    \* locals of _cleanup_restore_resources
  seen,            \* schedule_uid of _fix_backup_schedule_collision
  spec,            \* schedule_spec: its `paused`
  uids,            \* the uids given so far
  faults, meddles,
  verified         \* history: the uid of the schedule that passed the verification

hubs == <<schedA, schedB, standbyA, restores, dying, dyingB, uids>>
locals == <<todo, failed, seen, spec>>
bounds == <<faults, meddles>>
vars == <<schedA, schedB, standbyA, restores, dying, dyingB, saved,
          recorded, pc, todo, failed, seen, spec, uids, faults, meddles, verified>>

Schedule == [uid : Nat, paused : BOOLEAN]
Enabled(s) == s # None /\ s.paused = FALSE

Adverse == faults < MaxFaults /\ faults' = faults + 1 /\ UNCHANGED meddles

\* A new BackupSchedule on B.
CreateB(paused) ==
  /\ schedB' = [uid |-> uids, paused |-> paused]
  /\ uids' = uids + 1

-----------------------------------------------------------------------------
(* The process and its steps. *)

\* A process works from the first step that is not recorded.
Start ==
  /\ pc = "down" /\ recorded < 5
  /\ pc' = StepNames[recorded + 1]
  /\ UNCHANGED <<hubs, saved, recorded, locals, verified, bounds>>

\* StepContext.__exit__, then the next step
Record ==
  /\ pc = "record"
  /\ recorded' = recorded + 1
  /\ pc' = IF recorded' < 5 THEN StepNames[recorded' + 1] ELSE "down"
  /\ UNCHANGED <<hubs, saved, locals, verified, bounds>>

\* An API call raises, with or without its effect, or the process is killed.
Stop ==
  /\ pc \in FaultAt
  /\ Adverse
  /\ pc' = "down"
  /\ UNCHANGED <<hubs, saved, recorded, locals, verified>>

-----------------------------------------------------------------------------
(* primary_prep._pause_backup_schedule on hub A. *)

\* Mutant: a schedule that is already saved is taken to be paused.
MutListA ==
  /\ pc = "pause_backup_schedule"
  /\ saved' = (saved \/ schedA # None)
  /\ pc' = IF Enabled(schedA) /\ ~saved THEN "pause" ELSE "record"
  /\ UNCHANGED <<hubs, recorded, locals, verified, bounds>>

\* Mutant: a schedule that is already paused is not saved.
MutListAUnsaved ==
  /\ pc = "pause_backup_schedule"
  /\ saved' = (saved \/ Enabled(schedA))
  /\ pc' = IF Enabled(schedA) THEN "pause" ELSE "record"
  /\ UNCHANGED <<hubs, recorded, locals, verified, bounds>>

\* Nothing to pause, already paused (saved all the same), or saved and paused next.
ListA ==
  /\ pc = "pause_backup_schedule"
  /\ saved' = (saved \/ schedA # None)
  /\ pc' = IF Enabled(schedA) THEN "pause" ELSE "record"
  /\ UNCHANGED <<hubs, recorded, locals, verified, bounds>>

PauseA ==
  /\ pc = "pause"
  /\ schedA' = IF PausesInPlace THEN [schedA EXCEPT !.paused = TRUE] ELSE None
  /\ pc' = "record"
  /\ UNCHANGED <<schedB, standbyA, restores, dying, dyingB, uids, saved,
                 recorded, locals, verified, bounds>>

-----------------------------------------------------------------------------
(* finalization._enable_backup_schedule on hub B. *)

ListRestores ==
  /\ pc = "enable_backup_schedule"
  /\ todo' = restores /\ failed' = FALSE
  /\ pc' = "cleanup"
  /\ UNCHANGED <<hubs, saved, recorded, seen, spec, verified, bounds>>

\* A finalizer may hold the object back.
DeleteRestore(r) ==
  /\ pc = "cleanup" /\ r \in todo
  /\ todo' = todo \ {r}
  /\ \/ restores' = restores \ {r} /\ dying' = dying \ {r}
     \/ SlowDeletes /\ dying' = dying \cup ({r} \cap restores) /\ UNCHANGED restores
  /\ UNCHANGED <<schedA, schedB, standbyA, dyingB, uids, saved, recorded, pc,
                 failed, seen, spec, verified, bounds>>

\* The call raises: the loop notes it and goes on to the next Restore.
DeleteRestoreFails(r) ==
  /\ pc = "cleanup" /\ r \in todo
  /\ Adverse
  /\ todo' = todo \ {r}
  /\ failed' = TRUE
  /\ UNCHANGED <<hubs, saved, recorded, pc, seen, spec, verified>>

\* Mutant: failed deletions are logged and nothing else.
MutEndCleanup ==
  /\ pc = "cleanup" /\ todo = {}
  /\ pc' = "schedule"
  /\ UNCHANGED <<hubs, saved, recorded, locals, verified, bounds>>

\* Failures raise when every Restore has been tried.
EndCleanup ==
  /\ pc = "cleanup" /\ todo = {}
  /\ pc' = IF failed THEN "down" ELSE "schedule"
  /\ UNCHANGED <<hubs, saved, recorded, locals, verified, bounds>>

\* BackupScheduleManager.ensure_enabled: no schedule and none saved is only
\* logged, and so is a paused schedule before 2.12.
EnsureEnabled ==
  /\ pc = "schedule"
  /\ \/ schedB = None /\ saved /\ CreateB(FALSE)
     \/ schedB = None /\ ~saved /\ UNCHANGED <<schedB, uids>>
     \/ Enabled(schedB) /\ UNCHANGED <<schedB, uids>>
     \/ /\ schedB # None /\ ~Enabled(schedB)
        /\ schedB' = [schedB EXCEPT !.paused = ~PausesInPlace]
        /\ UNCHANGED uids
  /\ pc' = "record"
  /\ UNCHANGED <<schedA, standbyA, restores, dying, dyingB, saved, recorded,
                 locals, verified, bounds>>

-----------------------------------------------------------------------------
(* finalization._verify_backup_schedule_enabled. *)

VerifyEnabled ==
  /\ pc = "verify_backup_schedule_enabled"
  /\ pc' = IF Enabled(schedB) THEN "record" ELSE "down"
  /\ verified' = IF Enabled(schedB) THEN schedB.uid ELSE verified
  /\ UNCHANGED <<hubs, saved, recorded, locals, bounds>>

-----------------------------------------------------------------------------
(* finalization._fix_backup_schedule_collision: delete and create again. *)

\* An empty list raises.
ListB ==
  /\ pc = "fix_backup_collision"
  /\ IF schedB = None
     THEN pc' = "down" /\ UNCHANGED <<seen, spec>>
     ELSE pc' = "reread" /\ seen' = schedB.uid /\ spec' = schedB.paused
  /\ UNCHANGED <<hubs, saved, recorded, todo, failed, verified, bounds>>

\* Gone: nothing to delete.  Another uid: raise.  Else take its latest spec.
RereadB ==
  /\ pc = "reread"
  /\ \/ schedB = None /\ pc' = "wait" /\ UNCHANGED spec
     \/ schedB # None /\ schedB.uid # seen /\ pc' = "down" /\ UNCHANGED spec
     \/ schedB # None /\ schedB.uid = seen /\ pc' = "delete" /\ spec' = schedB.paused
  /\ UNCHANGED <<hubs, saved, recorded, todo, failed, seen, verified, bounds>>

\* By name, whatever uid it has by now.
DeleteB ==
  /\ pc = "delete"
  /\ \/ schedB' = None /\ dyingB' = FALSE
     \/ SlowDeletes /\ schedB # None /\ dyingB' = TRUE /\ UNCHANGED schedB
  /\ pc' = "wait"
  /\ UNCHANGED <<schedA, standbyA, restores, dying, uids, saved, recorded,
                 locals, verified, bounds>>

\* Mutant: the deletion is taken for granted.
MutRecheckB ==
  /\ pc = "wait"
  /\ pc' = "create"
  /\ UNCHANGED <<hubs, saved, recorded, locals, verified, bounds>>

\* After BACKUP_SCHEDULE_DELETE_WAIT seconds: a schedule that is still there,
\* or there again, raises.
RecheckB ==
  /\ pc = "wait"
  /\ pc' = IF schedB = None THEN "create" ELSE "down"
  /\ UNCHANGED <<hubs, saved, recorded, locals, verified, bounds>>

\* Mutant: the schedule is made again from A's saved document, still paused.
MutRecreateB ==
  /\ pc = "create"
  /\ IF schedB = None THEN CreateB(TRUE) ELSE UNCHANGED <<schedB, uids>>
  /\ pc' = "record"
  /\ UNCHANGED <<schedA, standbyA, restores, dying, dyingB, saved, recorded,
                 locals, verified, bounds>>

\* A conflict with somebody else's schedule is settled by reading it again: the
\* same spec or another uid than the deleted one's will do.
RecreateB ==
  /\ pc = "create"
  /\ \/ schedB = None /\ CreateB(spec) /\ pc' = "record"
     \/ /\ schedB # None /\ (schedB.paused = spec \/ schedB.uid # seen)
        /\ pc' = "record" /\ UNCHANGED <<schedB, uids>>
     \/ /\ schedB # None /\ schedB.paused # spec /\ schedB.uid = seen
        /\ pc' = "down" /\ UNCHANGED <<schedB, uids>>
  /\ UNCHANGED <<schedA, standbyA, restores, dying, dyingB, saved, recorded,
                 locals, verified, bounds>>

-----------------------------------------------------------------------------
\* finalization._setup_old_hub_as_secondary
SetUpStandby ==
  /\ pc = "handle_old_hub"
  /\ standbyA' = TRUE
  /\ pc' = "record"
  /\ UNCHANGED <<schedA, schedB, restores, dying, dyingB, uids, saved, recorded,
                 locals, verified, bounds>>

-----------------------------------------------------------------------------
(* The environment on hub B. *)

\* The finalizers are done.
Gone ==
  /\ \/ \E r \in dying : /\ restores' = restores \ {r} /\ dying' = dying \ {r}
                         /\ UNCHANGED <<schedB, dyingB>>
     \/ dyingB /\ schedB' = None /\ dyingB' = FALSE /\ UNCHANGED <<restores, dying>>
  /\ UNCHANGED <<schedA, standbyA, uids, saved, recorded, pc, locals, verified, bounds>>

\* Another controller brings its own enabled schedule, in the place of one the
\* tool has enabled or of none.
Meddle ==
  /\ meddles < MaxMeddles /\ meddles' = meddles + 1
  /\ recorded >= 3
  /\ CreateB(FALSE) /\ dyingB' = FALSE
  /\ UNCHANGED <<schedA, standbyA, restores, dying, saved, recorded, pc, locals,
                 verified, faults>>

OfKind(kind) ==
  CASE kind = "none" -> None
    [] kind = "paused" -> [uid |-> 0, paused |-> TRUE]
    [] kind = "enabled" -> [uid |-> 0, paused |-> FALSE]

Init ==
  /\ schedA \in {OfKind(kind) : kind \in StartA}
  /\ schedB \in {OfKind(kind) : kind \in StartB}
  /\ standbyA = FALSE
  /\ restores = Restores /\ dying = {} /\ dyingB = FALSE
  /\ saved = FALSE
  /\ recorded = 0 /\ pc = "down"
  /\ todo = {} /\ failed = FALSE
  /\ seen = 0 /\ spec = FALSE
  /\ uids = 1 /\ faults = 0 /\ meddles = 0
  /\ verified = None

ProcessStep ==
  \/ Start \/ Record
  \/ ListA \/ PauseA
  \/ ListRestores \/ (\E r \in Restores : DeleteRestore(r)) \/ EndCleanup
  \/ EnsureEnabled \/ VerifyEnabled
  \/ ListB \/ RereadB \/ DeleteB \/ RecheckB \/ RecreateB
  \/ SetUpStandby

Next ==
  \/ ProcessStep
  \/ Gone \/ Meddle
  \/ Stop \/ \E r \in Restores : DeleteRestoreFails(r)

Spec == Init /\ [][Next]_vars

\* The process goes on, the operator runs the command again after a failure,
\* and a finalizer is done some time.
FairSpec == Spec /\ WF_vars(ProcessStep) /\ WF_vars(Gone)
-----------------------------------------------------------------------------
(* Properties. *)

TypeOK ==
  /\ schedA \in Schedule \cup {None} /\ schedB \in Schedule \cup {None}
  /\ standbyA \in BOOLEAN /\ saved \in BOOLEAN /\ dyingB \in BOOLEAN
  /\ restores \subseteq Restores /\ dying \subseteq restores
  /\ recorded \in 0..5 /\ pc \in Labels
  /\ todo \subseteq Restores /\ failed \in BOOLEAN
  /\ seen \in Nat /\ spec \in BOOLEAN /\ uids \in Nat
  /\ faults \in Nat /\ meddles \in Nat
  /\ verified \in Nat \cup {None}

\* At no time do both hubs write backups to the shared storage: A's schedule is
\* out of action before B's is enabled, whatever was retried in between.
OneWriter == ~(Enabled(schedA) /\ Enabled(schedB))

\* "ACM will not allow a BackupSchedule to run while a restore is active": when
\* B's schedule is enabled every Restore of B has been asked to go -- the code
\* does not wait until it is gone (_cleanup_restore_resources, ensure_enabled).
NoScheduleOverLiveRestore == Enabled(schedB) => restores \subseteq dying

\* A finished handover has left B writing (with a schedule that is not on its
\* way out), A silent, and A as the standby.
FinishedMeansBackedUp ==
  recorded = 5 => Enabled(schedB) /\ ~dyingB /\ ~Enabled(schedA) /\ standbyA

\* Once the collision step is recorded, B's schedule is not the one that was
\* verified before it: retries and conflicts included, it was made again.
CollisionFixed ==
  recorded >= 4 => schedB # None /\ schedB.uid # verified

\* B had no schedule and A none to save: verify_backup_schedule_enabled fails.
NothingToHandOver == recorded = 2 /\ schedA = None /\ schedB = None /\ ~saved

\* B's schedule is deleted, and no process remembers its spec.
ScheduleLost == recorded = 3 /\ schedB = None /\ pc = "down"

\* "Every mutating workflow step is designed to be re-runnable": with enough
\* reruns the handover of A's schedule comes to its end, unless there is nothing
\* to hand over, or a run was stopped between the deletion and the recreation of
\* B's schedule (prepare, finalize).
EventuallyHandedOverOrStuck ==
  <>(recorded = 5 \/ NothingToHandOver \/ ScheduleLost)
=============================================================================
