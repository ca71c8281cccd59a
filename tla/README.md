# A verification development for rh-acm-switchover

The tool moves the active role of a Red Hat ACM hub from one cluster (the
primary, hub A) to another (the secondary, hub B).  It is a Python command that
an operator runs, that fails, and that the operator runs again; what it has done
is in a state file.  The modules here are about the part of it that is hard to
test: what holds when a run ends at an arbitrary point and the next one has to
take over from the file and from what it finds on the hubs.

## 1. Inventory

### 1.1 Components

| Component | Source | State it keeps | Operations |
|---|---|---|---|
| Phase machine | `acm_switchover.py` | the phase in the state file | `main`, `run_switchover`, `phase_flow`, `_run_phase_*`, `_fail_phase` |
| State file, contents | `lib/utils.py` `StateManager`, `StepContext` | phase, completed steps, errors, contexts, config values, timestamp; a dirty flag in memory | `step`, `mark_step_completed`, `set_phase`, `add_error`, `set_config`, `reset`, `ensure_contexts`, checkpoint capture and restore, flush on signal and at exit |
| State file, lock and write | `lib/utils.py` `_acquire_run_lock`, `_write_state` | `.run.lock`, `.lock`, the temporary file | acquire, release, load, write (temporary file, fsync, rename) |
| Primary preparation | `modules/primary_prep.py` | steps `pause_backup_schedule`, `pause_argocd_apps`, `disable_auto_import_*`, `scale_down_thanos`; config `saved_backup_schedule`, `argocd_paused_apps` | `prepare` |
| Activation | `modules/activation.py` | steps `verify_passive_sync`, `activate_managed_clusters`, `apply_immediate_import_annotations`, `wait_restore_completion`; config `auto_import_strategy_set` | `activate` |
| Post-activation | `modules/post_activation.py` | steps for clusters, klusterlets, observability | `verify`, klusterlet repair in worker threads |
| Backup schedule | `modules/backup_schedule.py` | the BackupSchedule of hub B | `ensure_enabled` |
| Finalization | `modules/finalization.py` | steps for backup, collision, verification, old hub, Argo CD | `finalize` |
| Argo CD | `lib/argocd.py` | annotation and `syncPolicy` of Applications, entries in the state file | `pause_autosync`, `resume_autosync`, `resume_recorded_applications` |
| Decommission | `modules/decommission.py` | none: every run looks at the hub | `decommission` |
| API client, waiting | `lib/kube_client.py`, `lib/waiter.py` | none | retry of API calls, create with re-read, patch, delete, polling |
| Preflight, discovery | `modules/preflight*`, `modules/restore_discovery.py` | none | read-only checks, a verdict |
| RBAC, validation, GitOps detection, state viewer | `lib/rbac_validator.py`, `check_rbac.py`, `lib/validation.py`, `lib/gitops_detector.py`, `show_state.py` | none | reports |
| Scripts, deployment | `scripts/`, `deploy/`, `container-bootstrap/` | none | a second tool set in shell; manifests |

### 1.2 How they interact

`main` takes the run lock, loads the file, fits it to the contexts
(`ensure_contexts`) and calls `run_switchover`, which decides from the recorded
phase where to begin and calls the phase handlers in order.  A handler sets its
phase and constructs its module; the module runs its steps under
`with state.step(name)`, which skips a recorded step and records one whose body
did not raise.  An exception in a module becomes an error in the state and a
FAILED phase.  Modules talk to each other only through the state file (the saved
BackupSchedule, the paused Applications, the flag of the auto-import strategy)
and through the objects on the hubs.  Other actors work on these objects at the
same time: the ACM operators, Velero restores, GitOps controllers, finalizers,
and a second operator of the tool.

### 1.3 What is hard, and what makes it correct

* **A run can end anywhere**: an API call raises (with or without its effect),
  Ctrl+C, SIGTERM, SIGKILL, a full disk.  Correct: recorded means done, nothing
  is skipped, a rerun gets on from every state a failure can leave.
* **The recorded phase is reused by modes that are no switchover**: validate-only
  runs, dry runs, `--force`, `--reset-state`, other contexts.  Correct: only who
  asks for progress to be forgotten loses it.
* **Two processes on one file.**  Correct: one at a time, no torn file, no update
  that its writer had not seen is overwritten.
* **Two hubs on one backup storage.**  Correct: they never both write, and in the
  end the new one does.
* **Work recorded after it was done** (a patch to an Application, a configmap, a
  schedule).  Correct: the state file knows of everything the tool has changed,
  so that it can be put back.
* **A step that is several calls** (delete, wait, create).  Correct: the rerun
  recognises each intermediate state.
* **A call that is several requests.**  Correct: a retry neither ends well without its
  effect nor takes its own object for another's.
* **Proof before destruction.**  The old hub may be taken apart only after the new one
  has made a backup, and its MultiClusterHub only after its clusters, although backups
  fail, age and expire and every rerun sees other ones.
* **Clusters that have to change hubs**, moved by threads, two import controllers
  and their own agents.  Correct: what is recorded about them is true, and nothing
  the tool does keeps a cluster where it is.
* **A verdict that is old when it is used.**  Preflight reads two living hubs once and
  the switchover relies on it hours later.  Correct: what passes holds, but for what
  was changed after it was read.

The hazards, each at its line and with the property that covers it, are in
`PROJECT.json`.

## 2. Modules

| Module | Models |
|---|---|
| `ResumableWorkflow` | abstract: an ordered plan of steps, applied, recorded, complete |
| `Switchover` | the phase machine with the contents of the state file; implements `ResumableWorkflow` |
| `RunLock` | several processes on one state file |
| `BackupHandover` | the BackupSchedules of the two hubs, across primary preparation and finalization |
| `ArgocdPause` | pausing and resuming the Applications of Argo CD |
| `Activation` | the activation of hub B and the reset of the auto-import strategy |
| `Decommission` | taking ACM off the old hub |
| `Finalization` | the proof that the new hub makes backups and the handling of the old one; composes `Decommission` |
| `Klusterlet` | the agents of the managed clusters and the threads that repair them |
| `PostActivation` | the way of the clusters from the old hub to the new one; composes `Klusterlet` |
| `ApiCall` | abstract: what a mutating call promises its callers |
| `ApiClient` | requests, retries and the reconciliation of conflicts; implements `ApiCall` |
| `Preflight` | the validators, on hubs that go on living |
| `Switchover_proofs`, `BeforeTheRun_proofs` (`RunLock` and `Preflight`), `BackupHandover_proofs`, `ArgocdPause_proofs`, `Activation_proofs`, `Finalization_proofs`, `PostActivation_proofs`, `ApiClient_proofs` | theorems |
| `MC*` | the instances TLC checks |

`Switchover` takes for granted that one process works on the file, which is
`RunLock`'s subject, and that a step is carried out or not; what is inside
of them is the subject of `BackupHandover`, `ArgocdPause`, `Activation`, `PostActivation` and
`Finalization`, which in turn take for granted that a recorded step is skipped and an
unrecorded one runs again, and that a call either has its effect, or raises with or without
it: that is `ApiCall`, and `ApiClient` shows the client to keep it.  `Preflight` is what is
behind the one bit `PreflightPass` and `PreflightFail` are to `Switchover`.

### 2.1 Switchover

`disk` is the file, `mem` is `StateManager.state`, `dirty` is `_dirty`; `pc`, `h`
(handler) and `i` (step) are the program counter, `baseline` is
`_retry_error_baseline`, `ckpt` the checkpoint of validate-only.  Each action is
one write of the state file or one decision between two writes:

| Action | Code |
|---|---|
| `Launch`, `EnsureContexts` | `main` up to `run_switchover` |
| `BeginValidate`, `ForceReset`, `LeaveAlone`, `RetryFailed`, `ResumeUnfinished` | the branches of `run_switchover` on the recorded phase |
| `SkipHandler`, `EnterHandler`, `ModuleDone`, `Complete` | the loop over `phase_flow` |
| `SkipStep`, `RunStep`, `StepRaises`, `RecordStep` | `StepContext` around a step |
| `ReportError`, `FailPhase`, `SetFailed` | the `except` of a module, `_fail_phase` |
| `RestoreCheckpoint` | the `finally` of validate-only |
| `Abort` | the `except` of `main` |
| `Interrupt`, `Kill`, `TimePasses`, `*Raises` | Ctrl+C; SIGTERM, SIGKILL or a crash; the age of the state; failing writes |

Ctrl+C may come anywhere: inside the `try` of a validate-only run it passes through the `finally`
(`InTry`), inside the `finally` or after it it ends the run where it is.  `applied`, `tainted`, `failedAt`,
`stray` and `owner` are history: `stray` holds the phases of the errors that were added to a FAILED state
by something else than the phase that failed.

Every write goes through `Flush` or, where the disk is full, `FlushRaises`, which
leaves memory ahead of the file, as the code does.

Simplifications.  Only `mark_step_completed` leaves a dirty state; config values
are left to the components that use them.  There is one StateManager per
process, so the count of references to the run lock is not modelled.  The
error history is reduced to the phase of its last entry and to "longer than at the
baseline", which is all the code reads.  The quarantine of an unreadable file is
not modelled (`NeverTorn` says it is not needed for the tool's own writes).

### 2.2 RunLock

A process opens the lock file under the real path of the state file, asks for the
lock, loads, writes (write lock, temporary file, fsync, rename) and ends, or dies
at any point.  `Torn` is what a temporary file holds before fsync; documents
are numbered by their write.  `Linked` makes the path a symbolic link.  `flock`,
`rename` and the kernel closing the files of a dead process are external.

### 2.3 BackupHandover

The state of the hubs is the BackupSchedule of each, the Restores of B and which
objects are being deleted.  The five steps of `StepNames` are those of primary
preparation and finalization that touch backup, in their order; `recorded` counts
the recorded ones, and the labels of `pc` inside a step lie between two calls to the API.
`Stop` ends the process at any label, and as an action may or may not have
happened before it, that is a call that raises with or without its effect, too.

Simplifications.  `ensure_enabled` lists and writes in one step.  The
BackupCollision phase that `RecreateB` reads after a conflict is not told apart
from any other phase.  Verification of a fresh backup, the timestamps it
uses and the other values of `--old-hub-action` are in `Finalization`.  Another controller is allowed to act on B
only once the schedule of B has been verified (`recorded >= 3`).  B's schedule
is absent or paused at the start: two hubs that both write before the switchover
are not something it could have caused.

### 2.4 ArgocdPause

Per Application: does its `syncPolicy` have `automated` (`auto`), whose marker does it
carry (`mark`), and what does the state file say (`entry`).  The pause loop writes the
entry, patches, confirms the entry; resuming looks at marker and entry.  A
passive-sync restore may put an older Application in place of the one on hub B
(`Overwrite`) at any time, also before and while the loop runs, until finalization removes the Restores.
A patch that raises may have taken effect.

`drops` says what a patch does to a key it leaves out, and is one of `Drops` for a
whole behaviour.  `pause_autosync` sends `syncPolicy` without `automated`.  Kubernetes merges such a patch
(`drops` is FALSE), and the code relies on that to delete its annotation; the pause itself is written
as if the key were removed.  `ArgocdSafe` has both, and each of its properties is about both: what
carries the marker is in the file, the recorded step leaves a complete list, the resume restores it.
That the step pauses is false under merge semantics: `ArgocdMerge`.

The properties except an Application that is `Lost`, which no rerun takes up again because it has no auto-sync
to be removed: a restore has brought it back without, before the step was recorded (`brought`), or, only where a
patch drops keys, a patch took effect and raised (`raised`).  Both are history.

Simplifications.  Applications are not deleted and no new ones appear, the CRD is
installed, reading an Application for its resume fails like patching it.  What a restore brings is from before
this run's pause, so that it does not carry this run's marker.  The listing of hub B, which
the code makes after the loop over hub A, is drawn to the start of both loops.  A dry run does not reach this code.

### 2.5 Activation

The hub: `restores` holds the passive-sync Restore, the activation Restore and the full one,
each with its spec, its phase, its Velero restore of the managed clusters and whether
it is being deleted; then the autoImportStrategy, the ManagedClusters and their annotation.
The file: the recorded steps, the flag `auto_import_strategy_set`, and whether the phase is past ACTIVATION.
The labels of `pc` follow `activate` and, after it, `_run_reset_auto_import_strategy_step`:

| Actions | Code |
|---|---|
| `VerifyPassive` | `_verify_passive_sync` |
| `ReadStrategy`, `SetStrategy`, `StoreFlag`, `StrategyCallFails` | `_maybe_set_auto_import_strategy`, which passes over every exception |
| `BeginPatch`, `PatchPassive`, `ConfirmPatch` | `_activate_via_passive_sync`, `_verify_patch_applied` |
| `BeginSwap`, `DeletePassive`, `WaitGone`, `LookForTarget`, `CreateTarget`, `CreateFails`, `Rollback` | `_activate_via_restore_resource`, `_create_full_restore` |
| `PollRestore`, `PollVelero`, `CountClusters` | `_wait_for_restore_completion` |
| `PassOverAnnotate`, `ListClusters`, `Annotate`, `AnnotateFails`, `EndAnnotate` | `_apply_immediate_import_annotations` |
| `ReadReset`, `ReadResetFails`, `DeleteConfigMap`, `ClearFlag`, `RecordReset` | `_ensure_auto_import_default` |
| `Skip*`, `Record*` | `StepContext` |
| `RunEnds` | a kill, a timeout, a raising call |

The operators of the hub are external (`TakeUp`, `StartVelero`, `EndVelero`, `Settle`, `Remove`, `Import`): a Restore is
rejected while another is active, and one that syncs is Enabled before and after its managed
clusters were restored.  The variables `restored`, `marked`, `skipped` and `mine` are history: they
steer nothing and say what the properties ask for.

Simplifications.  The two ways to replace the Restore share their actions; that only activation by
restore has a rollback is in `BeginSwap` (the full method keeps no snapshot).  `manage` in a
command line stands for `--manage-auto-import-strategy` with `--old-hub-action secondary`.  The
resourceVersion that `_verify_patch_applied` compares is left out: reads that come back stale are failures of the
step.  A dry run does nothing of this.

### 2.6 Finalization and Decommission

B shows the Velero backups of both hubs, as they share the storage.  A backup is a number in the
order of creation, with a phase; `late` holds the backups whose timestamp is at or after
`backup_schedule_enabled_at`.  The file is the stored name and timestamp and how many steps are
recorded.  `Decommission` has A: observability, the ManagedClusters that exist and those that were
asked to go, the MultiClusterHub, and where a decommissioning is.  It keeps no record, and
`Finalization` starts it twice: without questions from `handle_old_hub`, and with or without by an
operator when all is done.

| Actions | Code |
|---|---|
| `EnableSchedule`, `StampEnabled` | `_enable_backup_schedule` |
| `FindBackup`, `NoBackupYet`, `NewBackupSeen`, `NoNewBackup` | `_verify_new_backups` with its three ways to find a backup |
| `ChooseSubject`, `AwaitCompletion`, `CheckAge` | `_verify_backup_integrity` |
| `SetUpStandby`, `BeginDecommission`, `EndDecommission` | `_handle_old_hub` |
| `DisableObservability`, `VerifyHealth`, `VerifyOldHub` | the steps of these names |
| `DeleteObservability`, `ListClusters`, `DeleteCluster`, `AllDeleted`, `AwaitRemoval`, `DeleteMultiClusterHub` | `Decommission` |
| `Stop` | a kill, a timeout or a call that raises, with or without its effect |

Nothing waits for the backups A has under way when its schedule is paused.  B shows them when they are over:
`Arrive` is the coming of one of them, at any time after B's schedule was enabled, completed or failed, its
timestamp before or after that of the schedule.  To the code it is a new backup, and it may be the one that is
recorded.  Which place it takes in the order by creation on B is left open (`Subject`).

`proof` is history, the backup that passed, and so is `arrived`.  External: `Create`, `Arrive`, `Progress`, `Fail`, `Age`, `Expire`
(Velero and its retention), `Discard` (an operator), the finalizers of A, and a cluster that is
imported again.

Simplifications.  The clocks of the tool and the hubs agree; a backup that is recorded belongs to ACM, and whether one does is data
(`Shown`).  `--old-hub-action` and the option about observability stay the same over reruns.  The
threshold of the age is longer than the interval of the schedule, so that the youngest backup is not too old.  That is what
`_get_backup_max_age_seconds` computes (`finalization.py:525-579`) where it can read the cron expression;
where it cannot it falls back to a fixed threshold, and a schedule that is less frequent than that is outside the model.
Waits for pods only warn and are left out, as are the Velero logs and dry runs.  Two bounds are in the guards: only the recorded
backup grows old while the runs look (`Age`), and the decommissioning by hand follows runs with `--old-hub-action none` (`Standalone`).

### 2.7 PostActivation and Klusterlet

`PostActivation` follows the clusters: the annotation that keeps a hub from importing them on A
(`held`) and on B (`flagged`), where it comes with the backup; which clusters report to B; A's
compactor, which runs, has no replicas while its pods are ending, or is gone (`compactor`); the components of B
without replicas; the recorded steps.  `Klusterlet` has the two
secrets of each cluster, which decide the hub it talks to, and the threads of the two pools.

| Actions | Code |
|---|---|
| `ListOldClusters`, `Annotate`, `AllAnnotated` | `_disable_auto_import` of primary preparation |
| `ScaleDown`, `LookAtPods` | `_scale_down_thanos_compactor`: it looks at the pods once, warns when there are any and goes on (`warned`) |
| `BriefWait`, `BeginRepair`, `EndRepair`, `LongWait` | `_verify_cluster_connections`: the repair is a step inside the step of the wait |
| `Check` | `check_cluster`, in the first pool |
| `GetImport`, `DeleteBootstrap`, `CreateBootstrap`, `Restart` | `fix_cluster`, in the second pool |
| `ListFlagged`, `Clear`, `VerifyCleared` | `_verify_disable_auto_import_cleared` |
| `ScaleUp`, `ScaledUp`, `VerifyObservability` | `_verify_observability_full` |

A failing call in a thread is logged, and the thread goes on or ends (`Despite`); `missed` is history and
holds the clusters a thread had to leave.  External are the pods of the compactor (`PodsEnd`), the import controllers of both hubs, the
klusterlets and the lease controller.  How they behave is taken from what the code and the
runbook expect of them.

Simplifications.  Available and Joined are one bit; matching a cluster with a context of the kubeconfig
is the constant `Reach`; the hub has observability; the activation is one step.

### 2.8 ApiClient implements ApiCall

`ApiCall` is the contract: a call ends well only if at some time during it the object was as the caller
wanted it, and raises with or without its effect.  `ApiClient` has the requests: one may not reach the
server or its answer may be lost, and the call is made again from the start up to `MaxAttempts` times
while others create, change and delete the object.  A create that meets a 409 reads the object again and compares.
The refinement maps the outcome "conflict" to "raised" and is proved.

What the contract does not promise, and callers must not rely on: a retry may repeat its effect over
a change somebody made in between, a delete ends well when the object is only on its way out, and so does a create that
meets an equal object which is being deleted.  A request takes effect before its call
is given up or never.

### 2.9 Preflight

One action per validator, or per call where a validator makes several, in the fixed order of `validate_all`; `failures`
is what `critical_failures()` returns.  The hubs go on living between any two: clusters are imported and removed,
ClusterDeployments edited, a round of backups is created, worked off, finalized and ends, observability comes and goes.
A call that fails becomes a critical failure where the code has a handler (`CallFails`) and ends the validation
where it has none (`Escapes`: the looks for namespaces and for the Thanos secret, and whatever is neither a
ValidationError nor an ApiException around the permission check).  The validators wait for a backup in phase InProgress only and
judge one they find New or Finalizing as it is (`JudgedAsIs`).  `Teardown` is the
deletion of the ManagedClusters at the end of the switchover, which destroys clusters whose
ClusterDeployment does not preserve them.  `listed`, `touched`, `exposed`, `appeared` and `disturbed` say what
the properties except.

Simplifications.  Validators that compare what they read with nothing else are facts, fixed for the run.
`StartsAssumption` is no more than the types of a start; the clusters there at the start are those of
the latest round, later ones come by `ImportCluster`.
One round of backups at a time; a managed-clusters backup and one of another kind stand for the round.

## 3. What is checked

| Run | Question | Answer |
|---|---|---|
| `SwitchoverSafe` | any sequence of real, validate-only, forced and resetting runs for two pairs of hubs, four adverse events | nothing skipped (`CompletedMeansEveryStep`), recorded means done (`RecordedMeansApplied`), the retry begins where it failed (`RetriesWhereItFailed`), progress and the phase found by validate-only survive (`NamedProgressKept`, `ValidateOnlyKeepsPhase`), the abstract workflow is implemented, and reruns complete it but for one failed write (`EventuallyCompletedOrForced`) |
| `SwitchoverDryRun` | does a recorded step mean that it was done when there were dry runs? | **no**: a dry run records its steps |
| `RunLockSafe` | three processes, one resetting, deaths anywhere | one run at a time, no torn file, no lost update |
| `BackupSafe` | three stops or failing calls anywhere, slow deletions, another controller | one writer, fresh schedule, and only two ways to get stuck |
| `ArgocdSafe` | an Application on each hub, four crashes, failing patches or lost answers, restores at any time, both kinds of patch | what carries the marker is recorded (`MarkedIsRecorded`), the recorded step leaves a confirmed entry for all that had auto-sync (`PauseIsConfirmed`), and they get it back, unless lost (`ResumedIsRestored`, `EventuallyResumed`) |
| `ArgocdMerge` | does the pause step pause under merge semantics? | **no**: the key is left out, not removed |
| `ActivationSafe` | three methods, three kills or failing calls with or without their effect, operators and an administrator of the hub | the clusters are waited for (`WaitedForClusters`), one Restore is in control (`OneRestoreInControl`, `CreatedAlone`), every cluster is marked, the flagged strategy is taken back, and reruns get to the end |
| `FinalizationSafe` | three actions for the old hub, backups of both hubs that fail, age and expire, two adverse events, a decommissioning by hand after it | before A goes, a completed backup that was not shown when B's schedule was enabled (`OldHubGoesAfterProof`), clusters before the MultiClusterHub (`HubAfterClusters`), recorded means decommissioned, and reruns get past a recorded backup that failed (`EventuallyFinalized`) |
| `PostActivationSafe` | two clusters, one imported late and out of reach, two failing calls, kills or clusters taken back | annotations where the record says (`AnnotationsInPlace`), clusters repaired unless missed (`RepairedUnlessMissed`), one compactor, or a warning that the old one still has pods (`OneCompactor`), and reruns end unless a cluster was missed by the only repair |
| `PostActivationOnce` | does the verification end when it is rerun, with nothing failing? | **no**: a cluster without its import secret yet is missed, and the repair is recorded |
| `ApiClientSafe` | four verbs, five attempts, requests and answers lost, four changes by others | `ApiCall` is implemented, a create recognises its own object, every call returns |
| `PreflightSafe` | 803 starting points, one failing call, two changes of the hubs | what passes is in the judged backup (`PassedMeansInBackup`), survives a decommissioning (`InfrastructureKept`) and is covered by permissions; a sound pair left in peace passes, unless a backup is found queued or being finalized (`SoundPairPasses`) |

The runs that answer "no" state what a document or comment of the repository says and
TLC refutes it; the lines are quoted in `PROJECT.json` under `findings`.

### 3.1 Bounds, and why they are enough

* `Switchover`: two steps in one phase and one in each other (order within a phase and
  between phases), two pairs of contexts (own and foreign), all command lines that
  the branches tell apart, four adverse events.  Four allow a failure, a kill of
  the retry, a failing write in the second retry and one more; the properties
  relate at most two runs and a reset between them.  The number of launches is
  not bounded.
* `RunLock`: three processes, because a lock passes from one to a second while a
  third resets; four writes, so that each process can write and one can rewrite.
* `BackupHandover`: two Restores, so that some deletions fail and some do not; three
  stops, one each in pausing, enabling and collision repair; two acts of another
  controller, one before and one after the tool's own creation.
* `ArgocdPause`: an Application that can be overwritten and one that cannot, as they touch each other only in the count of
  failures; four faults, so that the pause of both, a retry and the resume can be hit; two restores, before and
  after the pause of one Application.
* `Finalization`: two clusters; one backup of A, which is there or still under way, two of B's schedule and one that is not ACM's, so that a
  recorded backup can fail, age or expire and another follow; two adverse events, so that a backup can fail and the run
  that saw it stop, or a cluster come back and the rerun be hit.  Backups move until the step that
  looks at them last is recorded (`Watched`).  Of the bounds in the guards, only the age of the recorded backup is ever compared
  with the threshold, and a decommissioning by hand is the same after each of the three actions but finds most left to do after `none`.
* `PostActivation`: one cluster that is there from the start and within reach, and one that may be imported late and
  that no context reaches, so that the threads repair one while the other is left to the hubs; B can import both by
  itself.  Two adverse events hit two of the four calls of a repair, or the repair and the clearing of the
  annotation; the theorems have any number of clusters of every kind.  `PostActivationOnce` has two clusters within
  reach, which B cannot import by itself, and no faults at all.
* `ApiClient`: two bodies, because a conflict is about another body; the code's five attempts; four changes by
  others, which is a deletion and a creation on both sides of a retry.
* `Preflight`: two clusters, one of which can change between the listing and the comparison; two changes,
  so that a backup can be taken up and end, or one be created and a cluster imported in it; one failing call, as a second one
  adds a failure to a report that already fails.  The starting points are every mix of clusters and stages of a
  backup, and every mix of observability, permissions, options and one broken fact.
* `Activation`: two clusters (one restored or annotated, the other not) and a minimum of one; three
  faults, so that a creation can fail with its effect, its rerun be stopped, and a third
  event follow; the number of runs is not bounded otherwise.

`CHECK_DEADLOCK FALSE` is set for `BackupHandover`, `ArgocdPause`, `Activation`, `Finalization`, `PostActivation` and
`Preflight`, whose behaviours end when the last step is recorded or the verdict is reached.

### 3.2 Fairness

A process that nobody stops goes on, and the operator runs the command again:
weak fairness of `ProcessStep`, and of `Start` where it is an action (in `BackupHandover` and `ArgocdPause`
starting is part of `ProcessStep`).  In `Switchover` the launch of a run that is more than a
validation gets strong fairness, as another run may be on whenever the operator comes back; which command
line it is stays open: `EventuallyCompletedOrForced` holds although the operator may give any of them
each time.  Finalizers come to an end (`WF_vars(Gone)`).  In `ArgocdPause` the
operator may use `--argocd-resume-only` for ever, so that running the switchover
itself (`StartPause`, `StartResume`) gets strong fairness.  In `Activation`, `Start` and `Process` are weakly
fair, and so is each action of the hub's operators for each Restore: they get on with a Restore
that nobody deletes.  In `Finalization` Velero and its retention go on (`WF_vars(Velero)`): retention is what ends the reruns that
look at a failed backup.  In `PostActivation` the threads go on, and so does what klusterlets and hubs do by
themselves (`Moves`); that a klusterlet notices a new secret unasked is not counted on.  In `ApiClient` a request is
answered or given up.  `Preflight` has no fairness and no liveness: it has no loop but one with a
timeout.  Faults have no fairness and
are bounded.

## 4. What is proved

For every value of the constants, from the assumptions in the modules:

| Theorem | Property |
|---|---|
| `Switchover_proofs!TypeCorrect` | `TypeOK` |
| `Switchover_proofs!RecordedWorkIsDone` | `RecordedMeansApplied` |
| `Switchover_proofs!CompletionIsComplete` | `CompletedMeansEveryStep` |
| `Switchover_proofs!FailedRunsRetry` | `RetriesWhereItFailed` |
| `Switchover_proofs!ValidationIsNeutral` | `ValidateOnlyKeepsPhase` |
| `Switchover_proofs!ProgressIsKept` | `NamedProgressKept` |
| `Switchover_proofs!RealRunsResume` | `ImplementsResumableWorkflow`, where no invocation is a dry run |
| `Switchover_proofs!SkippingIsSoundWithoutDryRuns` | `SkippedWorkWasDone`, under the same assumption |
| `BeforeTheRun_proofs!TypeCorrect` | `TypeOK` |
| `BeforeTheRun_proofs!FileIsWhole` | `NeverTorn` |
| `BeforeTheRun_proofs!RunLockExcludes` | `OneRunAtATime` |
| `BeforeTheRun_proofs!UpdatesAreNotLost` | `NoLostUpdate` |
| `BeforeTheRun_proofs!ValidationTypeCorrect` | the types of `Preflight` |
| `BeforeTheRun_proofs!PassingCoversClusters` | `PassedMeansInBackup` |
| `BeforeTheRun_proofs!TeardownSparesChecked` | `InfrastructureKept` |
| `BeforeTheRun_proofs!SoundPairsAreAccepted` | `SoundPairPasses` |
| `BeforeTheRun_proofs!PermissionsReachUse` | `PermissionsCoverUse` |
| `BackupHandover_proofs!TypeCorrect` | `TypeOK` |
| `BackupHandover_proofs!OneWriterAtATime` | `OneWriter` |
| `BackupHandover_proofs!FinishedIsBackedUp` | `FinishedMeansBackedUp` |
| `BackupHandover_proofs!CollisionIsFixed` | `CollisionFixed` |
| `BackupHandover_proofs!ScheduleWaitsForRestores` | `NoScheduleOverLiveRestore` |
| `ArgocdPause_proofs!TypeCorrect` | `TypeOK` |
| `ArgocdPause_proofs!MarksAreRecorded` | `MarkedIsRecorded` |
| `ArgocdPause_proofs!PausesAreConfirmed` | `PauseIsConfirmed` |
| `ArgocdPause_proofs!ResumeRestores` | `ResumedIsRestored` |
| `Activation_proofs!TypeCorrect` | `TypeOK` |
| `Activation_proofs!WaitIsReal` | `WaitedForClusters` |
| `Activation_proofs!OneRestoreRemains` | `OneRestoreInControl` |
| `Activation_proofs!RestoresAreCreatedAlone` | `CreatedAlone` |
| `Activation_proofs!ClustersAreMarked` | `EveryClusterMarked` |
| `Activation_proofs!StrategyIsTakenBack` | `FlaggedStrategyTakenBack` |
| `Finalization_proofs!TypeCorrect` | `TypeOK` |
| `Finalization_proofs!ProofComesFirst` | `OldHubGoesAfterProof` |
| `Finalization_proofs!HubGoesLast` | `HubAfterClusters` |
| `Finalization_proofs!DecommissionedInFact` | `RecordedMeansDecommissioned` |
| `PostActivation_proofs!TypeCorrect` | `TypeOK` |
| `PostActivation_proofs!AnnotationsHold` | `AnnotationsInPlace` |
| `PostActivation_proofs!RepairsHold` | `RepairedUnlessMissed` |
| `PostActivation_proofs!CompactorsApart` | `OneCompactor` |
| `ApiClient_proofs!TypeCorrect` | `TypeOK` |
| `ApiClient_proofs!ConflictsAreForeign` | `OwnCreateIsRecognised` |
| `ApiClient_proofs!Refinement` | `ImplementsApiCall` |

**Switchover.**  `RecordedMeansApplied` is about the file, but a step is recorded in
memory first, so `AppliedInv` says it of `mem` and `disk` both and that a process about to record has
just done the work.  For `CompletedMeansEveryStep` the invariant `OrderInv` says that the recorded
phase, in memory and in the file, implies that every step of every earlier phase is recorded, and
the same of the position of the running process (`h`, `i`), of the phase of the
last error, of the retried phase and of the checkpoint: a retry reads the phase
from the error and a validate-only run puts back the one of the checkpoint, so
these are the ways in which a phase could outrun its steps.

The rest rests on what memory and file say of each other, `FileInv`.  `InSync` says that memory is ahead
of the file in its phase only on the way out, and in its steps only by the one step whose write has
just raised, which no run goes on from.  `OwnerInv` says that a document with progress which names its
hubs names those of the run that recorded it last: `ensure_contexts` has compared them by the time the phases are dispatched,
so that another run cannot have dropped it unasked (`NamedProgressKept`, from one fact per
action that writes, `FileMoves`).  `FailedInv` says of memory, of file and of the
checkpoint that a FAILED phase comes with the error of the phase it came from or a `stray` one, `ValidateInv` that a validate-only
run goes through FAILED from PREFLIGHT only and has its phase back when it aborts.  From these
`ValidateOnlyKeepsPhase` follows for every way out of `InTry`; what it excepts is a kill, and a Ctrl+C or another failed
write after it, while the phase is on its way back.

For the refinement each write of the file is a step of `ResumableWorkflow` or a stutter, and `OrderInv`
gives the one fact the abstract guard asks for: the step at position `i` of the plan of phase `h` is
reached only when all the steps before it, in the concatenation of the plans, are recorded (`PlanStands`, from
lemmas on `\o` and positions).  Dry runs are excluded by assumption, for with them the refinement is false: a dry run
records what nobody did, as `SwitchoverDryRun` shows; `SkippingIsSoundWithoutDryRuns` says that this is the only
way it happens.  That no invocation is dry taints no state is `NeverTainted`.

**RunLock.**  The theorems on exclusion assume `Linked = FALSE`: the name of the lock is
the real path of the file at construction, which the first rename changes when the
path is a link.  Under that assumption every process has opened the same lock
file, and who is past it is its holder.  `NoLostUpdate` adds that while a process is past the
lock, what it has seen is what the file holds, or the file has been removed.

**Preflight.**  `ValidationInv` is one invariant in named parts, each tied to the place `at` of the validation, and no
assumption is made on the bounds.  `PermissionsInv` says what the checks have established while none has failed: where they were left out,
there was no observability, or it has appeared since.  `DeploymentsInv` says that after the
listing a cluster without protection is one that is exposed.  `RoundInv` follows a round of backups
on the hub (a cluster older than it is in what it starts from, and in what it holds when
completed), and `BackupInv` carries that over to the copy the validation compares with: the hub may begin
another round in the meantime and the verdict is about the old one.  `SoundPairPasses` is a statement about histories, that
nothing disturbed the hubs; `PeaceInv` says what is then still true of what was read, and `ReasonsInv` that each
critical failure has a reason on the hubs.  It is kept because in peace
only a backup may complete, and the check of the clusters fails only when none is running any more.

**BackupHandover.**  `PlaceInv` ties `pc` to `recorded`, `WriterInv` says that from the first
recorded step on A is not enabled (and that before it B is not),
`RecreateInv` what `fix_backup_collision` knows between its calls, and `UidInv` that uids are
fresh.  `CollisionFixed` is an instance: what is recreated is newer than what was verified.  `LiveInv`
says that from the end of the clean-up on, or once B has an enabled schedule, every Restore of B has been asked to go, and that
during the clean-up the others are on its list or it has failed: the schedule is
reached through the recorded clean-up only, and no Restore of B comes after it.

**ArgocdPause.**  No assumption on the kind of patch, on the effect of one that raises, or on when a restore
overwrites.  `MarkInv` says what marker, auto-sync and entry of an Application say of each
other, and what has happened to one that lacks one of them; `PauseInv` that the loop passes over an Application only
when it has an entry, needs none or is lost (`Passed`), as what it has listed may no longer be true, and that what is
behind it is settled or counted as a failure; `PausedInv` that the recorded step leaves
every entry confirmed and every Application settled; `ResumeInv` that
the resume leaves nothing behind it, and that nothing is overwritten once it runs.

**Activation.**  No assumption on `Ambiguous` or on the faults.  `RestoreInv` says which Restores can be
there at each label: once the deletion has been waited for none but the target, once the
activation is recorded exactly the target.  `WaitInv` ties a completed Velero
restore to `restored`, so that passing `PollVelero`, or seeing a full Restore Finished, is
enough for the wait.  `MarkInv` says that while the clusters are annotated each one is
marked, still to do, or counted as a failure; none appears, for the Velero restore is done.  `FlagInv`
ties the flag, the strategy and `mine` at each label of setting and resetting.  The two action
properties follow from a form for each action (`AloneStep`, `FlagStep`).

**Finalization.**  `Placed` ties `pc` to `recorded`.  `News` are the backups that may pass for new: B's own, and those A had under
way.  `OldOnesStay` says that the others of A are on the list the verification starts from and that none is late,
`Named` that the recorded backup is a new one, is there or was, and is known from the verification on, and `Chosen` that the integrity check looks at nothing else unless that one is gone: together they are why a
backup that A had completed before cannot pass.  `HubLast` says what each part of a decommissioning leaves behind it; clusters that
an earlier run sent away are on the list of the next one, so that a run that gets past the wait has
waited for them too.  `RecordedMeansDecommissioned` follows because no cluster comes back once the MultiClusterHub is going.

**PostActivation.**  `Ordered` says that the steps on the old hub and the activation are recorded before all others; with `Scaled`, that a recorded scale-down
means the compactor is gone or was warned about, that is `OneCompactor`.  `Annotated` says that a cluster of the first listing is held or
still to do.  For the repair, `Still` says that no agent has moved before the activation, `NotTakenBack` that a held cluster is
not imported by A again, and `Repairing` how far the thread of each cluster has come.  The threads are quantified, so the
proof is for any number of them in any order.

**ApiClient.**  `Noted` says that the history has missed nothing and `Alone` that a create which nobody else interferes with meets no
object but its own; the first makes every end of a call an end the contract allows, the second makes a
conflict somebody else's.  `Refinement` has one step per action: it maps to a step of `ApiCall` or to a stutter.

### 4.1 Only model-checked

Everything under fairness (`EventuallyCompletedOrForced`, `EventuallyHandedOverOrStuck`,
`EventuallyResumed`, `EventuallyActivated`, `EventuallyFinalized`, `EventuallyVerifiedOrAbandoned`, `EventuallyReturns`);
TLAPS does not reason about liveness here.  Every invariant, action property and refinement that a passing run
checks is also a theorem.  Of the refuted properties `SkippedWorkWasDone` has its positive
counterpart in `Switchover_proofs!SkippingIsSoundWithoutDryRuns`; `PauseStepPauses` has none, as the API the
tool talks to always merges, and `EventuallyVerified` is liveness.

## 5. Known limits

Of the code, as the models show it, where no run has a property of its own for it:

* A write that fails exactly when FAILED is to be stored leaves an error of phase
  `failed`, from which only `--force` gets on: the exception of `EventuallyCompletedOrForced`.
* A run with `--force` that resets the state stores no contexts; the next start takes a file without contexts that
  has progress for foreign and resets it, so that what the forced run recorded is done again.  `NamedProgressKept`
  speaks of the progress of files that name their contexts.
* `--reset-state` removes the file before it asks for the lock, also while another process is using it; that process writes
  it again, and the second one is refused.
* A stop between the deletion and the recreation of a schedule in collision leaves B without one, and every rerun raises:
  one of the two ways to get stuck that `EventuallyHandedOverOrStuck` names.
* A stop between the patch of the autoImportStrategy and its flag leaves ImportAndSync for good; `FlaggedStrategyTakenBack` is about
  the flagged one.
* For an ACM before 2.12 a paused schedule of B is left as it is, in trust that the restore unpauses it; the runs take the constant for
  2.12 and later.
* A patch that raised although it took effect makes the pause remove the entry of an
  Application it has paused; `docs/development/architecture.md:300` says that the tool records exactly which ones it paused.  A rerun
  writes the entry again before the step is recorded, unless the Application has lost its auto-sync: `MarkedIsRecorded` names the case.
* An Application of hub B that a restore brings back without auto-sync before its pause is recorded is never given it back
  (`brought`).
* A validate-only run that is killed leaves its phase behind, and so does one whose `finally` meets a Ctrl+C or a failing
  write: `restore_runtime_checkpoint` is not protected against them.
* A validate-only run that fails on a FAILED state adds an error to it: of phase `preflight`, and the next run retries
  preflight instead of the phase that failed, or, when it raised, of phase `failed`, and only `--force` gets on.  No step is lost by
  it; `stray` is what `RetriesWhereItFailed` allows.
* Nothing waits for the backups A has under way when its schedule is paused; one that B comes to show after
  its own schedule was enabled is taken for B's, and A may be taken apart on its account.
  `OldHubGoesAfterProof` names it (`arrived`).
* The verification of backups gets past a recorded one that failed only because a fresh one is not too old, which needs a cron
  expression the code can read (2.6).
* The scale-down of A's compactor is recorded when its pods are still running; the run warns and the two compactors
  may run together (`OneCompactor`).
* `--min-managed-clusters` is enforced on the passive methods only: the full method does
  not reach `_verify_managed_clusters_restored`.  `WaitedForClusters` says what the code does.
* A Restore that failed is found and taken for the run's own by every rerun, until someone removes it;
  `EventuallyActivated` excepts it, as it does a backup with too few clusters.
* A strategy that cannot be read makes the annotation step pass over the clusters, and the
  step is recorded; `EveryClusterMarked` excepts it.
* An operator who deletes the recorded backup because it failed lets the integrity check fall back to the youngest ACM
  backup, which may be one of A's; one that is older than the schedule passes with a warning
  (`OldHubGoesAfterProof` names it).
* A decommissioning reports success when the MultiClusterHub was asked to go; its wait for the pods only warns.  A
  standalone decommissioning looks at no ClusterDeployment.
* Preflight refuses a pair of hubs of which one has observability: the namespace is missing on the other, which counts as missing
  permissions although the message says that their checks are skipped.  A backup in the queue ("New") or being finalized is not waited for and
  fails the check, and so may one created in the same second as a completed one.  Clusters that are not joined are not
  compared with the backup, and a completion time that cannot be parsed passes (not modelled).

Of the models:

* The administrator of `Activation` does not set ImportAndSync while the tool's own is in effect under its
  flag, or between the tool's two calls: nobody could tell the two choices apart.
* Deleting the ConfigMap takes back the strategy and with it every other key of it; no other key is
  modelled.
* Dry runs are in `Switchover` only, where they share the file with real ones; elsewhere they do nothing.

### 5.1 Not modelled

* `lib/waiter.py` is a loop over a clock around one condition; each module has its two outcomes as a step.
* Input validation, GitOps detection, the state viewer and `check_rbac.py` check strings, collect warnings and format: nothing
  depends on their order.
* The permission tables of `lib/rbac_validator.py`, the discovery of Argo CD and the merging of kubeconfigs are data.
* Reads of the API client: paging, logs, waiting for pods.  They change nothing, and a read that fails is a failing call.
* The shell scripts are a separate tool set, `deploy/` and `container-bootstrap/` are packaging.  Two thirds of the Python of the
  repository by lines is one file there, the vendored installer `get-pip.py` with its encoded archive; of the tool itself about
  half of the lines are behind a definition of the models.
* A composition of all components into one state machine: each pair that shares state on a hub is in one module, and
  what they share through the state file is the contract of 2.1.

## 6. Plan

1. Proofs: contracts between the modules, for instance that what `Switchover` takes for granted of a step is what the
   theorems of the step's own module say.
2. The preflight verdict and what becomes of it in `Switchover`: a rerun passes over the validation.
3. Several passive-sync Restores on B, and the choice among them.
4. Reads of the API client: a listing in pages while objects come and go.
