------------------------------ MODULE Activation ------------------------------
(***************************************************************************)
(* Activating hub B (modules/activation.py) and, in the finalization of    *)
(* the same flow, taking back the temporary autoImportStrategy.  The       *)
(* passive-sync Restore is patched in place, or deleted and replaced by an *)
(* activation Restore or a full one; the tool then waits for Velero and    *)
(* marks the ManagedClusters for import.  Runs end anywhere and the        *)
(* operator repeats the command, with the same options.                    *)
(*                                                                         *)
(* Data abstraction.  Of a Restore there is its spec (are the managed      *)
(* clusters "latest" or "skip", does it sync with new backups), its phase, *)
(* its Velero restore of the managed clusters and whether it is being      *)
(* deleted.  "Finished" stands for Completed and for FinishedWithErrors    *)
(* with nothing but "already available"; "Failed" for every phase the code *)
(* calls a failure.  Reads that come back stale, and timeouts, are         *)
(* failures of the step.  The tool does nothing of this in a dry run.      *)
(***************************************************************************)
EXTENDS Naturals, FiniteSets

CONSTANTS
  Clusters,   \* the ManagedClusters but local-cluster
  None,
  Options,    \* the command lines: records of method, modern and manage
  MinClusters,\* --min-managed-clusters
  Ambiguous,  \* may a call that raises have taken effect?
  MaxFaults   \* bound on failing calls, timeouts and kills

Methods == {"patch", "restore", "full"}

ASSUME ClustersAssumption == IsFiniteSet(Clusters)
ASSUME OptionsAssumption ==
  Options \subseteq [method : Methods, modern : BOOLEAN, manage : BOOLEAN]
ASSUME BoundsAssumption ==
  MinClusters \in Nat /\ Ambiguous \in BOOLEAN /\ MaxFaults \in Nat

VARIABLES
  restores,  \* the Restores of hub B, None where there is none
  strategy,  \* autoImportStrategy: "absent", "only" or "sync"
  known,     \* the ManagedClusters that exist on hub B
  import,    \* import[c]: its annotation is missing, set or used up
  steps,     \* the steps recorded in the state file
  flag,      \* auto_import_strategy_set in the state file
  past,      \* the phase in the state file is past ACTIVATION
  opts,      \* the command line
  pc,        \* where the process is; "down" when there is none
  snapshot,  \* passive_restore_snapshot: the spec, or None
  todo,      \* clusters still to be annotated
  failures,  \* is the list of that name not empty?
  faults,
  restored,  \* history: Velero has restored the managed clusters
  marked,    \* history: clusters seen or put in the state "set" by the tool
  skipped,   \* history: the annotation step was passed over
  mine       \* history: the strategy "sync" is the tool's

hub == <<restores, strategy, known, import>>
file == <<steps, flag, past>>
locals == <<snapshot, todo, failures>>
history == <<restored, marked, skipped, mine>>
vars == <<restores, strategy, known, import, steps, flag, past, opts, pc,
          snapshot, todo, failures, faults, restored, marked, skipped, mine>>

Names == {"passive", "activate", "full"}
RestoreSpec == [mc : BOOLEAN, sync : BOOLEAN]
RestorePhases == {"new", "Running", "Enabled", "Finished", "Failed"}
VeleroPhases == {"none", "running", "completed", "failed"}
Restore == [spec : RestoreSpec, phase : RestorePhases, velero : VeleroPhases, dying : BOOLEAN]
ASSUME NoneAssumption == None \notin Restore \cup RestoreSpec

StepNames == {"verify_passive_sync", "activate_managed_clusters", "create_full_restore",
              "wait_restore_completion", "apply_immediate_import_annotations",
              "reset_auto_import_strategy"}
Labels == {"down", "verify", "strategy", "set", "flag", "activate", "patch", "confirm",
           "delete", "gone", "look", "create", "rollback", "record", "wait", "velero",
           "count", "finish", "annotate", "annotating", "activated", "reset", "unset",
           "clear", "put_back", "done"}

Passive == opts.method # "full"

\* _activation_restore_name: the Restore that activates.
Target == CASE opts.method = "patch" -> "passive"
            [] opts.method = "restore" -> "activate"
            [] OTHER -> "full"

ActivationStep ==
  IF Passive THEN "activate_managed_clusters" ELSE "create_full_restore"

Exists(n) == restores[n] # None

\* What a create request asks for.
Created(spec) == [spec |-> spec, phase |-> "new", velero |-> "none", dying |-> FALSE]
Activating == [mc |-> TRUE, sync |-> FALSE]

Adverse == faults < MaxFaults /\ faults' = faults + 1

Record(s) == steps' = steps \cup {s} /\ UNCHANGED <<flag, past>>

Goto(label) == pc' = label /\ UNCHANGED <<opts, faults>>

\* The exception that ends the run for a reason the hub gives.
Raise == Goto("down")

-----------------------------------------------------------------------------
(* SecondaryActivation.activate. *)

\* A run begins with the phase handler the file asks for.
Start ==
  /\ pc = "down"
  /\ Goto(IF past THEN "reset" ELSE IF Passive THEN "verify" ELSE "strategy")
  /\ snapshot' = None /\ todo' = {} /\ failures' = FALSE
  /\ UNCHANGED <<hub, file, history>>

\* _verify_passive_sync: the Restore is there and in a phase that is good enough.
VerifyPassive ==
  /\ pc = "verify"
  /\ \/ /\ "verify_passive_sync" \in steps
        /\ Goto("strategy") /\ UNCHANGED file
     \/ /\ "verify_passive_sync" \notin steps
        /\ Exists("passive") /\ restores["passive"].phase \in {"Running", "Enabled", "Finished"}
        /\ Record("verify_passive_sync") /\ Goto("strategy")
     \/ /\ "verify_passive_sync" \notin steps
        /\ Exists("passive") => restores["passive"].phase \in {"new", "Failed"}
        /\ Raise /\ UNCHANGED file
  /\ UNCHANGED <<hub, locals, history>>

\* _maybe_set_auto_import_strategy, up to its decision: not for an old ACM, an
\* empty hub, without the option, or when the strategy is there already.
ReadStrategy ==
  /\ pc = "strategy"
  /\ Goto(IF opts.modern /\ opts.manage /\ known # {} /\ strategy # "sync"
            THEN "set" ELSE "activate")
  /\ UNCHANGED <<hub, file, locals, history>>

PutSync == strategy' = "sync" /\ mine' = TRUE

SetStrategy ==
  /\ pc = "set"
  /\ PutSync
  /\ Goto("flag")
  /\ UNCHANGED <<restores, known, import, file, locals, restored, marked, skipped>>

\* The config value is stored after the change it is about.
StoreFlag ==
  /\ pc = "flag"
  /\ flag' = TRUE
  /\ Goto("activate")
  /\ UNCHANGED <<hub, steps, past, locals, history>>

\* Every exception in it is logged and passed over.
StrategyCallFails ==
  /\ pc \in {"strategy", "set"}
  /\ Adverse
  /\ UNCHANGED <<strategy, mine>> \/ (pc = "set" /\ Ambiguous /\ PutSync)
  /\ pc' = "activate"
  /\ UNCHANGED <<restores, known, import, file, opts, locals, restored, marked, skipped>>

\* The step activate_managed_clusters or create_full_restore.
SkipActivation ==
  /\ pc = "activate" /\ ActivationStep \in steps
  /\ Goto("wait")
  /\ UNCHANGED <<hub, file, locals, history>>

\* _activate_via_passive_sync: the Restore is read, and patched unless it is
\* activating already.
BeginPatch ==
  /\ pc = "activate" /\ opts.method = "patch" /\ ActivationStep \notin steps
  /\ Goto(CASE ~Exists("passive") -> "down"
             [] Exists("passive") /\ restores["passive"].spec.mc -> "record"
             [] OTHER -> "patch")
  /\ UNCHANGED <<hub, file, locals, history>>

SetLatest == restores' = [restores EXCEPT !["passive"].spec.mc = TRUE]

PatchPassive ==
  /\ pc = "patch" /\ Exists("passive")
  /\ SetLatest
  /\ Goto("confirm")
  /\ UNCHANGED <<strategy, known, import, file, locals, history>>

\* _verify_patch_applied: another version is read back, with the new value.
ConfirmPatch ==
  /\ pc = "confirm"
  /\ Goto(IF Exists("passive") /\ restores["passive"].spec.mc THEN "record" ELSE "down")
  /\ UNCHANGED <<hub, file, locals, history>>

\* Mutant: a target from an earlier run is looked for first, and taken as is.
MutSwapDone ==
  /\ pc = "activate" /\ opts.method # "patch" /\ ActivationStep \notin steps
  /\ snapshot' = IF Exists("passive") /\ Passive THEN restores["passive"].spec ELSE None
  /\ Goto(IF Exists(Target) THEN "record" ELSE IF Exists("passive") THEN "delete" ELSE "look")
  /\ UNCHANGED <<hub, file, todo, failures, history>>

\* Mutant: the Restore must be there, as for the patch.
MutSwapMissing ==
  /\ pc = "activate" /\ opts.method # "patch" /\ ActivationStep \notin steps
  /\ snapshot' = IF Exists("passive") /\ Passive THEN restores["passive"].spec ELSE None
  /\ Goto(IF Exists("passive") THEN "delete" ELSE "down")
  /\ UNCHANGED <<hub, file, todo, failures, history>>

\* _activate_via_restore_resource and _create_full_restore: the passive-sync
\* Restore goes first, when there is one; only the former keeps its spec.
BeginSwap ==
  /\ pc = "activate" /\ opts.method # "patch" /\ ActivationStep \notin steps
  /\ snapshot' = IF Exists("passive") /\ Passive THEN restores["passive"].spec ELSE None
  /\ Goto(IF Exists("passive") THEN "delete" ELSE "look")
  /\ UNCHANGED <<hub, file, todo, failures, history>>

\* The object stays until its finalizers are done.
AskToGo == restores' = [restores EXCEPT !["passive"].dying = TRUE]

DeletePassive ==
  /\ pc = "delete"
  /\ IF Exists("passive") THEN AskToGo ELSE UNCHANGED restores
  /\ Goto("gone")
  /\ UNCHANGED <<strategy, known, import, file, locals, history>>

\* Mutant: no wait for the deletion.
MutWaitGone ==
  /\ pc = "gone"
  /\ Goto("look")
  /\ UNCHANGED <<hub, file, locals, history>>

\* _wait_for_restore_deletion.
WaitGone ==
  /\ pc = "gone" /\ ~Exists("passive")
  /\ Goto("look")
  /\ UNCHANGED <<hub, file, locals, history>>

\* A Restore of the name to be created is taken for ours.
LookForTarget ==
  /\ pc = "look"
  /\ Goto(IF Exists(Target) THEN "record" ELSE "create")
  /\ UNCHANGED <<hub, file, locals, history>>

Create(n, spec) == restores' = [restores EXCEPT ![n] = Created(spec)]

CreateTarget ==
  /\ pc = "create"
  /\ IF Exists(Target) THEN UNCHANGED restores ELSE Create(Target, Activating)
  /\ Goto("record")
  /\ UNCHANGED <<strategy, known, import, file, locals, history>>

\* All attempts to create it have failed: the old Restore is to come back, when
\* this run has deleted it.
CreateFails ==
  /\ pc = "create"
  /\ Adverse
  /\ UNCHANGED restores \/ (Ambiguous /\ ~Exists(Target) /\ Create(Target, Activating))
  /\ pc' = IF snapshot # None THEN "rollback" ELSE "down"
  /\ UNCHANGED <<strategy, known, import, file, opts, locals, history>>

\* _recreate_restore_from_snapshot; the run ends in any case.
Rollback ==
  /\ pc = "rollback"
  /\ IF Exists("passive") THEN UNCHANGED restores ELSE Create("passive", snapshot)
  /\ Raise
  /\ UNCHANGED <<strategy, known, import, file, locals, history>>

RecordActivation ==
  /\ pc = "record"
  /\ Record(ActivationStep) /\ Goto("wait")
  /\ UNCHANGED <<hub, locals, history>>

-----------------------------------------------------------------------------
(* _wait_for_restore_completion and the two waits inside it. *)

SkipWait ==
  /\ pc = "wait" /\ "wait_restore_completion" \in steps
  /\ Goto("annotate")
  /\ UNCHANGED <<hub, file, locals, history>>

\* Mutant: the phase of the Restore is all that is waited for.
MutPollRestore ==
  /\ pc = "wait" /\ "wait_restore_completion" \notin steps
  /\ \/ /\ ~Exists(Target) \/ restores[Target].phase = "Failed"
        /\ Raise
     \/ /\ Exists(Target)
        /\ \/ Passive /\ restores[Target].phase = "Enabled"
           \/ restores[Target].phase = "Finished"
        /\ Goto("finish")
  /\ UNCHANGED <<hub, file, locals, history>>

\* "Enabled" is success for the passive methods, also when it is from before
\* the patch; a Restore that is not there, or has failed, raises.
PollRestore ==
  /\ pc = "wait" /\ "wait_restore_completion" \notin steps
  /\ \/ /\ ~Exists(Target) \/ restores[Target].phase = "Failed"
        /\ Raise
     \/ /\ Exists(Target)
        /\ \/ Passive /\ restores[Target].phase = "Enabled"
           \/ restores[Target].phase = "Finished"
        /\ Goto(IF Passive THEN "velero" ELSE "finish")
  /\ UNCHANGED <<hub, file, locals, history>>

\* _wait_for_managed_clusters_velero_restore.
PollVelero ==
  /\ pc = "velero" /\ Exists(Target)
  /\ \/ restores[Target].velero = "completed" /\ Goto("count")
     \/ restores[Target].velero = "failed" /\ Raise
  /\ UNCHANGED <<hub, file, locals, history>>

\* _verify_managed_clusters_restored; the full restore does not come here.
CountClusters ==
  /\ pc = "count"
  /\ Goto(IF Cardinality(known) >= MinClusters THEN "finish" ELSE "down")
  /\ UNCHANGED <<hub, file, locals, history>>

RecordWait ==
  /\ pc = "finish"
  /\ Record("wait_restore_completion") /\ Goto("annotate")
  /\ UNCHANGED <<hub, locals, history>>

-----------------------------------------------------------------------------
(* _apply_immediate_import_annotations. *)

SkipAnnotate ==
  /\ pc = "annotate" /\ "apply_immediate_import_annotations" \in steps
  /\ Goto("activated")
  /\ UNCHANGED <<hub, file, locals, history>>

\* Not for an old ACM, under another strategy, or when the strategy cannot be
\* read; the step counts as done all the same.
PassOverAnnotate ==
  /\ pc = "annotate" /\ "apply_immediate_import_annotations" \notin steps
  /\ Record("apply_immediate_import_annotations")
  /\ skipped' = TRUE
  /\ pc' = "activated"
  /\ \/ (~opts.modern \/ strategy = "sync") /\ UNCHANGED faults
     \/ opts.modern /\ Adverse
  /\ UNCHANGED <<hub, opts, locals, restored, marked, mine>>

\* Mutant: an annotation of any value is taken for a mark.
MutListClusters ==
  /\ pc = "annotate" /\ "apply_immediate_import_annotations" \notin steps
  /\ opts.modern /\ strategy # "sync"
  /\ todo' = {c \in known : import[c] = "missing"} /\ failures' = FALSE
  /\ marked' = marked \cup {c \in known : import[c] = "set"}
  /\ Goto("annotating")
  /\ UNCHANGED <<hub, file, snapshot, restored, skipped, mine>>

\* The ManagedClusters whose annotation is not the empty string.
ListClusters ==
  /\ pc = "annotate" /\ "apply_immediate_import_annotations" \notin steps
  /\ opts.modern /\ strategy # "sync"
  /\ todo' = {c \in known : import[c] # "set"} /\ failures' = FALSE
  /\ marked' = marked \cup {c \in known : import[c] = "set"}
  /\ Goto("annotating")
  /\ UNCHANGED <<hub, file, snapshot, restored, skipped, mine>>

Annotate(c) ==
  /\ pc = "annotating" /\ c \in todo
  /\ import' = [import EXCEPT ![c] = "set"]
  /\ marked' = marked \cup {c}
  /\ todo' = todo \ {c}
  /\ Goto("annotating")
  /\ UNCHANGED <<restores, strategy, known, file, snapshot, failures, restored, skipped, mine>>

\* Removing a used-up value and setting the new one are two calls; the next
\* cluster has its turn after a failure.
AnnotateFails(c) ==
  /\ pc = "annotating" /\ c \in todo
  /\ Adverse
  /\ \E value \in {import[c], "missing"} \cup (IF Ambiguous THEN {"set"} ELSE {}) :
       import' = [import EXCEPT ![c] = value]
  /\ failures' = TRUE
  /\ todo' = todo \ {c}
  /\ UNCHANGED <<restores, strategy, known, file, opts, pc, snapshot, history>>

EndAnnotate ==
  /\ pc = "annotating" /\ todo = {}
  /\ IF failures THEN Raise /\ UNCHANGED file
     ELSE Record("apply_immediate_import_annotations") /\ Goto("activated")
  /\ UNCHANGED <<hub, locals, history>>

\* The handler of the next phase stores that phase.
LeaveActivation ==
  /\ pc = "activated"
  /\ past' = TRUE
  /\ Goto("reset")
  /\ UNCHANGED <<hub, steps, flag, locals, history>>

-----------------------------------------------------------------------------
(* Finalization._run_reset_auto_import_strategy_step. *)

ResetNothing ==
  /\ pc = "reset"
  /\ ~opts.modern \/ "reset_auto_import_strategy" \in steps
  /\ Goto("done")
  /\ UNCHANGED <<hub, file, locals, history>>

ResetDue ==
  pc = "reset" /\ opts.modern /\ "reset_auto_import_strategy" \notin steps

\* What _ensure_auto_import_default makes of the ConfigMap and the flag; "sync"
\* without the flag is left alone with a warning, and the step not recorded.
ReadReset ==
  /\ ResetDue
  /\ Goto(CASE strategy # "sync" /\ flag -> "clear"
             [] strategy # "sync" /\ ~flag -> "put_back"
             [] strategy = "sync" /\ flag -> "unset"
             [] OTHER -> "done")
  /\ UNCHANGED <<hub, file, locals, history>>

\* Mutant: what cannot be read counts as reset.
MutReadResetFails ==
  /\ ResetDue
  /\ Adverse
  /\ pc' = "put_back"
  /\ UNCHANGED <<hub, file, opts, locals, history>>

\* A failure to read is for the flag to judge: with it the run fails, without
\* it the step counts as done.
ReadResetFails ==
  /\ ResetDue
  /\ Adverse
  /\ pc' = IF flag THEN "down" ELSE "put_back"
  /\ UNCHANGED <<hub, file, opts, locals, history>>

DeleteConfigMap ==
  /\ pc = "unset"
  /\ strategy' = "absent" /\ mine' = FALSE
  /\ Goto("clear")
  /\ UNCHANGED <<restores, known, import, file, locals, restored, marked, skipped>>

ClearFlag ==
  /\ pc = "clear"
  /\ flag' = FALSE
  /\ Goto("put_back")
  /\ UNCHANGED <<hub, steps, past, locals, history>>

RecordReset ==
  /\ pc = "put_back"
  /\ Record("reset_auto_import_strategy") /\ Goto("done")
  /\ UNCHANGED <<hub, locals, history>>

-----------------------------------------------------------------------------
(* The environment. *)

\* A kill, a timeout, or an API call that raises, with its effect (the call and
\* then this) or without.
RunEnds ==
  /\ pc \notin {"down", "done"}
  /\ Adverse
  /\ pc' = "down"
  /\ UNCHANGED <<hub, file, opts, locals, history>>

Running(n) == Exists(n) /\ restores[n].phase \in {"Running", "Enabled"}

\* ACM takes a new Restore up, or rejects it while another one is active.
TakeUp(n) ==
  /\ Exists(n) /\ restores[n].phase = "new"
  /\ restores' = [restores EXCEPT ![n].phase =
                     IF \E m \in Names \ {n} : Running(m) THEN "Failed" ELSE "Running"]
  /\ UNCHANGED <<strategy, known, import, file, opts, pc, locals, faults, history>>

StartVelero(n) ==
  /\ Running(n) /\ restores[n].spec.mc /\ restores[n].velero = "none"
  /\ restores' = [restores EXCEPT ![n].velero = "running", ![n].phase = "Running"]
  /\ UNCHANGED <<strategy, known, import, file, opts, pc, locals, faults, history>>

\* The ManagedClusters of the backup are on hub B.
EndVelero(n) ==
  /\ Exists(n) /\ restores[n].velero = "running"
  /\ restores' = [restores EXCEPT ![n].velero = "completed"]
  /\ \E delivered \in SUBSET Clusters : known' = known \cup delivered
  /\ restored' = TRUE
  /\ UNCHANGED <<strategy, import, file, opts, pc, locals, faults, marked, skipped, mine>>

VeleroFails(n) ==
  /\ Exists(n) /\ restores[n].velero = "running"
  /\ Adverse
  /\ restores' = [restores EXCEPT ![n].velero = "failed"]
  /\ UNCHANGED <<strategy, known, import, file, opts, pc, locals, history>>

\* The phase follows; what syncs stays enabled for the next backup.
Settle(n) ==
  /\ Exists(n) /\ restores[n].phase = "Running"
  /\ restores[n].spec.mc => restores[n].velero \in {"completed", "failed"}
  /\ restores' = [restores EXCEPT ![n].phase =
                     CASE restores[n].velero = "failed" -> "Failed"
                       [] restores[n].velero # "failed" /\ restores[n].spec.sync -> "Enabled"
                       [] OTHER -> "Finished"]
  /\ UNCHANGED <<strategy, known, import, file, opts, pc, locals, faults, history>>

Remove(n) ==
  /\ Exists(n) /\ restores[n].dying
  /\ restores' = [restores EXCEPT ![n] = None]
  /\ UNCHANGED <<strategy, known, import, file, opts, pc, locals, faults, history>>

\* The import controller has used the annotation.
Import(c) ==
  /\ c \in known /\ import[c] = "set"
  /\ import' = [import EXCEPT ![c] = "used"]
  /\ UNCHANGED <<restores, strategy, known, file, opts, pc, locals, faults, history>>

\* An administrator chooses "sync" for good, at a time when the tool has no
\* hand in it.
AdminSetsSync ==
  /\ strategy # "sync" /\ ~flag /\ pc \notin {"set", "flag"}
  /\ strategy' = "sync" /\ mine' = FALSE
  /\ UNCHANGED <<restores, known, import, file, opts, pc, locals, faults, restored,
                 marked, skipped>>

-----------------------------------------------------------------------------
\* Hub B before the activation: the standby Restore syncs everything but the
\* managed clusters; there may be ManagedClusters of an earlier switchover.
Init ==
  /\ opts \in Options
  /\ \E phase \in {"Running", "Enabled"} :
       restores = [n \in Names |-> IF n = "passive"
                     THEN [Created([mc |-> FALSE, sync |-> TRUE]) EXCEPT !.phase = phase]
                     ELSE None]
  /\ strategy \in {"absent", "only", "sync"}
  /\ known \in SUBSET Clusters
  /\ import \in [Clusters -> {"missing", "used"}]
  /\ \A c \in Clusters \ known : import[c] = "missing"
  /\ steps = {} /\ flag = FALSE /\ past = FALSE
  /\ pc = "down" /\ snapshot = None /\ todo = {} /\ failures = FALSE
  /\ faults = 0
  /\ restored = FALSE /\ marked = {} /\ skipped = FALSE /\ mine = FALSE

Process ==
  \/ VerifyPassive \/ ReadStrategy \/ SetStrategy \/ StoreFlag
  \/ SkipActivation \/ BeginPatch \/ PatchPassive \/ ConfirmPatch
  \/ BeginSwap \/ DeletePassive \/ WaitGone \/ LookForTarget \/ CreateTarget
  \/ Rollback \/ RecordActivation
  \/ SkipWait \/ PollRestore \/ PollVelero \/ CountClusters \/ RecordWait
  \/ SkipAnnotate \/ PassOverAnnotate \/ ListClusters \/ EndAnnotate
  \/ \E c \in Clusters : Annotate(c)
  \/ LeaveActivation \/ ResetNothing \/ ReadReset \/ DeleteConfigMap
  \/ ClearFlag \/ RecordReset

Controllers ==
  \E n \in Names : TakeUp(n) \/ StartVelero(n) \/ EndVelero(n) \/ Settle(n) \/ Remove(n)

Next ==
  \/ Start \/ Process \/ Controllers
  \/ StrategyCallFails \/ CreateFails \/ ReadResetFails \/ RunEnds
  \/ \E c \in Clusters : AnnotateFails(c) \/ Import(c)
  \/ \E n \in Names : VeleroFails(n)
  \/ AdminSetsSync

Spec == Init /\ [][Next]_vars

\* The operator repeats the command, the process goes on, the operators of the
\* hub do their work.
FairSpec ==
  Spec /\ WF_vars(Start) /\ WF_vars(Process)
       /\ \A n \in Names : /\ WF_vars(TakeUp(n)) /\ WF_vars(StartVelero(n))
                           /\ WF_vars(EndVelero(n)) /\ WF_vars(Settle(n))
                           /\ WF_vars(Remove(n))
-----------------------------------------------------------------------------
(* Properties. *)

\* The types, and: a rollback has a spec to bring back, a run that counts or
\* annotates has the Restore done, a passive run only gets past "Enabled".
TypeOK ==
  /\ restores \in [Names -> Restore \cup {None}]
  /\ strategy \in {"absent", "only", "sync"}
  /\ known \subseteq Clusters
  /\ import \in [Clusters -> {"missing", "set", "used"}]
  /\ steps \subseteq StepNames /\ flag \in BOOLEAN /\ past \in BOOLEAN
  /\ opts \in Options /\ pc \in Labels
  /\ snapshot \in RestoreSpec \cup {None}
  /\ todo \subseteq Clusters /\ failures \in BOOLEAN
  /\ faults \in Nat
  /\ restored \in BOOLEAN /\ marked \subseteq Clusters
  /\ skipped \in BOOLEAN /\ mine \in BOOLEAN
  /\ pc = "rollback" => snapshot # None

\* "If we create a BackupSchedule before the managed clusters restore completes,
\* the new backups won't contain the managed clusters": the wait is recorded only
\* when Velero has restored them -- "Enabled" alone may be from before the patch
\* -- and the passive methods have counted them (_wait_for_restore_completion).
WaitedForClusters ==
  "wait_restore_completion" \in steps =>
     /\ restored
     /\ Passive => Cardinality(known) >= MinClusters

\* Once the activation step is recorded the Restore that activates is the only
\* one on hub B, through failed creations, rollbacks and reruns.
OneRestoreInControl ==
  ActivationStep \in steps => {n \in Names : Exists(n)} = {Target}

\* "ACM only allows one active Restore resource at a time": the activation or
\* full Restore is created when no other is there, not even one being deleted.
CreatedAlone ==
  [][\A n \in Names \ {"passive"} :
       ~Exists(n) /\ restores'[n] # None => \A m \in Names : ~Exists(m)]_vars

\* When the annotation step is recorded and was not passed over, every
\* ManagedCluster has been seen or made ready for import since the restore, those
\* with a used-up annotation and those whose first attempt failed included.
EveryClusterMarked ==
  "apply_immediate_import_annotations" \in steps /\ ~skipped => known \subseteq marked

\* The temporary strategy, once the state file knows of it, is taken back before
\* the flow is done, however often the reset is interrupted; the flag goes after
\* it; and an administrator's own "sync" stays (_ensure_auto_import_default).
FlaggedStrategyTakenBack ==
  [][/\ flag /\ ~flag' => ~mine'
     /\ pc' = "done" => ~flag'
     /\ strategy = "sync" /\ ~mine => strategy' = "sync"]_vars

\* Too few ManagedClusters have come with the backup.
TooFew == restored /\ Cardinality(known) < MinClusters

\* From every state that kills and failing calls leave, repeating the command
\* gets to the end -- unless a Restore has failed on the hub, or has brought too
\* few clusters: neither is a matter of running the tool again.
EventuallyActivated ==
  <>(\/ pc = "done" \/ TooFew
     \/ \E n \in Names : Exists(n) /\ restores[n].phase = "Failed")
=============================================================================
