----------------------------- MODULE ArgocdPause -----------------------------
(***************************************************************************)
(* Pausing the auto-sync of the Argo CD Applications that touch ACM        *)
(* (primary_prep._pause_argocd_acm_apps) and restoring it later            *)
(* (finalization._resume_argocd_apps, --argocd-resume-only).  The state    *)
(* file keeps one entry per Application, written before and after the      *)
(* patch, so that a process that dies in between leaves enough behind; a   *)
(* passive-sync restore may put an older Application in the place of one   *)
(* of hub B, before, while or after it is paused.                          *)
(*                                                                         *)
(* Data abstraction.  Of an Application there is whether its syncPolicy    *)
(* has `automated` and which run its paused-by annotation names; of an     *)
(* entry whether the pause is confirmed (the recorded policy always has    *)
(* `automated`).  Applications on the two hubs differ in nothing but in    *)
(* who overwrites them; what a restore brings is from before this run.     *)
(* The listing of hub B, which follows the loop over hub A, is drawn to    *)
(* the start.  prepare() does not call this code in a dry run.             *)
(*                                                                         *)
(* Kubernetes merges: a patch that leaves a key out does not remove it     *)
(* (`drops` is FALSE).  The code is written as if it did; the model has    *)
(* both, and a patch that raises may have taken effect in either.          *)
(***************************************************************************)
EXTENDS Naturals, FiniteSets

CONSTANTS
  Apps,          \* the ACM-touching Applications
  Overwritable,  \* those a restore on their hub may overwrite
  None,
  Drops,         \* may a patch remove the keys it leaves out: a set of BOOLEANs
  ResumeOnly,    \* may the operator use --argocd-resume-only?
  MaxFaults,     \* bound on crashes and failing patches
  MaxOverwrites  \* bound on Applications overwritten by a restore

ASSUME AppsAssumption == Overwritable \subseteq Apps
ASSUME NoneAssumption == None \notin Apps \cup {"run", "old", "noted", "applied"}
ASSUME PatchAssumption == Drops \subseteq BOOLEAN /\ ResumeOnly \in BOOLEAN
ASSUME BoundsAssumption == MaxFaults \in Nat /\ MaxOverwrites \in Nat

VARIABLES
  auto,      \* auto[a]: spec.syncPolicy has `automated`
  mark,      \* mark[a]: the paused-by annotation: None, this run, an older one
  entry,     \* entry[a] of argocd_paused_apps: None, "noted" or "applied"
  paused,    \* the step pause_argocd_apps is recorded
  resumed,   \* the step resume_argocd_apps is recorded
  pc,        \* where the process is; "down" when there is none
  listed,    \* auto, as the pause has listed it
  todo,      \* the Applications its loop has still to do
  cur,       \* the one it is at
  only,      \* the process was started with --argocd-resume-only
  failures,  \* pause_failures, or summary.failed: is it positive?
  faults, overwrites,
  drops,     \* does a patch remove the keys it leaves out of syncPolicy?
  syncing,   \* hub B still has the Restores that may overwrite Applications
  wasAuto,   \* history: the Applications that had auto-sync at the start
  raised,    \* history: those whose pause patch has raised
  brought    \* history: those brought back without auto-sync before the step was recorded

apps == <<auto, mark>>
steps == <<paused, resumed>>
locals == <<listed, todo, cur, only, failures>>
bounds == <<faults, overwrites>>
rest == <<drops, syncing, wasAuto, raised, brought>>
vars == <<auto, mark, entry, paused, resumed, pc, listed, todo, cur, only, failures,
          faults, overwrites, drops, syncing, wasAuto, raised, brought>>

Marks == {None, "run", "old"}
Labels == {"down", "pausing", "patch", "confirm", "forget", "between", "resuming"}

Adverse == faults < MaxFaults /\ faults' = faults + 1 /\ UNCHANGED overwrites

\* The body of the pause patch: this run's marker, syncPolicy without automated.
PausePatch(a) ==
  /\ mark' = [mark EXCEPT ![a] = "run"]
  /\ auto' = [auto EXCEPT ![a] = @ /\ ~drops]

ResumePatch(a) ==
  /\ mark' = [mark EXCEPT ![a] = None]
  /\ auto' = [auto EXCEPT ![a] = TRUE]

\* A patch that raises, with its effect or without.
FailedPatch(patch) ==
  /\ Adverse
  /\ UNCHANGED apps \/ patch

-----------------------------------------------------------------------------
(* primary_prep._pause_argocd_acm_apps. *)

StartPause ==
  /\ pc = "down" /\ ~paused
  /\ listed' = auto /\ todo' = Apps /\ failures' = FALSE
  /\ pc' = "pausing"
  /\ UNCHANGED <<apps, entry, steps, cur, only, bounds, rest>>

\* An earlier process died between its patch and its confirmation.
Recover(a) ==
  /\ pc = "pausing" /\ a \in todo
  /\ ~listed[a] /\ entry[a] = "noted"
  /\ entry' = [entry EXCEPT ![a] = "applied"]
  /\ todo' = todo \ {a}
  /\ UNCHANGED <<apps, steps, pc, listed, cur, only, failures, bounds, rest>>

\* Paused and recorded already, or without auto-sync from the start.
SkipApp(a) ==
  /\ pc = "pausing" /\ a \in todo
  /\ ~listed[a] /\ entry[a] # "noted"
  /\ todo' = todo \ {a}
  /\ UNCHANGED <<apps, entry, steps, pc, listed, cur, only, failures, bounds, rest>>

\* Mutant: nothing is written to the state file before the patch.
MutNote(a) ==
  /\ pc = "pausing" /\ a \in todo
  /\ listed[a]
  /\ cur' = a
  /\ todo' = todo \ {a}
  /\ pc' = "patch"
  /\ UNCHANGED <<apps, entry, steps, listed, only, failures, bounds, rest>>

\* The entry is written, unconfirmed, ahead of the patch.
Note(a) ==
  /\ pc = "pausing" /\ a \in todo
  /\ listed[a]
  /\ entry' = [entry EXCEPT ![a] = "noted"]
  /\ cur' = a
  /\ todo' = todo \ {a}
  /\ pc' = "patch"
  /\ UNCHANGED <<apps, steps, listed, only, failures, bounds, rest>>

PatchApp ==
  /\ pc = "patch"
  /\ PausePatch(cur)
  /\ pc' = "confirm"
  /\ UNCHANGED <<entry, steps, locals, bounds, rest>>

PatchAppFails ==
  /\ pc = "patch"
  /\ FailedPatch(PausePatch(cur))
  /\ raised' = raised \cup {cur}
  /\ pc' = "forget"
  /\ UNCHANGED <<entry, steps, locals, drops, syncing, wasAuto, brought>>

\* Mutant: the confirmation is left in memory.
MutConfirm ==
  /\ pc = "confirm"
  /\ pc' = "pausing"
  /\ UNCHANGED <<apps, entry, steps, locals, bounds, rest>>

Confirm ==
  /\ pc = "confirm"
  /\ entry' = [entry EXCEPT ![cur] = "applied"]
  /\ pc' = "pausing"
  /\ UNCHANGED <<apps, steps, locals, bounds, rest>>

\* After a patch that raised: the entry goes, the failure is counted.
Forget ==
  /\ pc = "forget"
  /\ entry' = [entry EXCEPT ![cur] = None]
  /\ failures' = TRUE
  /\ pc' = "pausing"
  /\ UNCHANGED <<apps, steps, listed, todo, cur, only, bounds, rest>>

\* Mutant: failures are logged and the step is recorded all the same.
MutEndPause ==
  /\ pc = "pausing" /\ todo = {}
  /\ paused' = TRUE /\ pc' = "between"
  /\ UNCHANGED <<apps, entry, resumed, locals, bounds, rest>>

\* The step is recorded, or the failures raise.
EndPause ==
  /\ pc = "pausing" /\ todo = {}
  /\ paused' = ~failures
  /\ pc' = IF failures THEN "down" ELSE "between"
  /\ UNCHANGED <<apps, entry, resumed, locals, bounds, rest>>

-----------------------------------------------------------------------------
(* lib/argocd.resume_recorded_applications. *)

\* In the same process, or in one that is started for it later; the step
\* enable_backup_schedule has removed the Restores of hub B before.
StartResume ==
  /\ pc \in {"down", "between"} /\ paused /\ ~resumed
  /\ todo' = {a \in Apps : entry[a] # None} /\ failures' = FALSE
  /\ only' = FALSE
  /\ pc' = "resuming"
  /\ syncing' = FALSE
  /\ UNCHANGED <<apps, entry, steps, listed, cur, bounds, drops, wasAuto, raised, brought>>

\* --argocd-resume-only works on what is in the state file at any time, and
\* records nothing.
StartResumeOnly ==
  /\ ResumeOnly /\ pc = "down"
  /\ \E a \in Apps : entry[a] # None
  /\ todo' = {a \in Apps : entry[a] # None} /\ failures' = FALSE
  /\ only' = TRUE
  /\ pc' = "resuming"
  /\ UNCHANGED <<apps, entry, steps, listed, cur, bounds, rest>>

Resuming(a) == pc = "resuming" /\ a \in todo /\ todo' = todo \ {a}

\* Recorded but not confirmed: counted as failed.
ResumeUnconfirmed(a) ==
  /\ Resuming(a) /\ entry[a] = "noted"
  /\ failures' = TRUE
  /\ UNCHANGED <<apps, entry, steps, pc, listed, cur, only, bounds, rest>>

\* Our marker: the recorded policy goes back.
ResumeApp(a) ==
  /\ Resuming(a) /\ entry[a] = "applied" /\ mark[a] = "run"
  /\ ResumePatch(a)
  /\ UNCHANGED <<entry, steps, pc, listed, cur, only, failures, bounds, rest>>

\* The read fails, or the patch.
ResumeAppFails(a) ==
  /\ Resuming(a) /\ entry[a] = "applied"
  /\ FailedPatch(mark[a] = "run" /\ ResumePatch(a))
  /\ failures' = TRUE
  /\ UNCHANGED <<entry, steps, pc, listed, cur, only, rest>>

\* No marker: already resumed.
ResumeNoop(a) ==
  /\ Resuming(a) /\ entry[a] = "applied" /\ mark[a] = None
  /\ UNCHANGED <<apps, entry, steps, pc, listed, cur, only, failures, bounds, rest>>

\* Mutant: a marker of another run is taken for a resumed Application.
MutResumeStale(a) ==
  /\ Resuming(a) /\ entry[a] = "applied" /\ mark[a] = "old"
  /\ mark' = [mark EXCEPT ![a] = None] /\ UNCHANGED failures
  /\ UNCHANGED <<auto, entry, steps, pc, listed, cur, only, bounds, rest>>

\* A marker an older backup has brought: harmless with auto-sync on, and then
\* removed (a failure to remove it is only logged); else counted as failed.
ResumeStale(a) ==
  /\ Resuming(a) /\ entry[a] = "applied" /\ mark[a] = "old"
  /\ \/ auto[a] /\ mark' \in {mark, [mark EXCEPT ![a] = None]} /\ UNCHANGED failures
     \/ ~auto[a] /\ failures' = TRUE /\ UNCHANGED mark
  /\ UNCHANGED <<auto, entry, steps, pc, listed, cur, only, bounds, rest>>

EndResume ==
  /\ pc = "resuming" /\ todo = {}
  /\ resumed' = (resumed \/ (~only /\ ~failures))
  /\ pc' = "down"
  /\ UNCHANGED <<apps, entry, paused, locals, bounds, rest>>

-----------------------------------------------------------------------------
(* The environment. *)

Crash ==
  /\ pc # "down"
  /\ Adverse
  /\ pc' = "down"
  /\ UNCHANGED <<apps, entry, steps, locals, rest>>

\* The passive-sync restore brings back an Application of an older backup, at any
\* time: with auto-sync, or paused by an older run.
Overwrite(a) ==
  /\ overwrites < MaxOverwrites /\ overwrites' = overwrites + 1
  /\ syncing /\ a \in Overwritable
  /\ \E policy \in BOOLEAN, m \in {None, "old"} :
       /\ policy \/ m = "old"
       /\ auto' = [auto EXCEPT ![a] = policy]
       /\ mark' = [mark EXCEPT ![a] = m]
       /\ brought' = IF policy \/ paused THEN brought ELSE brought \cup {a}
  /\ UNCHANGED <<entry, steps, pc, locals, faults, drops, syncing, wasAuto, raised>>

Init ==
  /\ auto \in [Apps -> BOOLEAN]
  /\ mark = [a \in Apps |-> None]
  /\ entry = [a \in Apps |-> None]
  /\ paused = FALSE /\ resumed = FALSE /\ pc = "down"
  /\ listed = auto /\ todo = {} /\ cur = None /\ only = FALSE /\ failures = FALSE
  /\ faults = 0 /\ overwrites = 0
  /\ drops \in Drops /\ syncing = TRUE
  /\ wasAuto = {a \in Apps : auto[a]} /\ raised = {} /\ brought = {}

ProcessStep ==
  \/ StartPause \/ PatchApp \/ Confirm \/ Forget \/ EndPause
  \/ \E a \in Apps : Recover(a) \/ SkipApp(a) \/ Note(a)
  \/ StartResume \/ EndResume
  \/ \E a \in Apps : ResumeUnconfirmed(a) \/ ResumeApp(a) \/ ResumeNoop(a) \/ ResumeStale(a)

Next ==
  \/ ProcessStep
  \/ StartResumeOnly \/ PatchAppFails \/ Crash
  \/ \E a \in Apps : ResumeAppFails(a) \/ Overwrite(a)

Spec == Init /\ [][Next]_vars

\* The operator runs the switchover again until its resume has succeeded, also
\* when --argocd-resume-only is used in between.
FairSpec == Spec /\ WF_vars(ProcessStep) /\ SF_vars(StartPause \/ StartResume)
-----------------------------------------------------------------------------
(* Properties. *)

\* The types, and: what the loop is about to patch is noted in the state file.
TypeOK ==
  /\ auto \in [Apps -> BOOLEAN] /\ mark \in [Apps -> Marks]
  /\ entry \in [Apps -> {None, "noted", "applied"}]
  /\ paused \in BOOLEAN /\ resumed \in BOOLEAN /\ pc \in Labels
  /\ listed \in [Apps -> BOOLEAN] /\ todo \subseteq Apps
  /\ cur \in Apps \cup {None} /\ only \in BOOLEAN /\ failures \in BOOLEAN
  /\ faults \in Nat /\ overwrites \in Nat
  /\ drops \in BOOLEAN /\ syncing \in BOOLEAN
  /\ wasAuto \subseteq Apps /\ raised \subseteq Apps /\ brought \subseteq Apps
  /\ pc \in {"patch", "confirm", "forget"} => cur \in Apps /\ entry[cur] = "noted"

\* An Application that no rerun of the pause would take up again: it has no auto-sync
\* any more, because a restore brought it back that way before it was recorded, or,
\* with a patch that drops what it leaves out, because one raised that took effect.
Lost(a) == a \in brought \/ (drops /\ a \in raised)

\* "The tool records exactly which Applications it paused": whenever a process dies,
\* the state file has an entry for every Application with this run's marker, but for
\* one whose pause patch has raised: the code takes that for no effect, also where the
\* answer was lost or an earlier patch had succeeded, and removes the entry.  A rerun
\* makes up for that before the pause step is recorded, unless the Application is lost.
MarkedIsRecorded ==
  \A a \in Apps : mark[a] = "run" =>
    entry[a] # None \/ (a \in raised /\ (paused => Lost(a)))

\* "Paused (auto-sync removed)": when the pause step is recorded no ACM-touching
\* Application syncs by itself, however many attempts it took.
PauseStepPauses == [][paused' /\ ~paused => \A a \in Apps : ~auto'[a]]_vars

\* When the pause step is recorded, which ends the reruns of it, what the resume will
\* work on is complete and confirmed: no entry can make it fail for ever, and every
\* Application that had auto-sync has one, through crashes, failed patches and
\* restores in any order, unless it is lost.
PauseIsConfirmed ==
  paused => \A a \in Apps : /\ entry[a] # "noted"
                            /\ a \in wasAuto => entry[a] = "applied" \/ Lost(a)

\* When the resume has succeeded every Application that had auto-sync before the
\* switchover has it again, and none is left with this run's marker, unless lost.
ResumedIsRestored ==
  resumed => \A a \in Apps : /\ a \in wasAuto => auto[a] \/ Lost(a)
                             /\ mark[a] = "run" => a \in raised /\ Lost(a)

\* A confirmed entry whose Application came back paused by an older run: every
\* resume counts it as failed.
Foreign(a) == entry[a] = "applied" /\ mark[a] = "old" /\ ~auto[a]

\* With enough reruns the resume step is done, unless a restore has brought back
\* an Application that somebody else had paused.
EventuallyResumed == <>(resumed \/ \E a \in Apps : Foreign(a))
=============================================================================
