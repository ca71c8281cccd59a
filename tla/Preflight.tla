----------------------------- MODULE Preflight -----------------------------
(***************************************************************************)
(* The pre-flight validation (modules/preflight_coordinator.py and         *)
(* modules/preflight/): a fixed sequence of validators that read the two   *)
(* hubs while those go on living, add critical failures to one report and  *)
(* pass when there are none.  What it passes is acted upon much later: a   *)
(* rerun does not validate again, and the last act of the switchover may   *)
(* be to delete the ManagedClusters of the old hub.                        *)
(*                                                                         *)
(* Data abstraction.  A validator that reads one thing and compares it     *)
(* with nothing else is a fact that holds or is broken: "hubs" stands for  *)
(* kubeconfig, tools, namespaces, versions and components, "stores" for    *)
(* BackupSchedule and storage locations.  A permission is the one for the  *)
(* observability namespace of a hub; the others are part of "hubs".        *)
(* Backups come in rounds: the one of the managed clusters and another,    *)
(* created in the same second and worked off one after the other.  Time    *)
(* has the resolution of the timestamps: what happens next may be in the   *)
(* same second.                                                            *)
(***************************************************************************)
EXTENDS Naturals, FiniteSets

CONSTANTS
  Clusters,    \* the ManagedClusters there may be, without local-cluster
  Starts,      \* the hubs and command lines a validation may start with
  MaxFaults,   \* bound on failing calls and on a wait that times out
  MaxChanges   \* bound on what happens to the hubs meanwhile

ASSUME ClustersAssumption == IsFiniteSet(Clusters)
ASSUME BoundsAssumption == MaxFaults \in Nat /\ MaxChanges \in Nat

Hubs == {"primary", "secondary"}
Kinds == {"managedClusters", "other"}
Facts == {"hubs", "stores", "passive", "thanos"}
Phases == {"New", "InProgress", "Finalizing", "Completed", "Failed"}
Absent == [made |-> 0, keeps |-> TRUE]

\* A start has the types of the state; nothing on it is younger than "now".
ASSUME StartsAssumption ==
  \A s \in Starts :
    /\ s.options \in [skipRbac : BOOLEAN, passive : BOOLEAN]
    /\ s.cluster \in [Clusters -> [made : 0 .. 3, keeps : BOOLEAN]]
    /\ s.phase \in [Kinds -> Phases]
    /\ s.obs \subseteq Hubs /\ s.permitted \subseteq Hubs
    /\ s.broken \subseteq Facts

VARIABLES
  options,    \* skip_rbac_validation and method, fixed for the run
  at,         \* the validator that is next; "passed", "failed" or "raised" at the end
  failures,   \* critical_failures() of the reporter
  skipObs,    \* "neither hub has the observability namespace", read for the RBAC checks
  listed,       \* joined_clusters
  backup,     \* the latest managed-clusters backup, as listed
  left,       \* joined clusters still to be compared with it
  late,       \* clusters_after_backup
  detected,   \* the hubs with observability, as stored for the later phases
  \* the hubs
  cluster,    \* creation time on the primary, 0 without one; does it have no
              \* ClusterDeployment, or one with preserveOnDelete?
  joined,     \* the clusters with the condition ManagedClusterJoined
  phase,      \* of each backup of the latest round
  round,      \* its creation, its completion, the clusters there at its creation
              \* and those the backup of the managed clusters holds
  obs,        \* the hubs that have the observability namespace
  permitted,  \* the hubs on which its permissions are granted
  broken,     \* the facts that do not hold, read once each: fixed for the run
  now,
  \* what the properties tell apart
  appeared,   \* hubs on which observability has appeared during the run
  touched,    \* clusters imported or removed since they were listed
  exposed,    \* clusters whose deployment changed since the deployments were listed
  destroyed,  \* clusters whose infrastructure went with the ManagedCluster
  disturbed,  \* a failing call, a timeout, a change of the hubs, a backup in the queue,
              \* or one that was judged while Velero was finalizing it
  faults, changes

process == <<options, at, failures, skipObs, listed, backup, left, late, detected>>
hubs == <<cluster, joined, phase, round, obs, permitted, broken, now>>
observed == <<appeared, touched, exposed, destroyed, disturbed, faults, changes>>
preflightVars == <<process, hubs, observed>>

Existing == {c \in Clusters : cluster[c].made > 0}
InProgress == {k \in Kinds : phase[k] = "InProgress"}

PreflightInit ==
  \E s \in Starts :
    /\ options = s.options /\ cluster = s.cluster /\ obs = s.obs
    /\ permitted = s.permitted
    /\ joined \in {Existing, {}}
    /\ phase = s.phase /\ broken = s.broken
    /\ round = IF phase["managedClusters"] = "Completed"
                THEN [start |-> 2, end |-> 3, base |-> Existing, held |-> Existing]
                ELSE [start |-> 2, end |-> 0, base |-> Existing, held |-> {}]
    /\ now = 3
    /\ at = (IF options.skipRbac THEN "hubs" ELSE "scope") /\ failures = {} /\ skipObs = FALSE
    /\ listed = {} /\ backup = "none" /\ left = {} /\ late = {} /\ detected = {}
    /\ appeared = {} /\ touched = {} /\ exposed = {} /\ destroyed = {}
    /\ disturbed = (\E k \in Kinds : phase[k] = "New") /\ faults = 0 /\ changes = 0

-----------------------------------------------------------------------------
(* Reporting *)

Report(check, ok) == failures' = IF ok THEN failures ELSE failures \cup {check}

Fault ==
  /\ faults < MaxFaults
  /\ faults' = faults + 1 /\ disturbed' = TRUE
  /\ UNCHANGED <<appeared, touched, exposed, destroyed, changes>>

\* A call that fails inside a validator is a critical failure of that check.
CallFails(check, next) ==
  /\ Fault
  /\ Report(check, FALSE)
  /\ at' = next
  /\ UNCHANGED <<options, skipObs, listed, backup, left, late, detected, hubs>>

\* Some calls are made outside any handler: the validation ends with the exception.
Escapes ==
  /\ Fault
  /\ at' = "raised"
  /\ UNCHANGED <<options, failures, skipObs, listed, backup, left, late, detected, hubs>>

\* Validators that only read one fact.
CheckFact(check, next) ==
  \/ /\ at' = next
     /\ Report(check, check \notin broken)
     /\ UNCHANGED <<options, skipObs, listed, backup, left, late, detected, hubs, observed>>
  \/ CallFails(check, next)

-----------------------------------------------------------------------------
(* RBAC: one look at both hubs decides what is checked on each of them. *)

\* Mutant: the permissions are checked when both hubs have observability.
MutReadScope ==
  /\ at = "scope"
  /\ at' = "rbac_primary"
  /\ skipObs' = (obs # Hubs)
  /\ appeared' = {}
  /\ UNCHANGED <<options, failures, listed, backup, left, late, detected, hubs,
                 touched, exposed, destroyed, disturbed, faults, changes>>

\* Only a ValidationError or an ApiException becomes a failed check.
ReadScope ==
  /\ at = "scope"
  /\ \/ /\ at' = "rbac_primary"
        /\ skipObs' = (obs = {})
        /\ appeared' = {}
        /\ UNCHANGED <<options, failures, listed, backup, left, late, detected, hubs,
                       touched, exposed, destroyed, disturbed, faults, changes>>
     \/ CallFails("rbac", "hubs")
     \/ Escapes

\* A namespace that is not there counts as a missing permission.
Granted(h) == skipObs \/ h \in obs \cap permitted

\* The first hub that fails ends the check.
ValidatePermissions(h) ==
  LET after == IF h = "primary" /\ Granted(h) THEN "rbac_secondary" ELSE "hubs"
  IN  /\ at = (IF h = "primary" THEN "rbac_primary" ELSE "rbac_secondary")
      /\ \/ /\ Report("rbac", Granted(h))
            /\ at' = after
            /\ UNCHANGED <<options, skipObs, listed, backup, left, late, detected, hubs, observed>>
         \/ CallFails("rbac", "hubs")
         \/ Escapes

\* Kubeconfig, tools, namespaces, versions, components.  The look for a namespace
\* has no handler.
CheckHubs ==
  /\ at = "hubs"
  /\ CheckFact("hubs", "backups") \/ Escapes

-----------------------------------------------------------------------------
(* Backups of any kind: none in progress, the latest completed *)

\* Neither judge waits for a backup in phase Finalizing: it is not completed.
JudgedAsIs(k) ==
  /\ disturbed' = (disturbed \/ phase[k] = "Finalizing")
  /\ UNCHANGED <<appeared, touched, exposed, destroyed, faults, changes>>

\* backups[0]: which of those created in the same second comes first is open.
JudgeLatest(next) ==
  \E k \in Kinds :
    /\ Report("backups", phase[k] = "Completed")
    /\ JudgedAsIs(k)
    /\ at' = next
    /\ UNCHANGED <<options, skipObs, listed, backup, left, late, detected, hubs>>

ListBackups ==
  /\ at = "backups"
  /\ \/ /\ InProgress # {}
        /\ at' = "wait"
        /\ UNCHANGED <<options, failures, skipObs, listed, backup, left, late, detected, hubs, observed>>
     \/ InProgress = {} /\ JudgeLatest("stores")
     \/ CallFails("backups", "stores")

\* _wait_for_backups_complete: a poll, or the timeout with some left, or a poll that fails.
PollBackups ==
  /\ at = "wait"
  /\ \/ /\ InProgress = {}
        /\ at' = "relist"
        /\ UNCHANGED <<options, failures, skipObs, listed, backup, left, late, detected, hubs, observed>>
     \/ CallFails("backups", "stores")

\* Mutant: the phase found before the wait is judged.
MutRelistBackups ==
  /\ at = "relist"
  /\ Report("backups", FALSE)
  /\ at' = "stores"
  /\ UNCHANGED <<options, skipObs, listed, backup, left, late, detected, hubs, observed>>

RelistBackups ==
  /\ at = "relist"
  /\ JudgeLatest("stores") \/ CallFails("backups", "stores")

CheckStores == at = "stores" /\ CheckFact("stores", "deployments")

-----------------------------------------------------------------------------
(* preserveOnDelete of every ClusterDeployment *)

\* Mutant: a list that fails is taken for a hub without Hive.
MutListDeployments ==
  /\ at = "deployments"
  /\ \/ Report("deployments", \A c \in Existing : cluster[c].keeps)
     \/ Report("deployments", TRUE)
  /\ at' = "clusters"
  /\ exposed' = {}
  /\ UNCHANGED <<options, skipObs, listed, backup, left, late, detected, hubs,
                 appeared, touched, destroyed, disturbed, faults, changes>>

ListDeployments ==
  /\ at = "deployments"
  /\ \/ /\ Report("deployments", \A c \in Existing : cluster[c].keeps)
        /\ at' = "clusters"
        /\ exposed' = {}
        /\ UNCHANGED <<options, skipObs, listed, backup, left, late, detected, hubs,
                       appeared, touched, destroyed, disturbed, faults, changes>>
     \/ CallFails("deployments", "clusters")

-----------------------------------------------------------------------------
(* Every joined ManagedCluster is in the latest backup of them *)

ListJoined ==
  /\ at = "clusters"
  /\ \/ /\ listed' = joined
        /\ at' = IF joined = {} THEN "method" ELSE "cluster_backups"
        /\ touched' = {}
        /\ UNCHANGED <<options, failures, skipObs, backup, left, late, detected, hubs,
                       appeared, exposed, destroyed, disturbed, faults, changes>>
     \/ CallFails("clusters", "method")

\* Mutant: a backup that is not completed is good enough; it has no completion
\* time to compare with.
MutListClusterBackups ==
  /\ at = "cluster_backups"
  /\ backup' = round
  /\ at' = IF phase["managedClusters"] = "Completed" THEN "compare" ELSE "method"
  /\ left' = listed /\ late' = {}
  /\ UNCHANGED <<options, failures, skipObs, listed, detected, hubs, observed>>

ListClusterBackups ==
  /\ at = "cluster_backups"
  /\ \/ /\ phase["managedClusters"] = "Completed"
        /\ backup' = round
        /\ left' = listed /\ late' = {}
        /\ at' = "compare"
        /\ UNCHANGED <<options, failures, skipObs, listed, detected, hubs, observed>>
     \/ /\ phase["managedClusters"] # "Completed"
        /\ Report("clusters", FALSE)
        /\ JudgedAsIs("managedClusters")
        /\ at' = "method"
        /\ UNCHANGED <<options, skipObs, listed, backup, left, late, detected, hubs>>
     \/ CallFails("clusters", "method")

\* One that is gone by now is passed over.
Compare(c) ==
  /\ at = "compare" /\ c \in left
  /\ \/ /\ left' = left \ {c}
        /\ late' = IF cluster[c].made > backup.end THEN late \cup {c} ELSE late
        /\ UNCHANGED <<options, at, failures, skipObs, listed, backup, detected, hubs, observed>>
     \/ CallFails("clusters", "method")

EndCompare ==
  /\ at = "compare" /\ left = {}
  /\ Report("clusters", late = {})
  /\ at' = "method"
  /\ UNCHANGED <<options, skipObs, listed, backup, left, late, detected, hubs, observed>>

-----------------------------------------------------------------------------
(* Passive sync, observability, the verdict *)

CheckPassive ==
  /\ at = "method"
  /\ \/ /\ options.passive
        /\ CheckFact("passive", "observability")
     \/ /\ ~options.passive
        /\ at' = "observability"
        /\ UNCHANGED <<options, failures, skipObs, listed, backup, left, late, detected, hubs, observed>>

DetectObservability ==
  /\ at = "observability"
  /\ \/ /\ detected' = obs
        /\ at' = IF "secondary" \in obs THEN "thanos" ELSE "verdict"
        /\ UNCHANGED <<options, failures, skipObs, listed, backup, left, late, hubs, observed>>
     \/ Escapes

\* The secret is asked for outside any handler, and not at all when the namespace
\* is gone again.
CheckPrereqs ==
  /\ at = "thanos"
  /\ \/ /\ Report("thanos", "secondary" \notin obs \/ "thanos" \notin broken)
        /\ at' = "verdict"
        /\ UNCHANGED <<options, skipObs, listed, backup, left, late, detected, hubs, observed>>
     \/ Escapes

Judge ==
  /\ at = "verdict"
  /\ at' = IF failures = {} THEN "passed" ELSE "failed"
  /\ UNCHANGED <<options, failures, skipObs, listed, backup, left, late, detected, hubs, observed>>

\* The end of the switchover: the decommissioning lists the ManagedClusters of the
\* old hub and deletes them, without another look at their ClusterDeployments.
Teardown ==
  /\ at = "passed"
  /\ at' = "torn_down"
  /\ destroyed' = {c \in Existing : ~cluster[c].keeps}
  /\ cluster' = [c \in Clusters |-> Absent]
  /\ joined' = {}
  /\ UNCHANGED <<options, failures, skipObs, listed, backup, left, late, detected,
                 phase, round, obs, permitted, broken, now,
                 appeared, touched, exposed, disturbed, faults, changes>>

-----------------------------------------------------------------------------
(* The hubs go on living: operators, the import controller, Velero *)

Change ==
  /\ at \notin {"failed", "raised", "torn_down"}
  /\ changes < MaxChanges /\ changes' = changes + 1
  /\ UNCHANGED <<process, permitted, broken, destroyed, faults>>

Disturbs == Change /\ disturbed' = TRUE

\* An event that leaves a timestamp.
Stamped == now' \in {now, now + 1}

ImportCluster(c) ==
  /\ c \notin Existing
  /\ Disturbs /\ Stamped
  /\ \E k \in BOOLEAN : cluster' = [cluster EXCEPT ![c] = [made |-> now', keeps |-> k]]
  /\ joined' = joined \cup {c}
  /\ touched' = touched \cup {c} /\ exposed' = exposed \cup {c}
  /\ UNCHANGED <<phase, round, obs, appeared>>

RemoveCluster(c) ==
  /\ c \in Existing
  /\ Disturbs
  /\ cluster' = [cluster EXCEPT ![c] = Absent]
  /\ joined' = joined \ {c}
  /\ round' = [round EXCEPT !.base = @ \ {c}]
  /\ touched' = touched \cup {c} /\ exposed' = exposed \cup {c}
  /\ UNCHANGED <<phase, obs, now, appeared>>

\* Someone creates or edits the ClusterDeployment.
EditDeployment(c) ==
  /\ c \in Existing
  /\ Disturbs
  /\ cluster' = [cluster EXCEPT ![c].keeps = ~@]
  /\ exposed' = exposed \cup {c}
  /\ UNCHANGED <<joined, phase, round, obs, now, appeared, touched>>

\* ACM's schedule creates the backups of a round together, Velero works them off.
BeginRound ==
  /\ \A k \in Kinds : phase[k] \in {"Completed", "Failed"}
  /\ Disturbs /\ Stamped
  /\ phase' = [k \in Kinds |-> "New"]
  /\ round' = [start |-> now', end |-> 0, base |-> Existing, held |-> {}]
  /\ UNCHANGED <<cluster, joined, obs, appeared, touched, exposed>>

TakeUpBackup(k) ==
  /\ phase[k] = "New" /\ InProgress = {}
  /\ Disturbs
  /\ phase' = [phase EXCEPT ![k] = "InProgress"]
  /\ UNCHANGED <<cluster, joined, round, obs, now, appeared, touched, exposed>>

\* Velero has come across everything and is left with the work of its plugins.
FinalizeBackup(k) ==
  /\ phase[k] = "InProgress"
  /\ Change
  /\ phase' = [phase EXCEPT ![k] = "Finalizing"]
  /\ UNCHANGED <<cluster, joined, round, obs, now, appeared, touched, exposed, disturbed>>

\* What was imported while the backup ran may or may not be in it.
EndBackup(k) ==
  /\ phase[k] \in {"InProgress", "Finalizing"}
  /\ Change /\ Stamped
  /\ \/ /\ phase' = [phase EXCEPT ![k] = "Completed"]
        /\ \/ /\ k = "managedClusters"
              /\ \E s \in SUBSET (Existing \ round.base) :
                   round' = [round EXCEPT !.end = now', !.held = round.base \cup s]
           \/ k # "managedClusters" /\ UNCHANGED round
        /\ UNCHANGED disturbed
     \/ /\ phase' = [phase EXCEPT ![k] = "Failed"]
        /\ disturbed' = TRUE
        /\ UNCHANGED round
  /\ UNCHANGED <<cluster, joined, obs, appeared, touched, exposed>>

\* Observability is installed on a hub, or removed from it.
ToggleObservability(h) ==
  /\ Disturbs
  /\ obs' = IF h \in obs THEN obs \ {h} ELSE obs \cup {h}
  /\ appeared' = IF h \in obs THEN appeared ELSE appeared \cup {h}
  /\ UNCHANGED <<cluster, joined, phase, round, now, touched, exposed>>

-----------------------------------------------------------------------------
Validate ==
  \/ ReadScope \/ (\E h \in Hubs : ValidatePermissions(h))
  \/ CheckHubs \/ ListBackups \/ PollBackups \/ RelistBackups \/ CheckStores
  \/ ListDeployments
  \/ ListJoined \/ ListClusterBackups \/ (\E c \in Clusters : Compare(c)) \/ EndCompare
  \/ CheckPassive \/ DetectObservability \/ CheckPrereqs \/ Judge

HubsMove ==
  \/ \E c \in Clusters : ImportCluster(c) \/ RemoveCluster(c) \/ EditDeployment(c)
  \/ BeginRound
  \/ \E k \in Kinds : TakeUpBackup(k) \/ FinalizeBackup(k) \/ EndBackup(k)
  \/ \E h \in Hubs : ToggleObservability(h)

PreflightNext == Validate \/ Teardown \/ HubsMove

PreflightSpec == PreflightInit /\ [][PreflightNext]_preflightVars

-----------------------------------------------------------------------------
(* Properties *)

\* What a validation that passes has read as joined, and that nobody has touched
\* since, is in the backup it judged, or was imported while that backup ran: the
\* comparison is with the completion of the backup, so that what Velero did not
\* come across any more passes too.
PassedMeansInBackup ==
  at = "passed" =>
    \A c \in listed \ touched :
      c \in backup.held \/ cluster[c].made \in backup.start .. backup.end

\* A decommissioning after a passing validation destroys the infrastructure of no
\* cluster but those whose ClusterDeployment came or changed after the check: they
\* are not looked at again.
InfrastructureKept == destroyed \subseteq exposed

\* What keeps a validation from passing, all of it on the hubs.  Observability on
\* one hub only is among it: its namespace is then missing on the other, which the
\* RBAC check of that hub counts as missing permissions.
Sound ==
  /\ broken = {}
  /\ \A k \in Kinds : phase[k] = "Completed"
  /\ \A c \in Existing : cluster[c].keeps
  /\ \A c \in joined : cluster[c].made <= round.end
  /\ options.skipRbac \/ obs = {} \/ (obs = Hubs /\ permitted = Hubs)

\* The validation refuses no sound pair of hubs that is left in peace, also when it
\* has to wait for a backup that is in progress -- but for a pair whose backup it
\* finds in the queue or in phase Finalizing, for which it does not wait
\* (_wait_for_backups_complete).
SoundPairPasses == at = "failed" /\ ~disturbed => ~Sound

\* The later phases work on the observability of the hubs it was detected on at the
\* end; their permissions were checked at the beginning, unless it has appeared
\* in between.
PermissionsCoverUse ==
  at = "passed" /\ ~options.skipRbac => detected \subseteq permitted \cup appeared
=============================================================================
