--------------------------- MODULE PostActivation ---------------------------
(***************************************************************************)
(* How the managed clusters come to the new hub: the annotations that      *)
(* modules/primary_prep.py puts on the old hub's ManagedClusters so that   *)
(* it does not take them back, and modules/post_activation.py, which waits *)
(* for the clusters on the new hub, repairs their agents, clears the       *)
(* annotations that came along with the backup and scales observability.   *)
(* Runs stop anywhere and are started again; a step that is recorded is    *)
(* not run again.                                                          *)
(*                                                                         *)
(* Data abstraction.  "Reported" stands for Available and Joined.  The     *)
(* restore may bring along conditions of the old hub, which the lease      *)
(* controller corrects.  The activation (module Activation) is one step.   *)
(* Waits for pods of the new hub, which only warn, the pods' health and    *)
(* the metrics are steps without effect.  Dry runs are left out.                           *)
(***************************************************************************)
EXTENDS Klusterlet, Sequences

CONSTANTS
  Late,  \* clusters the old hub may get after the annotations were listed
  Msa    \* clusters the new hub can import by itself (useManagedServiceAccount)

ASSUME LateAssumption == Late \subseteq Clusters /\ Msa \subseteq Clusters

Order == <<"disable_auto_import", "scale_down_thanos", "activation",
           "verify_clusters_connected", "verify_klusterlet_connections",
           "verify_auto_import_cleanup", "scale_up_observability_components",
           "restart_observatorium_api", "verify_observability_pods",
           "verify_metrics_collection">>
Steps == {Order[k] : k \in 1..Len(Order)}

Components == {"observatorium-api", "thanos-compact"}

VARIABLES
  managed,    \* the clusters of the old hub, from the activation on of the new
  held,       \* those with the annotation on the old hub
  flagged,    \* those with the annotation on the new hub
  reported,   \* those Available and Joined on the new hub
  compactor,  \* of the old hub: "up", "ending" (no replicas, its pods still run) or "gone"
  warned,     \* history: its pods were still there when the step that scaled it down looked
  unscaled,   \* observability components of the new hub without replicas
  recorded,   \* the steps the state file has
  pc,         \* where the process is; "down" when there is none
  todo        \* what the loop over the clusters has left

hubs == <<managed, held, flagged, reported, compactor, warned, unscaled>>
vars == <<klusterlet, hubs, recorded, pc, todo>>

\* The step after the recorded ones.
NextStep(rec) ==
  IF Steps \subseteq rec THEN "end"
  ELSE Order[CHOOSE k \in 1..Len(Order) :
               Order[k] \notin rec /\ \A j \in 1..(k - 1) : Order[j] \in rec]

\* StepContext.__exit__, then the next step
RecordStep(step) ==
  /\ recorded' = recorded \cup {step}
  /\ pc' = NextStep(recorded')

-----------------------------------------------------------------------------
(* The process. *)

Start ==
  /\ pc = "down"
  /\ pc' = NextStep(recorded)
  /\ UNCHANGED <<klusterlet, hubs, recorded, todo>>

\* A call raises, with or without its effect, or the process is killed.
Stop ==
  /\ pc \notin {"down", "end"}
  /\ Adverse
  /\ pc' = "down" /\ todo' = {}
  /\ worker' = [c \in Clusters |-> "idle"]
  /\ UNCHANGED <<secrets, missed, hubs, recorded>>

\* _disable_auto_import
ListOldClusters ==
  /\ pc = "disable_auto_import"
  /\ todo' = managed \ held
  /\ pc' = "annotate"
  /\ UNCHANGED <<klusterlet, hubs, recorded>>

Annotate ==
  /\ pc = "annotate" /\ todo # {}
  /\ \E c \in todo :
       /\ held' = held \cup {c}
       /\ todo' = todo \ {c}
  /\ UNCHANGED <<klusterlet, managed, flagged, reported, compactor, warned, unscaled, recorded, pc>>

AllAnnotated ==
  /\ pc = "annotate" /\ todo = {}
  /\ RecordStep("disable_auto_import")
  /\ UNCHANGED <<klusterlet, hubs, todo>>

\* Mutant: every error is taken for a StatefulSet that is not there.
MutScaleDown ==
  /\ pc = "scale_down_thanos"
  /\ \/ /\ compactor' = IF compactor = "up" THEN "ending" ELSE compactor
        /\ pc' = "look_at_pods" /\ UNCHANGED recorded
     \/ UNCHANGED compactor /\ RecordStep("scale_down_thanos")
  /\ UNCHANGED <<klusterlet, managed, held, flagged, reported, warned, unscaled, todo>>

\* _scale_down_thanos_compactor; one that is not there is a warning.
ScaleDown ==
  /\ pc = "scale_down_thanos"
  /\ \/ /\ compactor' = IF compactor = "up" THEN "ending" ELSE compactor
        /\ pc' = "look_at_pods" /\ UNCHANGED recorded
     \/ compactor = "gone" /\ UNCHANGED compactor /\ RecordStep("scale_down_thanos")
  /\ UNCHANGED <<klusterlet, managed, held, flagged, reported, warned, unscaled, todo>>

\* After a sleep of fixed length one look at the pods; those still there are a warning.
LookAtPods ==
  /\ pc = "look_at_pods"
  /\ warned' = (compactor # "gone")
  /\ RecordStep("scale_down_thanos")
  /\ UNCHANGED <<klusterlet, managed, held, flagged, reported, compactor, unscaled, todo>>

\* The restore on the new hub, of a backup that has some of the annotations.
Activate ==
  /\ pc = "activation"
  /\ flagged' \in SUBSET held
  /\ reported' \in {{}, managed}
  /\ RecordStep("activation")
  /\ UNCHANGED <<klusterlet, managed, held, compactor, warned, unscaled, todo>>

-----------------------------------------------------------------------------
(* _verify_cluster_connections. *)

AllReported == managed \subseteq reported

\* Mutant: nothing is repaired between the waits.
MutBriefWait ==
  /\ pc = "verify_clusters_connected"
  /\ IF AllReported
     THEN RecordStep("verify_clusters_connected")
     ELSE pc' = "long_wait" /\ UNCHANGED recorded
  /\ UNCHANGED <<klusterlet, hubs, todo>>

\* The brief wait; when it times out the repair, unless that is recorded, and
\* the long wait.
BriefWait ==
  /\ pc = "verify_clusters_connected"
  /\ IF AllReported
     THEN RecordStep("verify_clusters_connected")
     ELSE /\ pc' = IF "verify_klusterlet_connections" \in recorded
                   THEN "long_wait" ELSE "verify_klusterlet_connections"
          /\ UNCHANGED recorded
  /\ UNCHANGED <<klusterlet, hubs, todo>>

\* When it times out the run fails.
LongWait ==
  /\ pc = "long_wait"
  /\ IF AllReported
     THEN RecordStep("verify_clusters_connected")
     ELSE pc' = "down" /\ UNCHANGED recorded
  /\ UNCHANGED <<klusterlet, hubs, todo>>

\* After the repair: the step around it, or the next one.
RecordRepair ==
  /\ recorded' = recorded \cup {"verify_klusterlet_connections"}
  /\ pc' = IF "verify_clusters_connected" \in recorded
           THEN NextStep(recorded') ELSE "long_wait"

\* _verify_klusterlet_connections; without the address of the hub or a
\* kubeconfig it has nothing to do.
BeginRepair ==
  /\ pc = "verify_klusterlet_connections"
  /\ \/ /\ worker' = [c \in Clusters |-> IF c \in managed THEN "check" ELSE "idle"]
        /\ missed' = {}
        /\ pc' = "repair" /\ UNCHANGED <<recorded, faults>>
     \/ Adverse /\ missed' = managed /\ RecordRepair /\ UNCHANGED worker
  /\ UNCHANGED <<secrets, hubs, todo>>

EndRepair ==
  /\ pc = "repair"
  /\ \A c \in Clusters : worker[c] = "idle"
  /\ RecordRepair
  /\ UNCHANGED <<klusterlet, hubs, todo>>

Repair(c) ==
  /\ WorkerStep(c)
  /\ UNCHANGED <<hubs, recorded, pc, todo>>

-----------------------------------------------------------------------------
(* _verify_disable_auto_import_cleared and the observability steps. *)

ListFlagged ==
  /\ pc = "verify_auto_import_cleanup"
  /\ todo' = flagged
  /\ pc' = "clear"
  /\ UNCHANGED <<klusterlet, hubs, recorded>>

\* A patch that fails is passed over.
Clear ==
  /\ pc = "clear" /\ todo # {}
  /\ \E c \in todo :
       /\ todo' = todo \ {c}
       /\ \/ flagged' = flagged \ {c} /\ UNCHANGED faults
          \/ flagged' \in {flagged, flagged \ {c}} /\ Adverse
  /\ UNCHANGED <<secrets, worker, missed, managed, held, reported,
                 compactor, warned, unscaled, recorded, pc>>

\* Mutant: the clusters are not listed once more.
MutVerifyCleared ==
  /\ pc = "clear" /\ todo = {}
  /\ RecordStep("verify_auto_import_cleanup")
  /\ UNCHANGED <<klusterlet, hubs, todo>>

\* The second listing decides.
VerifyCleared ==
  /\ pc = "clear" /\ todo = {}
  /\ IF flagged = {}
     THEN RecordStep("verify_auto_import_cleanup")
     ELSE pc' = "down" /\ UNCHANGED recorded
  /\ UNCHANGED <<klusterlet, hubs, todo>>

\* _scale_up_observability_components
ScaleUp ==
  /\ pc = "scale_up_observability_components"
  /\ \E k \in unscaled : unscaled' = unscaled \ {k}
  /\ UNCHANGED <<klusterlet, managed, held, flagged, reported, compactor, warned, recorded, pc, todo>>

\* What could not be scaled is a warning.
ScaledUp ==
  /\ pc = "scale_up_observability_components"
  /\ \/ unscaled = {} /\ UNCHANGED faults
     \/ unscaled # {} /\ Adverse
  /\ RecordStep(pc)
  /\ UNCHANGED <<secrets, worker, missed, hubs, todo>>

VerifyObservability ==
  /\ pc \in {"restart_observatorium_api", "verify_observability_pods",
             "verify_metrics_collection"}
  /\ RecordStep(pc)
  /\ UNCHANGED <<klusterlet, hubs, todo>>

-----------------------------------------------------------------------------
(* The clusters and the hubs. *)

process == <<recorded, pc, todo>>
onHubs == <<managed, held, flagged, compactor, warned, unscaled>>

\* The pods of the compactor end some time after it was scaled down.
PodsEnd ==
  /\ compactor = "ending" /\ compactor' = "gone"
  /\ UNCHANGED <<klusterlet, managed, held, flagged, reported, warned, unscaled, process>>

\* A cluster is imported on the old hub; the backup may have it.
Join(c) ==
  /\ c \in Late \ managed /\ "activation" \notin recorded
  /\ managed' = managed \cup {c}
  /\ UNCHANGED <<klusterlet, held, flagged, reported, compactor, warned, unscaled, process>>

\* Bound: no later step looks at a cluster.
Watched == "verify_auto_import_cleanup" \notin recorded

Activated(c) == "activation" \in recorded /\ c \in managed /\ Watched

NewHubImports(c) ==
  /\ Activated(c) /\ c \in Msa \ flagged
  /\ Import(c, "new")
  /\ UNCHANGED <<faults, hubs, process>>

\* The old hub recovers a cluster it has lost, unless it is told not to.
OldHubImports(c) ==
  /\ Activated(c) /\ c \notin held
  /\ Adverse
  /\ Import(c, "old")
  /\ UNCHANGED <<hubs, process>>

Report(c) ==
  /\ Activated(c) /\ (c \in reported) # (agent[c] = "new")
  /\ reported' = IF agent[c] = "new" THEN reported \cup {c} ELSE reported \ {c}
  /\ UNCHANGED <<klusterlet, onHubs, process>>

\* What happens in the end without the tool.
Moves(c) ==
  \/ Activated(c) /\ c \in restarted /\ LeaveHub(c) /\ UNCHANGED <<hubs, process>>
  \/ Activated(c) /\ Register(c) /\ UNCHANGED <<hubs, process>>
  \/ NewHubImports(c)
  \/ Report(c)

\* A klusterlet notices its new secret without a restart.
MovesUnasked(c) ==
  /\ Activated(c) /\ c \notin restarted
  /\ LeaveHub(c) /\ UNCHANGED <<hubs, process>>

-----------------------------------------------------------------------------
Init ==
  /\ KlusterletInit
  /\ managed = Clusters \ Late /\ held = {} /\ flagged = {} /\ reported = {}
  /\ compactor \in {"up", "gone"} /\ warned = FALSE /\ unscaled = Components
  /\ recorded = {} /\ pc = "down" /\ todo = {}

ProcessStep ==
  \/ ListOldClusters \/ Annotate \/ AllAnnotated \/ ScaleDown \/ LookAtPods \/ Activate
  \/ BriefWait \/ LongWait \/ BeginRepair \/ EndRepair
  \/ ListFlagged \/ Clear \/ VerifyCleared
  \/ ScaleUp \/ ScaledUp \/ VerifyObservability

Next ==
  \/ Start \/ ProcessStep \/ Stop \/ PodsEnd
  \/ \E c \in Clusters :
       Repair(c) \/ Join(c) \/ OldHubImports(c) \/ Moves(c) \/ MovesUnasked(c)

Spec == Init /\ [][Next]_vars

\* The process and its threads go on, the operator runs the command again after a
\* failure, and what the hubs and clusters do by themselves comes to its end.
FairSpec == Spec /\ WF_vars(Start) /\ WF_vars(ProcessStep)
                 /\ WF_vars(\E c \in Clusters : Repair(c))
                 /\ WF_vars(\E c \in Clusters : Moves(c))
-----------------------------------------------------------------------------
(* Properties. *)

TypeOK ==
  /\ KlusterletTypeOK
  /\ managed \subseteq Clusters /\ held \subseteq Clusters
  /\ flagged \subseteq Clusters /\ reported \subseteq Clusters
  /\ compactor \in {"up", "ending", "gone"} /\ warned \in BOOLEAN /\ unscaled \subseteq Components
  /\ recorded \subseteq Steps
  /\ pc \in Steps \cup {"down", "end", "annotate", "look_at_pods", "long_wait", "repair", "clear"}
  /\ todo \subseteq Clusters

\* The recorded steps about the annotation have done their work on both hubs, over
\* failed patches and reruns: the clusters of the old hub have it, the ones of the
\* new hub do not (_disable_auto_import, _verify_disable_auto_import_cleared).
AnnotationsInPlace ==
  /\ "disable_auto_import" \in recorded => Clusters \ Late \subseteq held
  /\ "verify_auto_import_cleanup" \in recorded => flagged = {}

\* When the repair is recorded every cluster the tool can reach registers with
\* the new hub, but for the ones of which a call failed, that had no import
\* secret yet, or that the old hub may take back (_verify_klusterlet_connections).
RepairedUnlessMissed ==
  "verify_klusterlet_connections" \in recorded =>
    \A c \in (managed \cap held) \ missed : "new" \in {bootstrap[c], agent[c]}

\* When the tool scales up the compactor of the new hub, the one of the old hub, on
\* the same object storage, has been scaled down and its pods have ended -- but for
\* pods that outlast the one look the step takes: that is a warning, the step is
\* recorded, and the two run together (_scale_down_thanos_compactor).
OneCompactor ==
  [][ "thanos-compact" \in unscaled \ unscaled'
        => compactor = "gone" \/ (compactor = "ending" /\ warned) ]_vars

\* A cluster that nothing will bring to the new hub any more: its repair is
\* recorded though it was missed, and the new hub cannot or may not import it.
Abandoned(c) ==
  /\ "verify_klusterlet_connections" \in recorded /\ c \in managed
  /\ agent[c] # "new"
  /\ IF bootstrap[c] = "new" THEN c \notin restarted ELSE c \notin Msa \ flagged

\* With enough reruns the verification ends, or there is a cluster that was
\* missed by the only repair there is (_verify_cluster_connections).
EventuallyVerifiedOrAbandoned == <>(pc = "end" \/ \E c \in Clusters : Abandoned(c))

\* Without that exception.
EventuallyVerified == <>(pc = "end")
=============================================================================
