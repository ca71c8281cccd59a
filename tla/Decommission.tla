---------------------------- MODULE Decommission ----------------------------
(***************************************************************************)
(* Taking ACM off the old hub (modules/decommission.py): observability,    *)
(* then the ManagedClusters, then the MultiClusterHub.  It keeps no record *)
(* of its own, every run looks at the hub again; it is run by finalization *)
(* without questions or by an operator with them.  Deletions only begin    *)
(* with the call: finalizers end them, and those of a ManagedCluster need  *)
(* the controllers of the hub.                                             *)
(*                                                                         *)
(* Data abstraction.  The observability resources and their pods are one   *)
(* object, and so are the MultiClusterHub and the pods that are not the    *)
(* operator's; local-cluster, which the code skips, is not among the       *)
(* clusters.  A hub without observability has it "gone".                   *)
(***************************************************************************)
EXTENDS Naturals, FiniteSets

CONSTANTS
  Clusters,   \* the ManagedClusters but local-cluster
  MaxFaults   \* bound on failing calls, kills and clusters that come back

ASSUME ClustersAssumption == IsFiniteSet(Clusters)
ASSUME FaultsAssumption == MaxFaults \in Nat

VARIABLES
  observability, \* on the old hub: "there", "scaled" to zero, "dying" or "gone"
  clusters,      \* the ManagedClusters that exist on the old hub
  leaving,       \* those of them that have been asked to go
  mch,           \* the MultiClusterHub: "there", "dying" or "gone"
  at,            \* where a decommissioning is; "idle" when there is none
  interactive,   \* does it ask before each part?
  todo,          \* the listed clusters it has not deleted yet
  deleted,       \* deleted_count > 0
  faults

oldHub == <<observability, clusters, leaving, mch>>
decommission == <<at, interactive, todo, deleted>>

Positions == {"idle", "observability", "clusters", "delete", "removal", "mch",
              "done", "failed"}

Adverse == faults < MaxFaults /\ faults' = faults + 1

DecommissionInit ==
  /\ observability \in {"there", "gone"}
  /\ clusters = Clusters /\ leaving = {}
  /\ mch = "there"
  /\ at = "idle" /\ interactive = FALSE /\ todo = {} /\ deleted = FALSE
  /\ faults = 0

-----------------------------------------------------------------------------
(* The three parts.  A question answered with no goes on to the next part. *)

Begin(asking) ==
  /\ at = "idle"
  /\ at' = "observability"
  /\ interactive' = asking
  /\ UNCHANGED <<oldHub, todo, deleted>>

Declined(next) ==
  /\ interactive
  /\ at' = next
  /\ UNCHANGED <<oldHub, interactive, todo, deleted>>

\* The wait for the pods goes on with a warning when it times out.
DeleteObservability ==
  /\ at = "observability"
  /\ \/ Declined("clusters")
     \/ /\ at' = "clusters"
        /\ observability' = IF observability = "gone" THEN "gone" ELSE "dying"
        /\ UNCHANGED <<clusters, leaving, mch, interactive, todo, deleted>>

ListClusters ==
  /\ at = "clusters"
  /\ \/ Declined("mch")
     \/ /\ at' = "delete"
        /\ todo' = clusters /\ deleted' = FALSE
        /\ UNCHANGED <<oldHub, interactive>>

\* One that is gone by now counts as deleted.
DeleteCluster(c) ==
  /\ at = "delete" /\ c \in todo
  /\ todo' = todo \ {c} /\ deleted' = TRUE
  /\ leaving' = leaving \cup ({c} \cap clusters)
  /\ UNCHANGED <<observability, clusters, mch, at, interactive>>

AllDeleted ==
  /\ at = "delete" /\ todo = {}
  /\ at' = IF deleted THEN "removal" ELSE "mch"
  /\ UNCHANGED <<oldHub, interactive, todo, deleted>>

\* Mutant: this wait, too, times out with a warning.
MutAwaitRemoval ==
  /\ at = "removal"
  /\ at' = "mch"
  /\ UNCHANGED <<oldHub, interactive, todo, deleted>>

\* _managed_clusters_removed, or the timeout that raises.
AwaitRemoval ==
  /\ at = "removal"
  /\ at' = IF clusters = {} THEN "mch" ELSE "failed"
  /\ UNCHANGED <<oldHub, interactive, todo, deleted>>

\* The admission webhook refuses while there are ManagedClusters.  The wait for
\* the pods goes on with a warning when it times out.
DeleteMultiClusterHub ==
  /\ at = "mch"
  /\ \/ Declined("done")
     \/ /\ mch = "gone" \/ clusters = {}
        /\ mch' = IF mch = "gone" THEN "gone" ELSE "dying"
        /\ at' = "done"
        /\ UNCHANGED <<observability, clusters, leaving, interactive, todo, deleted>>
     \/ /\ mch # "gone" /\ clusters # {}
        /\ at' = "failed"
        /\ UNCHANGED <<oldHub, interactive, todo, deleted>>

DecommissionStep ==
  \/ DeleteObservability
  \/ ListClusters \/ (\E c \in Clusters : DeleteCluster(c)) \/ AllDeleted \/ AwaitRemoval
  \/ DeleteMultiClusterHub

-----------------------------------------------------------------------------
(* The controllers of the old hub. *)

ObservabilityGone ==
  /\ observability = "dying"
  /\ observability' = "gone"
  /\ UNCHANGED <<clusters, leaving, mch>>

ClusterGone(c) ==
  /\ c \in leaving /\ mch # "gone"
  /\ clusters' = clusters \ {c} /\ leaving' = leaving \ {c}
  /\ UNCHANGED <<observability, mch>>

MultiClusterHubGone ==
  /\ mch = "dying"
  /\ mch' = "gone"
  /\ UNCHANGED <<observability, clusters, leaving>>

Controllers ==
  /\ ObservabilityGone \/ (\E c \in Clusters : ClusterGone(c)) \/ MultiClusterHubGone
  /\ UNCHANGED <<decommission, faults>>

\* A cluster is imported again, by GitOps or by hand.
Reimported(c) ==
  /\ mch = "there" /\ c \notin clusters
  /\ Adverse
  /\ clusters' = clusters \cup {c}
  /\ UNCHANGED <<observability, leaving, mch, decommission>>

-----------------------------------------------------------------------------
DecommissionTypeOK ==
  /\ observability \in {"there", "scaled", "dying", "gone"}
  /\ clusters \subseteq Clusters /\ leaving \subseteq clusters
  /\ mch \in {"there", "dying", "gone"}
  /\ at \in Positions /\ interactive \in BOOLEAN
  /\ todo \subseteq Clusters /\ deleted \in BOOLEAN
  /\ faults \in Nat

\* "This is required before MCH deletion": a decommissioning that asks no
\* questions gets to the MultiClusterHub only when no cluster is on its way out
\* any more, whichever earlier run sent it there; with questions the operator may
\* pass over the clusters (_delete_managed_clusters).
HubAfterClusters ==
  at = "mch" /\ ~interactive => leaving = {}
=============================================================================
