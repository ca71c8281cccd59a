----------------------------- MODULE Klusterlet -----------------------------
(***************************************************************************)
(* The agents of the managed clusters, and the threads with which          *)
(* modules/post_activation.py moves those that still talk to the old hub.  *)
(* A cluster has two secrets: bootstrap-hub-kubeconfig names the hub to    *)
(* register with, hub-kubeconfig-secret is what it got from the hub it     *)
(* registered with.  Both are a hub here, or "none".  How agents and hubs  *)
(* behave is taken from what the code and docs/ACM_SWITCHOVER_RUNBOOK.md   *)
(* expect of them: a klusterlet registers anew at the hub of the bootstrap *)
(* secret when it is restarted (it may without), a hub imports its         *)
(* clusters by itself unless they bear the annotation.                     *)
(***************************************************************************)
EXTENDS Naturals, FiniteSets

CONSTANTS
  Clusters,  \* the managed clusters, local-cluster aside
  Reach,     \* those with a context in the kubeconfig
  MaxFaults  \* bound: failed calls, kills and clusters taken back

ASSUME ClustersAssumption == IsFiniteSet(Clusters) /\ Reach \subseteq Clusters
ASSUME FaultsAssumption == MaxFaults \in Nat

Hubs == {"old", "new"}

VARIABLES
  bootstrap,   \* of a cluster: the hub in bootstrap-hub-kubeconfig
  agent,       \* the hub in hub-kubeconfig-secret
  restarted,   \* clusters restarted since the bootstrap secret was written
  worker,      \* of a cluster: where its thread is
  missed,      \* history: clusters that the repair had to leave as they were
  faults

secrets == <<bootstrap, agent, restarted>>
klusterlet == <<secrets, worker, missed, faults>>

Adverse == faults < MaxFaults /\ faults' = faults + 1

Goto(c, stage) == worker' = [worker EXCEPT ![c] = stage]

\* The thread of c goes on although a call raised: an ApiException is logged and
\* passed over, anything else ends it.  Whether it ends well is only logged.
Despite(c, stages) ==
  /\ Adverse
  /\ \E stage \in stages : Goto(c, stage)
  /\ missed' = missed \cup {c}

\* The secret whose server _check_klusterlet_connection looks at.
Endpoint(c) == IF agent[c] # "none" THEN agent[c] ELSE bootstrap[c]

-----------------------------------------------------------------------------
(* The threads: one pool checks every cluster, the next one repairs. *)

\* check_cluster: without a context or a secret, or after an error, skipped
Check(c) ==
  /\ worker[c] = "check"
  /\ \/ /\ c \in Reach /\ Endpoint(c) # "none"
        /\ Goto(c, IF Endpoint(c) = "new" THEN "idle" ELSE "wrong_hub")
        /\ UNCHANGED <<missed, faults>>
     \/ /\ c \notin Reach \/ Endpoint(c) = "none"
        /\ Goto(c, "idle") /\ missed' = missed \cup {c}
        /\ UNCHANGED faults
     \/ Despite(c, {"idle"})
  /\ UNCHANGED secrets

AllChecked == \A c \in Clusters : worker[c] # "check"

\* _get_import_secret; the new hub may not have made the secret yet.
GetImport(c) ==
  /\ worker[c] = "wrong_hub" /\ AllChecked
  /\ \/ Goto(c, "delete") /\ UNCHANGED missed
     \/ Goto(c, "idle") /\ missed' = missed \cup {c}
  /\ UNCHANGED <<secrets, faults>>

\* Mutant: nothing is deleted.
MutDeleteBootstrap(c) ==
  /\ worker[c] = "delete"
  /\ Goto(c, "create")
  /\ UNCHANGED <<secrets, missed, faults>>

\* _delete_bootstrap_secret
DeleteBootstrap(c) ==
  /\ worker[c] = "delete"
  /\ \/ /\ bootstrap' = [bootstrap EXCEPT ![c] = "none"]
        /\ Goto(c, "create") /\ UNCHANGED <<missed, faults>>
     \/ /\ \E there \in {"none", bootstrap[c]} : bootstrap' = [bootstrap EXCEPT ![c] = there]
        /\ Despite(c, {"create", "idle"})
  /\ UNCHANGED <<agent, restarted>>

\* _apply_import_manifest: a secret that is there stays (409).  The wait for its
\* visibility changes nothing.
CreateBootstrap(c) ==
  /\ worker[c] = "create"
  /\ LET created == [bootstrap EXCEPT ![c] = IF @ = "none" THEN "new" ELSE @]
     IN \/ bootstrap' = created /\ Goto(c, "restart") /\ UNCHANGED <<missed, faults>>
        \/ bootstrap' \in {created, bootstrap} /\ Despite(c, {"restart", "idle"})
  /\ restarted' = IF bootstrap' = bootstrap THEN restarted ELSE restarted \ {c}
  /\ UNCHANGED <<agent>>

\* _restart_klusterlet
Restart(c) ==
  /\ worker[c] = "restart"
  /\ \/ restarted' = restarted \cup {c} /\ Goto(c, "idle") /\ UNCHANGED <<missed, faults>>
     \/ /\ restarted' \in {restarted, restarted \cup {c}}
        /\ Despite(c, {"idle"})
  /\ UNCHANGED <<bootstrap, agent>>

WorkerStep(c) ==
  Check(c) \/ GetImport(c) \/ DeleteBootstrap(c) \/ CreateBootstrap(c) \/ Restart(c)

-----------------------------------------------------------------------------
(* The clusters and the hubs. *)

\* The klusterlet gives up its registration, and registers at the hub it is told.
LeaveHub(c) ==
  /\ bootstrap[c] \in Hubs /\ agent[c] \in Hubs \ {bootstrap[c]}
  /\ agent' = [agent EXCEPT ![c] = "none"]
  /\ UNCHANGED <<bootstrap, restarted, worker, missed, faults>>

Register(c) ==
  /\ agent[c] = "none" /\ bootstrap[c] \in Hubs
  /\ agent' = [agent EXCEPT ![c] = bootstrap[c]]
  /\ UNCHANGED <<bootstrap, restarted, worker, missed, faults>>

\* A hub imports a cluster: it writes the secret and restarts the klusterlet.
Import(c, hub) ==
  /\ bootstrap[c] # hub
  /\ bootstrap' = [bootstrap EXCEPT ![c] = hub]
  /\ restarted' = restarted \cup {c}
  /\ UNCHANGED <<agent, worker, missed>>

-----------------------------------------------------------------------------
KlusterletInit ==
  /\ bootstrap = [c \in Clusters |-> "old"] /\ agent = [c \in Clusters |-> "old"]
  /\ restarted = {} /\ missed = {} /\ faults = 0
  /\ worker = [c \in Clusters |-> "idle"]

KlusterletTypeOK ==
  /\ bootstrap \in [Clusters -> Hubs \cup {"none"}]
  /\ agent \in [Clusters -> Hubs \cup {"none"}]
  /\ restarted \subseteq Clusters /\ missed \subseteq Clusters
  /\ worker \in [Clusters -> {"idle", "check", "wrong_hub", "delete", "create", "restart"}]
  /\ faults \in 0..MaxFaults
=============================================================================
