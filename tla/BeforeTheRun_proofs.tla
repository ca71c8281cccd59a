-------------------------- MODULE BeforeTheRun_proofs --------------------------
(***************************************************************************)
(* Proofs about what stands before a run: RunLock, for any number of       *)
(* processes and of writes, and Preflight, for any clusters, any start,    *)
(* any number of failing calls and of changes of the hubs.                 *)
(***************************************************************************)
EXTENDS RunLock, Preflight, TLAPS

-----------------------------------------------------------------------------
(* The run lock and the state file *)

\* A process that has synced its temporary file finds a whole document in it.
TempInv ==
  /\ file # Torn
  /\ \A p \in Procs : pc[p] = "synced" => tmp \in Nat

\* Where the path is not a symbolic link: one lock for all, held while live, and
\* a run that has loaded the file knows what is in it.
LockInv ==
  /\ linked = FALSE
  /\ \A p \in Procs : lockedAt[p] = "link"
  /\ \A p \in Procs : pc[p] \in Live => runLock["link"] = p
  /\ \A p \in Procs : pc[p] \in Live \ {"load"} => file \in {seen[p], None}

LEMMA InitType == Init => TypeOK
  BY ProcsAssumption, LinkAssumption, WritesAssumption
     DEF Init, TypeOK, Docs, Paths, Live

\* Every step keeps the types and the write lock with the writer.
LEMMA NextType == TypeOK /\ TempInv /\ [Next]_vars => TypeOK'
<1> SUFFICES ASSUME TypeOK, TempInv, [Next]_vars PROVE TypeOK'
  OBVIOUS
<1> USE ProcsAssumption DEF TypeOK, Docs, Paths, Live
<1>1. ASSUME NEW p \in Procs, ResetState(p) PROVE TypeOK'
  BY <1>1 DEF ResetState
<1>2. ASSUME NEW p \in Procs, Start(p) PROVE TypeOK'
  BY <1>2 DEF Start
<1>3. ASSUME NEW p \in Procs, OpenRunLock(p) PROVE TypeOK'
  BY <1>3 DEF OpenRunLock, RealPath
<1>4. ASSUME NEW p \in Procs, AcquireRunLock(p) PROVE TypeOK'
  BY <1>4 DEF AcquireRunLock
<1>5. ASSUME NEW p \in Procs, Refused(p) PROVE TypeOK'
  BY <1>5 DEF Refused
<1>6. ASSUME NEW p \in Procs, Load(p) PROVE TypeOK'
  BY <1>6 DEF Load
<1>7. ASSUME NEW p \in Procs, Write(p) PROVE TypeOK'
  BY <1>7 DEF Write
<1>8. ASSUME NEW p \in Procs, OpenTemp(p) PROVE TypeOK'
  BY <1>8 DEF OpenTemp
<1>9. ASSUME NEW p \in Procs, SyncTemp(p) PROVE TypeOK'
  BY <1>9 DEF SyncTemp
<1>10. ASSUME NEW p \in Procs, Replace(p) PROVE TypeOK'
  BY <1>10 DEF Replace, TempInv
<1>11. ASSUME NEW p \in Procs, WriteFails(p) PROVE TypeOK'
  BY <1>11 DEF WriteFails, Ended
<1>12. ASSUME NEW p \in Procs, Finish(p) PROVE TypeOK'
  BY <1>12 DEF Finish, Ended
<1>13. ASSUME NEW p \in Procs, Die(p) PROVE TypeOK'
  BY <1>13 DEF Die, Ended
<1>14. CASE UNCHANGED vars
  BY <1>14 DEF vars
<1> QED
  BY <1>1, <1>2, <1>3, <1>4, <1>5, <1>6, <1>7, <1>8, <1>9, <1>10, <1>11, <1>12,
     <1>13, <1>14 DEF Next

\* The writer alone touches the temporary file while it holds the write lock.
LEMMA NextTemp == TypeOK /\ TempInv /\ [Next]_vars => TempInv'
<1> SUFFICES ASSUME TypeOK, TempInv, [Next]_vars PROVE TempInv'
  OBVIOUS
<1> USE ProcsAssumption, WritesAssumption DEF TypeOK, TempInv
<1>1. ASSUME NEW p \in Procs, OpenTemp(p) PROVE TempInv'
  BY <1>1 DEF OpenTemp
<1>2. ASSUME NEW p \in Procs, SyncTemp(p) PROVE TempInv'
  BY <1>2 DEF SyncTemp
<1>3. ASSUME NEW p \in Procs, Replace(p) PROVE TempInv'
  BY <1>3 DEF Replace
<1>4. ASSUME NEW p \in Procs, WriteFails(p) PROVE TempInv'
  BY <1>4 DEF WriteFails, Ended
<1>5. ASSUME NEW p \in Procs, ResetState(p) PROVE TempInv'
  BY <1>5 DEF ResetState
<1>6. ASSUME NEW p \in Procs,
             \/ Start(p) \/ OpenRunLock(p) \/ AcquireRunLock(p) \/ Refused(p)
             \/ Load(p) \/ Write(p) \/ Finish(p) \/ Die(p)
      PROVE  TempInv'
  <2>1. file' = file /\ tmp' = tmp
    BY <1>6 DEF Start, OpenRunLock, AcquireRunLock, Refused, Load, Write, Finish, Die
  <2>2. \A q \in Procs : pc'[q] = "synced" => pc[q] = "synced"
    BY <1>6 DEF Start, OpenRunLock, AcquireRunLock, Refused, Load, Write, Finish,
                Die, Ended
  <2> QED
    BY <2>1, <2>2
<1>7. CASE UNCHANGED vars
  BY <1>7 DEF vars
<1> QED
  BY <1>1, <1>2, <1>3, <1>4, <1>5, <1>6, <1>7 DEF Next

\* The types hold, and the write lock is always with the process that writes
\* (_write_state and its `finally`).
THEOREM TypeCorrect == Spec => []TypeOK
<1>1. Init => TypeOK /\ TempInv
  BY InitType, ProcsAssumption, WritesAssumption DEF Init, TempInv
<1>2. TypeOK /\ TempInv /\ [Next]_vars => (TypeOK /\ TempInv)'
  BY NextType, NextTemp
<1> QED
  BY <1>1, <1>2, PTL DEF Spec

\* Whatever dies or fails in the middle of a write, with any number of writers,
\* the state file is a whole document (_write_state: temporary file and rename).
THEOREM FileIsWhole == Spec => []NeverTorn
<1>1. Init => TypeOK /\ TempInv
  BY InitType, ProcsAssumption, WritesAssumption DEF Init, TempInv
<1>2. TypeOK /\ TempInv /\ [Next]_vars => (TypeOK /\ TempInv)'
  BY NextType, NextTemp
<1>3. TempInv => NeverTorn
  BY DEF TempInv, NeverTorn
<1> QED
  BY <1>1, <1>2, <1>3, PTL DEF Spec

-----------------------------------------------------------------------------
(* Mutual exclusion. *)

LEMMA InitLock == Linked = FALSE /\ Init => LockInv
  BY DEF Init, LockInv, Live

LEMMA NextLock == TypeOK /\ LockInv /\ [Next]_vars => LockInv'
<1> SUFFICES ASSUME TypeOK, LockInv, [Next]_vars PROVE LockInv'
  OBVIOUS
<1> USE ProcsAssumption DEF TypeOK, LockInv, Live, Paths
<1>1. ASSUME NEW p \in Procs, ResetState(p) PROVE LockInv'
  BY <1>1 DEF ResetState
<1>2. ASSUME NEW p \in Procs, Start(p) PROVE LockInv'
  BY <1>2 DEF Start
<1>3. ASSUME NEW p \in Procs, OpenRunLock(p) PROVE LockInv'
  BY <1>3 DEF OpenRunLock, RealPath
<1>4. ASSUME NEW p \in Procs, AcquireRunLock(p) PROVE LockInv'
  BY <1>4 DEF AcquireRunLock
<1>5. ASSUME NEW p \in Procs, Refused(p) PROVE LockInv'
  BY <1>5 DEF Refused
<1>6. ASSUME NEW p \in Procs, Load(p) PROVE LockInv'
  BY <1>6 DEF Load
<1>7. ASSUME NEW p \in Procs, Write(p) PROVE LockInv'
  BY <1>7 DEF Write
<1>8. ASSUME NEW p \in Procs, OpenTemp(p) PROVE LockInv'
  BY <1>8 DEF OpenTemp
<1>9. ASSUME NEW p \in Procs, SyncTemp(p) PROVE LockInv'
  BY <1>9 DEF SyncTemp
<1>10. ASSUME NEW p \in Procs, Replace(p) PROVE LockInv'
  <2>1. \A q \in Procs : pc[q] \in Live => q = p
    BY <1>10 DEF Replace
  <2>2. \A q \in Procs : pc'[q] \in Live => q = p
    BY <1>10, <2>1 DEF Replace
  <2> QED
    BY <1>10, <2>2 DEF Replace
<1>11. ASSUME NEW p \in Procs, WriteFails(p) PROVE LockInv'
  BY <1>11 DEF WriteFails, Ended
<1>12. ASSUME NEW p \in Procs, Finish(p) PROVE LockInv'
  BY <1>12 DEF Finish, Ended
<1>13. ASSUME NEW p \in Procs, Die(p) PROVE LockInv'
  BY <1>13 DEF Die, Ended
<1>14. CASE UNCHANGED vars
  BY <1>14 DEF vars
<1> QED
  BY <1>1, <1>2, <1>3, <1>4, <1>5, <1>6, <1>7, <1>8, <1>9, <1>10, <1>11, <1>12,
     <1>13, <1>14 DEF Next

\* The run lock excludes: as long as the path is no symbolic link, two processes
\* are never past _acquire_run_lock together, --reset-state and deaths included.
THEOREM RunLockExcludes ==
  ASSUME Linked = FALSE
  PROVE  Spec => []OneRunAtATime
<1>1. Init => TypeOK /\ TempInv /\ LockInv
  BY InitType, InitLock, ProcsAssumption, WritesAssumption DEF Init, TempInv
<1>2. TypeOK /\ TempInv /\ LockInv /\ [Next]_vars => (TypeOK /\ TempInv /\ LockInv)'
  BY NextType, NextTemp, NextLock
<1>3. LockInv => OneRunAtATime
  BY DEF LockInv, OneRunAtATime
<1> QED
  BY <1>1, <1>2, <1>3, PTL DEF Spec

\* A write replaces only the document its writer has read or written last, so a
\* run never overwrites another run's progress (_load_state under the run lock).
THEOREM UpdatesAreNotLost ==
  ASSUME Linked = FALSE
  PROVE  Spec => NoLostUpdate
<1>1. Init => TypeOK /\ TempInv /\ LockInv
  BY InitType, InitLock, ProcsAssumption, WritesAssumption DEF Init, TempInv
<1>2. TypeOK /\ TempInv /\ LockInv /\ [Next]_vars => (TypeOK /\ TempInv /\ LockInv)'
  BY NextType, NextTemp, NextLock
<1>3. LockInv => (\A p \in Procs : Replace(p) => file \in {seen[p], None})
  BY DEF LockInv, Replace, Live
<1> QED
  BY <1>1, <1>2, <1>3, PTL DEF Spec, NoLostUpdate

-----------------------------------------------------------------------------
(* The validation: types *)

Checks == Facts \cup {"rbac", "backups", "deployments", "clusters"}
Rounds == [start : Nat, end : Nat, base : SUBSET Clusters, held : SUBSET Clusters]
AfterClusters == {"method", "observability", "thanos", "verdict", "passed"}
AfterDeployments == {"clusters", "cluster_backups", "compare"} \cup AfterClusters
AfterBackups == {"stores", "deployments"} \cup AfterDeployments
AfterRbac == {"hubs", "backups", "wait", "relist"} \cup AfterBackups
Validators ==
  {"scope", "rbac_primary", "rbac_secondary", "failed", "raised", "torn_down"} \cup AfterRbac

ShapeOfRun ==
  /\ options \in [skipRbac : BOOLEAN, passive : BOOLEAN]
  /\ at \in Validators
  /\ failures \subseteq Checks
  /\ skipObs \in BOOLEAN
  /\ listed \subseteq Clusters
  /\ at = "compare" => backup \in Rounds /\ left \subseteq listed /\ late \subseteq listed
  /\ detected \subseteq Hubs
  /\ at = "scope" => detected = {} /\ ~skipObs

ShapeOfHubs ==
  /\ cluster \in [Clusters -> [made : Nat, keeps : BOOLEAN]]
  /\ joined \subseteq Existing
  /\ phase \in [Kinds -> Phases]
  /\ round \in Rounds
  /\ obs \subseteq Hubs /\ permitted \subseteq Hubs /\ broken \subseteq Facts
  /\ now \in Nat \ {0} /\ disturbed \in BOOLEAN

\* The verdict is the report's.
VerdictInv ==
  /\ at = "passed" => failures = {}
  /\ at = "failed" => failures # {}
  /\ "clusters" \in failures => at \in AfterClusters \cup {"failed", "raised"}

-----------------------------------------------------------------------------
(* The validation: permissions *)

\* What the checks of the permissions have established when none has failed: a hub
\* whose check was left out had no observability, or has it since.
PermissionsInv ==
  failures = {} /\ ~options.skipRbac =>
    /\ skipObs /\ at # "scope" => obs \subseteq appeared
    /\ ~skipObs /\ at \in {"rbac_secondary"} \cup AfterRbac => "primary" \in permitted
    /\ ~skipObs /\ at \in AfterRbac => "secondary" \in permitted
    /\ detected \subseteq permitted \cup appeared

\* Once the deployments have been listed and found in order, one that keeps nothing
\* has come or changed since.
DeploymentsInv ==
  /\ failures = {} /\ at \in AfterDeployments =>
       \A c \in Existing : cluster[c].keeps \/ c \in exposed
  /\ at # "torn_down" => destroyed = {}
  /\ destroyed \subseteq exposed

\* A cluster older than the round is in what its backup starts from, and in what it
\* holds when it completes.
RoundInv ==
  at # "torn_down" =>
    /\ round.start <= now
    /\ \A c \in Existing : cluster[c].made >= round.start \/ c \in round.base
    /\ phase["managedClusters"] = "Completed" => round.base \subseteq round.held

\* A cluster listed and untouched since is still there, and the backup it is compared
\* with holds it unless it is younger than the start of that backup; once it has been
\* compared, and was not found too late, it is not younger than the end.
BackupInv ==
  /\ at = "cluster_backups" => listed \ touched \subseteq Existing
  /\ at = "compare" =>
       \A c \in listed \ touched :
         /\ c \in Existing
         /\ c \in backup.held \/ cluster[c].made >= backup.start
         /\ c \in left \cup late \/ cluster[c].made <= backup.end
  /\ at \in AfterClusters /\ failures = {} =>
       \A c \in listed \ touched :
         c \in backup.held \/ cluster[c].made \in backup.start .. backup.end

\* The hubs left in peace: nothing waits in the queue of Velero, nothing runs once
\* the backups have been judged, and what was read is still so.
PeaceInv ==
  ~disturbed =>
    /\ \A k \in Kinds : phase[k] # "New"
    /\ at \in {"relist"} \cup AfterBackups => InProgress = {}
    /\ at \in {"rbac_primary", "rbac_secondary"} =>
         ~options.skipRbac /\ skipObs = (obs = {})
    /\ at = "scope" => ~options.skipRbac
    /\ at = "cluster_backups" => listed = joined
    /\ at = "compare" =>
         /\ listed = joined /\ backup = round
         /\ phase["managedClusters"] = "Completed"
         /\ \A c \in late : cluster[c].made > round.end

\* What a failure of the check f may tell about the hubs.
Reason(f) ==
  \/ f \in broken
  \/ f = "rbac" /\ ~options.skipRbac /\ obs # {} /\ ~(obs = Hubs /\ permitted = Hubs)
  \/ f = "backups" /\ \E k \in Kinds : phase[k] = "Failed"
  \/ f = "deployments" /\ \E c \in Existing : ~cluster[c].keeps
  \/ f = "clusters" /\ phase["managedClusters"] = "Failed"
  \/ f = "clusters" /\ phase["managedClusters"] = "Completed"
       /\ \E c \in joined : cluster[c].made > round.end

\* In peace every failure has its reason on the hubs.
ReasonsInv == ~disturbed => \A f \in failures : Reason(f)

-----------------------------------------------------------------------------
(* The validation: every step *)

LEMMA StartShape == PreflightInit => ShapeOfRun /\ ShapeOfHubs
<1> SUFFICES ASSUME PreflightInit PROVE ShapeOfRun /\ ShapeOfHubs
  OBVIOUS
<1>1. PICK s \in Starts :
        /\ options = s.options /\ cluster = s.cluster /\ obs = s.obs
        /\ permitted = s.permitted /\ phase = s.phase /\ broken = s.broken
        /\ joined \in {Existing, {}}
        /\ round = IF phase["managedClusters"] = "Completed"
                    THEN [start |-> 2, end |-> 3, base |-> Existing, held |-> Existing]
                    ELSE [start |-> 2, end |-> 0, base |-> Existing, held |-> {}]
        /\ now = 3
        /\ at = (IF options.skipRbac THEN "hubs" ELSE "scope")
        /\ failures = {} /\ skipObs = FALSE
        /\ listed = {} /\ backup = "none" /\ left = {} /\ late = {} /\ detected = {}
        /\ disturbed = (\E k \in Kinds : phase[k] = "New")
  BY DEF PreflightInit
<1>2. /\ options \in [skipRbac : BOOLEAN, passive : BOOLEAN]
      /\ cluster \in [Clusters -> [made : 0 .. 3, keeps : BOOLEAN]]
      /\ phase \in [Kinds -> Phases]
      /\ obs \subseteq Hubs /\ permitted \subseteq Hubs /\ broken \subseteq Facts
  BY <1>1, StartsAssumption
<1>3. cluster \in [Clusters -> [made : Nat, keeps : BOOLEAN]]
  BY <1>2
<1>4. round \in Rounds
  BY <1>1 DEF Rounds, Existing
<1>5. ShapeOfRun
  BY <1>1, <1>2 DEF ShapeOfRun, Validators, AfterRbac
<1>6. ShapeOfHubs
  BY <1>1, <1>2, <1>3, <1>4 DEF ShapeOfHubs
<1> QED
  BY <1>5, <1>6

\* What is derived from the hubs changes with them alone.
LEMMA Frames ==
  /\ Existing \subseteq Clusters
  /\ cluster' = cluster => Existing' = Existing
  /\ phase' = phase => InProgress' = InProgress
  BY DEF Existing, InProgress

\* Time does not go back.
LEMMA Clock ==
  ASSUME now \in Nat \ {0}, Stamped
  PROVE  now' \in Nat \ {0} /\ now' >= now
  BY DEF Stamped

\* Removing, importing and editing change one cluster.
LEMMA ImportedShape ==
  ASSUME cluster \in [Clusters -> [made : Nat, keeps : BOOLEAN]], now' \in Nat \ {0},
         NEW c \in Clusters, NEW k \in BOOLEAN,
         cluster' = [cluster EXCEPT ![c] = [made |-> now', keeps |-> k]]
  PROVE  /\ cluster' \in [Clusters -> [made : Nat, keeps : BOOLEAN]]
         /\ \A d \in Clusters \ {c} : cluster'[d] = cluster[d]
         /\ cluster'[c].made = now'
         /\ Existing' = Existing \cup {c}
<1>1. /\ cluster' \in [Clusters -> [made : Nat, keeps : BOOLEAN]]
      /\ \A d \in Clusters \ {c} : cluster'[d] = cluster[d]
      /\ cluster'[c].made = now'
  OBVIOUS
<1>2. now' > 0
  OBVIOUS
<1> QED
  BY <1>1, <1>2 DEF Existing

LEMMA EditedShape ==
  ASSUME cluster \in [Clusters -> [made : Nat, keeps : BOOLEAN]], NEW c \in Clusters,
         cluster' = [cluster EXCEPT ![c].keeps = ~@]
  PROVE  /\ cluster' \in [Clusters -> [made : Nat, keeps : BOOLEAN]]
         /\ \A d \in Clusters \ {c} : cluster'[d] = cluster[d]
         /\ \A d \in Clusters : cluster'[d].made = cluster[d].made
         /\ Existing' = Existing
<1> DEFINE edited == [cluster[c] EXCEPT !.keeps = ~@]
<1>1. cluster[c] \in [made : Nat, keeps : BOOLEAN]
  OBVIOUS
<1>2. edited \in [made : Nat, keeps : BOOLEAN] /\ edited.made = cluster[c].made
  BY <1>1
<1>3. cluster' = [cluster EXCEPT ![c] = edited]
  OBVIOUS
<1> HIDE DEF edited
<1>4. /\ cluster' \in [Clusters -> [made : Nat, keeps : BOOLEAN]]
      /\ \A d \in Clusters \ {c} : cluster'[d] = cluster[d]
      /\ \A d \in Clusters : cluster'[d].made = cluster[d].made
  BY <1>2, <1>3
<1> QED
  BY <1>4 DEF Existing

LEMMA RemovedShape ==
  ASSUME cluster \in [Clusters -> [made : Nat, keeps : BOOLEAN]], NEW c \in Clusters,
         cluster' = [cluster EXCEPT ![c] = Absent]
  PROVE  /\ cluster' \in [Clusters -> [made : Nat, keeps : BOOLEAN]]
         /\ \A d \in Clusters \ {c} : cluster'[d] = cluster[d]
         /\ Existing' = Existing \ {c}
  BY DEF Existing, Absent

\* A backup of the managed clusters ends with the time and with what it holds.
LEMMA EndedShape ==
  ASSUME round \in Rounds, now' \in Nat,
         NEW s \in SUBSET Clusters,
         round' = [round EXCEPT !.end = now', !.held = round.base \cup s]
  PROVE  /\ round' \in Rounds
         /\ round'.start = round.start /\ round'.base = round.base
         /\ round.base \subseteq round'.held
  BY DEF Rounds

LEMMA StepShape ==
  ShapeOfRun /\ ShapeOfHubs /\ [PreflightNext]_preflightVars => ShapeOfRun' /\ ShapeOfHubs'
<1> SUFFICES ASSUME ShapeOfRun, ShapeOfHubs, [PreflightNext]_preflightVars
             PROVE  ShapeOfRun' /\ ShapeOfHubs'
  OBVIOUS
<1> USE Frames
    DEF ShapeOfRun, ShapeOfHubs, Validators, AfterRbac, AfterBackups, AfterDeployments,
            AfterClusters, Checks, Facts, process, hubs, observed, Phases
<1>1. CASE ReadScope
  BY <1>1 DEF ReadScope, CallFails, Escapes, Fault, Report
<1>2. ASSUME NEW h \in Hubs, ValidatePermissions(h) PROVE ShapeOfRun' /\ ShapeOfHubs'
  BY <1>2 DEF ValidatePermissions, Granted, CallFails, Escapes, Fault, Report
<1>3. CASE CheckHubs
  BY <1>3 DEF CheckHubs, CheckFact, CallFails, Escapes, Fault, Report
<1>4. CASE ListBackups
  BY <1>4 DEF ListBackups, JudgeLatest, JudgedAsIs, CallFails, Fault, Report
<1>5. CASE PollBackups
  BY <1>5 DEF PollBackups, CallFails, Fault, Report
<1>6. CASE RelistBackups
  BY <1>6 DEF RelistBackups, JudgeLatest, JudgedAsIs, CallFails, Fault, Report
<1>7. CASE CheckStores
  BY <1>7 DEF CheckStores, CheckFact, CallFails, Fault, Report
<1>8. CASE ListDeployments
  BY <1>8 DEF ListDeployments, CallFails, Fault, Report
<1>9. CASE ListJoined
  BY <1>9 DEF ListJoined, CallFails, Fault, Report
<1>10. CASE ListClusterBackups
  BY <1>10 DEF ListClusterBackups, JudgedAsIs, CallFails, Fault, Report
<1>11. ASSUME NEW c \in Clusters, Compare(c) PROVE ShapeOfRun' /\ ShapeOfHubs'
  BY <1>11 DEF Compare, CallFails, Fault, Report
<1>12. CASE EndCompare
  BY <1>12 DEF EndCompare, Report
<1>13. CASE CheckPassive
  BY <1>13 DEF CheckPassive, CheckFact, CallFails, Fault, Report
<1>14. CASE DetectObservability
  BY <1>14 DEF DetectObservability, Escapes, Fault
<1>15. CASE CheckPrereqs
  BY <1>15 DEF CheckPrereqs, Escapes, Fault, Report
<1>16. CASE Judge
  BY <1>16 DEF Judge
<1>17. CASE Teardown
  <2>1. cluster' \in [Clusters -> [made : Nat, keeps : BOOLEAN]]
    BY <1>17 DEF Teardown, Absent
  <2> QED
    BY <1>17, <2>1 DEF Teardown, Absent
<1>18. ASSUME NEW c \in Clusters, ImportCluster(c) PROVE ShapeOfRun' /\ ShapeOfHubs'
  <2>1. PICK k \in BOOLEAN : cluster' = [cluster EXCEPT ![c] = [made |-> now', keeps |-> k]]
    BY <1>18 DEF ImportCluster
  <2>2. now' \in Nat \ {0}
    BY <1>18, Clock DEF ImportCluster
  <2>3. cluster' \in [Clusters -> [made : Nat, keeps : BOOLEAN]]
    BY <2>1, <2>2, ImportedShape, Zenon
  <2>4. Existing' = Existing \cup {c}
    BY <2>1, <2>2, ImportedShape, Zenon
  <2> QED
    BY <1>18, <2>2, <2>3, <2>4 DEF ImportCluster, Disturbs, Change, Stamped
<1>19. ASSUME NEW c \in Clusters, RemoveCluster(c) PROVE ShapeOfRun' /\ ShapeOfHubs'
  <2>1. cluster' \in [Clusters -> [made : Nat, keeps : BOOLEAN]] /\ Existing' = Existing \ {c}
    BY <1>19, RemovedShape DEF RemoveCluster
  <2>2. round' \in Rounds
    BY <1>19 DEF RemoveCluster, Rounds
  <2> QED
    BY <1>19, <2>1, <2>2 DEF RemoveCluster, Disturbs, Change, Absent
<1>20. ASSUME NEW c \in Clusters, EditDeployment(c) PROVE ShapeOfRun' /\ ShapeOfHubs'
  <2>1. cluster' = [cluster EXCEPT ![c].keeps = ~@]
    BY <1>20, Zenon DEF EditDeployment
  <2>2. Existing' = Existing
    BY <2>1, EditedShape, Zenon
  <2>3. cluster' \in [Clusters -> [made : Nat, keeps : BOOLEAN]]
    BY <2>1, EditedShape, Zenon
  <2> QED
    BY <1>20, <2>2, <2>3 DEF EditDeployment, Disturbs, Change
<1>21. CASE BeginRound
  <2>1. now' \in Nat \ {0}
    BY <1>21, Clock DEF BeginRound
  <2>2. round' \in Rounds
    BY <1>21, <2>1 DEF BeginRound, Rounds, Existing
  <2>3. phase' \in [Kinds -> Phases]
    BY <1>21 DEF BeginRound
  <2> QED
    BY <1>21, <2>1, <2>2, <2>3 DEF BeginRound, Disturbs, Change, Stamped
<1>22. ASSUME NEW k \in Kinds, TakeUpBackup(k) PROVE ShapeOfRun' /\ ShapeOfHubs'
  BY <1>22 DEF TakeUpBackup, Disturbs, Change
<1>23. ASSUME NEW k \in Kinds, EndBackup(k) PROVE ShapeOfRun' /\ ShapeOfHubs'
  <2>1. now' \in Nat \ {0}
    BY <1>23, Clock DEF EndBackup
  <2>6. \/ round' = round
        \/ \E s \in SUBSET (Existing \ round.base) :
              round' = [round EXCEPT !.end = now', !.held = round.base \cup s]
    BY <1>23, Zenon DEF EndBackup
  <2>2. round' \in Rounds
    <3>1. CASE round' = round
      BY <3>1
    <3>2. ASSUME NEW s \in SUBSET (Existing \ round.base),
                 round' = [round EXCEPT !.end = now', !.held = round.base \cup s]
          PROVE  round' \in Rounds
      <4>1. s \in SUBSET Clusters /\ round \in Rounds /\ now' \in Nat
        BY <2>1
      <4> QED
        BY <3>2, <4>1, EndedShape, Zenon
    <3> QED
      BY <2>6, <3>1, <3>2
  <2>3. phase' \in [Kinds -> Phases]
    BY <1>23 DEF EndBackup
  <2>4. disturbed' \in BOOLEAN
    BY <1>23 DEF EndBackup
  <2> QED
    BY <1>23, <2>1, <2>2, <2>3, <2>4 DEF EndBackup, Change, Stamped
<1>24. ASSUME NEW h \in Hubs, ToggleObservability(h) PROVE ShapeOfRun' /\ ShapeOfHubs'
  BY <1>24 DEF ToggleObservability, Disturbs, Change
<1>25. ASSUME NEW k \in Kinds, FinalizeBackup(k) PROVE ShapeOfRun' /\ ShapeOfHubs'
  BY <1>25 DEF FinalizeBackup, Change
<1>26. CASE UNCHANGED preflightVars
  BY <1>26 DEF preflightVars
<1> QED
  BY <1>1, <1>2, <1>3, <1>4, <1>5, <1>6, <1>7, <1>8, <1>9, <1>10, <1>11, <1>12, <1>13, <1>14,
     <1>15, <1>16, <1>17, <1>18, <1>19, <1>20, <1>21, <1>22, <1>23, <1>24, <1>25, <1>26
     DEF PreflightNext, Validate, HubsMove

\* The validators change nothing on the hubs; the hubs change nothing in the process.
LEMMA ValidatorsOnlyRead ==
  ShapeOfRun /\ Validate =>
    /\ UNCHANGED <<options, hubs, destroyed>>
    /\ at \notin {"passed", "failed", "raised", "torn_down"} /\ at' # "torn_down"
<1> SUFFICES ASSUME ShapeOfRun, Validate
             PROVE  /\ UNCHANGED <<options, hubs, destroyed>>
                    /\ at \notin {"passed", "failed", "raised", "torn_down"} /\ at' # "torn_down"
  OBVIOUS
<1> USE DEF CheckFact, JudgedAsIs, CallFails, Escapes, Fault, observed
<1>1. CASE ReadScope \/ \E h \in Hubs : ValidatePermissions(h)
  BY <1>1 DEF ReadScope, ValidatePermissions
<1>2. CASE CheckHubs \/ ListBackups \/ PollBackups \/ RelistBackups \/ CheckStores
  BY <1>2 DEF CheckHubs, ListBackups, JudgeLatest, PollBackups, RelistBackups, CheckStores
<1>3. CASE ListDeployments \/ ListJoined \/ ListClusterBackups \/ EndCompare
  BY <1>3 DEF ListDeployments, ListJoined, ListClusterBackups, EndCompare
<1>4. ASSUME NEW c \in Clusters, Compare(c)
      PROVE  /\ UNCHANGED <<options, hubs, destroyed>>
             /\ at \notin {"passed", "failed", "raised", "torn_down"} /\ at' # "torn_down"
  BY <1>4 DEF Compare
<1>5. CASE CheckPassive \/ DetectObservability \/ CheckPrereqs \/ Judge
  BY <1>5 DEF CheckPassive, DetectObservability, CheckPrereqs, Judge
<1> QED
  BY <1>1, <1>2, <1>3, <1>4, <1>5 DEF Validate

LEMMA HubsOnlyMove ==
  HubsMove => /\ UNCHANGED <<process, permitted, broken, destroyed>>
              /\ at \notin {"failed", "raised", "torn_down"}
  BY DEF HubsMove, ImportCluster, RemoveCluster, EditDeployment, BeginRound, TakeUpBackup,
         FinalizeBackup, EndBackup, ToggleObservability, Disturbs, Change

LEMMA StepVerdict ==
  ShapeOfRun /\ VerdictInv /\ [PreflightNext]_preflightVars => VerdictInv'
<1> SUFFICES ASSUME ShapeOfRun, VerdictInv, [PreflightNext]_preflightVars PROVE VerdictInv'
  OBVIOUS
<1> USE Frames
       DEF ShapeOfRun, VerdictInv, AfterRbac, AfterBackups, AfterDeployments, AfterClusters,
           process, hubs, observed, Facts
<1>1. CASE ReadScope
  BY <1>1 DEF ReadScope, CallFails, Escapes, Fault, Report
<1>2. ASSUME NEW h \in Hubs, ValidatePermissions(h) PROVE VerdictInv'
  BY <1>2 DEF ValidatePermissions, Granted, CallFails, Escapes, Fault, Report
<1>3. CASE CheckHubs
  BY <1>3 DEF CheckHubs, CheckFact, CallFails, Escapes, Fault, Report
<1>4. CASE ListBackups
  BY <1>4 DEF ListBackups, JudgeLatest, JudgedAsIs, CallFails, Fault, Report
<1>5. CASE PollBackups
  BY <1>5 DEF PollBackups, CallFails, Fault, Report
<1>6. CASE RelistBackups
  BY <1>6 DEF RelistBackups, JudgeLatest, JudgedAsIs, CallFails, Fault, Report
<1>7. CASE CheckStores
  BY <1>7 DEF CheckStores, CheckFact, CallFails, Fault, Report
<1>8. CASE ListDeployments
  BY <1>8 DEF ListDeployments, CallFails, Fault, Report
<1>9. CASE ListJoined
  BY <1>9 DEF ListJoined, CallFails, Fault, Report
<1>10. CASE ListClusterBackups
  BY <1>10 DEF ListClusterBackups, JudgedAsIs, CallFails, Fault, Report
<1>11. ASSUME NEW c \in Clusters, Compare(c) PROVE VerdictInv'
  BY <1>11 DEF Compare, CallFails, Fault, Report
<1>12. CASE EndCompare
  BY <1>12 DEF EndCompare, Report
<1>13. CASE CheckPassive
  BY <1>13 DEF CheckPassive, CheckFact, CallFails, Fault, Report
<1>14. CASE DetectObservability
  BY <1>14 DEF DetectObservability, Escapes, Fault
<1>15. CASE CheckPrereqs
  BY <1>15 DEF CheckPrereqs, Escapes, Fault, Report
<1>16. CASE Judge
  BY <1>16 DEF Judge
<1>17. CASE Teardown
  BY <1>17 DEF Teardown, Absent
<1>18. ASSUME NEW c \in Clusters, ImportCluster(c) PROVE VerdictInv'
  BY <1>18 DEF ImportCluster, Disturbs, Change, Stamped
<1>19. ASSUME NEW c \in Clusters, RemoveCluster(c) PROVE VerdictInv'
  BY <1>19 DEF RemoveCluster, Disturbs, Change, Absent
<1>20. ASSUME NEW c \in Clusters, EditDeployment(c) PROVE VerdictInv'
  BY <1>20 DEF EditDeployment, Disturbs, Change
<1>21. CASE BeginRound
  BY <1>21 DEF BeginRound, Disturbs, Change, Stamped
<1>22. ASSUME NEW k \in Kinds, TakeUpBackup(k) PROVE VerdictInv'
  BY <1>22 DEF TakeUpBackup, Disturbs, Change
<1>23. ASSUME NEW k \in Kinds, EndBackup(k) PROVE VerdictInv'
  BY <1>23 DEF EndBackup, Change, Stamped
<1>24. ASSUME NEW h \in Hubs, ToggleObservability(h) PROVE VerdictInv'
  BY <1>24 DEF ToggleObservability, Disturbs, Change
<1>25. ASSUME NEW k \in Kinds, FinalizeBackup(k) PROVE VerdictInv'
  BY <1>25 DEF FinalizeBackup, Change
<1>26. CASE UNCHANGED preflightVars
  BY <1>26 DEF preflightVars
<1> QED
  BY <1>1, <1>2, <1>3, <1>4, <1>5, <1>6, <1>7, <1>8, <1>9, <1>10, <1>11, <1>12, <1>13, <1>14,
     <1>15, <1>16, <1>17, <1>18, <1>19, <1>20, <1>21, <1>22, <1>23, <1>24, <1>25, <1>26
     DEF PreflightNext, Validate, HubsMove

LEMMA StepPermissions ==
  ShapeOfRun /\ ShapeOfHubs /\ PermissionsInv /\ [PreflightNext]_preflightVars => PermissionsInv'
<1> SUFFICES ASSUME ShapeOfRun, ShapeOfHubs, PermissionsInv, [PreflightNext]_preflightVars
    PROVE  PermissionsInv'
  OBVIOUS
<1> USE Frames
       DEF ShapeOfRun, ShapeOfHubs, PermissionsInv, AfterRbac, AfterBackups, AfterDeployments,
           AfterClusters, process, hubs, observed, Hubs
<1>1. CASE ReadScope
  <2>1. at' = "rbac_primary" /\ failures' = {} =>
          /\ skipObs' => obs = {}
          /\ detected = {}
    BY <1>1 DEF ReadScope, CallFails, Escapes, Fault, Report
  <2>2. /\ at' \in {"rbac_primary", "hubs", "raised"} /\ (at' = "hubs" => failures' # {})
        /\ at' = "raised" => ~skipObs' /\ detected = {}
    BY <1>1 DEF ReadScope, CallFails, Escapes, Fault, Report
  <2>3. UNCHANGED <<obs, permitted, detected, options>>
    BY <1>1 DEF ReadScope, CallFails, Escapes, Fault, Report
  <2> QED
    BY <2>1, <2>2, <2>3
<1>2. ASSUME NEW h \in Hubs, ValidatePermissions(h) PROVE PermissionsInv'
  BY <1>2 DEF ValidatePermissions, Granted, CallFails, Escapes, Fault, Report
<1>3. CASE CheckHubs
  BY <1>3 DEF CheckHubs, CheckFact, CallFails, Escapes, Fault, Report
<1>4. CASE ListBackups
  BY <1>4 DEF ListBackups, JudgeLatest, JudgedAsIs, CallFails, Fault, Report
<1>5. CASE PollBackups
  BY <1>5 DEF PollBackups, CallFails, Fault, Report
<1>6. CASE RelistBackups
  BY <1>6 DEF RelistBackups, JudgeLatest, JudgedAsIs, CallFails, Fault, Report
<1>7. CASE CheckStores
  BY <1>7 DEF CheckStores, CheckFact, CallFails, Fault, Report
<1>8. CASE ListDeployments
  BY <1>8 DEF ListDeployments, CallFails, Fault, Report
<1>9. CASE ListJoined
  BY <1>9 DEF ListJoined, CallFails, Fault, Report
<1>10. CASE ListClusterBackups
  BY <1>10 DEF ListClusterBackups, JudgedAsIs, CallFails, Fault, Report
<1>11. ASSUME NEW c \in Clusters, Compare(c) PROVE PermissionsInv'
  <2>1. UNCHANGED <<options, skipObs, detected, obs, permitted, appeared>>
    BY <1>11 DEF Compare, CallFails, Fault, Report
  <2>2. UNCHANGED <<at, failures>> \/ (at' # "scope" /\ failures' # {})
    BY <1>11 DEF Compare, CallFails, Fault, Report
  <2> QED
    BY <2>1, <2>2
<1>12. CASE EndCompare
  BY <1>12 DEF EndCompare, Report
<1>13. CASE CheckPassive
  BY <1>13 DEF CheckPassive, CheckFact, CallFails, Fault, Report
<1>14. CASE DetectObservability
  <2>1. UNCHANGED <<options, failures, skipObs, obs, permitted, appeared>>
    BY <1>14 DEF DetectObservability, Escapes, Fault
  <2>2. at = "observability" /\ at' \in {"thanos", "verdict", "raised"}
    BY <1>14 DEF DetectObservability, Escapes, Fault
  <2>3. detected' \in {obs, detected}
    BY <1>14 DEF DetectObservability, Escapes, Fault
  <2>4. failures = {} /\ ~options.skipRbac => obs \subseteq permitted \cup appeared
    BY <2>2
  <2>5. failures = {} /\ ~options.skipRbac => detected' \subseteq permitted \cup appeared
    BY <2>3, <2>4
  <2> QED
    BY <2>1, <2>2, <2>5
<1>15. CASE CheckPrereqs
  BY <1>15 DEF CheckPrereqs, Escapes, Fault, Report
<1>16. CASE Judge
  BY <1>16 DEF Judge
<1>17. CASE Teardown
  BY <1>17 DEF Teardown, Absent
<1>18. ASSUME NEW c \in Clusters, ImportCluster(c) PROVE PermissionsInv'
  BY <1>18 DEF ImportCluster, Disturbs, Change, Stamped
<1>19. ASSUME NEW c \in Clusters, RemoveCluster(c) PROVE PermissionsInv'
  BY <1>19 DEF RemoveCluster, Disturbs, Change, Absent
<1>20. ASSUME NEW c \in Clusters, EditDeployment(c) PROVE PermissionsInv'
  BY <1>20 DEF EditDeployment, Disturbs, Change
<1>21. CASE BeginRound
  BY <1>21 DEF BeginRound, Disturbs, Change, Stamped
<1>22. ASSUME NEW k \in Kinds, TakeUpBackup(k) PROVE PermissionsInv'
  BY <1>22 DEF TakeUpBackup, Disturbs, Change
<1>23. ASSUME NEW k \in Kinds, EndBackup(k) PROVE PermissionsInv'
  BY <1>23 DEF EndBackup, Change, Stamped
<1>24. ASSUME NEW h \in Hubs, ToggleObservability(h) PROVE PermissionsInv'
  BY <1>24 DEF ToggleObservability, Disturbs, Change
<1>25. ASSUME NEW k \in Kinds, FinalizeBackup(k) PROVE PermissionsInv'
  BY <1>25 DEF FinalizeBackup, Change
<1>26. CASE UNCHANGED preflightVars
  BY <1>26 DEF preflightVars
<1> QED
  BY <1>1, <1>2, <1>3, <1>4, <1>5, <1>6, <1>7, <1>8, <1>9, <1>10, <1>11, <1>12, <1>13, <1>14,
     <1>15, <1>16, <1>17, <1>18, <1>19, <1>20, <1>21, <1>22, <1>23, <1>24, <1>25, <1>26
     DEF PreflightNext, Validate, HubsMove

LEMMA StepDeployments ==
  ShapeOfHubs /\ VerdictInv /\ DeploymentsInv /\ [PreflightNext]_preflightVars => DeploymentsInv'
<1> SUFFICES ASSUME ShapeOfHubs, VerdictInv, DeploymentsInv, [PreflightNext]_preflightVars
    PROVE  DeploymentsInv'
  OBVIOUS
<1> USE Frames
       DEF ShapeOfHubs, VerdictInv, DeploymentsInv, AfterRbac, AfterBackups, AfterDeployments,
           AfterClusters, process, hubs, observed, Existing
<1>1. CASE ReadScope
  BY <1>1 DEF ReadScope, CallFails, Escapes, Fault, Report
<1>2. ASSUME NEW h \in Hubs, ValidatePermissions(h) PROVE DeploymentsInv'
  BY <1>2 DEF ValidatePermissions, Granted, CallFails, Escapes, Fault, Report
<1>3. CASE CheckHubs
  BY <1>3 DEF CheckHubs, CheckFact, CallFails, Escapes, Fault, Report
<1>4. CASE ListBackups
  BY <1>4 DEF ListBackups, JudgeLatest, JudgedAsIs, CallFails, Fault, Report
<1>5. CASE PollBackups
  BY <1>5 DEF PollBackups, CallFails, Fault, Report
<1>6. CASE RelistBackups
  BY <1>6 DEF RelistBackups, JudgeLatest, JudgedAsIs, CallFails, Fault, Report
<1>7. CASE CheckStores
  BY <1>7 DEF CheckStores, CheckFact, CallFails, Fault, Report
<1>8. CASE ListDeployments
  BY <1>8 DEF ListDeployments, CallFails, Fault, Report
<1>9. CASE ListJoined
  BY <1>9 DEF ListJoined, CallFails, Fault, Report
<1>10. CASE ListClusterBackups
  BY <1>10 DEF ListClusterBackups, JudgedAsIs, CallFails, Fault, Report
<1>11. ASSUME NEW c \in Clusters, Compare(c) PROVE DeploymentsInv'
  BY <1>11 DEF Compare, CallFails, Fault, Report
<1>12. CASE EndCompare
  BY <1>12 DEF EndCompare, Report
<1>13. CASE CheckPassive
  BY <1>13 DEF CheckPassive, CheckFact, CallFails, Fault, Report
<1>14. CASE DetectObservability
  BY <1>14 DEF DetectObservability, Escapes, Fault
<1>15. CASE CheckPrereqs
  BY <1>15 DEF CheckPrereqs, Escapes, Fault, Report
<1>16. CASE Judge
  BY <1>16 DEF Judge
<1>17. CASE Teardown
  BY <1>17 DEF Teardown, Absent
<1>18. ASSUME NEW c \in Clusters, ImportCluster(c) PROVE DeploymentsInv'
  BY <1>18 DEF ImportCluster, Disturbs, Change, Stamped
<1>19. ASSUME NEW c \in Clusters, RemoveCluster(c) PROVE DeploymentsInv'
  BY <1>19 DEF RemoveCluster, Disturbs, Change, Absent
<1>20. ASSUME NEW c \in Clusters, EditDeployment(c) PROVE DeploymentsInv'
  BY <1>20 DEF EditDeployment, Disturbs, Change
<1>21. CASE BeginRound
  BY <1>21 DEF BeginRound, Disturbs, Change, Stamped
<1>22. ASSUME NEW k \in Kinds, TakeUpBackup(k) PROVE DeploymentsInv'
  BY <1>22 DEF TakeUpBackup, Disturbs, Change
<1>23. ASSUME NEW k \in Kinds, EndBackup(k) PROVE DeploymentsInv'
  BY <1>23 DEF EndBackup, Change, Stamped
<1>24. ASSUME NEW h \in Hubs, ToggleObservability(h) PROVE DeploymentsInv'
  BY <1>24 DEF ToggleObservability, Disturbs, Change
<1>25. ASSUME NEW k \in Kinds, FinalizeBackup(k) PROVE DeploymentsInv'
  BY <1>25 DEF FinalizeBackup, Change
<1>26. CASE UNCHANGED preflightVars
  BY <1>26 DEF preflightVars
<1> QED
  BY <1>1, <1>2, <1>3, <1>4, <1>5, <1>6, <1>7, <1>8, <1>9, <1>10, <1>11, <1>12, <1>13, <1>14,
     <1>15, <1>16, <1>17, <1>18, <1>19, <1>20, <1>21, <1>22, <1>23, <1>24, <1>25, <1>26
     DEF PreflightNext, Validate, HubsMove

LEMMA StepRound ==
  ShapeOfRun /\ ShapeOfHubs /\ RoundInv /\ [PreflightNext]_preflightVars => RoundInv'
<1> SUFFICES ASSUME ShapeOfRun, ShapeOfHubs, RoundInv, [PreflightNext]_preflightVars,
                    at' # "torn_down"
             PROVE  RoundInv'
  BY DEF RoundInv
<1>t. /\ now \in Nat \ {0} /\ round \in Rounds /\ phase \in [Kinds -> Phases]
      /\ cluster \in [Clusters -> [made : Nat, keeps : BOOLEAN]]
  BY DEF ShapeOfHubs
<1>s. round.start \in Nat /\ now \in Nat
  BY <1>t DEF Rounds
<1>w. CASE UNCHANGED <<at, cluster, round, phase, now>>
  BY <1>w, Frames DEF RoundInv
<1>1. CASE Validate
  <2>1. UNCHANGED <<cluster, round, phase, now>> /\ at # "torn_down"
    BY <1>1, ValidatorsOnlyRead DEF hubs
  <2> QED
    BY <2>1, Frames DEF RoundInv
<1>2. CASE Teardown
  BY <1>2 DEF Teardown
<1>3. CASE HubsMove
  <2> USE DEF HubsMove
  <2>0. at # "torn_down"
    BY <1>3, HubsOnlyMove
  <2>r. /\ round.start <= now
        /\ \A c \in Existing : cluster[c].made >= round.start \/ c \in round.base
        /\ phase["managedClusters"] = "Completed" => round.base \subseteq round.held
    BY <2>0 DEF RoundInv
  <2>s. round.start <= now
    BY <2>r
  <2>1. ASSUME NEW c \in Clusters, ImportCluster(c) PROVE RoundInv'
    <3>1. PICK k \in BOOLEAN : cluster' = [cluster EXCEPT ![c] = [made |-> now', keeps |-> k]]
      BY <2>1 DEF ImportCluster
    <3>2. now' \in Nat \ {0} /\ now' >= now
      BY <1>t, <2>1, Clock DEF ImportCluster
    <3>3. /\ \A d \in Clusters \ {c} : cluster'[d] = cluster[d]
          /\ cluster'[c].made = now'
          /\ Existing' = Existing \cup {c}
      BY <1>t, <3>1, <3>2, ImportedShape, Zenon
    <3>4. UNCHANGED <<phase, round>>
      BY <2>1 DEF ImportCluster
    <3>5. round.start <= now'
      BY <1>s, <2>s, <3>2
    <3>6. \A d \in Existing' : cluster'[d].made >= round.start \/ d \in round.base
      BY <2>r, <3>3, <3>5, Frames
    <3> QED
      BY <2>r, <3>4, <3>5, <3>6 DEF RoundInv
  <2>2. ASSUME NEW c \in Clusters, RemoveCluster(c) PROVE RoundInv'
    <3>1. /\ \A d \in Clusters \ {c} : cluster'[d] = cluster[d]
          /\ Existing' = Existing \ {c}
      BY <1>t, <2>2, RemovedShape DEF RemoveCluster
    <3>2. /\ round'.base = round.base \ {c} /\ round'.start = round.start
          /\ round'.held = round.held
      BY <1>t, <2>2 DEF RemoveCluster, Rounds
    <3>3. UNCHANGED <<phase, now>>
      BY <2>2 DEF RemoveCluster
    <3> QED
      BY <2>r, <3>1, <3>2, <3>3, Frames DEF RoundInv
  <2>3. ASSUME NEW c \in Clusters, EditDeployment(c) PROVE RoundInv'
    <3>1. /\ \A d \in Clusters : cluster'[d].made = cluster[d].made
          /\ Existing' = Existing
      BY <1>t, <2>3, EditedShape, Zenon DEF EditDeployment
    <3>2. UNCHANGED <<phase, round, now>>
      BY <2>3 DEF EditDeployment
    <3> QED
      BY <2>r, <3>1, <3>2, Frames DEF RoundInv
  <2>4. CASE BeginRound
    <3>1. /\ round'.start = now' /\ round'.base = Existing
          /\ phase'["managedClusters"] = "New" /\ UNCHANGED cluster
      BY <2>4 DEF BeginRound, Kinds
    <3>2. now' \in Nat
      BY <1>t, <2>4, Clock DEF BeginRound
    <3>3. now' <= now'
      BY <3>2
    <3>4. Existing' = Existing
      BY <3>1, Frames
    <3> QED
      BY <3>1, <3>3, <3>4 DEF RoundInv
  <2>5. ASSUME NEW k \in Kinds, TakeUpBackup(k) PROVE RoundInv'
    <3>1. UNCHANGED <<cluster, round, now>>
      BY <2>5 DEF TakeUpBackup
    <3>2. phase'["managedClusters"] = "Completed" => phase["managedClusters"] = "Completed"
      BY <1>t, <2>5 DEF TakeUpBackup, Kinds
    <3> QED
      BY <2>r, <3>1, <3>2, Frames DEF RoundInv
  <2>6. ASSUME NEW k \in Kinds, EndBackup(k) PROVE RoundInv'
    <3>1. now' \in Nat \ {0} /\ now' >= now /\ UNCHANGED cluster
      BY <1>t, <2>6, Clock DEF EndBackup
    <3>2. CASE round' = round /\ (phase'["managedClusters"] = "Completed"
                                    => phase["managedClusters"] = "Completed")
      <4>1. round.start <= now'
        BY <1>s, <2>s, <3>1
      <4> QED
        BY <2>r, <3>1, <3>2, <4>1, Frames DEF RoundInv
    <3>3. ASSUME NEW s \in SUBSET (Existing \ round.base),
                 round' = [round EXCEPT !.end = now', !.held = round.base \cup s]
          PROVE  RoundInv'
      <4>1. s \in SUBSET Clusters
        BY Frames
      <4>2. /\ round'.start = round.start /\ round'.base = round.base
            /\ round.base \subseteq round'.held
        BY <1>t, <3>1, <3>3, <4>1, EndedShape, Zenon
      <4>3. round.start <= now'
        BY <1>s, <2>s, <3>1
      <4> QED
        BY <2>r, <3>1, <4>2, <4>3, Frames DEF RoundInv
    <3>4. \/ round' = round /\ (phase'["managedClusters"] = "Completed"
                                  => phase["managedClusters"] = "Completed")
          \/ \E s \in SUBSET (Existing \ round.base) :
               round' = [round EXCEPT !.end = now', !.held = round.base \cup s]
      BY <1>t, <2>6 DEF EndBackup, Kinds
    <3> QED
      BY <3>2, <3>3, <3>4
  <2>7. ASSUME NEW h \in Hubs, ToggleObservability(h) PROVE RoundInv'
    <3>1. UNCHANGED <<cluster, round, phase, now>>
      BY <2>7 DEF ToggleObservability
    <3> QED
      BY <2>r, <3>1, Frames DEF RoundInv
  <2>8. ASSUME NEW k \in Kinds, FinalizeBackup(k) PROVE RoundInv'
    <3>1. UNCHANGED <<cluster, round, now>>
      BY <2>8 DEF FinalizeBackup
    <3>2. phase'["managedClusters"] = "Completed" => phase["managedClusters"] = "Completed"
      BY <1>t, <2>8 DEF FinalizeBackup, Kinds
    <3> QED
      BY <2>r, <3>1, <3>2, Frames DEF RoundInv
  <2> QED
    BY <1>3, <2>1, <2>2, <2>3, <2>4, <2>5, <2>6, <2>7, <2>8
<1>4. CASE UNCHANGED preflightVars
  BY <1>w, <1>4 DEF preflightVars, process, hubs
<1> QED
  BY <1>1, <1>2, <1>3, <1>4 DEF PreflightNext

LEMMA StepBackup ==
  ShapeOfRun /\ ShapeOfHubs /\ RoundInv /\ BackupInv /\ [PreflightNext]_preflightVars => BackupInv'
<1> SUFFICES ASSUME ShapeOfRun, ShapeOfHubs, RoundInv, BackupInv, [PreflightNext]_preflightVars
    PROVE  BackupInv'
  OBVIOUS
<1> USE
       DEF BackupInv, AfterRbac, AfterBackups, AfterDeployments, AfterClusters, process, hubs,
           observed
<1>t. /\ cluster \in [Clusters -> [made : Nat, keeps : BOOLEAN]] /\ joined \subseteq Existing
      /\ listed \subseteq Clusters
      /\ at = "compare" => backup \in Rounds
      /\ round \in Rounds /\ now \in Nat \ {0}
  BY DEF ShapeOfRun, ShapeOfHubs
<1>1. CASE ReadScope
  BY <1>1, Frames DEF ReadScope, CallFails, Escapes, Fault, Report
<1>2. ASSUME NEW h \in Hubs, ValidatePermissions(h) PROVE BackupInv'
  BY <1>2, Frames DEF ValidatePermissions, Granted, CallFails, Escapes, Fault, Report
<1>3. CASE CheckHubs
  BY <1>3, Frames DEF CheckHubs, CheckFact, CallFails, Escapes, Fault, Report
<1>4. CASE ListBackups
  BY <1>4, Frames DEF ListBackups, JudgeLatest, JudgedAsIs, CallFails, Fault, Report
<1>5. CASE PollBackups
  BY <1>5, Frames DEF PollBackups, CallFails, Fault, Report
<1>6. CASE RelistBackups
  BY <1>6, Frames DEF RelistBackups, JudgeLatest, JudgedAsIs, CallFails, Fault, Report
<1>7. CASE CheckStores
  BY <1>7, Frames DEF CheckStores, CheckFact, CallFails, Fault, Report
<1>8. CASE ListDeployments
  BY <1>8, Frames DEF ListDeployments, CallFails, Fault, Report
<1>9. CASE ListJoined
  <2>1. CASE failures' # {} /\ at' = "method"
    BY <2>1
  <2>2. CASE listed' = joined /\ touched' = {} /\ UNCHANGED cluster
             /\ at' = IF joined = {} THEN "method" ELSE "cluster_backups"
    BY <1>t, <2>2, Frames
  <2> QED
    BY <1>9, <2>1, <2>2 DEF ListJoined, CallFails, Fault, Report
<1>10. CASE ListClusterBackups
  <2>1. CASE failures' # {} /\ at' = "method"
    BY <2>1
  <2>2. CASE /\ phase["managedClusters"] = "Completed" /\ backup' = round
             /\ left' = listed /\ at' = "compare" /\ UNCHANGED <<listed, touched, cluster>>
    <3>1. at = "cluster_backups"
      BY <1>10 DEF ListClusterBackups
    <3>2. \A d \in listed \ touched :
            d \in Existing /\ (cluster[d].made >= round.start \/ d \in round.held)
      BY <3>1, <2>2 DEF RoundInv
    <3> QED
      BY <2>2, <3>2, Frames
  <2> QED
    BY <1>10, <2>1, <2>2 DEF ListClusterBackups, JudgedAsIs, CallFails, Fault, Report
<1>11. ASSUME NEW c \in Clusters, Compare(c) PROVE BackupInv'
  <2>0. at = "compare"
    BY <1>11 DEF Compare
  <2>1. CASE failures' # {} /\ at' = "method"
    BY <2>1
  <2>2. CASE /\ UNCHANGED <<at, listed, touched, backup, cluster>>
             /\ left' = left \ {c}
             /\ late' = IF cluster[c].made > backup.end THEN late \cup {c} ELSE late
    <3>1. backup.end \in Nat /\ cluster[c].made \in Nat
      BY <1>t, <2>0 DEF Rounds
    <3>4. cluster[c].made > backup.end \/ cluster[c].made <= backup.end
      BY <3>1
    <3>2. c \in left' \cup late' \/ cluster[c].made <= backup.end
      BY <2>2, <3>4, Zenon
    <3>3. \A d \in listed \ touched : d \in left' \cup late' \/ cluster[d].made <= backup.end
      BY <2>0, <2>2, <3>2
    <3> QED
      BY <2>0, <2>2, <3>3, Frames
  <2> QED
    BY <1>11, <2>1, <2>2 DEF Compare, CallFails, Fault, Report
<1>12. CASE EndCompare
  <2>1. /\ at = "compare" /\ left = {} /\ at' = "method"
        /\ UNCHANGED <<listed, touched, backup, cluster>>
    BY <1>12 DEF EndCompare, observed, hubs
  <2>2. failures' = {} => late = {}
    BY <1>12 DEF EndCompare, Report
  <2>3. backup \in Rounds
    BY <1>t, <2>1
  <2>4. ASSUME failures' = {}, NEW d \in listed \ touched
        PROVE  d \in backup.held \/ cluster[d].made \in backup.start .. backup.end
    <3>1. backup.start \in Nat /\ backup.end \in Nat /\ cluster[d].made \in Nat
      BY <1>t, <2>3 DEF Rounds
    <3>2. cluster[d].made <= backup.end /\ (d \in backup.held \/ cluster[d].made >= backup.start)
      BY <2>1, <2>2, <2>4
    <3>3. cluster[d].made >= backup.start => cluster[d].made \in backup.start .. backup.end
      BY <3>1, <3>2
    <3> QED
      BY <3>2, <3>3, Zenon
  <2> QED
    BY <2>1, <2>4
<1>13. CASE CheckPassive
  BY <1>13, Frames DEF CheckPassive, CheckFact, CallFails, Fault, Report
<1>14. CASE DetectObservability
  BY <1>14, Frames DEF DetectObservability, Escapes, Fault
<1>15. CASE CheckPrereqs
  BY <1>15, Frames DEF CheckPrereqs, Escapes, Fault, Report
<1>16. CASE Judge
  BY <1>16, Frames DEF Judge
<1>17. CASE Teardown
  BY <1>17, Frames DEF Teardown, Absent
<1>18. ASSUME NEW c \in Clusters, ImportCluster(c) PROVE BackupInv'
  <2>0. /\ now' \in Nat \ {0}
        /\ \E k \in BOOLEAN : cluster' = [cluster EXCEPT ![c] = [made |-> now', keeps |-> k]]
    BY <1>t, <1>18, Clock DEF ImportCluster
  <2>1. /\ \A d \in Clusters \ {c} : cluster'[d] = cluster[d]
        /\ Existing' = Existing \cup {c}
    BY <1>t, <2>0, ImportedShape, Zenon
  <2>2. UNCHANGED <<at, failures, listed, backup, left, late>>
    BY <1>18 DEF ImportCluster, Disturbs, Change, Stamped
  <2>3. touched' = touched \cup {c}
    BY <1>18 DEF ImportCluster, Disturbs, Change, Stamped
  <2>4. \A d \in listed \ touched' : cluster'[d] = cluster[d] /\ (d \in Existing => d \in Existing')
    BY <1>t, <2>1, <2>3
  <2> QED
    BY <2>2, <2>3, <2>4
<1>19. ASSUME NEW c \in Clusters, RemoveCluster(c) PROVE BackupInv'
  <2>1. /\ \A d \in Clusters \ {c} : cluster'[d] = cluster[d]
        /\ Existing' = Existing \ {c}
    BY <1>t, <1>19, RemovedShape DEF RemoveCluster
  <2>2. UNCHANGED <<at, failures, listed, backup, left, late>>
    BY <1>19 DEF RemoveCluster, Disturbs, Change, Absent
  <2>3. touched' = touched \cup {c}
    BY <1>19 DEF RemoveCluster, Disturbs, Change, Absent
  <2>4. \A d \in listed \ touched' : cluster'[d] = cluster[d] /\ (d \in Existing => d \in Existing')
    BY <1>t, <2>1, <2>3
  <2> QED
    BY <2>2, <2>3, <2>4
<1>20. ASSUME NEW c \in Clusters, EditDeployment(c) PROVE BackupInv'
  <2>1. /\ \A d \in Clusters : cluster'[d].made = cluster[d].made
        /\ Existing' = Existing
    BY <1>t, <1>20, EditedShape, Zenon DEF EditDeployment
  <2>2. UNCHANGED <<at, failures, listed, backup, left, late, touched>>
    BY <1>20 DEF EditDeployment, Disturbs, Change
  <2> QED
    BY <1>t, <2>1, <2>2
<1>21. CASE BeginRound
  BY <1>21, Frames DEF BeginRound, Disturbs, Change, Stamped
<1>22. ASSUME NEW k \in Kinds, TakeUpBackup(k) PROVE BackupInv'
  BY <1>22, Frames DEF TakeUpBackup, Disturbs, Change
<1>23. ASSUME NEW k \in Kinds, EndBackup(k) PROVE BackupInv'
  BY <1>23, Frames DEF EndBackup, Change, Stamped
<1>24. ASSUME NEW h \in Hubs, ToggleObservability(h) PROVE BackupInv'
  BY <1>24, Frames DEF ToggleObservability, Disturbs, Change
<1>25. ASSUME NEW k \in Kinds, FinalizeBackup(k) PROVE BackupInv'
  BY <1>25, Frames DEF FinalizeBackup, Change
<1>26. CASE UNCHANGED preflightVars
  BY <1>26, Frames DEF preflightVars
<1> QED
  BY <1>1, <1>2, <1>3, <1>4, <1>5, <1>6, <1>7, <1>8, <1>9, <1>10, <1>11, <1>12, <1>13, <1>14,
     <1>15, <1>16, <1>17, <1>18, <1>19, <1>20, <1>21, <1>22, <1>23, <1>24, <1>25, <1>26
     DEF PreflightNext, Validate, HubsMove

LEMMA StepPeace ==
  ShapeOfRun /\ ShapeOfHubs /\ PeaceInv /\ [PreflightNext]_preflightVars => PeaceInv'
<1> SUFFICES ASSUME ShapeOfRun, ShapeOfHubs, PeaceInv, [PreflightNext]_preflightVars
    PROVE  PeaceInv'
  OBVIOUS
<1> USE Frames
       DEF PeaceInv, AfterRbac, AfterBackups, AfterDeployments, AfterClusters, process, hubs,
           observed
<1>1. CASE ReadScope
  BY <1>1 DEF ReadScope, CallFails, Escapes, Fault, Report
<1>2. ASSUME NEW h \in Hubs, ValidatePermissions(h) PROVE PeaceInv'
  BY <1>2 DEF ValidatePermissions, Granted, CallFails, Escapes, Fault, Report
<1>3. CASE CheckHubs
  BY <1>3 DEF CheckHubs, CheckFact, CallFails, Escapes, Fault, Report
<1>4. CASE ListBackups
  BY <1>4 DEF ListBackups, JudgeLatest, JudgedAsIs, CallFails, Fault, Report
<1>5. CASE PollBackups
  BY <1>5 DEF PollBackups, CallFails, Fault, Report
<1>6. CASE RelistBackups
  BY <1>6 DEF RelistBackups, JudgeLatest, JudgedAsIs, CallFails, Fault, Report
<1>7. CASE CheckStores
  BY <1>7 DEF CheckStores, CheckFact, CallFails, Fault, Report
<1>8. CASE ListDeployments
  BY <1>8 DEF ListDeployments, CallFails, Fault, Report
<1>9. CASE ListJoined
  BY <1>9 DEF ListJoined, CallFails, Fault, Report
<1>10. CASE ListClusterBackups
  BY <1>10 DEF ListClusterBackups, JudgedAsIs, CallFails, Fault, Report
<1>11. ASSUME NEW c \in Clusters, Compare(c) PROVE PeaceInv'
  <2>1. CASE disturbed'
    BY <2>1
  <2>2. CASE /\ at = "compare"
             /\ UNCHANGED <<disturbed, at, listed, joined, backup, round, cluster, phase>>
             /\ late' = IF cluster[c].made > backup.end THEN late \cup {c} ELSE late
    BY <2>2
  <2> QED
    BY <1>11, <2>1, <2>2 DEF Compare, CallFails, Fault, Report
<1>12. CASE EndCompare
  BY <1>12 DEF EndCompare, Report
<1>13. CASE CheckPassive
  BY <1>13 DEF CheckPassive, CheckFact, CallFails, Fault, Report
<1>14. CASE DetectObservability
  BY <1>14 DEF DetectObservability, Escapes, Fault
<1>15. CASE CheckPrereqs
  BY <1>15 DEF CheckPrereqs, Escapes, Fault, Report
<1>16. CASE Judge
  BY <1>16 DEF Judge
<1>17. CASE Teardown
  BY <1>17 DEF Teardown, Absent
<1>18. ASSUME NEW c \in Clusters, ImportCluster(c) PROVE PeaceInv'
  BY <1>18 DEF ImportCluster, Disturbs, Change, Stamped
<1>19. ASSUME NEW c \in Clusters, RemoveCluster(c) PROVE PeaceInv'
  BY <1>19 DEF RemoveCluster, Disturbs, Change, Absent
<1>20. ASSUME NEW c \in Clusters, EditDeployment(c) PROVE PeaceInv'
  BY <1>20 DEF EditDeployment, Disturbs, Change
<1>21. CASE BeginRound
  BY <1>21 DEF BeginRound, Disturbs, Change, Stamped
<1>22. ASSUME NEW k \in Kinds, TakeUpBackup(k) PROVE PeaceInv'
  BY <1>22 DEF TakeUpBackup, Disturbs, Change
<1>23. ASSUME NEW k \in Kinds, EndBackup(k) PROVE PeaceInv'
  <2>1. CASE disturbed'
    BY <2>1
  <2>2. CASE ~disturbed' /\ UNCHANGED disturbed /\ phase' = [phase EXCEPT ![k] = "Completed"]
    <3>1. UNCHANGED <<at, options, skipObs, obs, listed, joined, backup, late, cluster>>
      BY <1>23 DEF EndBackup, Change, Stamped
    <3>2. /\ \A j \in Kinds : phase'[j] # "New"
          /\ InProgress' \subseteq InProgress
          /\ phase["managedClusters"] = "Completed" => phase'["managedClusters"] = "Completed"
      BY <2>2 DEF ShapeOfHubs, InProgress
    <3>3. at = "compare" => round' = round
      <4>1. at = "compare" => k # "managedClusters"
        BY <1>23, <2>2 DEF EndBackup
      <4> QED
        BY <1>23, <2>2, <4>1 DEF EndBackup
    <3> QED
      BY <2>2, <3>1, <3>2, <3>3
  <2>3. disturbed' \/ (UNCHANGED disturbed /\ phase' = [phase EXCEPT ![k] = "Completed"])
    BY <1>23, Zenon DEF EndBackup
  <2> QED
    BY <2>1, <2>2, <2>3, Zenon
<1>24. ASSUME NEW h \in Hubs, ToggleObservability(h) PROVE PeaceInv'
  BY <1>24 DEF ToggleObservability, Disturbs, Change
<1>25. ASSUME NEW k \in Kinds, FinalizeBackup(k) PROVE PeaceInv'
  <2>1. k \in InProgress /\ UNCHANGED <<disturbed, at, options, skipObs, obs>>
    BY <1>25 DEF FinalizeBackup, Change, InProgress
  <2>2. ~disturbed => at \notin {"relist"} \cup AfterBackups
    BY <2>1
  <2>3. ~disturbed => \A j \in Kinds : phase'[j] # "New"
    BY <1>25 DEF FinalizeBackup, ShapeOfHubs
  <2> QED
    BY <2>1, <2>2, <2>3
<1>26. CASE UNCHANGED preflightVars
  BY <1>26 DEF preflightVars
<1> QED
  BY <1>1, <1>2, <1>3, <1>4, <1>5, <1>6, <1>7, <1>8, <1>9, <1>10, <1>11, <1>12, <1>13, <1>14,
     <1>15, <1>16, <1>17, <1>18, <1>19, <1>20, <1>21, <1>22, <1>23, <1>24, <1>25, <1>26
     DEF PreflightNext, Validate, HubsMove

\* A failure is added with its reason, while the hubs stand still.
LEMMA ReasonAdded ==
  ASSUME ReasonsInv, UNCHANGED <<options, hubs, disturbed>>,
         NEW f, NEW ok, Report(f, ok), ~disturbed /\ ~ok => Reason(f)
  PROVE  ReasonsInv'
<1>1. \A g : Reason(g)' <=> Reason(g)
  BY Frames DEF Reason, hubs
<1>2. failures' \subseteq failures \cup {f} /\ (ok => failures' = failures)
  BY DEF Report
<1> QED
  BY <1>1, <1>2 DEF ReasonsInv

LEMMA StepReasons ==
  ShapeOfRun /\ ShapeOfHubs /\ VerdictInv /\ PeaceInv /\ ReasonsInv /\ [PreflightNext]_preflightVars
    => ReasonsInv'
<1> SUFFICES ASSUME ShapeOfRun, ShapeOfHubs, VerdictInv, PeaceInv, ReasonsInv,
                    [PreflightNext]_preflightVars, ~disturbed'
             PROVE  ReasonsInv'
  BY DEF ReasonsInv
<1>h. UNCHANGED <<options, hubs, disturbed, failures>> => ReasonsInv'
  BY Frames DEF ReasonsInv, Reason, hubs
<1>1. CASE Validate
  <2> USE <1>1, ValidatorsOnlyRead DEF observed
  <2>d. \A f, next : ~CallFails(f, next)
    BY DEF CallFails, Fault
  <2>e. ~Escapes
    BY DEF Escapes, Fault
  <2>f. ASSUME NEW f, NEW next, CheckFact(f, next) PROVE ReasonsInv'
    <3>1. Report(f, f \notin broken) /\ UNCHANGED <<options, hubs, disturbed>>
      BY <2>d, <2>f DEF CheckFact
    <3>2. ~(f \notin broken) => Reason(f)
      BY DEF Reason
    <3> QED
      BY <3>1, <3>2, ReasonAdded
  <2>g. ASSUME NEW next, JudgeLatest(next), ~disturbed => InProgress = {} PROVE ReasonsInv'
    <3>1. PICK k \in Kinds : /\ Report("backups", phase[k] = "Completed")
                             /\ UNCHANGED <<options, hubs, disturbed>>
                             /\ phase[k] # "Finalizing"
      BY <2>g DEF JudgeLatest, JudgedAsIs, ShapeOfHubs
    <3>2. ~disturbed => phase[k] \in {"Completed", "Failed"}
      BY <2>g, <3>1 DEF PeaceInv, ShapeOfHubs, Phases, InProgress
    <3>3. ~disturbed /\ phase[k] # "Completed" => Reason("backups")
      BY <3>2 DEF Reason
    <3> QED
      BY <3>1, <3>3, ReasonAdded
  <2>1. CASE ReadScope
    BY <1>h, <2>1, <2>d, <2>e DEF ReadScope
  <2>2. ASSUME NEW h \in Hubs, ValidatePermissions(h) PROVE ReasonsInv'
    <3>1. Report("rbac", Granted(h)) /\ UNCHANGED <<options, hubs, disturbed>>
      BY <2>2, <2>d, <2>e DEF ValidatePermissions
    <3>2. ~disturbed => ~options.skipRbac /\ skipObs = (obs = {})
      BY <2>2 DEF ValidatePermissions, PeaceInv
    <3>3. ~disturbed /\ ~Granted(h) => obs # {} /\ ~(obs = Hubs /\ permitted = Hubs)
      BY <3>2 DEF Granted
    <3>4. ~disturbed /\ ~Granted(h) => Reason("rbac")
      BY <3>2, <3>3 DEF Reason
    <3> QED
      BY <3>1, <3>4, ReasonAdded
  <2>3. CASE CheckHubs \/ CheckStores
    BY <2>3, <2>e, <2>f DEF CheckHubs, CheckStores
  <2>4. CASE ListBackups
    BY <1>h, <2>4, <2>d, <2>g DEF ListBackups
  <2>5. CASE PollBackups
    BY <1>h, <2>5, <2>d DEF PollBackups
  <2>6. CASE RelistBackups
    <3>1. ~disturbed => InProgress = {}
      BY <2>6 DEF RelistBackups, PeaceInv
    <3> QED
      BY <2>6, <2>d, <2>g, <3>1 DEF RelistBackups
  <2>7. CASE ListDeployments
    <3>1. /\ Report("deployments", \A c \in Existing : cluster[c].keeps)
          /\ UNCHANGED <<options, hubs, disturbed>>
      BY <2>7, <2>d DEF ListDeployments
    <3>2. ~(\A c \in Existing : cluster[c].keeps) => Reason("deployments")
      BY DEF Reason
    <3> QED
      BY <3>1, <3>2, ReasonAdded
  <2>8. CASE ListJoined
    BY <1>h, <2>8, <2>d DEF ListJoined
  <2>9. CASE ListClusterBackups
    <3>1. CASE UNCHANGED <<options, hubs, disturbed, failures>>
      BY <1>h, <3>1
    <3>2. CASE /\ phase["managedClusters"] # "Completed" /\ Report("clusters", FALSE)
               /\ JudgedAsIs("managedClusters") /\ UNCHANGED <<options, hubs>>
      <4>0. UNCHANGED disturbed /\ phase["managedClusters"] # "Finalizing"
        BY <3>2 DEF JudgedAsIs, ShapeOfHubs
      <4>1. ~disturbed => InProgress = {}
        BY <2>9 DEF ListClusterBackups, PeaceInv, AfterBackups, AfterDeployments
      <4>2. ~disturbed => phase["managedClusters"] = "Failed"
        BY <3>2, <4>0, <4>1 DEF PeaceInv, ShapeOfHubs, Phases, InProgress, Kinds
      <4>3. ~disturbed => Reason("clusters")
        BY <4>2 DEF Reason
      <4> QED
        BY <3>2, <4>0, <4>3, ReasonAdded
    <3> QED
      BY <2>9, <2>d, <3>1, <3>2 DEF ListClusterBackups
  <2>10. ASSUME NEW c \in Clusters, Compare(c) PROVE ReasonsInv'
    BY <1>h, <2>10, <2>d DEF Compare
  <2>11. CASE EndCompare
    <3>1. Report("clusters", late = {}) /\ UNCHANGED <<options, hubs, disturbed>>
      BY <2>11 DEF EndCompare
    <3>2. ~disturbed /\ late # {} => /\ phase["managedClusters"] = "Completed"
                                    /\ \E c \in joined : cluster[c].made > round.end
      BY <2>11 DEF EndCompare, PeaceInv, ShapeOfRun
    <3>3. ~disturbed /\ late # {} => Reason("clusters")
      BY <3>2 DEF Reason
    <3> QED
      BY <3>1, <3>3, ReasonAdded
  <2>12. CASE CheckPassive
    BY <1>h, <2>12, <2>f DEF CheckPassive
  <2>13. CASE DetectObservability
    BY <1>h, <2>13, <2>e DEF DetectObservability
  <2>14. CASE CheckPrereqs
    <3>1. /\ Report("thanos", "secondary" \notin obs \/ "thanos" \notin broken)
          /\ UNCHANGED <<options, hubs, disturbed>>
      BY <2>14, <2>e DEF CheckPrereqs
    <3>2. ~("secondary" \notin obs \/ "thanos" \notin broken) => Reason("thanos")
      BY DEF Reason
    <3> QED
      BY <3>1, <3>2, ReasonAdded
  <2>15. CASE Judge
    BY <1>h, <2>15 DEF Judge
  <2> QED
    BY <2>1, <2>2, <2>3, <2>4, <2>5, <2>6, <2>7, <2>8, <2>9, <2>10, <2>11, <2>12, <2>13,
       <2>14, <2>15 DEF Validate
<1>2. CASE Teardown
  BY <1>2 DEF Teardown, VerdictInv, ReasonsInv
<1>3. CASE HubsMove
  <2>1. PICK k \in Kinds : FinalizeBackup(k) \/ EndBackup(k)
    BY <1>3 DEF HubsMove, ImportCluster, RemoveCluster, EditDeployment, BeginRound,
                TakeUpBackup, ToggleObservability, Disturbs
  <2>2. /\ phase[k] \in {"InProgress", "Finalizing"}
        /\ \E ph \in {"Finalizing", "Completed"} : phase' = [phase EXCEPT ![k] = ph]
        /\ UNCHANGED disturbed
    BY <2>1 DEF FinalizeBackup, EndBackup
  <2>3. UNCHANGED <<options, failures, broken, obs, permitted, cluster, joined>>
    BY <2>1 DEF FinalizeBackup, EndBackup, Change, process
  <2>4. \A j \in Kinds : phase[j] \in {"Completed", "Failed"} => phase'[j] = phase[j]
    BY <2>2 DEF ShapeOfHubs
  <2>5. phase["managedClusters"] = "Completed" => round' = round
    <3>1. phase["managedClusters"] = "Completed" => k # "managedClusters"
      BY <2>2
    <3> QED
      BY <2>1, <3>1 DEF FinalizeBackup, EndBackup
  <2>7. \A f \in failures : Reason(f) => Reason(f)'
    BY <2>3, <2>4, <2>5, Frames DEF Reason, Kinds
  <2> QED
    BY <2>2, <2>3, <2>7 DEF ReasonsInv
<1>4. CASE UNCHANGED preflightVars
  BY <1>h, <1>4 DEF preflightVars, process, observed
<1> QED
  BY <1>1, <1>2, <1>3, <1>4 DEF PreflightNext

-----------------------------------------------------------------------------
(* The validation: theorems *)

ValidationInv ==
  /\ ShapeOfRun /\ ShapeOfHubs
  /\ VerdictInv /\ PermissionsInv /\ DeploymentsInv
  /\ RoundInv /\ BackupInv
  /\ PeaceInv /\ ReasonsInv

LEMMA StartValidation == PreflightInit => ValidationInv
<1> SUFFICES ASSUME PreflightInit PROVE ValidationInv
  OBVIOUS
<1>1. ShapeOfRun /\ ShapeOfHubs
  BY StartShape
<1>2. /\ at \in {"hubs", "scope"} /\ (at = "hubs" <=> options.skipRbac)
      /\ failures = {} /\ skipObs = FALSE /\ detected = {}
      /\ destroyed = {} /\ disturbed = (\E k \in Kinds : phase[k] = "New")
  BY <1>1 DEF PreflightInit, ShapeOfRun
<1>3. /\ round.start = 2 /\ round.base = Existing /\ now = 3
      /\ phase["managedClusters"] = "Completed" => round.held = Existing
  BY DEF PreflightInit
<1>4. VerdictInv /\ DeploymentsInv /\ BackupInv /\ ReasonsInv
  BY <1>2 DEF VerdictInv, DeploymentsInv, AfterDeployments, BackupInv, AfterClusters, ReasonsInv
<1>5. PermissionsInv
  BY <1>1, <1>2 DEF PermissionsInv, AfterRbac, AfterBackups, AfterDeployments, AfterClusters
<1>6. RoundInv
  BY <1>3 DEF RoundInv
<1>7. PeaceInv
  BY <1>1, <1>2 DEF PeaceInv, ShapeOfRun, AfterBackups, AfterDeployments, AfterClusters
<1> QED
  BY <1>1, <1>4, <1>5, <1>6, <1>7 DEF ValidationInv

LEMMA ValidationInvariant == PreflightSpec => []ValidationInv
<1>1. ValidationInv /\ [PreflightNext]_preflightVars => ValidationInv'
  BY StepShape, StepVerdict, StepPermissions, StepDeployments, StepRound, StepBackup,
     StepPeace, StepReasons DEF ValidationInv
<1> QED
  BY StartValidation, <1>1, PTL DEF PreflightSpec

\* The validation and the hubs it reads stay in their types, for every set of
\* clusters, every start and every number of faults and changes.
THEOREM ValidationTypeCorrect == PreflightSpec => [](ShapeOfRun /\ ShapeOfHubs)
<1>1. ValidationInv => ShapeOfRun /\ ShapeOfHubs
  BY DEF ValidationInv
<1> QED
  BY ValidationInvariant, <1>1, PTL

\* Whatever the operators, the import controller and Velero do while the validators
\* run, a joined cluster that was listed and left alone is in the backup the
\* validation has judged, or is no older than the start of that backup.
THEOREM PassingCoversClusters == PreflightSpec => []PassedMeansInBackup
<1>1. ValidationInv => PassedMeansInBackup
  BY DEF ValidationInv, VerdictInv, BackupInv, AfterClusters, PassedMeansInBackup
<1> QED
  BY ValidationInvariant, <1>1, PTL

\* The teardown after a passing validation destroys the infrastructure of no cluster
\* whose ClusterDeployment has stayed as the validation read it.
THEOREM TeardownSparesChecked == PreflightSpec => []InfrastructureKept
<1>1. ValidationInv => InfrastructureKept
  BY DEF ValidationInv, DeploymentsInv, InfrastructureKept
<1> QED
  BY ValidationInvariant, <1>1, PTL

\* Hubs that are in order and left in peace pass: every critical failure has a reason
\* that is still there at the verdict, and each of the reasons is one against them.
\* Not in peace is a pair whose backup is in the queue, or was judged in phase
\* Finalizing: the code does not wait for such a backup, and refuses it.
THEOREM SoundPairsAreAccepted == PreflightSpec => []SoundPairPasses
<1>1. ASSUME ValidationInv, at = "failed", ~disturbed PROVE ~Sound
  <2>1. PICK f \in failures : Reason(f)
    BY <1>1 DEF ValidationInv, VerdictInv, ReasonsInv
  <2>2. /\ joined \subseteq Existing /\ Existing \subseteq Clusters /\ round \in Rounds
        /\ cluster \in [Clusters -> [made : Nat, keeps : BOOLEAN]]
    BY <1>1, Frames DEF ValidationInv, ShapeOfHubs
  <2>3. CASE f = "backups" /\ \E k \in Kinds : phase[k] = "Failed"
    BY <2>3 DEF Sound
  <2>4. CASE f = "clusters" /\ phase["managedClusters"] = "Failed"
    BY <2>4 DEF Sound, Kinds
  <2>5. ASSUME NEW c \in joined, cluster[c].made > round.end PROVE ~Sound
    <3>1. cluster[c].made \in Nat /\ round.end \in Nat
      BY <2>2 DEF Rounds
    <3>2. ~(cluster[c].made <= round.end)
      BY <2>5, <3>1
    <3> QED
      BY <3>2 DEF Sound
  <2>6. CASE f \in broken \/ (f = "deployments" /\ \E c \in Existing : ~cluster[c].keeps)
    BY <2>6 DEF Sound
  <2>7. CASE f = "rbac" /\ ~options.skipRbac /\ obs # {} /\ ~(obs = Hubs /\ permitted = Hubs)
    BY <2>7 DEF Sound
  <2> QED
    BY <2>1, <2>3, <2>4, <2>5, <2>6, <2>7 DEF Reason
<1>2. ValidationInv => SoundPairPasses
  BY <1>1 DEF SoundPairPasses
<1> QED
  BY ValidationInvariant, <1>2, PTL

\* The hubs the later phases find observability on are hubs whose permissions for it
\* were checked and granted, unless it has appeared since the scope was read.
THEOREM PermissionsReachUse == PreflightSpec => []PermissionsCoverUse
<1>1. ValidationInv => PermissionsCoverUse
  BY DEF ValidationInv, VerdictInv, PermissionsInv, PermissionsCoverUse
<1> QED
  BY ValidationInvariant, <1>1, PTL
=============================================================================
