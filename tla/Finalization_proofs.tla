------------------------- MODULE Finalization_proofs -------------------------
(***************************************************************************)
(* When the old hub may go, and what a recorded decommissioning has done,  *)
(* for every set of clusters and backups.                                  *)
(***************************************************************************)
EXTENDS Finalization, TLAPS

-----------------------------------------------------------------------------
(* The inductive invariant. *)

\* The process is in the step after the recorded ones.
Placed ==
  /\ pc = "disable_observability_on_secondary" => recorded = 0
  /\ pc \in {"enable_backup_schedule", "stamp"} => recorded = 1
  /\ pc \in {"verify_new_backups", "poll"} => recorded = 2
  /\ pc \in {"verify_backup_integrity", "await", "age"} => recorded = 3
  /\ pc = "verify_mch_health" => recorded = 4
  /\ pc \in {"handle_old_hub", "decommission"} => recorded = 5
  /\ pc = "verify_old_hub_state" => recorded = 6
  /\ pc = "standalone" => recorded = 7
  /\ pc = "record" => recorded < 7

\* Step k is recorded or about to be.
Over(k) == recorded >= k \/ (pc = "record" /\ recorded = k - 1)

\* What may pass for new: B's own, and A's that were under way.
News == Own \cup arrived

\* The backups of A that were shown all along stay as they are; none of them is late.
OldOnesStay ==
  /\ \A b \in Held \ arrived : phase[b] \in {"none", "Completed"}
  /\ late \cap Acm \subseteq News

\* The recorded backup is a new one.
Named ==
  /\ name \in News \cup {None}
  /\ name # None => phase[name] # "none"
  /\ Over(3) => name # None
  /\ pc = "poll" => {b \in Held \ arrived : phase[b] = "Completed"} \subseteq initial

Eligible(b) == b \in Acm /\ (b \in News \/ phase[name] = "gone")
Passed(b) == Eligible(b) /\ phase[b] \in {"Completed", "Aged", "gone"}

\* The integrity check looks at nothing else.
Chosen ==
  /\ pc \in {"await", "age"} => name # None
  /\ pc = "await" => Eligible(subject)
  /\ pc = "age" => Passed(subject)
  /\ Over(4) => name # None /\ Passed(proof)

\* The parts of a decommissioning come one after the other.
HubLast ==
  /\ at = "delete" /\ ~deleted => leaving \subseteq todo
  /\ HubAfterClusters
  /\ mch # "there" => clusters = {}
  /\ at = "done" /\ ~interactive => mch # "there"
  /\ pc = "decommission" => ~interactive
  /\ Over(6) /\ action = "decommission" => mch # "there"

Inv == TypeOK /\ Placed /\ OldOnesStay /\ Named /\ Chosen /\ HubLast

-----------------------------------------------------------------------------
(* The data. *)

LEMMA StepNamesAre ==
  /\ StepNames[1] = "disable_observability_on_secondary"
  /\ StepNames[2] = "enable_backup_schedule"
  /\ StepNames[3] = "verify_new_backups"
  /\ StepNames[4] = "verify_backup_integrity"
  /\ StepNames[5] = "verify_mch_health"
  /\ StepNames[6] = "handle_old_hub"
  /\ StepNames[7] = "verify_old_hub_state"
BY DEF StepNames

LEMMA LabelsAre ==
  Labels = {"disable_observability_on_secondary", "enable_backup_schedule",
            "verify_new_backups", "verify_backup_integrity", "verify_mch_health",
            "handle_old_hub", "verify_old_hub_state", "stamp", "poll", "await", "age",
            "decommission", "record", "standalone", "down"}
<1>1. 1..7 = {1, 2, 3, 4, 5, 6, 7}
  OBVIOUS
<1> QED
  BY <1>1, StepNamesAre DEF Labels

\* The step after n recorded ones.
LEMMA NextStepPlaced ==
  ASSUME NEW n \in 0..6, pc' = StepNames[n + 1], recorded' = n
  PROVE  Placed' /\ pc' \in Labels /\ pc' \notin {"record", "poll", "await", "age",
                                                  "decommission"}
<1>1. CASE n = 0
  BY <1>1, StepNamesAre, LabelsAre DEF Placed
<1>2. CASE n = 1
  BY <1>2, StepNamesAre, LabelsAre DEF Placed
<1>3. CASE n = 2
  BY <1>3, StepNamesAre, LabelsAre DEF Placed
<1>4. CASE n = 3
  BY <1>4, StepNamesAre, LabelsAre DEF Placed
<1>5. CASE n = 4
  BY <1>5, StepNamesAre, LabelsAre DEF Placed
<1>6. CASE n = 5
  BY <1>6, StepNamesAre, LabelsAre DEF Placed
<1>7. CASE n = 6
  BY <1>7, StepNamesAre, LabelsAre DEF Placed
<1> QED
  BY <1>1, <1>2, <1>3, <1>4, <1>5, <1>6, <1>7

\* The backups of the two hubs are different ones.
LEMMA Disjoint == Own \cap Held = {} /\ None \notin Acm /\ Acm \subseteq Nat
BY BackupsAssumption DEF Acm, Backups

\* The file and the backups are left alone by most steps.
LEMMA NamedLeftAlone ==
  ASSUME Named, UNCHANGED <<phase, arrived, name>>, Over(3)' => Over(3),
         pc' = "poll" => pc = "poll" /\ initial' = initial
  PROVE  Named'
BY DEF Named, News

LEMMA ChosenLeftAlone ==
  ASSUME Chosen, UNCHANGED <<phase, arrived, name, proof>>, Over(4)' => Over(4),
         pc' \notin {"await", "age"}
  PROVE  Chosen'
BY DEF Chosen, Passed, Eligible, News

LEMMA HubLeftAlone ==
  ASSUME HubLast, UNCHANGED <<oldHub, decommission, action>>, Over(6)' => Over(6),
         pc' = "decommission" => pc = "decommission"
  PROVE  HubLast'
BY DEF HubLast, HubAfterClusters, oldHub, decommission

-----------------------------------------------------------------------------
(* The steps of the process on B. *)

LEMMA ProcessInv ==
  ASSUME Inv,
         \/ Start \/ Record \/ Stop \/ DisableObservability \/ EnableSchedule
         \/ StampEnabled \/ VerifyHealth \/ FindBackup \/ NoBackupYet
         \/ (\E b \in Acm : NewBackupSeen(b)) \/ NoNewBackup
         \/ ChooseSubject \/ AwaitCompletion \/ CheckAge
  PROVE  Inv'
<1> USE LabelsAre
    DEF Inv, News, OldSide, backups, file, options, locals, oldHub, decommission, Forget
<1>1. ASSUME Start PROVE Inv'
  <2>0. recorded \in 0..6 /\ recorded' = recorded
    BY <1>1 DEF Start, TypeOK
  <2>1. Placed' /\ pc' \in Labels
        /\ pc' \notin {"record", "poll", "await", "age", "decommission"}
    BY <1>1, <2>0, NextStepPlaced DEF Start
  <2>2. TypeOK' /\ OldOnesStay'
    BY <1>1, <2>1 DEF Start, TypeOK, DecommissionTypeOK, OldOnesStay
  <2>3. Named' /\ Chosen' /\ HubLast'
    BY <1>1, <2>0, <2>1, NamedLeftAlone, ChosenLeftAlone, HubLeftAlone DEF Start, Over
  <2> QED
    BY <2>1, <2>2, <2>3
<1>2. ASSUME Record PROVE Inv'
  <2>0. recorded \in 0..6 /\ recorded' = recorded + 1
    BY <1>2 DEF Record, Placed, TypeOK
  <2>1. Placed' /\ pc' \in Labels
        /\ pc' \notin {"record", "poll", "await", "age", "decommission"}
    <3>1. CASE recorded' = 7
      BY <1>2, <3>1 DEF Record, Placed
    <3>2. CASE recorded' \in 0..6
      BY <1>2, <3>2, NextStepPlaced DEF Record
    <3> QED
      BY <2>0, <3>1, <3>2
  <2>2. TypeOK' /\ OldOnesStay'
    BY <1>2, <2>0, <2>1 DEF Record, TypeOK, DecommissionTypeOK, OldOnesStay
  <2>3. Over(3)' => Over(3)
    BY <1>2, <2>0, <2>1 DEF Record, Over
  <2>4. Over(4)' => Over(4)
    BY <1>2, <2>0, <2>1 DEF Record, Over
  <2>5. Over(6)' => Over(6)
    BY <1>2, <2>0, <2>1 DEF Record, Over
  <2>6. Named' /\ Chosen' /\ HubLast'
    BY <1>2, <2>1, <2>3, <2>4, <2>5, NamedLeftAlone, ChosenLeftAlone, HubLeftAlone DEF Record
  <2> QED
    BY <2>1, <2>2, <2>6
<1>3. ASSUME Stop PROVE Inv'
  <2>0. faults' \in Nat
    BY <1>3, FaultsAssumption DEF Stop, Adverse, TypeOK, DecommissionTypeOK
  <2>1. TypeOK'
    BY <1>3, <2>0 DEF Stop, TypeOK, DecommissionTypeOK, Positions
  <2>2. Placed' /\ OldOnesStay'
    BY <1>3 DEF Stop, Placed, OldOnesStay
  <2>3. Named' /\ Chosen'
    BY <1>3, NamedLeftAlone, ChosenLeftAlone DEF Stop, Over
  <2>4. HubLast'
    BY <1>3 DEF Stop, HubLast, HubAfterClusters, Over
  <2> QED
    BY <2>1, <2>2, <2>3, <2>4
<1>4. ASSUME DisableObservability PROVE Inv'
  <2>1. TypeOK'
    BY <1>4 DEF DisableObservability, TypeOK, DecommissionTypeOK
  <2>2. Placed' /\ OldOnesStay'
    BY <1>4 DEF DisableObservability, Placed, OldOnesStay
  <2>3. Named' /\ Chosen'
    BY <1>4, NamedLeftAlone, ChosenLeftAlone DEF DisableObservability, Over, Placed, TypeOK
  <2>4. HubLast'
    BY <1>4 DEF DisableObservability, HubLast, HubAfterClusters, Over, Placed, TypeOK
  <2> QED
    BY <2>1, <2>2, <2>3, <2>4
<1>5. ASSUME EnableSchedule PROVE Inv'
  <2>1. TypeOK'
    BY <1>5 DEF EnableSchedule, TypeOK, DecommissionTypeOK
  <2>2. Placed' /\ OldOnesStay'
    BY <1>5 DEF EnableSchedule, Placed, OldOnesStay
  <2>3. Named' /\ Chosen' /\ HubLast'
    BY <1>5, NamedLeftAlone, ChosenLeftAlone, HubLeftAlone DEF EnableSchedule, Over, Placed, TypeOK
  <2> QED
    BY <2>1, <2>2, <2>3
<1>7. ASSUME VerifyHealth PROVE Inv'
  <2>1. TypeOK'
    BY <1>7 DEF VerifyHealth, TypeOK, DecommissionTypeOK
  <2>2. Placed' /\ OldOnesStay'
    BY <1>7 DEF VerifyHealth, Placed, OldOnesStay
  <2>3. Named' /\ Chosen' /\ HubLast'
    BY <1>7, NamedLeftAlone, ChosenLeftAlone, HubLeftAlone DEF VerifyHealth, Over, Placed, TypeOK
  <2> QED
    BY <2>1, <2>2, <2>3
<1>10. ASSUME NoNewBackup PROVE Inv'
  <2>1. TypeOK'
    BY <1>10 DEF NoNewBackup, TypeOK, DecommissionTypeOK
  <2>2. Placed' /\ OldOnesStay'
    BY <1>10 DEF NoNewBackup, Placed, OldOnesStay
  <2>3. Named' /\ Chosen' /\ HubLast'
    BY <1>10, NamedLeftAlone, ChosenLeftAlone, HubLeftAlone DEF NoNewBackup, Over, Placed, TypeOK
  <2> QED
    BY <2>1, <2>2, <2>3
<1>6. ASSUME StampEnabled PROVE Inv'
  <2>1. TypeOK'
    BY <1>6 DEF StampEnabled, TypeOK, DecommissionTypeOK, Backups
  <2>2. Placed' /\ OldOnesStay'
    BY <1>6, BackupsAssumption DEF StampEnabled, Placed, OldOnesStay
  <2>3. Named' /\ Chosen' /\ HubLast'
    BY <1>6, NamedLeftAlone, ChosenLeftAlone, HubLeftAlone DEF StampEnabled, Over, Placed, TypeOK
  <2> QED
    BY <2>1, <2>2, <2>3
<1>8. ASSUME FindBackup PROVE Inv'
  <2>0. /\ pc \in {"verify_new_backups", "poll"} /\ pc' = "record" /\ recorded = 2
        /\ UNCHANGED <<OldSide, faults, phase, late, arrived, enabled, stamped, recorded, options, proof>>
    BY <1>8 DEF FindBackup, Placed
  <2>1. name' \in News /\ phase[name'] # "none"
    BY <1>8, Disjoint DEF FindBackup, Shown, Named, OldOnesStay, News
  <2>2. TypeOK'
    BY <1>8, <2>0, <2>1 DEF FindBackup, TypeOK, DecommissionTypeOK, Acm
  <2>3. Placed' /\ OldOnesStay'
    BY <2>0 DEF Placed, OldOnesStay
  <2>4. Named'
    BY <2>0, <2>1, Disjoint DEF Named, TypeOK, Acm
  <2>5. Chosen' /\ HubLast'
    BY <2>0, HubLeftAlone DEF Chosen, Over
  <2> QED
    BY <2>2, <2>3, <2>4, <2>5
<1>9. ASSUME NoBackupYet PROVE Inv'
  <2>1. TypeOK'
    BY <1>9 DEF NoBackupYet, TypeOK, DecommissionTypeOK, Shown
  <2>2. Placed' /\ OldOnesStay'
    BY <1>9 DEF NoBackupYet, Placed, OldOnesStay
  <2>3. Named'
    BY <1>9 DEF NoBackupYet, Named, Over, Shown, Acm, Placed
  <2>4. Chosen' /\ HubLast'
    BY <1>9, ChosenLeftAlone, HubLeftAlone DEF NoBackupYet, Over, Placed
  <2> QED
    BY <2>1, <2>2, <2>3, <2>4
<1>11. ASSUME NEW b \in Acm, NewBackupSeen(b) PROVE Inv'
  <2>0. /\ pc \in {"verify_new_backups", "poll"} /\ pc' = "record" /\ recorded = 2
        /\ UNCHANGED <<OldSide, faults, phase, late, arrived, enabled, stamped, recorded, options, proof>>
    BY <1>11 DEF NewBackupSeen, Placed
  <2>1. name' \in News /\ phase[name'] # "none"
    <3>1. b \in Acm /\ phase[b] # "none" /\ b \notin initial
      BY <1>11 DEF NewBackupSeen, Shown
    <3>2. b \notin Held \ arrived \/ phase[b] # "Completed"
      BY <1>11, <3>1 DEF NewBackupSeen, Named
    <3> QED
      BY <1>11, <3>1, <3>2 DEF NewBackupSeen, OldOnesStay, Acm, News
  <2>2. TypeOK'
    BY <1>11, <2>0, <2>1 DEF NewBackupSeen, TypeOK, DecommissionTypeOK, Acm
  <2>3. Placed' /\ OldOnesStay'
    BY <2>0 DEF Placed, OldOnesStay
  <2>4. Named'
    BY <2>0, <2>1, Disjoint DEF Named, TypeOK, Acm
  <2>5. Chosen' /\ HubLast'
    BY <2>0, HubLeftAlone DEF Chosen, Over
  <2> QED
    BY <2>2, <2>3, <2>4, <2>5
<1>12. ASSUME ChooseSubject PROVE Inv'
  <2>0. /\ pc = "verify_backup_integrity" /\ recorded = 3 /\ pc' \in {"down", "age", "await"}
        /\ UNCHANGED <<OldSide, faults, backups, file, options, initial, proof>>
    BY <1>12 DEF ChooseSubject, Placed
  <2>1. name \in News /\ name \in Acm /\ phase[name] # "none"
    BY <2>0, Disjoint DEF Named, Over, News, TypeOK, Acm
  <2>2. ASSUME NEW b \in Shown, Subject(b) PROVE Eligible(b)
    BY <2>1, <2>2, Disjoint DEF Subject, Eligible, Shown, Acm
  <2>3. pc' \in {"age", "await"} => Eligible(subject')
    BY <1>12, <2>2 DEF ChooseSubject
  <2>4. pc' = "age" => phase[subject'] \in {"Completed", "Aged"}
    BY <1>12 DEF ChooseSubject
  <2>5. subject' \in Acm \cup {None}
    BY <1>12 DEF ChooseSubject, Shown, TypeOK
  <2>6. TypeOK' /\ Placed' /\ OldOnesStay'
    BY <2>0, <2>5 DEF TypeOK, DecommissionTypeOK, Placed, OldOnesStay
  <2>7. Named' /\ HubLast'
    BY <2>0, NamedLeftAlone, HubLeftAlone DEF Over
  <2>8. Chosen'
    BY <2>0, <2>1, <2>3, <2>4, Disjoint DEF Chosen, Over, Passed, Eligible, Acm
  <2> QED
    BY <2>6, <2>7, <2>8
<1>13. ASSUME AwaitCompletion PROVE Inv'
  <2>0. /\ pc = "await" /\ recorded = 3 /\ pc' \in {"down", "age"}
        /\ UNCHANGED <<OldSide, faults, backups, file, options, proof>>
    BY <1>13 DEF AwaitCompletion, Placed
  <2>1. TypeOK'
    BY <1>13, <2>0 DEF AwaitCompletion, TypeOK, DecommissionTypeOK
  <2>2. Placed' /\ OldOnesStay'
    BY <2>0 DEF Placed, OldOnesStay
  <2>3. Named' /\ HubLast'
    BY <2>0, NamedLeftAlone, HubLeftAlone DEF Over
  <2>4. Chosen'
    BY <1>13, <2>0 DEF AwaitCompletion, Chosen, Over, Passed, Eligible
  <2> QED
    BY <2>1, <2>2, <2>3, <2>4
<1>14. ASSUME CheckAge PROVE Inv'
  <2>0. /\ pc = "age" /\ recorded = 3 /\ pc' \in {"down", "record"}
        /\ initial' = {} /\ subject' = None /\ proof' \in {subject, proof}
        /\ UNCHANGED <<OldSide, faults, backups, file, options>>
    BY <1>14 DEF CheckAge, Placed
  <2>1. TypeOK'
    BY <2>0 DEF TypeOK, DecommissionTypeOK
  <2>2. Placed' /\ OldOnesStay'
    BY <2>0 DEF Placed, OldOnesStay
  <2>3. Named' /\ HubLast'
    BY <2>0, NamedLeftAlone, HubLeftAlone DEF Over
  <2>4. Chosen'
    BY <1>14, <2>0 DEF CheckAge, Chosen, Over, Passed, Eligible
  <2> QED
    BY <2>1, <2>2, <2>3, <2>4
<1> QED
  BY <1>1, <1>2, <1>3, <1>4, <1>5, <1>6, <1>7, <1>8, <1>9, <1>10, <1>11, <1>12, <1>13, <1>14

-----------------------------------------------------------------------------
(* The steps of the process on A. *)

LEMMA OldHubInv ==
  ASSUME Inv,
         \/ SetUpStandby \/ BeginDecommission \/ Decommissioning \/ EndDecommission
         \/ VerifyOldHub \/ Standalone
  PROVE  Inv'
<1> USE LabelsAre DEF Inv, News, OldSide, backups, file, options, locals, oldHub, decommission
<1>1. ASSUME SetUpStandby PROVE Inv'
  <2>1. TypeOK' /\ Placed' /\ OldOnesStay'
    BY <1>1 DEF SetUpStandby, TypeOK, DecommissionTypeOK, Placed, OldOnesStay
  <2>2. Named' /\ Chosen'
    BY <1>1, NamedLeftAlone, ChosenLeftAlone DEF SetUpStandby, Over, Placed
  <2>3. HubLast'
    BY <1>1 DEF SetUpStandby, HubLast, HubAfterClusters, Over, Placed
  <2> QED
    BY <2>1, <2>2, <2>3
<1>2. ASSUME BeginDecommission PROVE Inv'
  <2>0. /\ at' = "observability" /\ interactive' \in BOOLEAN /\ pc' = "decommission"
        /\ pc = "handle_old_hub"
        /\ UNCHANGED <<oldHub, todo, deleted, faults, backups, file, standby, options, locals,
                       proof>>
    BY <1>2 DEF BeginDecommission, Begin
  <2>1. TypeOK' /\ Placed' /\ OldOnesStay'
    BY <2>0 DEF TypeOK, DecommissionTypeOK, Positions, Placed, OldOnesStay
  <2>2. Named' /\ Chosen'
    BY <1>2, NamedLeftAlone, ChosenLeftAlone DEF BeginDecommission, Over
  <2>3. HubLast'
    BY <1>2 DEF BeginDecommission, Begin, HubLast, HubAfterClusters, Over
  <2> QED
    BY <2>1, <2>2, <2>3
<1>3. ASSUME Decommissioning PROVE Inv'
  <2>0. /\ DecommissionStep
        /\ UNCHANGED <<faults, phase, late, arrived, enabled, stamped, name, recorded, standby, action,
                       disable, pc, initial, subject, proof>>
    BY <1>3 DEF Decommissioning
  <2>1. Placed' /\ OldOnesStay' /\ Named' /\ Chosen'
    BY <2>0, NamedLeftAlone, ChosenLeftAlone
       DEF Placed, OldOnesStay, Named, Chosen, Passed, Eligible, News, Over
  <2>2. ASSUME NEW next \in Positions \ {"delete"}, Declined(next),
               next = "mch" \/ next = "done" \/ next = "clusters"
        PROVE  DecommissionTypeOK' /\ HubLast'
    <3>1. DecommissionTypeOK'
      BY <2>0, <2>2 DEF Declined, TypeOK, DecommissionTypeOK
    <3>2. HubLast'
      BY <2>0, <2>2 DEF Declined, HubLast, HubAfterClusters, Over
    <3> QED
      BY <3>1, <3>2
  <2>3. ASSUME DeleteObservability PROVE DecommissionTypeOK' /\ HubLast'
    <3>1. CASE Declined("clusters")
      BY <2>2, <3>1 DEF Positions
    <3>2. CASE ~Declined("clusters")
      <4>1. DecommissionTypeOK'
        BY <2>0, <2>3, <3>2 DEF DeleteObservability, TypeOK, DecommissionTypeOK, Positions
      <4>2. HubLast'
        BY <2>0, <2>3, <3>2 DEF DeleteObservability, HubLast, HubAfterClusters, Over
      <4> QED
        BY <4>1, <4>2
    <3> QED
      BY <3>1, <3>2
  <2>4. ASSUME ListClusters PROVE DecommissionTypeOK' /\ HubLast'
    <3>1. CASE Declined("mch")
      BY <2>2, <3>1 DEF Positions
    <3>2. CASE ~Declined("mch")
      <4>1. DecommissionTypeOK'
        BY <2>0, <2>4, <3>2 DEF ListClusters, TypeOK, DecommissionTypeOK, Positions
      <4>2. HubLast'
        BY <2>0, <2>4, <3>2
           DEF ListClusters, HubLast, HubAfterClusters, Over, TypeOK, DecommissionTypeOK
      <4> QED
        BY <4>1, <4>2
    <3> QED
      BY <3>1, <3>2
  <2>5. ASSUME NEW c \in Clusters, DeleteCluster(c) PROVE DecommissionTypeOK' /\ HubLast'
    <3>1. DecommissionTypeOK'
      BY <2>0, <2>5 DEF DeleteCluster, TypeOK, DecommissionTypeOK
    <3>2. HubLast'
      BY <2>0, <2>5 DEF DeleteCluster, HubLast, HubAfterClusters, Over
    <3> QED
      BY <3>1, <3>2
  <2>6. ASSUME AllDeleted PROVE DecommissionTypeOK' /\ HubLast'
    <3>1. DecommissionTypeOK'
      BY <2>0, <2>6 DEF AllDeleted, TypeOK, DecommissionTypeOK, Positions
    <3>2. HubLast'
      BY <2>0, <2>6 DEF AllDeleted, HubLast, HubAfterClusters, Over
    <3> QED
      BY <3>1, <3>2
  <2>7. ASSUME AwaitRemoval PROVE DecommissionTypeOK' /\ HubLast'
    <3>1. DecommissionTypeOK'
      BY <2>0, <2>7 DEF AwaitRemoval, TypeOK, DecommissionTypeOK, Positions
    <3>2. HubLast'
      BY <2>0, <2>7
         DEF AwaitRemoval, HubLast, HubAfterClusters, Over, TypeOK, DecommissionTypeOK
    <3> QED
      BY <3>1, <3>2
  <2>8. ASSUME DeleteMultiClusterHub PROVE DecommissionTypeOK' /\ HubLast'
    <3>1. CASE Declined("done")
      BY <2>2, <3>1 DEF Positions
    <3>2. CASE ~Declined("done")
      <4>1. DecommissionTypeOK'
        BY <2>0, <2>8, <3>2 DEF DeleteMultiClusterHub, TypeOK, DecommissionTypeOK, Positions
      <4>2. HubLast'
        BY <2>0, <2>8, <3>2
           DEF DeleteMultiClusterHub, HubLast, HubAfterClusters, Over, TypeOK, DecommissionTypeOK
      <4> QED
        BY <4>1, <4>2
    <3> QED
      BY <3>1, <3>2
  <2>9. DecommissionTypeOK' /\ HubLast'
    BY <2>0, <2>3, <2>4, <2>5, <2>6, <2>7, <2>8 DEF DecommissionStep
  <2>10. TypeOK'
    BY <2>0, <2>9 DEF TypeOK
  <2> QED
    BY <2>1, <2>9, <2>10
<1>4. ASSUME EndDecommission PROVE Inv'
  <2>1. TypeOK' /\ Placed' /\ OldOnesStay'
    BY <1>4 DEF EndDecommission, TypeOK, DecommissionTypeOK, Positions, Placed, OldOnesStay
  <2>2. Named' /\ Chosen'
    BY <1>4, NamedLeftAlone, ChosenLeftAlone DEF EndDecommission, Over, Placed
  <2>3. HubLast'
    BY <1>4 DEF EndDecommission, HubLast, HubAfterClusters, Over
  <2> QED
    BY <2>1, <2>2, <2>3
<1>5. ASSUME VerifyOldHub PROVE Inv'
  <2>1. TypeOK' /\ Placed' /\ OldOnesStay'
    BY <1>5 DEF VerifyOldHub, TypeOK, DecommissionTypeOK, Placed, OldOnesStay
  <2>2. Named' /\ Chosen'
    BY <1>5, NamedLeftAlone, ChosenLeftAlone DEF VerifyOldHub, Over, Placed
  <2>3. HubLast'
    BY <1>5 DEF VerifyOldHub, HubLast, HubAfterClusters, Over, Placed
  <2> QED
    BY <2>1, <2>2, <2>3
<1>6. ASSUME Standalone PROVE Inv'
  <2>1. TypeOK' /\ Placed' /\ OldOnesStay'
    BY <1>6 DEF Standalone, Begin, TypeOK, DecommissionTypeOK, Positions, Placed, OldOnesStay
  <2>2. Named' /\ Chosen'
    BY <1>6, NamedLeftAlone, ChosenLeftAlone DEF Standalone, Over
  <2>3. HubLast'
    BY <1>6 DEF Standalone, Begin, HubLast, HubAfterClusters, Over
  <2> QED
    BY <2>1, <2>2, <2>3
<1> QED
  BY <1>1, <1>2, <1>3, <1>4, <1>5, <1>6

-----------------------------------------------------------------------------
(* The backups and the controllers. *)

\* However a backup goes on, one that was seen completed stays one that was.
LEMMA BackupsInv ==
  ASSUME Inv, NEW b \in Backups,
         Create(b) \/ Arrive(b) \/ Progress(b) \/ Fail(b) \/ Age(b) \/ Expire(b) \/ Discard(b)
  PROVE  Inv'
<1> USE LabelsAre
    DEF Inv, Process, OldSide, backups, file, options, locals, oldHub, decommission
<1>1. UNCHANGED Process /\ faults' \in Nat
  BY FaultsAssumption
     DEF Create, Arrive, Progress, Fail, Age, Expire, Discard, Adverse, TypeOK, DecommissionTypeOK
<1>2. PICK p \in {"Started", "Finalizing", "Completed", "Aged", "Failed", "gone"} :
        phase' = [phase EXCEPT ![b] = p]
  BY DEF Create, Arrive, Progress, Fail, Age, Expire, Discard
<1>3. phase[b] \in {"Completed", "Aged", "gone"} => p \in {"Completed", "Aged", "gone"}
  BY <1>2 DEF Create, Arrive, Progress, Fail, Age, Expire, Discard, TypeOK
<1>4. phase[b] = "gone" => p = "gone"
  BY <1>2 DEF Create, Arrive, Progress, Fail, Age, Expire, Discard, TypeOK
<1>5. b \notin Held \ arrived' /\ arrived \subseteq arrived' /\ arrived' \subseteq Held
  <2>1. b \in Held \ arrived =>
          phase[b] \in {"none", "Completed"} /\ b \notin late /\ b \notin Own
    BY Disjoint DEF OldOnesStay, Acm, News
  <2> QED
    BY <2>1 DEF TypeOK, Create, Arrive, Progress, Fail, Age, Expire, Discard
<1>6. late' \subseteq late \cup {b} /\ late' \subseteq Backups
  BY DEF Create, Arrive, Progress, Fail, Age, Expire, Discard, TypeOK
<1>7. phase' \in [Backups -> {"none", "Started", "Finalizing", "Completed", "Aged", "Failed",
                              "gone"}]
  BY <1>2 DEF TypeOK
<1>8. TypeOK' /\ Placed'
  BY <1>1, <1>5, <1>6, <1>7 DEF TypeOK, DecommissionTypeOK, Placed
<1>9. \A d \in Backups \ {b} : phase'[d] = phase[d]
  BY <1>2 DEF TypeOK
<1>10. Acm \subseteq Backups /\ Held \subseteq Acm
  BY DEF Backups, Acm
<1>11. phase'[b] = p
  BY <1>2 DEF TypeOK
<1>12. OldOnesStay'
  BY <1>5, <1>6, <1>9, <1>10 DEF OldOnesStay, Acm, News
<1>13. Named'
  BY <1>1, <1>5, <1>9, <1>10, <1>11 DEF Named, Over, Acm, News
<1>14. \A d \in Acm : /\ Eligible(d) /\ name # None => Eligible(d)'
                      /\ Passed(d) /\ name # None => Passed(d)'
  <2>1. name # None /\ phase[name] = "gone" => phase'[name] = "gone"
    BY <1>4, <1>5, <1>9, <1>10, <1>11 DEF Named, Acm, News
  <2>2. \A d \in Acm : phase[d] \in {"Completed", "Aged", "gone"}
                         => phase'[d] \in {"Completed", "Aged", "gone"}
    BY <1>3, <1>9, <1>10, <1>11
  <2> QED
    BY <1>1, <1>5, <2>1, <2>2 DEF Eligible, Passed, News
<1>15. Chosen'
  BY <1>1, <1>5, <1>14 DEF Chosen, Over, Passed, Eligible, News
<1>16. HubLast'
  BY <1>1, HubLeftAlone DEF Over
<1> QED
  BY <1>8, <1>12, <1>13, <1>15, <1>16

LEMMA ControllersInv == Inv /\ (OldHubMoves \/ ClusterComesBack) => Inv'
<1> SUFFICES ASSUME Inv, OldHubMoves \/ ClusterComesBack PROVE Inv'
  OBVIOUS
<1> USE LabelsAre DEF Inv, News, backups, file, options, locals, decommission
<1>1. /\ UNCHANGED <<phase, late, arrived, enabled, stamped, name, recorded, standby, action, disable,
                     pc, initial, subject, proof, at, interactive, todo, deleted>>
      /\ faults' \in Nat
  BY FaultsAssumption
     DEF OldHubMoves, Controllers, ClusterComesBack, Reimported, Adverse, TypeOK,
         DecommissionTypeOK
<1>2. /\ DecommissionTypeOK'
      /\ leaving' \subseteq leaving /\ (mch' = "there") = (mch = "there")
      /\ mch # "there" => clusters' \subseteq clusters
  <2>1. CASE OldHubMoves
    BY <1>1, <2>1
       DEF OldHubMoves, Controllers, ObservabilityGone, ClusterGone, MultiClusterHubGone,
           TypeOK, DecommissionTypeOK
  <2>2. CASE ClusterComesBack
    BY <1>1, <2>2 DEF ClusterComesBack, Reimported, TypeOK, DecommissionTypeOK
  <2> QED
    BY <2>1, <2>2
<1>3. TypeOK' /\ Placed' /\ OldOnesStay'
  BY <1>1, <1>2 DEF TypeOK, Placed, OldOnesStay
<1>4. Named' /\ Chosen'
  BY <1>1 DEF Named, Chosen, Passed, Eligible, News, Over
<1>5. HubLast'
  BY <1>1, <1>2 DEF HubLast, HubAfterClusters, Over
<1> QED
  BY <1>3, <1>4, <1>5

-----------------------------------------------------------------------------
(* The theorems. *)

LEMMA InitInv == Init => Inv
<1> SUFFICES ASSUME Init PROVE Inv
  OBVIOUS
<1> USE LabelsAre DEF Init, DecommissionInit
<1>1. TypeOK
  <2>1. DecommissionTypeOK
    BY DEF DecommissionTypeOK, Positions
  <2>2. phase \in [Backups -> {"none", "Started", "Finalizing", "Completed", "Aged", "Failed",
                               "gone"}]
    BY DEF Backups
  <2>3. /\ late \subseteq Backups /\ arrived \subseteq Held /\ name \in Acm \cup {None} /\ recorded \in 0..7
        /\ initial \subseteq Acm /\ subject \in Acm \cup {None} /\ proof \in Acm \cup {None}
    BY DEF Backups
  <2>4. /\ enabled \in BOOLEAN /\ stamped \in BOOLEAN /\ standby \in BOOLEAN
        /\ action \in Actions /\ disable \in BOOLEAN /\ pc \in Labels
    OBVIOUS
  <2> HIDE DEF Init, DecommissionInit
  <2> QED
    BY <2>1, <2>2, <2>3, <2>4 DEF TypeOK
<1>2. Placed /\ OldOnesStay
  BY BackupsAssumption DEF Placed, OldOnesStay, Backups, Acm
<1>3. Named /\ Chosen
  BY DEF Named, Chosen, Over
<1>4. HubLast
  BY DEF HubLast, HubAfterClusters, Over
<1> QED
  BY <1>1, <1>2, <1>3, <1>4 DEF Inv

LEMMA NextInv == Inv /\ [Next]_vars => Inv'
<1> SUFFICES ASSUME Inv, [Next]_vars PROVE Inv'
  OBVIOUS
<1>1. CASE UNCHANGED vars
  BY <1>1 DEF vars, oldHub, decommission, backups, file, options, locals, Inv, TypeOK,
              DecommissionTypeOK, Placed, OldOnesStay, Named, Chosen, Passed, Eligible, News,
              Over, HubLast, HubAfterClusters
<1>2. CASE Start \/ ProcessStep \/ Standalone \/ Stop
  BY <1>2, ProcessInv, OldHubInv DEF ProcessStep
<1>3. CASE Velero \/ (\E b \in Backups : Fail(b) \/ Discard(b))
  BY <1>3, BackupsInv DEF Velero
<1>4. CASE OldHubMoves \/ ClusterComesBack
  BY <1>4, ControllersInv
<1> QED
  BY <1>1, <1>2, <1>3, <1>4 DEF Next

LEMMA Invariant == Spec => []Inv
BY InitInv, NextInv, PTL DEF Spec

\* The finalization stays in its types (Finalization, Decommission).
THEOREM TypeCorrect == Spec => []TypeOK
<1>1. Inv => TypeOK
  BY DEF Inv
<1> QED
  BY <1>1, Invariant, PTL

\* The old hub is taken apart only after a backup completed that B did not show when
\* its schedule was enabled: one of B's own, or one of A's that was under way then and
\* is over late or new by its name.  Another passes only when the recorded one is gone
\* (_verify_new_backups, _verify_backup_integrity, _handle_old_hub).
THEOREM ProofComesFirst == Spec => []OldHubGoesAfterProof
<1>1. Inv => OldHubGoesAfterProof
  BY DEF Inv, Placed, Chosen, Over, Passed, Eligible, News, OldHubGoesAfterProof
<1> QED
  BY <1>1, Invariant, PTL

\* No cluster is still on its way out when the MultiClusterHub is deleted
\* (_delete_managed_clusters, _delete_multiclusterhub).
THEOREM HubGoesLast == Spec => []HubAfterClusters
<1>1. Inv => HubAfterClusters
  BY DEF Inv, HubLast
<1> QED
  BY <1>1, Invariant, PTL

\* A recorded decommissioning has removed the clusters and asked the
\* MultiClusterHub to go (_decommission_old_hub).
THEOREM DecommissionedInFact == Spec => []RecordedMeansDecommissioned
<1>1. Inv => RecordedMeansDecommissioned
  BY DEF Inv, HubLast, Over, RecordedMeansDecommissioned
<1> QED
  BY <1>1, Invariant, PTL

=============================================================================
