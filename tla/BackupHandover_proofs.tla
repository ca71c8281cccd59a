------------------------ MODULE BackupHandover_proofs ------------------------
(***************************************************************************)
(* Proofs about BackupHandover, for any number of Restores, crashes,       *)
(* failures and interventions of other controllers, and for both ways of   *)
(* pausing a schedule.                                                     *)
(***************************************************************************)
EXTENDS BackupHandover, TLAPS

\* The step a label belongs to is the one after the recorded ones; the patch
\* finds the schedule the list has found.
PlaceInv ==
  /\ pc \in {"pause_backup_schedule", "pause"} => recorded = 0
  /\ pc = "pause" => Enabled(schedA)
  /\ pc \in {"enable_backup_schedule", "cleanup", "schedule"} => recorded = 1
  /\ pc = "verify_backup_schedule_enabled" => recorded = 2
  /\ pc \in {"fix_backup_collision", "reread", "delete", "wait", "create"} => recorded = 3
  /\ pc = "handle_old_hub" => recorded = 4
  /\ pc = "record" => recorded < 5

\* The work of the k-th step is done, whether it is recorded yet or not.
Done(k) == recorded >= k \/ (recorded = k - 1 /\ pc = "record")

\* A is silent from the end of the first step on, B until the second begins.
WriterInv ==
  /\ Enabled(schedA) => ~Done(1)
  /\ Enabled(schedB) => recorded # 0

\* What is known of B's schedule around its recreation.
RecreateInv ==
  /\ dyingB => schedB # None
  /\ Done(3) => schedB = None \/ Enabled(schedB)
  /\ pc \in {"reread", "delete", "wait", "create"} => spec = FALSE
  /\ pc = "create" => ~dyingB
  /\ Done(4) => schedB # None /\ ~dyingB
  /\ Done(5) => standbyA

\* uids are fresh, and the schedule that was verified is not made again.
UidInv ==
  /\ schedB # None => schedB.uid < uids
  /\ verified # None => verified < uids
  /\ (pc = "create" \/ Done(4)) /\ schedB # None => schedB.uid # verified

\* Every Restore of B has been asked to go: from the end of the clean-up on, and
\* for good.  Until then the clean-up has the others on its list, or has failed.
AllAsked == restores \subseteq dying

LiveInv ==
  /\ pc = "cleanup" /\ ~failed => restores \ dying \subseteq todo
  /\ pc = "schedule" \/ Done(2) \/ Enabled(schedB) => AllAsked

Inv == TypeOK /\ PlaceInv /\ WriterInv /\ RecreateInv /\ UidInv /\ LiveInv
-----------------------------------------------------------------------------
(* Types and places. *)

LEMMA NewSchedule ==
  ASSUME NEW u \in Nat, NEW p \in BOOLEAN
  PROVE  /\ [uid |-> u, paused |-> p] \in Schedule
         /\ [uid |-> u, paused |-> p] # None
         /\ Enabled([uid |-> u, paused |-> p]) <=> p = FALSE
  BY NobodyAssumption DEF Schedule, Enabled

LEMMA SetPaused ==
  ASSUME NEW s \in Schedule, NEW p \in BOOLEAN
  PROVE  /\ [s EXCEPT !.paused = p] \in Schedule
         /\ [s EXCEPT !.paused = p] # None
         /\ [s EXCEPT !.paused = p].uid = s.uid
         /\ Enabled([s EXCEPT !.paused = p]) <=> p = FALSE
  BY NobodyAssumption DEF Schedule, Enabled

\* Where a process starts when r steps are recorded.
LEMMA FirstLabel ==
  ASSUME NEW r \in 0..4
  PROVE  /\ StepNames[r + 1] \in Labels
         /\ StepNames[r + 1] \notin Inner \cup {"record", "down"}
         /\ StepNames[r + 1] = "pause_backup_schedule" => r = 0
         /\ StepNames[r + 1] = "enable_backup_schedule" => r = 1
         /\ StepNames[r + 1] = "verify_backup_schedule_enabled" => r = 2
         /\ StepNames[r + 1] = "fix_backup_collision" => r = 3
         /\ StepNames[r + 1] = "handle_old_hub" => r = 4
  BY DEF StepNames, Labels, Inner

LEMMA Fields ==
  ASSUME NEW s \in Schedule \cup {None}, s # None
  PROVE  /\ s \in Schedule /\ s.uid \in Nat /\ s.paused \in BOOLEAN
         /\ Enabled(s) <=> s.paused = FALSE
  BY DEF Schedule, Enabled

\* What the creation of a schedule on B does.
LEMMA Created ==
  ASSUME uids \in Nat, NEW p \in BOOLEAN, CreateB(p)
  PROVE  /\ schedB' \in Schedule /\ schedB' # None /\ schedB'.uid = uids
         /\ Enabled(schedB') <=> p = FALSE
         /\ uids' = uids + 1 /\ uids' \in Nat
  <1> DEFINE new == [uid |-> uids, paused |-> p]
  <1>1. schedB' = new /\ uids' = uids + 1
    BY DEF CreateB
  <1>2. new.uid = uids
    OBVIOUS
  <1>3. new \in Schedule /\ new # None /\ (Enabled(new) <=> p = FALSE)
    BY NewSchedule
  <1> HIDE DEF new
  <1> QED
    BY <1>1, <1>2, <1>3

\* What ensure_enabled does to B's schedule.
LEMMA Ensured ==
  ASSUME TypeOK, EnsureEnabled
  PROVE  /\ schedB' \in Schedule \cup {None} /\ uids' \in Nat /\ uids <= uids'
         /\ schedB' = None <=> (schedB = None /\ ~saved)
         /\ schedB' # None => \/ schedB'.uid = uids /\ uids' = uids + 1
                              \/ schedB # None /\ schedB'.uid = schedB.uid /\ uids' = uids
  <1> USE DEF TypeOK
  <1>1. CASE schedB = None /\ saved /\ CreateB(FALSE)
    <2>1. schedB' \in Schedule /\ schedB' # None /\ schedB'.uid = uids /\ uids' = uids + 1
      BY <1>1, Created, Zenon
    <2> QED
      BY <1>1, <2>1
  <1>2. CASE schedB = None /\ ~saved /\ UNCHANGED <<schedB, uids>>
    BY <1>2
  <1>3. CASE Enabled(schedB) /\ UNCHANGED <<schedB, uids>>
    BY <1>3 DEF Enabled
  <1>4. CASE /\ schedB # None /\ ~Enabled(schedB)
             /\ schedB' = [schedB EXCEPT !.paused = ~PausesInPlace]
             /\ UNCHANGED uids
    <2>1. schedB \in Schedule
      BY <1>4
    <2>2. (~PausesInPlace) \in BOOLEAN
      OBVIOUS
    <2> DEFINE new == [schedB EXCEPT !.paused = ~PausesInPlace]
    <2>3. new \in Schedule /\ new # None /\ new.uid = schedB.uid
      BY <2>1, <2>2, SetPaused, Zenon
    <2>4. schedB' = new
      BY <1>4
    <2> HIDE DEF new
    <2> QED
      BY <1>4, <2>3, <2>4
  <1> QED
    BY <1>1, <1>2, <1>3, <1>4 DEF EnsureEnabled

\* What the recreation leaves on B.
LEMMA Recreated ==
  ASSUME TypeOK, RecreateB
  PROVE  /\ schedB' \in Schedule /\ schedB' # None /\ uids' \in Nat
         /\ \/ schedB = None /\ schedB'.uid = uids /\ uids' = uids + 1
               /\ (Enabled(schedB') <=> spec = FALSE)
            \/ schedB # None /\ schedB' = schedB /\ uids' = uids
  <1>1. CASE schedB = None /\ CreateB(spec)
    BY <1>1, Created DEF TypeOK
  <1>2. CASE schedB # None /\ UNCHANGED <<schedB, uids>>
    BY <1>2 DEF TypeOK
  <1> QED
    BY <1>1, <1>2 DEF RecreateB

LEMMA LabelNames ==
  /\ Inner \subseteq Labels /\ "record" \in Labels /\ "down" \in Labels
  BY DEF Labels, Inner

\* Every step keeps the types; PlaceInv says that what is patched exists.
LEMMA NextType == TypeOK /\ PlaceInv /\ [Next]_vars => TypeOK'
<1> SUFFICES ASSUME TypeOK, PlaceInv, [Next]_vars PROVE TypeOK'
  OBVIOUS
<1> USE LabelNames, BoundsAssumption
        DEF TypeOK, PlaceInv, Inner, hubs, locals, bounds
<1>1. CASE Start
  BY <1>1, FirstLabel DEF Start
<1>2. CASE Record
  BY <1>2, FirstLabel DEF Record
<1>3. CASE Stop
  BY <1>3 DEF Stop, Adverse
<1>4. CASE ListA
  BY <1>4 DEF ListA
<1>5. CASE PauseA
  <2>1. schedA \in Schedule
    BY <1>5 DEF PauseA, Enabled
  <2>2. schedA' \in Schedule \cup {None}
    BY <1>5, <2>1, SetPaused DEF PauseA
  <2> QED
    BY <1>5, <2>2 DEF PauseA
<1>6. CASE ListRestores
  BY <1>6 DEF ListRestores
<1>7. ASSUME NEW r \in Restores, DeleteRestore(r) PROVE TypeOK'
  BY <1>7 DEF DeleteRestore
<1>8. ASSUME NEW r \in Restores, DeleteRestoreFails(r) PROVE TypeOK'
  BY <1>8 DEF DeleteRestoreFails, Adverse
<1>9. CASE EndCleanup
  BY <1>9 DEF EndCleanup
<1>10. CASE EnsureEnabled
  <2>1. schedB' \in Schedule \cup {None} /\ uids' \in Nat
    BY <1>10, Ensured
  <2> QED
    BY <1>10, <2>1 DEF EnsureEnabled
<1>11. CASE VerifyEnabled
  <2>1. verified' \in Nat \cup {None}
    BY <1>11, Fields DEF VerifyEnabled, Enabled
  <2> QED
    BY <1>11, <2>1 DEF VerifyEnabled
<1>12. CASE ListB
  <2>1. seen' \in Nat /\ spec' \in BOOLEAN
    BY <1>12, Fields DEF ListB
  <2> QED
    BY <1>12, <2>1 DEF ListB
<1>13. CASE RereadB
  <2>1. spec' \in BOOLEAN
    BY <1>13, Fields DEF RereadB
  <2> QED
    BY <1>13, <2>1 DEF RereadB
<1>14. CASE DeleteB
  BY <1>14 DEF DeleteB
<1>15. CASE RecheckB
  BY <1>15 DEF RecheckB
<1>16. CASE RecreateB
  <2>1. schedB' \in Schedule \cup {None} /\ uids' \in Nat
    BY <1>16, Recreated
  <2> QED
    BY <1>16, <2>1 DEF RecreateB
<1>17. CASE SetUpStandby
  BY <1>17 DEF SetUpStandby
<1>18. CASE Gone
  BY <1>18 DEF Gone
<1>19. CASE Meddle
  <2>1. schedB' \in Schedule \cup {None} /\ uids' \in Nat
    BY <1>19, Created DEF Meddle
  <2> QED
    <3>1. meddles' = meddles + 1 /\ dyingB' = FALSE
      BY <1>19 DEF Meddle
    <3>2. UNCHANGED <<schedA, standbyA, restores, dying, saved, recorded, pc, locals,
                      verified, faults>>
      BY <1>19 DEF Meddle
    <3>3. meddles' \in Nat
      BY <3>1
    <3>4. dyingB' \in BOOLEAN
      BY <3>1
    <3>5. /\ schedA' \in Schedule \cup {None} /\ standbyA' \in BOOLEAN
          /\ saved' \in BOOLEAN /\ failed' \in BOOLEAN /\ spec' \in BOOLEAN
      BY <3>2, Zenon
    <3>6. /\ restores' \subseteq Restores /\ dying' \subseteq restores'
          /\ recorded' \in 0..5 /\ pc' \in Labels
          /\ todo' \subseteq Restores
          /\ seen' \in Nat /\ faults' \in Nat /\ verified' \in Nat \cup {None}
      BY <3>2, Zenon
    <3> QED
      BY <2>1, <3>3, <3>4, <3>5, <3>6
<1>20. CASE UNCHANGED vars
  BY <1>20 DEF vars
<1> QED
  BY <1>1, <1>2, <1>3, <1>4, <1>5, <1>6, <1>7, <1>8, <1>9, <1>10, <1>11,
     <1>12, <1>13, <1>14, <1>15, <1>16, <1>17, <1>18, <1>19, <1>20
     DEF Next, ProcessStep

\* Every step keeps the labels with their step.
LEMMA NextPlace == TypeOK /\ PlaceInv /\ [Next]_vars => PlaceInv'
<1> SUFFICES ASSUME TypeOK, PlaceInv, [Next]_vars PROVE PlaceInv'
  OBVIOUS
<1> USE DEF TypeOK, PlaceInv, Inner, hubs, locals, bounds
<1>1. CASE Start
  BY <1>1, FirstLabel DEF Start
<1>2. CASE Record
  BY <1>2, FirstLabel DEF Record
<1>3. CASE Stop
  BY <1>3 DEF Stop, Adverse
<1>4. CASE ListA
  BY <1>4 DEF ListA
<1>5. CASE PauseA
  BY <1>5 DEF PauseA
<1>6. CASE ListRestores
  BY <1>6 DEF ListRestores
<1>7. ASSUME NEW r \in Restores, DeleteRestore(r) PROVE PlaceInv'
  BY <1>7 DEF DeleteRestore
<1>8. ASSUME NEW r \in Restores, DeleteRestoreFails(r) PROVE PlaceInv'
  BY <1>8 DEF DeleteRestoreFails, Adverse
<1>9. CASE EndCleanup
  BY <1>9 DEF EndCleanup
<1>10. CASE EnsureEnabled
  BY <1>10 DEF EnsureEnabled, CreateB
<1>11. CASE VerifyEnabled
  BY <1>11 DEF VerifyEnabled
<1>12. CASE ListB
  BY <1>12 DEF ListB
<1>13. CASE RereadB
  BY <1>13 DEF RereadB
<1>14. CASE DeleteB
  BY <1>14 DEF DeleteB
<1>15. CASE RecheckB
  BY <1>15 DEF RecheckB
<1>16. CASE RecreateB
  BY <1>16 DEF RecreateB, CreateB
<1>17. CASE SetUpStandby
  BY <1>17 DEF SetUpStandby
<1>18. CASE Gone
  BY <1>18 DEF Gone
<1>19. CASE Meddle
  BY <1>19 DEF Meddle, CreateB
<1>20. CASE UNCHANGED vars
  BY <1>20 DEF vars
<1> QED
  BY <1>1, <1>2, <1>3, <1>4, <1>5, <1>6, <1>7, <1>8, <1>9, <1>10, <1>11,
     <1>12, <1>13, <1>14, <1>15, <1>16, <1>17, <1>18, <1>19, <1>20
     DEF Next, ProcessStep

\* Only the first step's work silences A, and B is enabled after it.
LEMMA NextWriter == TypeOK /\ PlaceInv /\ WriterInv /\ [Next]_vars => WriterInv'
<1> SUFFICES ASSUME TypeOK, PlaceInv, WriterInv, [Next]_vars PROVE WriterInv'
  OBVIOUS
<1> USE DEF TypeOK, PlaceInv, WriterInv, Done, Inner,
            hubs, locals, bounds
<1>1. CASE Start
  BY <1>1, FirstLabel DEF Start
<1>2. CASE Record
  BY <1>2, FirstLabel DEF Record
<1>3. CASE Stop
  BY <1>3 DEF Stop, Adverse
<1>4. CASE ListA
  BY <1>4 DEF ListA
<1>5. CASE PauseA
  <2>1. schedA \in Schedule
    BY <1>5 DEF PauseA, Enabled
  <2>2. ~Enabled([schedA EXCEPT !.paused = TRUE]) /\ ~Enabled(None)
    BY <2>1, SetPaused DEF Enabled
  <2>3. ~Enabled(schedA')
    BY <1>5, <2>2 DEF PauseA
  <2> QED
    BY <1>5, <2>3 DEF PauseA
<1>6. CASE ListRestores
  BY <1>6 DEF ListRestores
<1>7. ASSUME NEW r \in Restores, DeleteRestore(r) PROVE WriterInv'
  BY <1>7 DEF DeleteRestore
<1>8. ASSUME NEW r \in Restores, DeleteRestoreFails(r) PROVE WriterInv'
  BY <1>8 DEF DeleteRestoreFails, Adverse
<1>9. CASE EndCleanup
  BY <1>9 DEF EndCleanup
<1>10. CASE EnsureEnabled
  BY <1>10 DEF EnsureEnabled, CreateB
<1>11. CASE VerifyEnabled
  BY <1>11 DEF VerifyEnabled
<1>12. CASE ListB
  BY <1>12 DEF ListB
<1>13. CASE RereadB
  BY <1>13 DEF RereadB
<1>14. CASE DeleteB
  BY <1>14 DEF DeleteB
<1>15. CASE RecheckB
  BY <1>15 DEF RecheckB
<1>16. CASE RecreateB
  BY <1>16 DEF RecreateB, CreateB
<1>17. CASE SetUpStandby
  BY <1>17 DEF SetUpStandby
<1>18. CASE Gone
  <2>1. Enabled(schedB') => Enabled(schedB)
    BY <1>18 DEF Gone, Enabled
  <2> QED
    BY <1>18, <2>1 DEF Gone
<1>19. CASE Meddle
  BY <1>19 DEF Meddle, CreateB
<1>20. CASE UNCHANGED vars
  BY <1>20 DEF vars
<1> QED
  BY <1>1, <1>2, <1>3, <1>4, <1>5, <1>6, <1>7, <1>8, <1>9, <1>10, <1>11,
     <1>12, <1>13, <1>14, <1>15, <1>16, <1>17, <1>18, <1>19, <1>20
     DEF Next, ProcessStep

\* B's schedule is back, enabled and not on its way out, when its step is done.
LEMMA NextRecreate ==
  TypeOK /\ PlaceInv /\ WriterInv /\ RecreateInv /\ [Next]_vars => RecreateInv'
<1> SUFFICES ASSUME TypeOK, PlaceInv, WriterInv, RecreateInv, [Next]_vars PROVE RecreateInv'
  OBVIOUS
<1> USE DEF TypeOK, PlaceInv, WriterInv, RecreateInv, Done, Inner,
            hubs, locals, bounds
<1>1. CASE Start
  BY <1>1, FirstLabel DEF Start
<1>2. CASE Record
  BY <1>2, FirstLabel DEF Record
<1>3. CASE Stop
  BY <1>3 DEF Stop, Adverse
<1>4. CASE ListA
  BY <1>4 DEF ListA
<1>5. CASE PauseA
  BY <1>5 DEF PauseA
<1>6. CASE ListRestores
  BY <1>6 DEF ListRestores
<1>7. ASSUME NEW r \in Restores, DeleteRestore(r) PROVE RecreateInv'
  BY <1>7 DEF DeleteRestore
<1>8. ASSUME NEW r \in Restores, DeleteRestoreFails(r) PROVE RecreateInv'
  BY <1>8 DEF DeleteRestoreFails, Adverse
<1>9. CASE EndCleanup
  BY <1>9 DEF EndCleanup
<1>10. CASE EnsureEnabled
  <2>1. schedB # None => schedB' # None
    BY <1>10, Ensured
  <2> QED
    BY <1>10, <2>1 DEF EnsureEnabled
<1>11. CASE VerifyEnabled
  BY <1>11 DEF VerifyEnabled
<1>12. CASE ListB
  <2>1. spec' = FALSE \/ pc' = "down"
    BY <1>12, Fields DEF ListB, Enabled
  <2> QED
    BY <1>12, <2>1 DEF ListB
<1>13. CASE RereadB
  <2>1. spec' = FALSE \/ pc' = "down"
    BY <1>13, Fields DEF RereadB, Enabled
  <2> QED
    BY <1>13, <2>1 DEF RereadB
<1>14. CASE DeleteB
  BY <1>14 DEF DeleteB
<1>15. CASE RecheckB
  BY <1>15 DEF RecheckB
<1>16. CASE RecreateB
  <2>0. recorded = 3 /\ spec = FALSE /\ (schedB = None \/ Enabled(schedB))
    BY <1>16 DEF RecreateB
  <2>1. schedB' # None /\ (Enabled(schedB) \/ Enabled(schedB'))
    BY <1>16, <2>0, Recreated
  <2>2. Enabled(schedB) /\ schedB # None => schedB' = schedB
    BY <1>16, Recreated
  <2>3. schedB = None => ~Enabled(schedB)
    BY DEF Enabled
  <2> QED
    BY <1>16, <2>1, <2>2, <2>3 DEF RecreateB
<1>17. CASE SetUpStandby
  BY <1>17 DEF SetUpStandby
<1>18. CASE Gone
  BY <1>18, Fields DEF Gone
<1>19. CASE Meddle
  <2>1. schedB' # None /\ Enabled(schedB')
    BY <1>19, Created DEF Meddle
  <2> QED
    BY <1>19, <2>1 DEF Meddle
<1>20. CASE UNCHANGED vars
  BY <1>20 DEF vars
<1> QED
  BY <1>1, <1>2, <1>3, <1>4, <1>5, <1>6, <1>7, <1>8, <1>9, <1>10, <1>11,
     <1>12, <1>13, <1>14, <1>15, <1>16, <1>17, <1>18, <1>19, <1>20
     DEF Next, ProcessStep

\* A schedule made after the verification has a uid of its own.
LEMMA NextUid == TypeOK /\ PlaceInv /\ RecreateInv /\ UidInv /\ [Next]_vars => UidInv'
<1> SUFFICES ASSUME TypeOK, PlaceInv, RecreateInv, UidInv, [Next]_vars PROVE UidInv'
  OBVIOUS
<1> USE DEF TypeOK, PlaceInv, RecreateInv, UidInv, Done, Inner,
            hubs, locals, bounds
<1>1. CASE Start
  BY <1>1, FirstLabel DEF Start
<1>2. CASE Record
  BY <1>2, FirstLabel DEF Record
<1>3. CASE Stop
  BY <1>3 DEF Stop, Adverse
<1>4. CASE ListA
  BY <1>4 DEF ListA
<1>5. CASE PauseA
  BY <1>5 DEF PauseA
<1>6. CASE ListRestores
  BY <1>6 DEF ListRestores
<1>7. ASSUME NEW r \in Restores, DeleteRestore(r) PROVE UidInv'
  BY <1>7 DEF DeleteRestore
<1>8. ASSUME NEW r \in Restores, DeleteRestoreFails(r) PROVE UidInv'
  BY <1>8 DEF DeleteRestoreFails, Adverse
<1>9. CASE EndCleanup
  BY <1>9 DEF EndCleanup
<1>10. CASE EnsureEnabled
  <2>1. schedB' # None => schedB'.uid < uids'
    BY <1>10, Ensured
  <2>2. uids <= uids' /\ uids' \in Nat
    BY <1>10, Ensured
  <2> QED
    BY <1>10, <2>1, <2>2 DEF EnsureEnabled
<1>11. CASE VerifyEnabled
  <2>1. verified' # None => verified' < uids
    BY <1>11, Fields DEF VerifyEnabled, Enabled
  <2> QED
    BY <1>11, <2>1 DEF VerifyEnabled
<1>12. CASE ListB
  BY <1>12 DEF ListB
<1>13. CASE RereadB
  BY <1>13 DEF RereadB
<1>14. CASE DeleteB
  BY <1>14 DEF DeleteB
<1>15. CASE RecheckB
  BY <1>15 DEF RecheckB
<1>16. CASE RecreateB
  <2>0. pc = "create"
    BY <1>16 DEF RecreateB
  <2>1. \/ schedB'.uid = uids /\ uids' = uids + 1
        \/ schedB # None /\ schedB' = schedB /\ uids' = uids
    BY <1>16, Recreated, Zenon
  <2>2. schedB'.uid < uids' /\ schedB'.uid # verified /\ uids <= uids' /\ uids' \in Nat
    BY <2>0, <2>1, NobodyAssumption
  <2> QED
    BY <1>16, <2>2 DEF RecreateB
<1>17. CASE SetUpStandby
  BY <1>17 DEF SetUpStandby
<1>18. CASE Gone
  BY <1>18 DEF Gone
<1>19. CASE Meddle
  <2>1. schedB'.uid = uids /\ uids' = uids + 1
    BY <1>19, Created DEF Meddle
  <2> QED
    BY <1>19, <2>1, NobodyAssumption DEF Meddle
<1>20. CASE UNCHANGED vars
  BY <1>20 DEF vars
<1> QED
  BY <1>1, <1>2, <1>3, <1>4, <1>5, <1>6, <1>7, <1>8, <1>9, <1>10, <1>11,
     <1>12, <1>13, <1>14, <1>15, <1>16, <1>17, <1>18, <1>19, <1>20
     DEF Next, ProcessStep

-----------------------------------------------------------------------------
(* The theorems. *)

\* The clean-up asks every Restore, and none comes back.
LEMMA NextLive == TypeOK /\ PlaceInv /\ LiveInv /\ [Next]_vars => LiveInv'
<1> SUFFICES ASSUME TypeOK, PlaceInv, LiveInv, [Next]_vars PROVE LiveInv'
  OBVIOUS
<1> USE DEF TypeOK, PlaceInv, LiveInv, AllAsked, Done, Inner,
            hubs, locals, bounds
<1>1. CASE Start
  BY <1>1, FirstLabel DEF Start
<1>2. CASE Record
  BY <1>2, FirstLabel DEF Record
<1>3. CASE Stop
  BY <1>3 DEF Stop, Adverse
<1>4. CASE ListA
  BY <1>4 DEF ListA
<1>5. CASE PauseA
  BY <1>5 DEF PauseA
<1>6. CASE ListRestores
  BY <1>6 DEF ListRestores
<1>7. ASSUME NEW r \in Restores, DeleteRestore(r) PROVE LiveInv'
  <2>1. restores' \ dying' \subseteq restores \ dying /\ r \notin restores' \ dying'
    BY <1>7 DEF DeleteRestore
  <2>2. todo' = todo \ {r} /\ UNCHANGED <<schedB, recorded, pc, failed>>
    BY <1>7 DEF DeleteRestore
  <2> QED
    BY <2>1, <2>2
<1>8. ASSUME NEW r \in Restores, DeleteRestoreFails(r) PROVE LiveInv'
  BY <1>8 DEF DeleteRestoreFails, Adverse
<1>9. CASE EndCleanup
  BY <1>9 DEF EndCleanup
<1>10. CASE EnsureEnabled
  BY <1>10 DEF EnsureEnabled
<1>11. CASE VerifyEnabled
  BY <1>11 DEF VerifyEnabled
<1>12. CASE ListB
  BY <1>12 DEF ListB
<1>13. CASE RereadB
  BY <1>13 DEF RereadB
<1>14. CASE DeleteB
  BY <1>14 DEF DeleteB
<1>15. CASE RecheckB
  BY <1>15 DEF RecheckB
<1>16. CASE RecreateB
  BY <1>16 DEF RecreateB
<1>17. CASE SetUpStandby
  BY <1>17 DEF SetUpStandby
<1>18. CASE Gone
  <2>1. restores' \ dying' \subseteq restores \ dying
    BY <1>18 DEF Gone
  <2>2. Enabled(schedB') => Enabled(schedB)
    BY <1>18 DEF Gone, Enabled
  <2>3. UNCHANGED <<todo, recorded, pc, failed>>
    BY <1>18 DEF Gone
  <2> QED
    BY <2>1, <2>2, <2>3
<1>19. CASE Meddle
  BY <1>19 DEF Meddle
<1>20. CASE UNCHANGED vars
  BY <1>20 DEF vars
<1> QED
  BY <1>1, <1>2, <1>3, <1>4, <1>5, <1>6, <1>7, <1>8, <1>9, <1>10, <1>11,
     <1>12, <1>13, <1>14, <1>15, <1>16, <1>17, <1>18, <1>19, <1>20
     DEF Next, ProcessStep

LEMMA InitInv == Init => Inv
<1> SUFFICES ASSUME Init PROVE Inv
  OBVIOUS
<1>1. \A kind \in Kinds : OfKind(kind) \in Schedule \cup {None}
  BY DEF Kinds, OfKind, Schedule
<1>2. \A kind \in Kinds : OfKind(kind) # None => OfKind(kind).uid = 0
  BY DEF Kinds, OfKind
<1>3. \A kind \in Kinds \ {"enabled"} : ~Enabled(OfKind(kind))
  BY DEF Kinds, OfKind, Enabled
<1>4. PICK a \in StartA, b \in StartB : schedA = OfKind(a) /\ schedB = OfKind(b)
  BY DEF Init
<1>5. a \in Kinds /\ b \in Kinds \ {"enabled"}
  BY <1>4, KindsAssumption, StandbyAssumption
<1>6. schedA \in Schedule \cup {None} /\ schedB \in Schedule \cup {None}
  BY <1>1, <1>4, <1>5
<1>7. ~Enabled(schedB) /\ (schedB # None => schedB.uid = 0)
  BY <1>2, <1>3, <1>4, <1>5
<1>8. TypeOK
  <2>1. /\ restores = Restores /\ dying = {}
        /\ todo = {} /\ pc = "down" /\ verified = None
        /\ recorded = 0 /\ seen = 0 /\ uids = 1 /\ faults = 0 /\ meddles = 0
        /\ standbyA = FALSE /\ saved = FALSE /\ dyingB = FALSE
        /\ failed = FALSE /\ spec = FALSE
    BY DEF Init
  <2>2. /\ standbyA \in BOOLEAN /\ saved \in BOOLEAN /\ dyingB \in BOOLEAN
        /\ failed \in BOOLEAN /\ spec \in BOOLEAN
    BY <2>1, Zenon
  <2>3. /\ restores \subseteq Restores /\ dying \subseteq restores
        /\ todo \subseteq Restores
        /\ pc \in Labels /\ verified \in Nat \cup {None}
    BY <2>1, LabelNames
  <2>4. recorded \in 0..5 /\ {seen, uids, faults, meddles} \subseteq Nat
    BY <2>1
  <2> QED
    BY <1>6, <2>2, <2>3, <2>4 DEF TypeOK
<1>9. PlaceInv
  BY DEF Init, PlaceInv
<1>10. WriterInv /\ RecreateInv
  BY <1>7 DEF Init, WriterInv, RecreateInv, Done
<1>11. UidInv
  BY <1>7 DEF Init, UidInv, Done
<1>12. LiveInv
  BY <1>7 DEF Init, LiveInv, Done
<1> QED
  BY <1>8, <1>9, <1>10, <1>11, <1>12 DEF Inv

LEMMA NextInv == Inv /\ [Next]_vars => Inv'
  BY NextType, NextPlace, NextWriter, NextRecreate, NextUid, NextLive DEF Inv

\* The types hold.
THEOREM TypeCorrect == Spec => []TypeOK
<1>1. Inv => TypeOK
  BY DEF Inv
<1> QED
  BY <1>1, InitInv, NextInv, PTL DEF Spec

\* The two hubs never write backups at the same time, whatever fails, however
\* often the command is run again, before and after ACM 2.12
\* (_pause_backup_schedule, ensure_enabled, _fix_backup_schedule_collision).
THEOREM OneWriterAtATime == Spec => []OneWriter
<1>1. Inv => OneWriter
  BY DEF Inv, WriterInv, OneWriter, Done, TypeOK
<1> QED
  BY <1>1, InitInv, NextInv, PTL DEF Spec

\* A handover that is recorded to its end has left B writing with a schedule
\* that stays, A silent and A's passive restore in place.
THEOREM FinishedIsBackedUp == Spec => []FinishedMeansBackedUp
<1>1. Inv => FinishedMeansBackedUp
  BY DEF Inv, WriterInv, RecreateInv, FinishedMeansBackedUp, Done, TypeOK
<1> QED
  BY <1>1, InitInv, NextInv, PTL DEF Spec

\* Once the collision step is recorded B has a schedule, and it is not the one
\* that was verified before, deletions that are slow and controllers that
\* interfere included (_fix_backup_schedule_collision).
THEOREM CollisionIsFixed == Spec => []CollisionFixed
<1>1. Inv => CollisionFixed
  BY DEF Inv, RecreateInv, UidInv, CollisionFixed, Done, TypeOK
<1> QED
  BY <1>1, InitInv, NextInv, PTL DEF Spec

\* B's schedule never runs over a Restore that nobody has asked to go, whatever
\* deletion failed, was slow or was cut short by a crash, and whoever enabled the
\* schedule (_cleanup_restore_resources, ensure_enabled).
THEOREM ScheduleWaitsForRestores == Spec => []NoScheduleOverLiveRestore
<1>1. Inv => NoScheduleOverLiveRestore
  BY DEF Inv, LiveInv, AllAsked, NoScheduleOverLiveRestore
<1> QED
  BY <1>1, InitInv, NextInv, PTL DEF Spec
=============================================================================
