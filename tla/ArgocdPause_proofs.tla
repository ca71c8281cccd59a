------------------------- MODULE ArgocdPause_proofs -------------------------
(***************************************************************************)
(* Proofs about ArgocdPause, for every set of Applications, any number of  *)
(* crashes, failing patches, lost answers and overwritten Applications,    *)
(* and both kinds of patch.                                                *)
(***************************************************************************)
EXTENDS ArgocdPause, TLAPS

\* What marker, auto-sync and entry say of each other at any time.
MarkInv ==
  \A a \in Apps :
    /\ mark[a] = "run" => entry[a] # None \/ a \in raised
    /\ mark[a] = "run" /\ drops => ~auto[a]
    /\ mark[a] = "run" /\ ~drops /\ ~auto[a] => a \in brought
    /\ a \in wasAuto => auto[a] \/ mark[a] \in {"run", "old"}
    /\ ~paused /\ a \in wasAuto /\ ~auto[a] => a \in brought \/ (drops /\ mark[a] = "run")

InPause == pc \in {"pausing", "patch", "confirm", "forget"}

\* The Application the pause loop has taken up and not finished.
AtHand(a) == pc # "pausing" /\ a = cur

\* What the loop leaves behind of an Application.
Settled(a) ==
  /\ a \in wasAuto => entry[a] = "applied" \/ Lost(a)
  /\ mark[a] = "run" => entry[a] # None \/ (a \in raised /\ Lost(a))

\* One the loop will pass over has an entry, or needs none, or is lost.
Passed(a) == a \in wasAuto \/ mark[a] = "run" => entry[a] # None \/ Lost(a)

PauseInv ==
  InPause =>
    /\ ~paused
    /\ ~drops => \A a \in Apps : listed[a] => auto[a] \/ a \in brought
    /\ \A a \in todo : listed[a] \/ Passed(a)
    /\ \A a \in Apps : entry[a] = "noted" => a \in todo \/ AtHand(a)
    /\ \A a \in Apps \ todo : ~AtHand(a) => failures \/ Settled(a)
    /\ pc # "pausing" => cur \notin todo
    /\ pc = "patch" => listed[cur]
    /\ pc = "forget" => cur \in raised

PausedInv ==
  /\ pc = "between" => paused
  /\ paused => \A a \in Apps : entry[a] # "noted" /\ Settled(a)

Restored(a) ==
  /\ a \in wasAuto => auto[a] \/ Lost(a)
  /\ mark[a] = "run" => a \in raised /\ Lost(a)

ResumeInv ==
  /\ pc = "resuming" /\ ~only =>
       /\ paused /\ ~syncing
       /\ \A a \in Apps \ todo : failures \/ Restored(a)
  /\ resumed => paused /\ ~syncing /\ \A a \in Apps : Restored(a)

Inv == TypeOK /\ MarkInv /\ PauseInv /\ PausedInv /\ ResumeInv
-----------------------------------------------------------------------------
(* One lemma for each part of the invariant. *)

LEMMA NextType ==
  ASSUME TypeOK, [Next]_vars
  PROVE  TypeOK'
<1> USE DEF apps, steps, locals, bounds, rest, Marks, Labels,
    PausePatch, ResumePatch
<1>1. CASE StartPause
  BY <1>1 DEF StartPause, TypeOK
<1>2. CASE PatchApp
  BY <1>2 DEF PatchApp, PausePatch, TypeOK
<1>3. CASE Confirm
  BY <1>3 DEF Confirm, TypeOK
<1>4. CASE Forget
  BY <1>4 DEF Forget, TypeOK
<1>5. CASE EndPause
  BY <1>5 DEF EndPause, TypeOK
<1>6. CASE StartResume
  BY <1>6 DEF StartResume, TypeOK
<1>7. CASE EndResume
  BY <1>7 DEF EndResume, TypeOK
<1>8. CASE StartResumeOnly
  BY <1>8 DEF StartResumeOnly, TypeOK
<1>9. CASE PatchAppFails
  <2>1. faults' \in Nat
    BY <1>9 DEF PatchAppFails, FailedPatch, Adverse, TypeOK
  <2>2. auto' \in [Apps -> BOOLEAN] /\ mark' \in [Apps -> Marks]
    BY <1>9 DEF PatchAppFails, FailedPatch, TypeOK
  <2> QED
    BY <1>9, <2>1, <2>2 DEF PatchAppFails, FailedPatch, Adverse, TypeOK
<1>10. CASE Crash
  BY <1>10 DEF Crash, Adverse, TypeOK
<1>11. ASSUME NEW a \in Apps, Recover(a)
      PROVE  TypeOK'
  BY <1>11 DEF Recover, TypeOK
<1>12. ASSUME NEW a \in Apps, SkipApp(a)
      PROVE  TypeOK'
  BY <1>12 DEF SkipApp, TypeOK
<1>13. ASSUME NEW a \in Apps, Note(a)
      PROVE  TypeOK'
  BY <1>13 DEF Note, TypeOK
<1>14. ASSUME NEW a \in Apps, ResumeUnconfirmed(a)
      PROVE  TypeOK'
  BY <1>14 DEF ResumeUnconfirmed, Resuming, TypeOK
<1>15. ASSUME NEW a \in Apps, ResumeApp(a)
      PROVE  TypeOK'
  BY <1>15 DEF ResumeApp, Resuming, ResumePatch, TypeOK
<1>16. ASSUME NEW a \in Apps, ResumeNoop(a)
      PROVE  TypeOK'
  BY <1>16 DEF ResumeNoop, Resuming, TypeOK
<1>17. ASSUME NEW a \in Apps, ResumeStale(a)
      PROVE  TypeOK'
  BY <1>17 DEF ResumeStale, Resuming, TypeOK
<1>18. ASSUME NEW a \in Apps, ResumeAppFails(a)
      PROVE  TypeOK'
  <2>1. faults' \in Nat
    BY <1>18 DEF ResumeAppFails, FailedPatch, Adverse, TypeOK
  <2>2. auto' \in [Apps -> BOOLEAN] /\ mark' \in [Apps -> Marks]
    BY <1>18 DEF ResumeAppFails, FailedPatch, TypeOK
  <2> QED
    BY <1>18, <2>1, <2>2 DEF ResumeAppFails, Resuming, FailedPatch, Adverse, TypeOK
<1>19. ASSUME NEW a \in Apps, Overwrite(a)
      PROVE  TypeOK'
  BY <1>19 DEF Overwrite, TypeOK
<1>20. CASE UNCHANGED vars
  BY <1>20 DEF vars, TypeOK
<1> QED
  BY <1>1, <1>2, <1>3, <1>4, <1>5, <1>6, <1>7, <1>8, <1>9, <1>10,
     <1>11, <1>12, <1>13, <1>14, <1>15, <1>16, <1>17, <1>18, <1>19, <1>20
     DEF Next, ProcessStep

\* Markers are set only on listed Applications, and by an entry's own patch.
LEMMA NextMark ==
  ASSUME TypeOK, MarkInv, PauseInv, [Next]_vars
  PROVE  MarkInv'
<1> USE DEF apps, steps, locals, bounds, rest, Marks, Labels,
    InPause, PausePatch, ResumePatch, FailedPatch
<1>1. CASE StartPause
  BY <1>1 DEF StartPause, MarkInv
<1>2. CASE PatchApp
  BY <1>2, NoneAssumption DEF PatchApp, PausePatch, TypeOK, MarkInv, PauseInv
<1>3. CASE Confirm
  BY <1>3, NoneAssumption DEF Confirm, MarkInv
<1>4. CASE Forget
  BY <1>4 DEF Forget, MarkInv, PauseInv
<1>5. CASE EndPause
  BY <1>5 DEF EndPause, MarkInv, PauseInv
<1>6. CASE StartResume
  BY <1>6 DEF StartResume, MarkInv
<1>7. CASE EndResume
  BY <1>7 DEF EndResume, MarkInv
<1>8. CASE StartResumeOnly
  BY <1>8 DEF StartResumeOnly, MarkInv
<1>9. CASE PatchAppFails
  BY <1>9, NoneAssumption DEF PatchAppFails, FailedPatch, TypeOK, MarkInv, PauseInv
<1>10. CASE Crash
  BY <1>10 DEF Crash, MarkInv
<1>11. ASSUME NEW a \in Apps, Recover(a)
      PROVE  MarkInv'
  BY <1>11, NoneAssumption DEF Recover, MarkInv
<1>12. ASSUME NEW a \in Apps, SkipApp(a)
      PROVE  MarkInv'
  BY <1>12 DEF SkipApp, MarkInv
<1>13. ASSUME NEW a \in Apps, Note(a)
      PROVE  MarkInv'
  BY <1>13, NoneAssumption DEF Note, TypeOK, MarkInv
<1>14. ASSUME NEW a \in Apps, ResumeUnconfirmed(a)
      PROVE  MarkInv'
  BY <1>14 DEF ResumeUnconfirmed, Resuming, MarkInv
<1>15. ASSUME NEW a \in Apps, ResumeApp(a)
      PROVE  MarkInv'
  BY <1>15, NoneAssumption DEF ResumeApp, Resuming, ResumePatch, TypeOK, MarkInv
<1>16. ASSUME NEW a \in Apps, ResumeNoop(a)
      PROVE  MarkInv'
  BY <1>16 DEF ResumeNoop, Resuming, MarkInv
<1>17. ASSUME NEW a \in Apps, ResumeStale(a)
      PROVE  MarkInv'
  BY <1>17, NoneAssumption DEF ResumeStale, Resuming, TypeOK, MarkInv
<1>18. ASSUME NEW a \in Apps, ResumeAppFails(a)
      PROVE  MarkInv'
  BY <1>18, NoneAssumption DEF ResumeAppFails, Resuming, TypeOK, MarkInv
<1>19. ASSUME NEW a \in Apps, Overwrite(a)
      PROVE  MarkInv'
  BY <1>19, NoneAssumption DEF Overwrite, TypeOK, MarkInv
<1>20. CASE UNCHANGED vars
  BY <1>20 DEF vars, MarkInv
<1> QED
  BY <1>1, <1>2, <1>3, <1>4, <1>5, <1>6, <1>7, <1>8, <1>9, <1>10,
     <1>11, <1>12, <1>13, <1>14, <1>15, <1>16, <1>17, <1>18, <1>19, <1>20
     DEF Next, ProcessStep

\* The pause loop; the recovery branch needs MarkInv: an Application without
\* auto-sync that had it at the start carries the marker, and so has an entry.
LEMMA NextPause ==
  ASSUME TypeOK, MarkInv, PauseInv, PausedInv, [Next]_vars
  PROVE  PauseInv'
<1> USE DEF apps, steps, locals, bounds, rest, Marks, Labels,
    InPause, AtHand, Lost, Passed, Settled
<1>1. CASE StartPause
  BY <1>1 DEF StartPause, TypeOK, MarkInv, PauseInv
<1>2. CASE PatchApp
  BY <1>2, NoneAssumption DEF PatchApp, PausePatch, TypeOK, PauseInv
<1>3. CASE Confirm
  BY <1>3, NoneAssumption DEF Confirm, TypeOK, PauseInv
<1>4. CASE Forget
  BY <1>4, NoneAssumption DEF Forget, TypeOK, PauseInv
<1>5. CASE EndPause
  BY <1>5 DEF EndPause, PauseInv
<1>6. CASE StartResume
  BY <1>6 DEF StartResume, PauseInv
<1>7. CASE EndResume
  BY <1>7 DEF EndResume, PauseInv
<1>8. CASE StartResumeOnly
  BY <1>8 DEF StartResumeOnly, PauseInv
<1>9. CASE PatchAppFails
  BY <1>9, NoneAssumption DEF PatchAppFails, FailedPatch, PausePatch, TypeOK, MarkInv, PauseInv
<1>10. CASE Crash
  BY <1>10 DEF Crash, PauseInv
<1>11. ASSUME NEW a \in Apps, Recover(a)
      PROVE  PauseInv'
  BY <1>11, NoneAssumption DEF Recover, TypeOK, PauseInv
<1>12. ASSUME NEW a \in Apps, SkipApp(a)
      PROVE  PauseInv'
  BY <1>12 DEF SkipApp, TypeOK, MarkInv, PauseInv
<1>13. ASSUME NEW a \in Apps, Note(a)
      PROVE  PauseInv'
  BY <1>13, NoneAssumption DEF Note, TypeOK, PauseInv
<1>14. ASSUME NEW a \in Apps, ResumeUnconfirmed(a)
      PROVE  PauseInv'
  BY <1>14 DEF ResumeUnconfirmed, Resuming, PauseInv
<1>15. ASSUME NEW a \in Apps, ResumeApp(a)
      PROVE  PauseInv'
  BY <1>15 DEF ResumeApp, Resuming, PauseInv
<1>16. ASSUME NEW a \in Apps, ResumeNoop(a)
      PROVE  PauseInv'
  BY <1>16 DEF ResumeNoop, Resuming, PauseInv
<1>17. ASSUME NEW a \in Apps, ResumeStale(a)
      PROVE  PauseInv'
  BY <1>17 DEF ResumeStale, Resuming, PauseInv
<1>18. ASSUME NEW a \in Apps, ResumeAppFails(a)
      PROVE  PauseInv'
  BY <1>18 DEF ResumeAppFails, Resuming, PauseInv
<1>19. ASSUME NEW a \in Apps, Overwrite(a)
      PROVE  PauseInv'
  BY <1>19, NoneAssumption DEF Overwrite, TypeOK, PauseInv
<1>20. CASE UNCHANGED vars
  BY <1>20 DEF vars, PauseInv
<1> QED
  BY <1>1, <1>2, <1>3, <1>4, <1>5, <1>6, <1>7, <1>8, <1>9, <1>10,
     <1>11, <1>12, <1>13, <1>14, <1>15, <1>16, <1>17, <1>18, <1>19, <1>20
     DEF Next, ProcessStep

\* Only the end of the loop records the step.
LEMMA NextPaused ==
  ASSUME TypeOK, MarkInv, PauseInv, PausedInv, [Next]_vars
  PROVE  PausedInv'
<1> USE DEF apps, steps, locals, bounds, rest, Marks, Labels,
    InPause, Lost, Settled
<1>1. CASE StartPause
  BY <1>1 DEF StartPause, PausedInv
<1>2. CASE PatchApp
  BY <1>2 DEF PatchApp, PauseInv, PausedInv
<1>3. CASE Confirm
  BY <1>3 DEF Confirm, PauseInv, PausedInv
<1>4. CASE Forget
  BY <1>4 DEF Forget, TypeOK, PausedInv
<1>5. CASE EndPause
  BY <1>5, NoneAssumption DEF EndPause, TypeOK, AtHand, PauseInv, PausedInv
<1>6. CASE StartResume
  BY <1>6 DEF StartResume, PausedInv
<1>7. CASE EndResume
  BY <1>7 DEF EndResume, PausedInv
<1>8. CASE StartResumeOnly
  BY <1>8 DEF StartResumeOnly, PausedInv
<1>9. CASE PatchAppFails
  BY <1>9 DEF PatchAppFails, FailedPatch, Adverse, PauseInv, PausedInv
<1>10. CASE Crash
  BY <1>10 DEF Crash, Adverse, PausedInv
<1>11. ASSUME NEW a \in Apps, Recover(a)
      PROVE  PausedInv'
  BY <1>11 DEF Recover, PausedInv
<1>12. ASSUME NEW a \in Apps, SkipApp(a)
      PROVE  PausedInv'
  BY <1>12 DEF SkipApp, PausedInv
<1>13. ASSUME NEW a \in Apps, Note(a)
      PROVE  PausedInv'
  BY <1>13 DEF Note, PauseInv, PausedInv
<1>14. ASSUME NEW a \in Apps, ResumeUnconfirmed(a)
      PROVE  PausedInv'
  BY <1>14 DEF ResumeUnconfirmed, Resuming, PausedInv
<1>15. ASSUME NEW a \in Apps, ResumeApp(a)
      PROVE  PausedInv'
  BY <1>15, NoneAssumption DEF ResumeApp, ResumePatch, Resuming, TypeOK, PausedInv
<1>16. ASSUME NEW a \in Apps, ResumeNoop(a)
      PROVE  PausedInv'
  BY <1>16 DEF ResumeNoop, Resuming, PausedInv
<1>17. ASSUME NEW a \in Apps, ResumeStale(a)
      PROVE  PausedInv'
  BY <1>17, NoneAssumption DEF ResumeStale, Resuming, TypeOK, PausedInv
<1>18. ASSUME NEW a \in Apps, ResumeAppFails(a)
      PROVE  PausedInv'
  BY <1>18, NoneAssumption DEF ResumeAppFails, FailedPatch, ResumePatch, Adverse, Resuming,
                                 TypeOK, PausedInv
<1>19. ASSUME NEW a \in Apps, Overwrite(a)
      PROVE  PausedInv'
  BY <1>19, NoneAssumption DEF Overwrite, TypeOK, PausedInv
<1>20. CASE UNCHANGED vars
  BY <1>20 DEF vars, PausedInv
<1> QED
  BY <1>1, <1>2, <1>3, <1>4, <1>5, <1>6, <1>7, <1>8, <1>9, <1>10,
     <1>11, <1>12, <1>13, <1>14, <1>15, <1>16, <1>17, <1>18, <1>19, <1>20
     DEF Next, ProcessStep

\* The resume loop; while it runs for a switchover no restore overwrites.
LEMMA NextResume ==
  ASSUME TypeOK, MarkInv, PauseInv, PausedInv, ResumeInv, [Next]_vars
  PROVE  ResumeInv'
<1> USE DEF apps, steps, locals, bounds, rest, Marks, Labels,
    InPause, Lost, Restored
<1>1. CASE StartPause
  BY <1>1 DEF StartPause, ResumeInv
<1>2. CASE PatchApp
  BY <1>2 DEF PatchApp, PauseInv, ResumeInv
<1>3. CASE Confirm
  BY <1>3 DEF Confirm, ResumeInv
<1>4. CASE Forget
  BY <1>4 DEF Forget, ResumeInv
<1>5. CASE EndPause
  BY <1>5 DEF EndPause, PauseInv, ResumeInv, InPause
<1>6. CASE StartResume
  BY <1>6, NoneAssumption DEF StartResume, TypeOK, MarkInv, PausedInv, Settled, ResumeInv
<1>7. CASE EndResume
  BY <1>7 DEF EndResume, ResumeInv
<1>8. CASE StartResumeOnly
  BY <1>8 DEF StartResumeOnly, ResumeInv
<1>9. CASE PatchAppFails
  BY <1>9 DEF PatchAppFails, FailedPatch, Adverse, PauseInv, ResumeInv
<1>10. CASE Crash
  BY <1>10 DEF Crash, Adverse, ResumeInv
<1>11. ASSUME NEW a \in Apps, Recover(a)
      PROVE  ResumeInv'
  BY <1>11 DEF Recover, ResumeInv
<1>12. ASSUME NEW a \in Apps, SkipApp(a)
      PROVE  ResumeInv'
  BY <1>12 DEF SkipApp, ResumeInv
<1>13. ASSUME NEW a \in Apps, Note(a)
      PROVE  ResumeInv'
  BY <1>13 DEF Note, ResumeInv
<1>14. ASSUME NEW a \in Apps, ResumeUnconfirmed(a)
      PROVE  ResumeInv'
  BY <1>14 DEF ResumeUnconfirmed, Resuming, ResumeInv
<1>15. ASSUME NEW a \in Apps, ResumeApp(a)
      PROVE  ResumeInv'
  BY <1>15, NoneAssumption DEF ResumeApp, Resuming, ResumePatch, TypeOK, ResumeInv
<1>16. ASSUME NEW a \in Apps, ResumeNoop(a)
      PROVE  ResumeInv'
  BY <1>16, NoneAssumption DEF ResumeNoop, Resuming, MarkInv, ResumeInv
<1>17. ASSUME NEW a \in Apps, ResumeStale(a)
      PROVE  ResumeInv'
  BY <1>17, NoneAssumption DEF ResumeStale, Resuming, TypeOK, ResumeInv
<1>18. ASSUME NEW a \in Apps, ResumeAppFails(a)
      PROVE  ResumeInv'
  BY <1>18, NoneAssumption DEF ResumeAppFails, FailedPatch, ResumePatch, Adverse, Resuming,
                                 TypeOK, ResumeInv
<1>19. ASSUME NEW a \in Apps, Overwrite(a)
      PROVE  ResumeInv'
  BY <1>19 DEF Overwrite, ResumeInv
<1>20. CASE UNCHANGED vars
  BY <1>20 DEF vars, ResumeInv
<1> QED
  BY <1>1, <1>2, <1>3, <1>4, <1>5, <1>6, <1>7, <1>8, <1>9, <1>10,
     <1>11, <1>12, <1>13, <1>14, <1>15, <1>16, <1>17, <1>18, <1>19, <1>20
     DEF Next, ProcessStep

-----------------------------------------------------------------------------
(* The theorems. *)

LEMMA InitInv == Init => Inv
<1> SUFFICES ASSUME Init PROVE Inv
  OBVIOUS
<1>1. TypeOK
  <2>1. drops \in BOOLEAN
    BY PatchAssumption DEF Init
  <2> QED
    BY <2>1 DEF Init, TypeOK, Marks, Labels
<1>2. MarkInv
  BY NoneAssumption DEF Init, MarkInv
<1>3. PauseInv /\ PausedInv /\ ResumeInv
  BY DEF Init, PauseInv, PausedInv, ResumeInv, InPause
<1> QED
  BY <1>1, <1>2, <1>3 DEF Inv

LEMMA NextInv == Inv /\ [Next]_vars => Inv'
  BY NextType, NextMark, NextPause, NextPaused, NextResume DEF Inv

LEMMA Invariant == Spec => []Inv
<1>1. Inv /\ [Next]_vars => Inv'
  BY NextInv
<1> QED
  BY <1>1, InitInv, PTL DEF Spec

\* The types hold, and the loop patches only what it has noted in the state file.
THEOREM TypeCorrect == Spec => []TypeOK
<1>1. Inv => TypeOK
  BY DEF Inv
<1> QED
  BY <1>1, Invariant, PTL

\* Whenever a process dies the state file has an entry for every Application with
\* this run's marker, but for those whose pause patch has raised, and once the step is
\* recorded only for those of them that no rerun could see any more
\* (_pause_argocd_acm_apps writes the entry ahead of the patch).
THEOREM MarksAreRecorded == Spec => []MarkedIsRecorded
<1>1. Inv => MarkedIsRecorded
  BY DEF Inv, MarkInv, PausedInv, Settled, MarkedIsRecorded
<1> QED
  BY <1>1, Invariant, PTL

\* A recorded pause step leaves no unconfirmed entry, and an entry for every
\* Application that had auto-sync, unless it is lost (the recovery branch of
\* _pause_argocd_acm_apps, pause_failures).
THEOREM PausesAreConfirmed == Spec => []PauseIsConfirmed
<1>1. Inv => PauseIsConfirmed
  BY DEF Inv, PausedInv, Settled, PauseIsConfirmed
<1> QED
  BY <1>1, Invariant, PTL

\* A recorded resume has given auto-sync back to every Application that had it, and
\* removed this run's marker, however the pause, earlier resumes and restores went,
\* unless it is lost (resume_recorded_applications, resume_autosync).
THEOREM ResumeRestores == Spec => []ResumedIsRestored
<1>1. Inv => ResumedIsRestored
  BY DEF Inv, ResumeInv, Restored, ResumedIsRestored
<1> QED
  BY <1>1, Invariant, PTL
=============================================================================
