------------------------- MODULE Activation_proofs -------------------------
(***************************************************************************)
(* Proofs about Activation, for every set of ManagedClusters and of        *)
(* command lines, any minimum and any number of failing calls, kills and   *)
(* failing Restores, with and without calls that raise after their effect. *)
(***************************************************************************)
EXTENDS Activation, FiniteSetTheorems, TLAPS

Swapping == {"delete", "gone", "look", "create", "rollback"}
Activated == {"wait", "velero", "count", "finish", "annotate", "annotating", "activated"}
Waited == {"annotate", "annotating", "activated"}
Resetting == {"reset", "unset", "clear", "put_back", "done"}
TargetOnly == \A n \in Names : Exists(n) <=> n = Target

\* Which Restores there are: by method, by where the process is, and for good
\* once the activation step is recorded.
RestoreInv ==
  /\ \A n \in Names \ {"passive"} : Exists(n) => /\ n = Target
                                                 /\ restores[n].spec.mc
                                                 /\ ~restores[n].dying
  /\ opts.method = "patch" => Exists("passive") /\ ~restores["passive"].dying
  /\ pc \in Swapping => opts.method # "patch"
  /\ pc \in {"patch", "confirm"} => opts.method = "patch"
  /\ pc \in Swapping \cup {"patch", "confirm"} => ActivationStep \notin steps
  /\ pc \in {"look", "create"} => ~Exists("passive")
  /\ pc \in {"record"} \cup Activated \/ ActivationStep \in steps => TargetOnly

\* The Restore that activates has been through with Velero.
TargetDone == Exists(Target) /\ restores[Target].velero = "completed"

WaitInv ==
  /\ \A n \in Names : Exists(n) =>
       /\ restores[n].velero = "completed" => restored
       /\ n # "passive" /\ restores[n].phase = "Finished" => restores[n].velero = "completed"
  /\ pc \in Activated => ActivationStep \in steps
  /\ pc \in Waited => "wait_restore_completion" \in steps
  /\ pc \in {"count", "finish"} \/ "wait_restore_completion" \in steps => TargetDone
  /\ "wait_restore_completion" \in steps => ActivationStep \in steps
  /\ pc = "finish" \/ "wait_restore_completion" \in steps =>
       (Passive => Cardinality(known) >= MinClusters)

MarkInv ==
  /\ "apply_immediate_import_annotations" \in steps =>
       /\ "wait_restore_completion" \in steps
       /\ skipped \/ known \subseteq marked
  /\ pc = "annotating" => failures \/ known \subseteq marked \cup todo

\* Flag, strategy and whose it is.
FlagInv ==
  /\ mine => strategy = "sync"
  /\ flag /\ strategy = "sync" => mine
  /\ flag \/ pc = "flag" => opts.modern
  /\ pc = "flag" => strategy = "sync" /\ mine
  /\ pc = "unset" => flag /\ strategy = "sync"
  /\ pc = "clear" => strategy # "sync" /\ flag
  /\ pc \in {"put_back", "done"} => ~flag
  /\ pc \in Resetting => past
  /\ past => pc \in Resetting \cup {"down"}
  /\ pc = "set" => opts.modern
  /\ "reset_auto_import_strategy" \in steps => past /\ ~flag

Inv == TypeOK /\ RestoreInv /\ WaitInv /\ MarkInv /\ FlagInv
-----------------------------------------------------------------------------
(* One lemma for each part of the invariant. *)

\* The requests and the controllers keep a Restore a Restore.
LEMMA RestoreTypes ==
  /\ Activating \in RestoreSpec
  /\ \A spec \in RestoreSpec : Created(spec) \in Restore
  /\ \A r \in Restore :
       /\ r.spec \in RestoreSpec
       /\ [r EXCEPT !.dying = TRUE] \in Restore
       /\ [r EXCEPT !.spec.mc = TRUE] \in Restore
       /\ \A p \in {"Failed", "Running", "Enabled", "Finished"} : [r EXCEPT !.phase = p] \in Restore
       /\ \A v \in {"completed", "failed"} : [r EXCEPT !.velero = v] \in Restore
       /\ [r EXCEPT !.velero = "running", !.phase = "Running"] \in Restore
BY DEF Activating, Created, Restore, RestoreSpec, RestorePhases, VeleroPhases

\* Types.
LEMMA NextType ==
  ASSUME TypeOK, [Next]_vars
  PROVE  TypeOK'
<1> USE DEF hub, file, locals, history, Labels, Exists
<1>1. CASE Start
  BY <1>1 DEF Start, Goto, TypeOK
<1>2. CASE VerifyPassive
  <2>1. /\ steps' \in {steps, steps \cup {"verify_passive_sync"}}
        /\ pc' \in {"strategy", "down"}
        /\ UNCHANGED <<hub, flag, past, opts, faults, locals, history>>
    BY <1>2 DEF VerifyPassive, Record, Raise, Goto
  <2> QED
    BY <2>1 DEF TypeOK, StepNames
<1>3. CASE ReadStrategy
  BY <1>3 DEF ReadStrategy, Goto, TypeOK
<1>4. CASE SetStrategy
  BY <1>4 DEF SetStrategy, Goto, PutSync, TypeOK
<1>5. CASE StoreFlag
  BY <1>5 DEF StoreFlag, Goto, TypeOK
<1>6. CASE SkipActivation
  BY <1>6 DEF SkipActivation, Goto, TypeOK
<1>7. CASE BeginPatch
  BY <1>7 DEF BeginPatch, Goto, TypeOK
<1>8. CASE PatchPassive
  BY <1>8, RestoreTypes DEF PatchPassive, Goto, SetLatest, TypeOK
<1>9. CASE ConfirmPatch
  BY <1>9 DEF ConfirmPatch, Goto, TypeOK
<1>10. CASE BeginSwap
  BY <1>10, RestoreTypes DEF BeginSwap, Goto, Names, TypeOK
<1>11. CASE DeletePassive
  <2>1. CASE Exists("passive")
    <3>1. restores["passive"] \in Restore
      BY <2>1 DEF TypeOK, Names
    <3>2. [restores["passive"] EXCEPT !.dying = TRUE] \in Restore
      BY <3>1, RestoreTypes
    <3>3. restores' = [restores EXCEPT !["passive"] = [restores["passive"] EXCEPT !.dying = TRUE]]
      BY <1>11, <2>1 DEF DeletePassive, AskToGo
    <3> QED
      BY <1>11, <3>2, <3>3 DEF DeletePassive, Goto, TypeOK
  <2>2. CASE ~Exists("passive")
    BY <1>11, <2>2 DEF DeletePassive, Goto, TypeOK
  <2> QED
    BY <2>1, <2>2
<1>12. CASE WaitGone
  BY <1>12 DEF WaitGone, Goto, TypeOK
<1>13. CASE LookForTarget
  BY <1>13 DEF LookForTarget, Goto, TypeOK
<1>14. CASE CreateTarget
  BY <1>14, RestoreTypes DEF CreateTarget, Goto, Create, TypeOK
<1>15. CASE Rollback
  BY <1>15, RestoreTypes DEF Rollback, Raise, Create, Goto, TypeOK
<1>16. CASE RecordActivation
  BY <1>16 DEF RecordActivation, Record, Goto, StepNames, ActivationStep, TypeOK
<1>17. CASE SkipWait
  BY <1>17 DEF SkipWait, Goto, TypeOK
<1>18. CASE PollRestore
  BY <1>18 DEF PollRestore, Raise, Goto, TypeOK
<1>19. CASE PollVelero
  BY <1>19 DEF PollVelero, Raise, Goto, TypeOK
<1>20. CASE CountClusters
  BY <1>20 DEF CountClusters, Goto, TypeOK
<1>21. CASE RecordWait
  BY <1>21 DEF RecordWait, Record, Goto, StepNames, TypeOK
<1>22. CASE SkipAnnotate
  BY <1>22 DEF SkipAnnotate, Goto, TypeOK
<1>23. CASE PassOverAnnotate
  BY <1>23 DEF PassOverAnnotate, Record, Adverse, StepNames, TypeOK
<1>24. CASE ListClusters
  BY <1>24 DEF ListClusters, Goto, TypeOK
<1>25. CASE EndAnnotate
  BY <1>25 DEF EndAnnotate, Record, Raise, Goto, StepNames, TypeOK
<1>26. CASE LeaveActivation
  BY <1>26 DEF LeaveActivation, Goto, TypeOK
<1>27. CASE ResetNothing
  BY <1>27 DEF ResetNothing, Goto, TypeOK
<1>28. CASE ReadReset
  BY <1>28 DEF ReadReset, Goto, TypeOK
<1>29. CASE DeleteConfigMap
  BY <1>29 DEF DeleteConfigMap, Goto, TypeOK
<1>30. CASE ClearFlag
  BY <1>30 DEF ClearFlag, Goto, TypeOK
<1>31. CASE RecordReset
  BY <1>31 DEF RecordReset, Record, Goto, StepNames, TypeOK
<1>32. CASE StrategyCallFails
  <2>1. /\ strategy' \in {strategy, "sync"} /\ mine' \in BOOLEAN
        /\ pc' = "activate" /\ faults' = faults + 1
        /\ UNCHANGED <<restores, known, import, file, opts, locals, restored, marked, skipped>>
    BY <1>32 DEF StrategyCallFails, Adverse, PutSync, TypeOK
  <2> QED
    BY <2>1 DEF TypeOK
<1>33. CASE CreateFails
  <2>1. restores' = restores \/ Create(Target, Activating)
    BY <1>33 DEF CreateFails
  <2>2. restores' \in [Names -> Restore \cup {None}]
    BY <2>1, RestoreTypes DEF Create, Names, TypeOK
  <2> QED
    BY <1>33, <2>2 DEF CreateFails, Adverse, TypeOK
<1>34. CASE ReadResetFails
  BY <1>34 DEF ReadResetFails, Adverse, TypeOK
<1>35. CASE RunEnds
  BY <1>35 DEF RunEnds, Adverse, TypeOK
<1>36. CASE AdminSetsSync
  BY <1>36 DEF AdminSetsSync, TypeOK
<1>37. ASSUME NEW c \in Clusters, Annotate(c)
      PROVE  TypeOK'
  BY <1>37 DEF Annotate, Goto, TypeOK
<1>38. ASSUME NEW c \in Clusters, AnnotateFails(c)
      PROVE  TypeOK'
  BY <1>38 DEF AnnotateFails, Adverse, TypeOK
<1>39. ASSUME NEW c \in Clusters, Import(c)
      PROVE  TypeOK'
  BY <1>39 DEF Import, TypeOK
<1>40. ASSUME NEW n \in Names, TakeUp(n)
      PROVE  TypeOK'
  <2>1. PICK p \in {"Failed", "Running"} : restores' = [restores EXCEPT ![n].phase = p]
    BY <1>40 DEF TakeUp
  <2>2. restores[n] \in Restore
    BY <1>40 DEF TakeUp, TypeOK
  <2>3. [restores[n] EXCEPT !.phase = p] \in Restore
    BY <2>2, RestoreTypes
  <2>4. restores' \in [Names -> Restore \cup {None}]
    BY <2>1, <2>3 DEF TypeOK
  <2> QED
    BY <1>40, <2>4 DEF TakeUp, TypeOK
<1>41. ASSUME NEW n \in Names, StartVelero(n)
      PROVE  TypeOK'
  <2>1. restores' \in [Names -> Restore \cup {None}]
    BY <1>41, RestoreTypes DEF StartVelero, Running, TypeOK
  <2> QED
    BY <1>41, <2>1 DEF StartVelero, TypeOK
<1>42. ASSUME NEW n \in Names, EndVelero(n)
      PROVE  TypeOK'
  <2>1. restores' \in [Names -> Restore \cup {None}]
    BY <1>42, RestoreTypes DEF EndVelero, TypeOK
  <2> QED
    BY <1>42, <2>1 DEF EndVelero, TypeOK
<1>43. ASSUME NEW n \in Names, Settle(n)
      PROVE  TypeOK'
  <2>1. PICK p \in {"Failed", "Enabled", "Finished"} : restores' = [restores EXCEPT ![n].phase = p]
    BY <1>43 DEF Settle
  <2>2. restores[n] \in Restore
    BY <1>43 DEF Settle, TypeOK
  <2>3. [restores[n] EXCEPT !.phase = p] \in Restore
    BY <2>2, RestoreTypes
  <2>4. restores' \in [Names -> Restore \cup {None}]
    BY <2>1, <2>3 DEF TypeOK
  <2> QED
    BY <1>43, <2>4 DEF Settle, TypeOK
<1>44. ASSUME NEW n \in Names, Remove(n)
      PROVE  TypeOK'
  BY <1>44 DEF Remove, TypeOK
<1>45. ASSUME NEW n \in Names, VeleroFails(n)
      PROVE  TypeOK'
  <2>1. restores' \in [Names -> Restore \cup {None}]
    BY <1>45, RestoreTypes DEF VeleroFails, TypeOK
  <2> QED
    BY <1>45, <2>1 DEF VeleroFails, Adverse, TypeOK
<1>46. CASE UNCHANGED vars
  BY <1>46 DEF vars, TypeOK
<1> QED
  BY <1>1, <1>2, <1>3, <1>4, <1>5, <1>6, <1>7, <1>8, <1>9, <1>10, <1>11, <1>12, <1>13,
     <1>14, <1>15, <1>16, <1>17, <1>18, <1>19, <1>20, <1>21, <1>22, <1>23, <1>24, <1>25,
     <1>26, <1>27, <1>28, <1>29, <1>30, <1>31, <1>32, <1>33, <1>34, <1>35, <1>36, <1>37,
     <1>38, <1>39, <1>40, <1>41, <1>42, <1>43, <1>44, <1>45, <1>46
     DEF Next, Process, Controllers

\* The Restores.
LEMMA NextRestore ==
  ASSUME TypeOK, RestoreInv, [Next]_vars
  PROVE  RestoreInv'
<1> USE DEF hub, file, locals, history, Names, Swapping, Activated, TargetOnly, Target,
             ActivationStep, Passive, Exists
<1>1. CASE Start
  BY <1>1 DEF Start, Goto, RestoreInv
<1>2. CASE VerifyPassive
  BY <1>2 DEF VerifyPassive, Record, Raise, Goto, RestoreInv
<1>3. CASE ReadStrategy
  BY <1>3 DEF ReadStrategy, Goto, RestoreInv
<1>4. CASE SetStrategy
  BY <1>4 DEF SetStrategy, Goto, RestoreInv
<1>5. CASE StoreFlag
  BY <1>5 DEF StoreFlag, Goto, RestoreInv
<1>6. CASE SkipActivation
  BY <1>6 DEF SkipActivation, Goto, RestoreInv
<1>7. CASE BeginPatch
  BY <1>7 DEF BeginPatch, Goto, RestoreInv
<1>8. CASE PatchPassive
  <2>1. restores["passive"] \in Restore
    BY <1>8 DEF PatchPassive, TypeOK
  <2>2. /\ [restores["passive"] EXCEPT !.spec.mc = TRUE] \in Restore
        /\ [restores["passive"] EXCEPT !.spec.mc = TRUE].dying = restores["passive"].dying
    BY <2>1, RestoreTypes DEF Restore
  <2>3. restores' = [restores EXCEPT !["passive"] = [restores["passive"] EXCEPT !.spec.mc = TRUE]]
    BY <1>8 DEF PatchPassive, SetLatest
  <2>4. /\ \A n \in Names : restores'[n] = None <=> restores[n] = None
        /\ \A n \in Names \ {"passive"} : restores'[n] = restores[n]
        /\ restores'["passive"].dying = restores["passive"].dying
    BY <1>8, <2>1, <2>2, <2>3, NoneAssumption DEF PatchPassive, TypeOK
  <2> QED
    BY <1>8, <2>4 DEF PatchPassive, Goto, RestoreInv
<1>9. CASE ConfirmPatch
  BY <1>9 DEF ConfirmPatch, Goto, RestoreInv
<1>10. CASE BeginSwap
  BY <1>10 DEF BeginSwap, Goto, RestoreInv
<1>11. CASE DeletePassive
  BY <1>11 DEF DeletePassive, Goto, AskToGo, TypeOK, RestoreInv
<1>12. CASE WaitGone
  BY <1>12 DEF WaitGone, Goto, RestoreInv
<1>13. CASE LookForTarget
  BY <1>13 DEF LookForTarget, Goto, RestoreInv
<1>14. CASE CreateTarget
  <2>1. Exists(Target)' /\ Target # "passive" /\ Target \in Names
    <3>1. Created(Activating) # None
      BY NoneAssumption, RestoreTypes
    <3>2. Target # "passive" /\ Target \in Names /\ Target' = Target
      BY <1>14 DEF CreateTarget, Goto, RestoreInv
    <3> QED
      BY <1>14, <3>1, <3>2 DEF CreateTarget, Create, TypeOK
  <2>2. \A n \in Names \ {Target} : restores'[n] = None /\ restores[n] = None
    BY <1>14, <2>1 DEF CreateTarget, Create, TypeOK, RestoreInv
  <2>3. restores'[Target].spec.mc /\ ~restores'[Target].dying
    BY <1>14, <2>1 DEF CreateTarget, Create, Created, Activating, TypeOK, RestoreInv
  <2> QED
    BY <1>14, <2>1, <2>2, <2>3 DEF CreateTarget, Goto, RestoreInv
<1>15. CASE Rollback
  BY <1>15 DEF Rollback, Raise, Create, Goto, TypeOK, RestoreInv
<1>16. CASE RecordActivation
  BY <1>16 DEF RecordActivation, Goto, RestoreInv
<1>17. CASE SkipWait
  BY <1>17 DEF SkipWait, Goto, RestoreInv
<1>18. CASE PollRestore
  BY <1>18 DEF PollRestore, Raise, Goto, RestoreInv
<1>19. CASE PollVelero
  BY <1>19 DEF PollVelero, Raise, Goto, RestoreInv
<1>20. CASE CountClusters
  BY <1>20 DEF CountClusters, Goto, RestoreInv
<1>21. CASE RecordWait
  BY <1>21 DEF RecordWait, Goto, RestoreInv
<1>22. CASE SkipAnnotate
  BY <1>22 DEF SkipAnnotate, Goto, RestoreInv
<1>23. CASE PassOverAnnotate
  BY <1>23 DEF PassOverAnnotate, RestoreInv
<1>24. CASE ListClusters
  BY <1>24 DEF ListClusters, Goto, RestoreInv
<1>25. CASE EndAnnotate
  BY <1>25 DEF EndAnnotate, Raise, Goto, RestoreInv
<1>26. CASE LeaveActivation
  BY <1>26 DEF LeaveActivation, Goto, RestoreInv
<1>27. CASE ResetNothing
  BY <1>27 DEF ResetNothing, Goto, RestoreInv
<1>28. CASE ReadReset
  BY <1>28 DEF ReadReset, Goto, RestoreInv
<1>29. CASE DeleteConfigMap
  BY <1>29 DEF DeleteConfigMap, Goto, RestoreInv
<1>30. CASE ClearFlag
  BY <1>30 DEF ClearFlag, Goto, RestoreInv
<1>31. CASE RecordReset
  BY <1>31 DEF RecordReset, Record, Goto, RestoreInv
<1>32. CASE StrategyCallFails
  BY <1>32 DEF StrategyCallFails, RestoreInv
<1>33. CASE CreateFails
  BY <1>33 DEF CreateFails, Create, Activating, Created, TypeOK, RestoreInv
<1>34. CASE ReadResetFails
  BY <1>34 DEF ReadResetFails, RestoreInv
<1>35. CASE RunEnds
  BY <1>35 DEF RunEnds, RestoreInv
<1>36. CASE AdminSetsSync
  BY <1>36 DEF AdminSetsSync, RestoreInv
<1>37. ASSUME NEW c \in Clusters, Annotate(c)
      PROVE  RestoreInv'
  BY <1>37 DEF Annotate, Goto, RestoreInv
<1>38. ASSUME NEW c \in Clusters, AnnotateFails(c)
      PROVE  RestoreInv'
  BY <1>38 DEF AnnotateFails, RestoreInv
<1>39. ASSUME NEW c \in Clusters, Import(c)
      PROVE  RestoreInv'
  BY <1>39 DEF Import, RestoreInv
<1>40. ASSUME NEW n \in Names, TakeUp(n)
      PROVE  RestoreInv'
  BY <1>40, NoneAssumption DEF TakeUp, Restore, RestorePhases, TypeOK, RestoreInv
<1>41. ASSUME NEW n \in Names, StartVelero(n)
      PROVE  RestoreInv'
  BY <1>41, NoneAssumption DEF StartVelero, Running, Restore, VeleroPhases, TypeOK, RestoreInv
<1>42. ASSUME NEW n \in Names, EndVelero(n)
      PROVE  RestoreInv'
  BY <1>42, NoneAssumption DEF EndVelero, Restore, VeleroPhases, TypeOK, RestoreInv
<1>43. ASSUME NEW n \in Names, Settle(n)
      PROVE  RestoreInv'
  BY <1>43, NoneAssumption DEF Settle, Restore, RestorePhases, TypeOK, RestoreInv
<1>44. ASSUME NEW n \in Names, Remove(n)
      PROVE  RestoreInv'
  BY <1>44 DEF Remove, RestoreInv
<1>45. ASSUME NEW n \in Names, VeleroFails(n)
      PROVE  RestoreInv'
  BY <1>45, NoneAssumption DEF VeleroFails, Restore, VeleroPhases, TypeOK, RestoreInv
<1>46. CASE UNCHANGED vars
  BY <1>46 DEF vars, RestoreInv
<1> QED
  BY <1>1, <1>2, <1>3, <1>4, <1>5, <1>6, <1>7, <1>8, <1>9, <1>10, <1>11, <1>12, <1>13,
     <1>14, <1>15, <1>16, <1>17, <1>18, <1>19, <1>20, <1>21, <1>22, <1>23, <1>24, <1>25,
     <1>26, <1>27, <1>28, <1>29, <1>30, <1>31, <1>32, <1>33, <1>34, <1>35, <1>36, <1>37,
     <1>38, <1>39, <1>40, <1>41, <1>42, <1>43, <1>44, <1>45, <1>46
     DEF Next, Process, Controllers

\* The wait.
LEMMA NextWait ==
  ASSUME TypeOK, RestoreInv, WaitInv, [Next]_vars
  PROVE  WaitInv'
<1> USE DEF hub, file, locals, history, Names, Swapping, Activated, Waited, TargetDone,
             TargetOnly, Target, ActivationStep, Passive, Exists
<1>1. CASE Start
  BY <1>1 DEF Start, Goto, WaitInv
<1>2. CASE VerifyPassive
  BY <1>2 DEF VerifyPassive, Record, Raise, Goto, WaitInv
<1>3. CASE ReadStrategy
  BY <1>3 DEF ReadStrategy, Goto, WaitInv
<1>4. CASE SetStrategy
  BY <1>4 DEF SetStrategy, Goto, WaitInv
<1>5. CASE StoreFlag
  BY <1>5 DEF StoreFlag, Goto, WaitInv
<1>6. CASE SkipActivation
  BY <1>6 DEF SkipActivation, Goto, WaitInv
<1>7. CASE BeginPatch
  BY <1>7 DEF BeginPatch, Goto, WaitInv
<1>8. CASE PatchPassive
  BY <1>8 DEF PatchPassive, Goto, SetLatest, RestoreInv, WaitInv
<1>9. CASE ConfirmPatch
  BY <1>9 DEF ConfirmPatch, Goto, WaitInv
<1>10. CASE BeginSwap
  BY <1>10 DEF BeginSwap, Goto, WaitInv
<1>11. CASE DeletePassive
  BY <1>11 DEF DeletePassive, Goto, AskToGo, Restore, TypeOK, RestoreInv, WaitInv
<1>12. CASE WaitGone
  BY <1>12 DEF WaitGone, Goto, WaitInv
<1>13. CASE LookForTarget
  BY <1>13 DEF LookForTarget, Goto, WaitInv
<1>14. CASE CreateTarget
  BY <1>14 DEF CreateTarget, Goto, Create, Created, TypeOK, WaitInv
<1>15. CASE Rollback
  BY <1>15 DEF Rollback, Raise, Create, Goto, Created, TypeOK, WaitInv
<1>16. CASE RecordActivation
  BY <1>16 DEF RecordActivation, Record, Goto, WaitInv
<1>17. CASE SkipWait
  BY <1>17 DEF SkipWait, Goto, WaitInv
<1>18. CASE PollRestore
  BY <1>18 DEF PollRestore, Raise, Goto, WaitInv
<1>19. CASE PollVelero
  BY <1>19 DEF PollVelero, Raise, Goto, WaitInv
<1>20. CASE CountClusters
  BY <1>20 DEF CountClusters, Goto, WaitInv
<1>21. CASE RecordWait
  BY <1>21 DEF RecordWait, Record, Goto, WaitInv
<1>22. CASE SkipAnnotate
  BY <1>22 DEF SkipAnnotate, Goto, WaitInv
<1>23. CASE PassOverAnnotate
  BY <1>23 DEF PassOverAnnotate, Record, WaitInv
<1>24. CASE ListClusters
  BY <1>24 DEF ListClusters, Goto, WaitInv
<1>25. CASE EndAnnotate
  BY <1>25 DEF EndAnnotate, Record, Raise, Goto, WaitInv
<1>26. CASE LeaveActivation
  BY <1>26 DEF LeaveActivation, Goto, WaitInv
<1>27. CASE ResetNothing
  BY <1>27 DEF ResetNothing, Goto, WaitInv
<1>28. CASE ReadReset
  BY <1>28 DEF ReadReset, Goto, WaitInv
<1>29. CASE DeleteConfigMap
  BY <1>29 DEF DeleteConfigMap, Goto, WaitInv
<1>30. CASE ClearFlag
  BY <1>30 DEF ClearFlag, Goto, WaitInv
<1>31. CASE RecordReset
  BY <1>31 DEF RecordReset, Record, Goto, WaitInv
<1>32. CASE StrategyCallFails
  BY <1>32 DEF StrategyCallFails, WaitInv
<1>33. CASE CreateFails
  BY <1>33 DEF CreateFails, Create, Created, TypeOK, WaitInv
<1>34. CASE ReadResetFails
  BY <1>34 DEF ReadResetFails, WaitInv
<1>35. CASE RunEnds
  BY <1>35 DEF RunEnds, WaitInv
<1>36. CASE AdminSetsSync
  BY <1>36 DEF AdminSetsSync, WaitInv
<1>37. ASSUME NEW c \in Clusters, Annotate(c)
      PROVE  WaitInv'
  BY <1>37 DEF Annotate, Goto, WaitInv
<1>38. ASSUME NEW c \in Clusters, AnnotateFails(c)
      PROVE  WaitInv'
  BY <1>38 DEF AnnotateFails, WaitInv
<1>39. ASSUME NEW c \in Clusters, Import(c)
      PROVE  WaitInv'
  BY <1>39 DEF Import, WaitInv
<1>40. ASSUME NEW n \in Names, TakeUp(n)
      PROVE  WaitInv'
  BY <1>40, NoneAssumption DEF TakeUp, Restore, RestorePhases, TypeOK, WaitInv
<1>41. ASSUME NEW n \in Names, StartVelero(n)
      PROVE  WaitInv'
  BY <1>41 DEF StartVelero, TypeOK, WaitInv
<1>42. ASSUME NEW n \in Names, EndVelero(n)
      PROVE  WaitInv'
  BY <1>42 DEF EndVelero, RestoreInv, WaitInv
<1>43. ASSUME NEW n \in Names, Settle(n)
      PROVE  WaitInv'
  BY <1>43, NoneAssumption DEF Settle, Restore, RestorePhases, TypeOK, RestoreInv, WaitInv
<1>44. ASSUME NEW n \in Names, Remove(n)
      PROVE  WaitInv'
  BY <1>44 DEF Remove, RestoreInv, WaitInv
<1>45. ASSUME NEW n \in Names, VeleroFails(n)
      PROVE  WaitInv'
  BY <1>45 DEF VeleroFails, WaitInv
<1>46. CASE UNCHANGED vars
  BY <1>46 DEF vars, WaitInv
<1> QED
  BY <1>1, <1>2, <1>3, <1>4, <1>5, <1>6, <1>7, <1>8, <1>9, <1>10, <1>11, <1>12, <1>13,
     <1>14, <1>15, <1>16, <1>17, <1>18, <1>19, <1>20, <1>21, <1>22, <1>23, <1>24, <1>25,
     <1>26, <1>27, <1>28, <1>29, <1>30, <1>31, <1>32, <1>33, <1>34, <1>35, <1>36, <1>37,
     <1>38, <1>39, <1>40, <1>41, <1>42, <1>43, <1>44, <1>45, <1>46
     DEF Next, Process, Controllers

\* The marks.
LEMMA NextMark ==
  ASSUME TypeOK, RestoreInv, WaitInv, MarkInv, [Next]_vars
  PROVE  MarkInv'
<1> USE DEF hub, file, locals, history, Activated, Waited, Names, Exists, Target,
             Passive, ActivationStep, TargetDone, TargetOnly
<1>1. CASE Start
  BY <1>1 DEF Start, Goto, MarkInv
<1>2. CASE VerifyPassive
  BY <1>2 DEF VerifyPassive, Record, Raise, Goto, MarkInv
<1>3. CASE ReadStrategy
  BY <1>3 DEF ReadStrategy, Goto, MarkInv
<1>4. CASE SetStrategy
  BY <1>4 DEF SetStrategy, Goto, MarkInv
<1>5. CASE StoreFlag
  BY <1>5 DEF StoreFlag, Goto, MarkInv
<1>6. CASE SkipActivation
  BY <1>6 DEF SkipActivation, Goto, MarkInv
<1>7. CASE BeginPatch
  BY <1>7 DEF BeginPatch, Goto, MarkInv
<1>8. CASE PatchPassive
  BY <1>8 DEF PatchPassive, Goto, MarkInv
<1>9. CASE ConfirmPatch
  BY <1>9 DEF ConfirmPatch, Goto, MarkInv
<1>10. CASE BeginSwap
  BY <1>10 DEF BeginSwap, Goto, MarkInv
<1>11. CASE DeletePassive
  BY <1>11 DEF DeletePassive, Goto, MarkInv
<1>12. CASE WaitGone
  BY <1>12 DEF WaitGone, Goto, MarkInv
<1>13. CASE LookForTarget
  BY <1>13 DEF LookForTarget, Goto, MarkInv
<1>14. CASE CreateTarget
  BY <1>14 DEF CreateTarget, Goto, MarkInv
<1>15. CASE Rollback
  BY <1>15 DEF Rollback, Raise, Goto, MarkInv
<1>16. CASE RecordActivation
  BY <1>16 DEF RecordActivation, Record, Goto, MarkInv
<1>17. CASE SkipWait
  BY <1>17 DEF SkipWait, Goto, MarkInv
<1>18. CASE PollRestore
  BY <1>18 DEF PollRestore, Raise, Goto, MarkInv
<1>19. CASE PollVelero
  BY <1>19 DEF PollVelero, Raise, Goto, MarkInv
<1>20. CASE CountClusters
  BY <1>20 DEF CountClusters, Goto, MarkInv
<1>21. CASE RecordWait
  BY <1>21 DEF RecordWait, Record, Goto, MarkInv
<1>22. CASE SkipAnnotate
  BY <1>22 DEF SkipAnnotate, Goto, MarkInv
<1>23. CASE PassOverAnnotate
  BY <1>23 DEF PassOverAnnotate, Record, WaitInv, MarkInv
<1>24. CASE ListClusters
  BY <1>24 DEF ListClusters, MarkInv
<1>25. CASE EndAnnotate
  BY <1>25 DEF EndAnnotate, Record, WaitInv, MarkInv
<1>26. CASE LeaveActivation
  BY <1>26 DEF LeaveActivation, Goto, MarkInv
<1>27. CASE ResetNothing
  BY <1>27 DEF ResetNothing, Goto, MarkInv
<1>28. CASE ReadReset
  BY <1>28 DEF ReadReset, Goto, MarkInv
<1>29. CASE DeleteConfigMap
  BY <1>29 DEF DeleteConfigMap, Goto, MarkInv
<1>30. CASE ClearFlag
  BY <1>30 DEF ClearFlag, Goto, MarkInv
<1>31. CASE RecordReset
  BY <1>31 DEF RecordReset, Record, Goto, MarkInv
<1>32. CASE StrategyCallFails
  BY <1>32 DEF StrategyCallFails, MarkInv
<1>33. CASE CreateFails
  BY <1>33 DEF CreateFails, MarkInv
<1>34. CASE ReadResetFails
  BY <1>34 DEF ReadResetFails, MarkInv
<1>35. CASE RunEnds
  BY <1>35 DEF RunEnds, MarkInv
<1>36. CASE AdminSetsSync
  BY <1>36 DEF AdminSetsSync, MarkInv
<1>37. ASSUME NEW c \in Clusters, Annotate(c)
      PROVE  MarkInv'
  BY <1>37 DEF Annotate, MarkInv
<1>38. ASSUME NEW c \in Clusters, AnnotateFails(c)
      PROVE  MarkInv'
  BY <1>38 DEF AnnotateFails, MarkInv
<1>39. ASSUME NEW c \in Clusters, Import(c)
      PROVE  MarkInv'
  BY <1>39 DEF Import, MarkInv
<1>40. ASSUME NEW n \in Names, TakeUp(n)
      PROVE  MarkInv'
  BY <1>40 DEF TakeUp, MarkInv
<1>41. ASSUME NEW n \in Names, StartVelero(n)
      PROVE  MarkInv'
  BY <1>41 DEF StartVelero, MarkInv
<1>42. ASSUME NEW n \in Names, EndVelero(n)
      PROVE  MarkInv'
  BY <1>42 DEF EndVelero, RestoreInv, WaitInv, MarkInv
<1>43. ASSUME NEW n \in Names, Settle(n)
      PROVE  MarkInv'
  BY <1>43 DEF Settle, MarkInv
<1>44. ASSUME NEW n \in Names, Remove(n)
      PROVE  MarkInv'
  BY <1>44 DEF Remove, MarkInv
<1>45. ASSUME NEW n \in Names, VeleroFails(n)
      PROVE  MarkInv'
  BY <1>45 DEF VeleroFails, MarkInv
<1>46. CASE UNCHANGED vars
  BY <1>46 DEF vars, MarkInv
<1> QED
  BY <1>1, <1>2, <1>3, <1>4, <1>5, <1>6, <1>7, <1>8, <1>9, <1>10, <1>11, <1>12, <1>13,
     <1>14, <1>15, <1>16, <1>17, <1>18, <1>19, <1>20, <1>21, <1>22, <1>23, <1>24, <1>25,
     <1>26, <1>27, <1>28, <1>29, <1>30, <1>31, <1>32, <1>33, <1>34, <1>35, <1>36, <1>37,
     <1>38, <1>39, <1>40, <1>41, <1>42, <1>43, <1>44, <1>45, <1>46
     DEF Next, Process, Controllers

\* The flag.
LEMMA NextFlag ==
  ASSUME TypeOK, FlagInv, [Next]_vars
  PROVE  FlagInv'
<1> USE DEF hub, file, locals, history, StepNames, Resetting, ActivationStep, Passive
<1>1. CASE Start
  BY <1>1 DEF Start, Goto, FlagInv
<1>2. CASE VerifyPassive
  BY <1>2 DEF VerifyPassive, Record, Raise, Goto, FlagInv
<1>3. CASE ReadStrategy
  BY <1>3 DEF ReadStrategy, Goto, FlagInv
<1>4. CASE SetStrategy
  BY <1>4 DEF SetStrategy, Goto, PutSync, FlagInv
<1>5. CASE StoreFlag
  BY <1>5 DEF StoreFlag, Goto, FlagInv
<1>6. CASE SkipActivation
  BY <1>6 DEF SkipActivation, Goto, FlagInv
<1>7. CASE BeginPatch
  BY <1>7 DEF BeginPatch, Goto, FlagInv
<1>8. CASE PatchPassive
  BY <1>8 DEF PatchPassive, Goto, FlagInv
<1>9. CASE ConfirmPatch
  BY <1>9 DEF ConfirmPatch, Goto, FlagInv
<1>10. CASE BeginSwap
  BY <1>10 DEF BeginSwap, Goto, FlagInv
<1>11. CASE DeletePassive
  BY <1>11 DEF DeletePassive, Goto, FlagInv
<1>12. CASE WaitGone
  BY <1>12 DEF WaitGone, Goto, FlagInv
<1>13. CASE LookForTarget
  BY <1>13 DEF LookForTarget, Goto, FlagInv
<1>14. CASE CreateTarget
  BY <1>14 DEF CreateTarget, Goto, FlagInv
<1>15. CASE Rollback
  BY <1>15 DEF Rollback, Raise, Goto, FlagInv
<1>16. CASE RecordActivation
  BY <1>16 DEF RecordActivation, Record, Goto, FlagInv
<1>17. CASE SkipWait
  BY <1>17 DEF SkipWait, Goto, FlagInv
<1>18. CASE PollRestore
  BY <1>18 DEF PollRestore, Raise, Goto, FlagInv
<1>19. CASE PollVelero
  BY <1>19 DEF PollVelero, Raise, Goto, FlagInv
<1>20. CASE CountClusters
  BY <1>20 DEF CountClusters, Goto, FlagInv
<1>21. CASE RecordWait
  BY <1>21 DEF RecordWait, Record, Goto, FlagInv
<1>22. CASE SkipAnnotate
  BY <1>22 DEF SkipAnnotate, Goto, FlagInv
<1>23. CASE PassOverAnnotate
  BY <1>23 DEF PassOverAnnotate, Record, FlagInv
<1>24. CASE ListClusters
  BY <1>24 DEF ListClusters, Goto, FlagInv
<1>25. CASE EndAnnotate
  BY <1>25 DEF EndAnnotate, Record, Raise, Goto, FlagInv
<1>26. CASE LeaveActivation
  BY <1>26 DEF LeaveActivation, Goto, FlagInv
<1>27. CASE ResetNothing
  BY <1>27 DEF ResetNothing, Goto, FlagInv
<1>28. CASE ReadReset
  BY <1>28 DEF ReadReset, Goto, ResetDue, FlagInv
<1>29. CASE DeleteConfigMap
  BY <1>29 DEF DeleteConfigMap, Goto, FlagInv
<1>30. CASE ClearFlag
  BY <1>30 DEF ClearFlag, Goto, FlagInv
<1>31. CASE RecordReset
  BY <1>31 DEF RecordReset, Record, Goto, FlagInv
<1>32. CASE StrategyCallFails
  BY <1>32 DEF StrategyCallFails, PutSync, FlagInv
<1>33. CASE CreateFails
  BY <1>33 DEF CreateFails, FlagInv
<1>34. CASE ReadResetFails
  BY <1>34 DEF ReadResetFails, ResetDue, FlagInv
<1>35. CASE RunEnds
  BY <1>35 DEF RunEnds, FlagInv
<1>36. CASE AdminSetsSync
  BY <1>36 DEF AdminSetsSync, FlagInv
<1>37. ASSUME NEW c \in Clusters, Annotate(c)
      PROVE  FlagInv'
  BY <1>37 DEF Annotate, Goto, FlagInv
<1>38. ASSUME NEW c \in Clusters, AnnotateFails(c)
      PROVE  FlagInv'
  BY <1>38 DEF AnnotateFails, FlagInv
<1>39. ASSUME NEW c \in Clusters, Import(c)
      PROVE  FlagInv'
  BY <1>39 DEF Import, FlagInv
<1>40. ASSUME NEW n \in Names, TakeUp(n)
      PROVE  FlagInv'
  BY <1>40 DEF TakeUp, FlagInv
<1>41. ASSUME NEW n \in Names, StartVelero(n)
      PROVE  FlagInv'
  BY <1>41 DEF StartVelero, FlagInv
<1>42. ASSUME NEW n \in Names, EndVelero(n)
      PROVE  FlagInv'
  BY <1>42 DEF EndVelero, FlagInv
<1>43. ASSUME NEW n \in Names, Settle(n)
      PROVE  FlagInv'
  BY <1>43 DEF Settle, FlagInv
<1>44. ASSUME NEW n \in Names, Remove(n)
      PROVE  FlagInv'
  BY <1>44 DEF Remove, FlagInv
<1>45. ASSUME NEW n \in Names, VeleroFails(n)
      PROVE  FlagInv'
  BY <1>45 DEF VeleroFails, FlagInv
<1>46. CASE UNCHANGED vars
  BY <1>46 DEF vars, FlagInv
<1> QED
  BY <1>1, <1>2, <1>3, <1>4, <1>5, <1>6, <1>7, <1>8, <1>9, <1>10, <1>11, <1>12, <1>13,
     <1>14, <1>15, <1>16, <1>17, <1>18, <1>19, <1>20, <1>21, <1>22, <1>23, <1>24, <1>25,
     <1>26, <1>27, <1>28, <1>29, <1>30, <1>31, <1>32, <1>33, <1>34, <1>35, <1>36, <1>37,
     <1>38, <1>39, <1>40, <1>41, <1>42, <1>43, <1>44, <1>45, <1>46
     DEF Next, Process, Controllers

-----------------------------------------------------------------------------
(* What a step may do. *)

\* A Restore that was not there and is not the standby finds no other.
AloneStep ==
  \A n \in Names \ {"passive"} :
    ~Exists(n) /\ restores'[n] # None => \A m \in Names : ~Exists(m)

\* The flag outlives the tool's strategy, and an administrator's stays.
FlagStep ==
  /\ flag /\ ~flag' => ~mine'
  /\ pc' = "done" => ~flag'
  /\ strategy = "sync" /\ ~mine => strategy' = "sync"

\* Only the two outcomes of a create request make such a Restore.
LEMMA NextAlone ==
  ASSUME TypeOK, RestoreInv, [Next]_vars
  PROVE  AloneStep
<1> USE DEF hub, file, locals, history, Names, Exists
<1>1. CASE Start
  BY <1>1 DEF Start, AloneStep
<1>2. CASE VerifyPassive
  BY <1>2 DEF VerifyPassive, AloneStep
<1>3. CASE ReadStrategy
  BY <1>3 DEF ReadStrategy, AloneStep
<1>4. CASE SetStrategy
  BY <1>4 DEF SetStrategy, AloneStep
<1>5. CASE StoreFlag
  BY <1>5 DEF StoreFlag, AloneStep
<1>6. CASE SkipActivation
  BY <1>6 DEF SkipActivation, AloneStep
<1>7. CASE BeginPatch
  BY <1>7 DEF BeginPatch, AloneStep
<1>8. CASE PatchPassive
  BY <1>8 DEF PatchPassive, SetLatest, AloneStep
<1>9. CASE ConfirmPatch
  BY <1>9 DEF ConfirmPatch, AloneStep
<1>10. CASE BeginSwap
  BY <1>10 DEF BeginSwap, AloneStep
<1>11. CASE DeletePassive
  BY <1>11 DEF DeletePassive, AskToGo, TypeOK, AloneStep
<1>12. CASE WaitGone
  BY <1>12 DEF WaitGone, AloneStep
<1>13. CASE LookForTarget
  BY <1>13 DEF LookForTarget, AloneStep
<1>14. CASE CreateTarget
  <2>1. ~Exists("passive")
    BY <1>14 DEF CreateTarget, RestoreInv
  <2>2. \A n \in Names \ {"passive"} : Exists(n) => n = Target
    BY DEF RestoreInv
  <2>3. \A n \in Names : n # Target => restores'[n] = restores[n]
    BY <1>14 DEF CreateTarget, Create, TypeOK
  <2>4. Exists(Target) => restores' = restores
    BY <1>14 DEF CreateTarget
  <2> QED
    BY <2>1, <2>2, <2>3, <2>4 DEF AloneStep
<1>15. CASE Rollback
  BY <1>15 DEF Rollback, Create, TypeOK, AloneStep
<1>16. CASE RecordActivation
  BY <1>16 DEF RecordActivation, AloneStep
<1>17. CASE SkipWait
  BY <1>17 DEF SkipWait, AloneStep
<1>18. CASE PollRestore
  BY <1>18 DEF PollRestore, AloneStep
<1>19. CASE PollVelero
  BY <1>19 DEF PollVelero, AloneStep
<1>20. CASE CountClusters
  BY <1>20 DEF CountClusters, AloneStep
<1>21. CASE RecordWait
  BY <1>21 DEF RecordWait, AloneStep
<1>22. CASE SkipAnnotate
  BY <1>22 DEF SkipAnnotate, AloneStep
<1>23. CASE PassOverAnnotate
  BY <1>23 DEF PassOverAnnotate, AloneStep
<1>24. CASE ListClusters
  BY <1>24 DEF ListClusters, AloneStep
<1>25. CASE EndAnnotate
  BY <1>25 DEF EndAnnotate, AloneStep
<1>26. CASE LeaveActivation
  BY <1>26 DEF LeaveActivation, AloneStep
<1>27. CASE ResetNothing
  BY <1>27 DEF ResetNothing, AloneStep
<1>28. CASE ReadReset
  BY <1>28 DEF ReadReset, AloneStep
<1>29. CASE DeleteConfigMap
  BY <1>29 DEF DeleteConfigMap, AloneStep
<1>30. CASE ClearFlag
  BY <1>30 DEF ClearFlag, AloneStep
<1>31. CASE RecordReset
  BY <1>31 DEF RecordReset, AloneStep
<1>32. CASE StrategyCallFails
  BY <1>32 DEF StrategyCallFails, AloneStep
<1>33. CASE CreateFails
  <2>1. ~Exists("passive")
    BY <1>33 DEF CreateFails, RestoreInv
  <2>2. \A n \in Names \ {"passive"} : Exists(n) => n = Target
    BY DEF RestoreInv
  <2>3. \A n \in Names : n # Target => restores'[n] = restores[n]
    BY <1>33 DEF CreateFails, Create, TypeOK
  <2>4. Exists(Target) => restores' = restores
    BY <1>33 DEF CreateFails
  <2> QED
    BY <2>1, <2>2, <2>3, <2>4 DEF AloneStep
<1>34. CASE ReadResetFails
  BY <1>34 DEF ReadResetFails, AloneStep
<1>35. CASE RunEnds
  BY <1>35 DEF RunEnds, AloneStep
<1>36. CASE AdminSetsSync
  BY <1>36 DEF AdminSetsSync, AloneStep
<1>37. ASSUME NEW c \in Clusters, Annotate(c)
      PROVE  AloneStep
  BY <1>37 DEF Annotate, AloneStep
<1>38. ASSUME NEW c \in Clusters, AnnotateFails(c)
      PROVE  AloneStep
  BY <1>38 DEF AnnotateFails, AloneStep
<1>39. ASSUME NEW c \in Clusters, Import(c)
      PROVE  AloneStep
  BY <1>39 DEF Import, AloneStep
<1>40. ASSUME NEW n \in Names, TakeUp(n)
      PROVE  AloneStep
  BY <1>40 DEF TakeUp, AloneStep
<1>41. ASSUME NEW n \in Names, StartVelero(n)
      PROVE  AloneStep
  BY <1>41 DEF StartVelero, Running, TypeOK, AloneStep
<1>42. ASSUME NEW n \in Names, EndVelero(n)
      PROVE  AloneStep
  BY <1>42 DEF EndVelero, AloneStep
<1>43. ASSUME NEW n \in Names, Settle(n)
      PROVE  AloneStep
  BY <1>43 DEF Settle, AloneStep
<1>44. ASSUME NEW n \in Names, Remove(n)
      PROVE  AloneStep
  BY <1>44 DEF Remove, AloneStep
<1>45. ASSUME NEW n \in Names, VeleroFails(n)
      PROVE  AloneStep
  BY <1>45 DEF VeleroFails, AloneStep
<1>46. CASE UNCHANGED vars
  BY <1>46 DEF vars, AloneStep
<1> QED
  BY <1>1, <1>2, <1>3, <1>4, <1>5, <1>6, <1>7, <1>8, <1>9, <1>10, <1>11, <1>12, <1>13,
     <1>14, <1>15, <1>16, <1>17, <1>18, <1>19, <1>20, <1>21, <1>22, <1>23, <1>24, <1>25,
     <1>26, <1>27, <1>28, <1>29, <1>30, <1>31, <1>32, <1>33, <1>34, <1>35, <1>36, <1>37,
     <1>38, <1>39, <1>40, <1>41, <1>42, <1>43, <1>44, <1>45, <1>46
     DEF Next, Process, Controllers

\* The flag goes in one place, the strategy in two.
LEMMA NextFlagStep ==
  ASSUME TypeOK, FlagInv, FlagInv', [Next]_vars
  PROVE  FlagStep
<1> USE DEF hub, file, locals, history
<1>1. CASE Start
  BY <1>1 DEF Start, FlagInv, FlagStep
<1>2. CASE VerifyPassive
  BY <1>2 DEF VerifyPassive, Record, FlagInv, FlagStep
<1>3. CASE ReadStrategy
  BY <1>3 DEF ReadStrategy, FlagInv, FlagStep
<1>4. CASE SetStrategy
  BY <1>4 DEF SetStrategy, PutSync, FlagInv, FlagStep
<1>5. CASE StoreFlag
  BY <1>5 DEF StoreFlag, FlagInv, FlagStep
<1>6. CASE SkipActivation
  BY <1>6 DEF SkipActivation, FlagInv, FlagStep
<1>7. CASE BeginPatch
  BY <1>7 DEF BeginPatch, FlagInv, FlagStep
<1>8. CASE PatchPassive
  BY <1>8 DEF PatchPassive, FlagInv, FlagStep
<1>9. CASE ConfirmPatch
  BY <1>9 DEF ConfirmPatch, FlagInv, FlagStep
<1>10. CASE BeginSwap
  BY <1>10 DEF BeginSwap, FlagInv, FlagStep
<1>11. CASE DeletePassive
  BY <1>11 DEF DeletePassive, FlagInv, FlagStep
<1>12. CASE WaitGone
  BY <1>12 DEF WaitGone, FlagInv, FlagStep
<1>13. CASE LookForTarget
  BY <1>13 DEF LookForTarget, FlagInv, FlagStep
<1>14. CASE CreateTarget
  BY <1>14 DEF CreateTarget, FlagInv, FlagStep
<1>15. CASE Rollback
  BY <1>15 DEF Rollback, FlagInv, FlagStep
<1>16. CASE RecordActivation
  BY <1>16 DEF RecordActivation, Record, FlagInv, FlagStep
<1>17. CASE SkipWait
  BY <1>17 DEF SkipWait, FlagInv, FlagStep
<1>18. CASE PollRestore
  BY <1>18 DEF PollRestore, FlagInv, FlagStep
<1>19. CASE PollVelero
  BY <1>19 DEF PollVelero, FlagInv, FlagStep
<1>20. CASE CountClusters
  BY <1>20 DEF CountClusters, FlagInv, FlagStep
<1>21. CASE RecordWait
  BY <1>21 DEF RecordWait, Record, FlagInv, FlagStep
<1>22. CASE SkipAnnotate
  BY <1>22 DEF SkipAnnotate, FlagInv, FlagStep
<1>23. CASE PassOverAnnotate
  BY <1>23 DEF PassOverAnnotate, Record, FlagStep
<1>24. CASE ListClusters
  BY <1>24 DEF ListClusters, FlagInv, FlagStep
<1>25. CASE EndAnnotate
  BY <1>25 DEF EndAnnotate, Record, FlagInv, FlagStep
<1>26. CASE LeaveActivation
  BY <1>26 DEF LeaveActivation, FlagInv, FlagStep
<1>27. CASE ResetNothing
  BY <1>27 DEF ResetNothing, FlagInv, FlagStep
<1>28. CASE ReadReset
  BY <1>28 DEF ReadReset, FlagInv, FlagStep
<1>29. CASE DeleteConfigMap
  BY <1>29 DEF DeleteConfigMap, FlagInv, FlagStep
<1>30. CASE ClearFlag
  BY <1>30 DEF ClearFlag, FlagInv, FlagStep
<1>31. CASE RecordReset
  BY <1>31 DEF RecordReset, FlagInv, FlagStep
<1>32. CASE StrategyCallFails
  BY <1>32 DEF StrategyCallFails, PutSync, FlagStep
<1>33. CASE CreateFails
  BY <1>33 DEF CreateFails, FlagStep
<1>34. CASE ReadResetFails
  BY <1>34 DEF ReadResetFails, FlagStep
<1>35. CASE RunEnds
  BY <1>35 DEF RunEnds, FlagStep
<1>36. CASE AdminSetsSync
  BY <1>36 DEF AdminSetsSync, FlagStep
<1>37. ASSUME NEW c \in Clusters, Annotate(c)
      PROVE  FlagStep
  BY <1>37 DEF Annotate, FlagInv, FlagStep
<1>38. ASSUME NEW c \in Clusters, AnnotateFails(c)
      PROVE  FlagStep
  BY <1>38 DEF AnnotateFails, FlagStep
<1>39. ASSUME NEW c \in Clusters, Import(c)
      PROVE  FlagStep
  BY <1>39 DEF Import, FlagInv, FlagStep
<1>40. ASSUME NEW n \in Names, TakeUp(n)
      PROVE  FlagStep
  BY <1>40 DEF TakeUp, FlagInv, FlagStep
<1>41. ASSUME NEW n \in Names, StartVelero(n)
      PROVE  FlagStep
  BY <1>41 DEF StartVelero, FlagInv, FlagStep
<1>42. ASSUME NEW n \in Names, EndVelero(n)
      PROVE  FlagStep
  BY <1>42 DEF EndVelero, FlagInv, FlagStep
<1>43. ASSUME NEW n \in Names, Settle(n)
      PROVE  FlagStep
  BY <1>43 DEF Settle, FlagInv, FlagStep
<1>44. ASSUME NEW n \in Names, Remove(n)
      PROVE  FlagStep
  BY <1>44 DEF Remove, FlagInv, FlagStep
<1>45. ASSUME NEW n \in Names, VeleroFails(n)
      PROVE  FlagStep
  BY <1>45 DEF VeleroFails, FlagInv, FlagStep
<1>46. CASE UNCHANGED vars
  BY <1>46 DEF vars, FlagInv, FlagStep
<1> QED
  BY <1>1, <1>2, <1>3, <1>4, <1>5, <1>6, <1>7, <1>8, <1>9, <1>10, <1>11, <1>12, <1>13,
     <1>14, <1>15, <1>16, <1>17, <1>18, <1>19, <1>20, <1>21, <1>22, <1>23, <1>24, <1>25,
     <1>26, <1>27, <1>28, <1>29, <1>30, <1>31, <1>32, <1>33, <1>34, <1>35, <1>36, <1>37,
     <1>38, <1>39, <1>40, <1>41, <1>42, <1>43, <1>44, <1>45, <1>46
     DEF Next, Process, Controllers

-----------------------------------------------------------------------------
(* The theorems. *)

LEMMA InitInv == Init => Inv
<1> SUFFICES ASSUME Init PROVE Inv
  OBVIOUS
<1>1. \A p \in {"Running", "Enabled"} :
        LET r == [Created([mc |-> FALSE, sync |-> TRUE]) EXCEPT !.phase = p]
        IN  r \in Restore /\ ~r.dying
  BY DEF Created, Restore, RestoreSpec, RestorePhases, VeleroPhases
<1>2. TypeOK
  <2>1. restores \in [Names -> Restore \cup {None}]
    BY <1>1 DEF Init
  <2> QED
    BY <2>1 DEF Init, TypeOK, Labels
<1>3. RestoreInv
  <2>1. \A n \in Names \ {"passive"} : ~Exists(n)
    BY DEF Init, Names, Exists
  <2>2. Exists("passive") /\ ~restores["passive"].dying
    BY <1>1, NoneAssumption DEF Init, Names, Exists
  <2> QED
    BY <2>1, <2>2 DEF Init, RestoreInv, Swapping, Activated
<1>4. WaitInv
  BY NoneAssumption DEF Init, WaitInv, Created, Names, Exists, Activated, Waited
<1>5. MarkInv /\ FlagInv
  BY DEF Init, MarkInv, FlagInv, Resetting
<1> QED
  BY <1>2, <1>3, <1>4, <1>5 DEF Inv

LEMMA Invariant == Spec => []Inv
<1>1. Inv /\ [Next]_vars => Inv'
  BY NextType, NextRestore, NextWait, NextMark, NextFlag DEF Inv
<1> QED
  BY <1>1, InitInv, PTL DEF Spec

\* The types hold, and a rollback always has a spec to bring back
\* (_recreate_restore_from_snapshot).
THEOREM TypeCorrect == Spec => []TypeOK
<1>1. Inv => TypeOK
  BY DEF Inv
<1> QED
  BY <1>1, Invariant, PTL

\* A recorded wait means that Velero has restored the managed clusters, and for
\* the passive methods that the minimum is there
\* (_wait_for_managed_clusters_velero_restore, _verify_managed_clusters_restored).
THEOREM WaitIsReal == Spec => []WaitedForClusters
<1>1. Inv => WaitedForClusters
  BY DEF Inv, TypeOK, WaitInv, TargetDone, WaitedForClusters, Target, Names
<1> QED
  BY <1>1, Invariant, PTL

\* A recorded activation leaves the Restore that activates alone on hub B
\* (_activate_via_restore_resource with its rollback, _create_full_restore).
THEOREM OneRestoreRemains == Spec => []OneRestoreInControl
<1>1. Inv => OneRestoreInControl
  BY DEF Inv, RestoreInv, TargetOnly, OneRestoreInControl, Target, Names
<1> QED
  BY <1>1, Invariant, PTL

\* No activation or full Restore is created in the company of another Restore,
\* one that is still being deleted included (_wait_for_restore_deletion).
THEOREM RestoresAreCreatedAlone == Spec => CreatedAlone
<1>1. Inv /\ [Next]_vars => AloneStep
  BY NextAlone DEF Inv
<1> QED
  BY <1>1, Invariant, PTL DEF Spec, CreatedAlone, AloneStep

\* A recorded annotation step that was not passed over has had every
\* ManagedCluster ready for import (_apply_immediate_import_annotations).
THEOREM ClustersAreMarked == Spec => []EveryClusterMarked
<1>1. Inv => EveryClusterMarked
  BY DEF Inv, MarkInv, EveryClusterMarked
<1> QED
  BY <1>1, Invariant, PTL

\* The temporary import strategy is taken back before its flag goes and before
\* the flow is done, and an administrator's own is kept
\* (_maybe_set_auto_import_strategy, _ensure_auto_import_default).
THEOREM StrategyIsTakenBack == Spec => FlaggedStrategyTakenBack
<1>1. Inv /\ [Next]_vars => FlagStep
  BY NextFlag, NextFlagStep DEF Inv
<1> QED
  BY <1>1, Invariant, PTL DEF Spec, FlaggedStrategyTakenBack, FlagStep
=============================================================================
