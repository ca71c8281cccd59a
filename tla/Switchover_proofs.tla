-------------------------- MODULE Switchover_proofs --------------------------
(***************************************************************************)
(* Proofs about Switchover, for every plan of steps, every set of command  *)
(* lines and any number of faults.                                         *)
(***************************************************************************)
EXTENDS Switchover, TLAPS

\* A handler is running only where there is one, a step is being recorded only
\* where there is one, and a validate-only run that has begun has a checkpoint.
ControlOK ==
  /\ pc \in {"preflight", "work", "record", "report"} => h \in 1..5
  /\ pc = "record" => i \in DOMAIN Plan[h]
  /\ pc \in {"restore", "restoreRaise"} => run.validate
  /\ run.validate /\ pc \notin {"down", "loaded", "dispatch", "abort"}
       => ckpt.phase # None

TypeInv == TypeOK /\ ControlOK

\* What RecordedMeansApplied needs of memory and of the step in flight.
AppliedInv ==
  /\ ~tainted => disk.steps \subseteq applied /\ mem.steps \subseteq applied
  /\ pc = "record" /\ ~run.dry => CurrentStep \in applied

\* The first handler that runs from a recorded phase.
Entry(p) ==
  CASE p = "primary_prep" -> 2
    [] p \in {"secondary_verify", "activation"} -> 3
    [] p = "post_activation" -> 4
    [] p = "finalization" -> 5
    [] p = "completed" -> 6
    [] OTHER -> 1

\* The steps of the handlers before the k-th.
Before(k) == UNION {StepsOf(j) : j \in 1..(k - 1)}

\* Everything that a run resuming from this phase would jump over is recorded.
Placed(p, steps) == Before(Entry(p)) \subseteq steps

WellPlaced(st) == Placed(st.phase, st.steps) /\ Placed(st.lastErr, st.steps)

\* A run that has not entered a handler yet is on its way to the one its phase
\* resumes at; one that has left a handler goes on to the next.
AtEnter ==
  pc = "enter" /\ ~run.validate =>
    /\ mem.phase \notin {"completed", "failed"}
    /\ \/ h <= Entry(mem.phase)
       \/ h > 1 /\ mem.phase = Own[h - 1] /\ Before(h) \subseteq mem.steps

InHandler ==
  /\ pc = "preflight" => h = 1 /\ mem.phase = "preflight"
  /\ pc \in {"work", "record", "report"} => mem.phase = Own[h]
  /\ pc \in {"work", "record"} =>
       \A j \in DOMAIN Plan[h] : j < i => Plan[h][j] \in mem.steps

\* A validate-only run stays in front of the first handler and records nothing.
Validating ==
  /\ pc \in {"loaded", "dispatch"} => ckpt.phase = None
  /\ run.validate /\ pc # "down" =>
       /\ pc \notin {"work", "record", "report"}
       /\ pc = "enter" => h = 1
       /\ Placed(ckpt.phase, mem.steps)

OrderInv ==
  /\ WellPlaced(disk) /\ WellPlaced(mem)
  /\ AtEnter /\ InHandler /\ Validating

-----------------------------------------------------------------------------
(* Type correctness. *)

LEMMA PhaseNames ==
  /\ {"init", "preflight", "completed", "failed"} \subseteq Phases
  /\ Retryable \subseteq Phases /\ Work \subseteq Phases
  /\ None \notin Phases
  BY NoneAssumption DEF Phases, Work, Retryable

LEMMA NewStateType == NewState \in State
  BY DEF NewState, State, Phases

\* The fields of a state document, and the ways the code updates one.
LEMMA StateType ==
  ASSUME NEW st \in State
  PROVE  /\ st.phase \in Phases /\ st.steps \subseteq Steps /\ st.stale \in BOOLEAN
         /\ st.lastErr \in Phases \cup {None} /\ st.ctx \in Contexts \cup {None}
         /\ Stamped(st) \in State
         /\ [st EXCEPT !.stale = TRUE] \in State
         /\ \A p \in Phases : [st EXCEPT !.phase = p] \in State
         /\ \A p \in Phases : WithError(st, p) \in State
         /\ \A c \in Contexts : [st EXCEPT !.ctx = c] \in State
         /\ \A s \in Steps : [st EXCEPT !.steps = @ \cup {s}] \in State
         /\ \A p \in Phases, b \in BOOLEAN :
              [st EXCEPT !.phase = p, !.stale = b] \in State
  BY DEF State, Stamped, WithError

LEMMA InvocationType ==
  ASSUME NEW inv \in Invocations
  PROVE  /\ inv.ctx \in Contexts /\ inv.dry \in BOOLEAN /\ inv.validate \in BOOLEAN
         /\ inv.force \in BOOLEAN /\ inv.reset \in BOOLEAN
         /\ ~(inv.validate /\ inv.dry)
  BY InvocationAssumption DEF Invocation

LEMMA CheckpointType ==
  ASSUME NEW c \in [phase : Phases \cup {None}, stale : BOOLEAN]
  PROVE  c.phase \in Phases \cup {None} /\ c.stale \in BOOLEAN
  OBVIOUS

LEMMA OwnType == \A k \in 1..5 : Own[k] \in Work
  BY DEF Own, Work

LEMMA CurrentStepType ==
  ASSUME NEW k \in 1..5, NEW j \in DOMAIN Plan[k]
  PROVE  Plan[k][j] \in Steps
  BY PlanAssumption

LEMMA FlushType ==
  ASSUME NEW st \in State, mem \in State, disk \in State, dirty \in BOOLEAN
  PROVE  /\ Flush(st) => mem' \in State /\ disk' \in State /\ dirty' \in BOOLEAN
         /\ \A d \in BOOLEAN : FlushRaises(st, d) =>
              mem' \in State /\ disk' \in State /\ dirty' \in BOOLEAN
  BY StateType DEF Flush, FlushRaises

LEMMA InitType == Init => TypeInv
<1> SUFFICES ASSUME Init PROVE TypeInv
  OBVIOUS
<1>1. run \in Invocations /\ disk \in State /\ mem \in State
  BY NewStateType DEF Init
<1>2. ckpt \in [phase : Phases \cup {None}, stale : BOOLEAN]
  BY DEF Init
<1>3. TypeOK
  <2>1. pc \in Labels /\ h \in 1..6 /\ i \in Nat \ {0} /\ faults \in Nat
    BY DEF Init, Labels
  <2>3. dirty \in BOOLEAN /\ tainted \in BOOLEAN
    BY Zenon DEF Init
  <2>2. /\ baseline \in Phases \cup {None} /\ applied \subseteq Steps
        /\ failedAt \in Phases \cup {None} /\ owner \in Contexts \cup {None}
        /\ stray \subseteq Phases
    BY DEF Init
  <2> QED
    BY <1>1, <1>2, <2>1, <2>2, <2>3 DEF TypeOK
<1>4. ControlOK
  BY DEF Init, ControlOK
<1> QED
  BY <1>3, <1>4 DEF TypeInv

\* Every step of a process, the operator or the environment keeps the types.
LEMMA NextType == TypeInv /\ [Next]_vars => TypeInv'
<1> SUFFICES ASSUME TypeInv, [Next]_vars PROVE TypeInv'
  OBVIOUS
<1>m. mem \in State /\ disk \in State /\ run \in Invocations
  BY DEF TypeInv, TypeOK
<1>a. /\ mem.phase \in Phases /\ mem.stale \in BOOLEAN /\ Stamped(mem) \in State
      /\ mem.lastErr \in Phases \cup {None}
      /\ [disk EXCEPT !.stale = TRUE] \in State
      /\ run.validate \in BOOLEAN
  BY <1>m, StateType, InvocationType
<1> USE DEF TypeInv, TypeOK, ControlOK, Labels, store, control, history
<1>1. ASSUME NEW inv \in Invocations, Launch(inv) PROVE TypeInv'
  <2>1. mem' \in State /\ disk' \in State /\ dirty' \in BOOLEAN
    BY <1>1, <1>m, NewStateType DEF Launch
  <2>2. /\ tainted' \in BOOLEAN /\ applied' \subseteq Steps
        /\ failedAt' \in Phases \cup {None} /\ owner' \in Contexts \cup {None}
        /\ stray' \subseteq Phases
    BY <1>1, Zenon DEF Launch, Forgotten
  <2> QED
    BY <1>1, <1>m, <2>1, <2>2 DEF Launch
<1>2. CASE EnsureContexts
  <2>1. run.ctx \in Contexts
    BY <1>m, InvocationType
  <2>2. /\ [NewState EXCEPT !.ctx = run.ctx] \in State
        /\ [mem EXCEPT !.ctx = run.ctx] \in State
    BY <1>m, <2>1, StateType, NewStateType
  <2>3. mem' \in State /\ disk' \in State /\ dirty' \in BOOLEAN
    BY <1>2, <1>m, <2>2, FlushType DEF EnsureContexts
  <2>4. /\ tainted' \in BOOLEAN /\ applied' \subseteq Steps
        /\ failedAt' \in Phases \cup {None} /\ owner' \in Contexts \cup {None}
        /\ stray' \subseteq Phases
    BY <1>2, Zenon DEF EnsureContexts, Forgotten
  <2> QED
    BY <1>2, <1>m, <2>3, <2>4 DEF EnsureContexts
<1>3. CASE BeginValidate
  BY <1>3, <1>a, <1>m, NoneAssumption DEF BeginValidate, BeginFlow
<1>4. CASE ForceReset
  <2>1. mem' \in State /\ disk' \in State /\ dirty' \in BOOLEAN
    BY <1>4, <1>m, NewStateType, FlushType DEF ForceReset
  <2>2. /\ tainted' \in BOOLEAN /\ applied' \subseteq Steps
        /\ failedAt' \in Phases \cup {None} /\ owner' \in Contexts \cup {None}
        /\ stray' \subseteq Phases
    BY <1>4, Zenon DEF ForceReset, Forgotten
  <2> QED
    BY <1>4, <1>m, <2>1, <2>2 DEF ForceReset, BeginFlow
<1>5. CASE LeaveAlone
  BY <1>5, <1>a, <1>m DEF LeaveAlone
<1>6. CASE RetryFailed
  <2>1. mem.lastErr \in Phases /\ [mem EXCEPT !.phase = mem.lastErr] \in State
    BY <1>6, <1>m, StateType, PhaseNames DEF RetryFailed
  <2>2. mem' \in State /\ disk' \in State /\ dirty' \in BOOLEAN
    BY <1>6, <1>m, <2>1, FlushType DEF RetryFailed
  <2>3. faults' \in Nat
    BY <1>6 DEF RetryFailed, FlushRaises
  <2> QED
    BY <1>6, <1>a, <1>m, <2>1, <2>2, <2>3 DEF RetryFailed
<1>7. CASE ResumeUnfinished
  BY <1>7, <1>a, <1>m DEF ResumeUnfinished, BeginFlow
<1>8. CASE SkipHandler
  BY <1>8, <1>a, <1>m DEF SkipHandler
<1>9. CASE EnterHandler
  <2>1. [mem EXCEPT !.phase = Own[h]] \in State
    BY <1>9, <1>m, <1>a, StateType, OwnType, PhaseNames DEF EnterHandler
  <2>2. mem' \in State /\ disk' \in State /\ dirty' \in BOOLEAN
    BY <1>9, <1>m, <2>1, FlushType DEF EnterHandler
  <2>3. faults' \in Nat
    BY <1>9 DEF EnterHandler, FlushRaises
  <2> QED
    BY <1>9, <1>m, <1>a, <2>2, <2>3, PhaseNames DEF EnterHandler, Raised
<1>10. CASE PreflightPass
  BY <1>10, <1>a, <1>m DEF PreflightPass
<1>11. CASE PreflightFail
  BY <1>11, <1>a, <1>m DEF PreflightFail, Adverse, Raised
<1>12. CASE Complete
  <2>1. [mem EXCEPT !.phase = "completed"] \in State
    BY <1>12, <1>m, <1>a, StateType, PhaseNames DEF Complete
  <2>2. mem' \in State /\ disk' \in State /\ dirty' \in BOOLEAN
    BY <1>12, <1>m, <2>1, FlushType DEF Complete
  <2>3. faults' \in Nat
    BY <1>12 DEF Complete, FlushRaises
  <2> QED
    BY <1>12, <1>m, <1>a, <2>2, <2>3, PhaseNames DEF Complete
<1>13. CASE SkipStep
  BY <1>13, <1>a, <1>m DEF SkipStep
<1>14. CASE RunStep
  BY <1>14, <1>a, <1>m, CurrentStepType DEF RunStep, CurrentStep
<1>15. CASE StepRaises
  BY <1>15, <1>a, <1>m DEF StepRaises, Adverse
<1>16. CASE RecordStep
  <2>1. [mem EXCEPT !.steps = @ \cup {CurrentStep}] \in State
    BY <1>16, <1>m, <1>a, StateType, CurrentStepType DEF RecordStep, CurrentStep
  <2>2. mem' \in State /\ disk' \in State /\ dirty' \in BOOLEAN
    BY <1>16, <1>m, <2>1, FlushType DEF RecordStep
  <2>3. faults' \in Nat
    BY <1>16 DEF RecordStep, FlushRaises
  <2>4. tainted' \in BOOLEAN
    BY <1>16, <1>m, InvocationType, Zenon DEF RecordStep
  <2>5. owner' \in Contexts \cup {None}
    BY <1>16, <1>m, InvocationType, Zenon DEF RecordStep
  <2>6. i' = i \/ i' = i + 1
    BY <1>16, Zenon DEF RecordStep
  <2>7. pc' \in {"work", "abort", "report"}
    BY <1>16, Zenon DEF RecordStep
  <2>8. i' \in Nat \ {0}
    BY <2>6
  <2> QED
    BY <1>16, <1>m, <1>a, <2>2, <2>3, <2>4, <2>5, <2>7, <2>8 DEF RecordStep
<1>17. CASE ModuleDone
  BY <1>17, <1>a, <1>m DEF ModuleDone
<1>18. CASE ReportError
  <2>1. WithError(mem, Own[h]) \in State
    BY <1>18, <1>m, <1>a, StateType, OwnType, PhaseNames DEF ReportError
  <2>2. mem' \in State /\ disk' \in State /\ dirty' \in BOOLEAN
    BY <1>18, <1>m, <2>1, FlushType DEF ReportError
  <2>3. faults' \in Nat
    BY <1>18 DEF ReportError, FlushRaises
  <2> QED
    BY <1>18, <1>m, <1>a, <2>2, <2>3, PhaseNames DEF ReportError
<1>19. CASE FailPhase
  <2>1. WithError(mem, mem.phase) \in State
    BY <1>19, <1>m, <1>a, StateType DEF FailPhase
  <2>2. mem' \in State /\ disk' \in State /\ dirty' \in BOOLEAN
    BY <1>19, <1>m, <2>1, FlushType DEF FailPhase
  <2>3. faults' \in Nat
    BY <1>19 DEF FailPhase, FlushRaises
  <2> QED
    BY <1>19, <1>m, <1>a, <2>2, <2>3 DEF FailPhase, Raised
<1>20. CASE SetFailed
  <2>1. [mem EXCEPT !.phase = "failed"] \in State
    BY <1>20, <1>m, <1>a, StateType, PhaseNames DEF SetFailed
  <2>2. mem' \in State /\ disk' \in State /\ dirty' \in BOOLEAN
    BY <1>20, <1>m, <2>1, FlushType DEF SetFailed
  <2>3. faults' \in Nat
    BY <1>20 DEF SetFailed, FlushRaises
  <2> QED
    BY <1>20, <1>m, <1>a, <2>2, <2>3, PhaseNames DEF SetFailed, Raised
<1>21. CASE RestoreCheckpoint
  <2>1. Checkpointed \in State
    BY <1>21, <1>m, StateType, CheckpointType DEF RestoreCheckpoint, Checkpointed
  <2>2. mem' \in State /\ disk' \in State /\ dirty' \in BOOLEAN
    BY <1>21, <1>m, <2>1, FlushType DEF RestoreCheckpoint
  <2>3. faults' \in Nat
    BY <1>21 DEF RestoreCheckpoint, FlushRaises
  <2> QED
    BY <1>21, <2>2, <2>3 DEF RestoreCheckpoint
<1>22. CASE Abort
  <2>1. WithError(mem, mem.phase) \in State
    BY <1>22, <1>m, <1>a, StateType DEF Abort
  <2>2. mem' \in State /\ disk' \in State /\ dirty' \in BOOLEAN
    BY <1>22, <1>m, <2>1, FlushType DEF Abort
  <2>3. faults' \in Nat
    BY <1>22 DEF Abort, FlushRaises, Adverse
  <2> QED
    BY <1>22, <1>m, <1>a, <2>2, <2>3, PhaseNames DEF Abort
<1>23. CASE Interrupt
  <2>1. disk' \in State /\ mem' \in State /\ dirty' \in BOOLEAN
    BY <1>23, <1>m, <1>a DEF Interrupt
  <2>2. pc' \in {"restore", "down"} /\ (pc' = "restore" => run.validate /\ ckpt.phase # None)
    BY <1>23 DEF Interrupt, InTry
  <2> QED
    BY <1>23, <2>1, <2>2 DEF Interrupt, Adverse
<1>24. CASE Kill
  <2>1. mem' \in State /\ disk' \in State /\ dirty' \in BOOLEAN
    BY <1>24, <1>m, <1>a DEF Kill
  <2> QED
    BY <1>24, <2>1 DEF Kill, Adverse
<1>25. CASE TimePasses
  BY <1>25, <1>a, <1>m DEF TimePasses
<1>26. CASE EnsureContextsRaises
  BY <1>26, <1>m DEF EnsureContextsRaises, Adverse
<1>27. CASE ForceResetRaises
  <2>1. mem' \in State /\ disk' \in State /\ dirty' \in BOOLEAN
    BY <1>27, <1>m, NewStateType, StateType, PhaseNames, FlushType DEF ForceResetRaises
  <2>2. /\ tainted' \in BOOLEAN /\ applied' \subseteq Steps
        /\ failedAt' \in Phases \cup {None} /\ owner' \in Contexts \cup {None}
        /\ stray' \subseteq Phases
    BY <1>27, Zenon DEF ForceResetRaises, Forgotten
  <2> QED
    BY <1>27, <1>m, <2>1, <2>2 DEF ForceResetRaises, Adverse
<1>28. CASE UNCHANGED vars
  BY <1>28 DEF vars
<1> QED
  BY <1>1, <1>2, <1>3, <1>4, <1>5, <1>6, <1>7, <1>8, <1>9, <1>10, <1>11, <1>12,
     <1>13, <1>14, <1>15, <1>16, <1>17, <1>18, <1>19, <1>20, <1>21, <1>22,
     <1>23, <1>24, <1>25, <1>26, <1>27, <1>28
  DEF Next, ProcessStep, Fault

\* The types hold of every run: the state document always has a known phase,
\* handlers and steps stay in range, and a validate-only run that has begun
\* always has a checkpoint to put back (run_switchover, StateManager).
THEOREM TypeCorrect == Spec => []TypeOK
<1>1. Init => TypeInv
  BY InitType
<1>2. TypeInv /\ [Next]_vars => TypeInv'
  BY NextType
<1>3. TypeInv => TypeOK
  BY DEF TypeInv
<1> QED
  BY <1>1, <1>2, <1>3, PTL DEF Spec

-----------------------------------------------------------------------------
(* Recorded steps were carried out. *)

\* The ways a step of the machine treats the recorded steps.
KeepsSteps ==
  /\ {mem'.steps, disk'.steps} \subseteq {mem.steps, disk.steps}
  /\ pc' # "record"

ForgetsSteps ==
  /\ mem'.steps = {} /\ disk'.steps = {}
  /\ pc' # "record"

\* The updates of the code leave the recorded steps alone, all but one of them.
LEMMA StepsOfUpdates ==
  ASSUME NEW st \in State
  PROVE  /\ Stamped(st).steps = st.steps
         /\ [st EXCEPT !.stale = TRUE].steps = st.steps
         /\ \A p : [st EXCEPT !.phase = p].steps = st.steps
         /\ \A p : WithError(st, p).steps = st.steps
         /\ \A c : [st EXCEPT !.ctx = c].steps = st.steps
         /\ \A p, b : [st EXCEPT !.phase = p, !.stale = b].steps = st.steps
         /\ NewState.steps = {}
  BY DEF State, Stamped, WithError, NewState

\* Only RunStep and RecordStep touch the steps and their history; every other
\* action keeps what is recorded, or forgets all of it and its history too.
LEMMA StepsMove ==
  ASSUME TypeInv, Next
  PROVE  \/ RunStep \/ RecordStep
         \/ KeepsSteps /\ UNCHANGED <<applied, tainted>>
         \/ ForgetsSteps
<1>m. mem \in State /\ disk \in State /\ run \in Invocations
  BY DEF TypeInv, TypeOK
<1>n. /\ Stamped(mem).steps = mem.steps /\ Stamped(disk).steps = disk.steps
      /\ [disk EXCEPT !.stale = TRUE].steps = disk.steps
      /\ WithError(mem, mem.phase).steps = mem.steps
      /\ Checkpointed.steps = mem.steps
      /\ NewState.steps = {}
  BY <1>m, StepsOfUpdates DEF Checkpointed
<1>f. ASSUME NEW st \in State, st.steps = mem.steps, NEW d,
             Flush(st) \/ FlushRaises(st, d), pc' # "record"
      PROVE  KeepsSteps
  BY <1>f, StepsOfUpdates DEF Flush, FlushRaises, KeepsSteps
<1> USE <1>m, <1>n DEF store, control, history
<1>1. ASSUME NEW inv \in Invocations, Launch(inv)
      PROVE  (KeepsSteps /\ UNCHANGED <<applied, tainted>>) \/ ForgetsSteps
  BY <1>1 DEF Launch, KeepsSteps, ForgetsSteps
<1>2. CASE EnsureContexts
  <2>c. run.ctx \in Contexts
    BY InvocationType
  <2>1. CASE ForeignState
    <3>1. [NewState EXCEPT !.ctx = run.ctx] \in State
      BY <2>c, NewStateType, StateType
    <3>2. [NewState EXCEPT !.ctx = run.ctx].steps = {}
      BY NewStateType, StepsOfUpdates
    <3> QED
      BY <1>2, <2>1, <3>1, <3>2, StepsOfUpdates DEF EnsureContexts, Flush, ForgetsSteps
  <2>2. CASE ~ForeignState
    <3>1. [mem EXCEPT !.ctx = run.ctx] \in State /\ [mem EXCEPT !.ctx = run.ctx].steps = mem.steps
      BY <2>c, StateType, StepsOfUpdates
    <3>2. Flush([mem EXCEPT !.ctx = run.ctx]) \/ UNCHANGED store
      BY <1>2, <2>2 DEF EnsureContexts
    <3>3. pc' # "record" /\ UNCHANGED <<applied, tainted>>
      BY <1>2, <2>2 DEF EnsureContexts
    <3> QED
      BY <1>f, <3>1, <3>2, <3>3 DEF KeepsSteps
  <2> QED
    BY <2>1, <2>2
<1>3. CASE BeginValidate
  BY <1>3 DEF BeginValidate, BeginFlow, KeepsSteps
<1>4. CASE ForceReset
  BY <1>4, NewStateType, StepsOfUpdates DEF ForceReset, BeginFlow, Flush, ForgetsSteps
<1>5. CASE LeaveAlone
  BY <1>5 DEF LeaveAlone, KeepsSteps
<1>6. CASE RetryFailed
  <2>1. [mem EXCEPT !.phase = mem.lastErr] \in State
    BY <1>6, StateType, PhaseNames DEF RetryFailed
  <2>2. [mem EXCEPT !.phase = mem.lastErr].steps = mem.steps
    BY StepsOfUpdates
  <2>3. pc' # "record" /\ UNCHANGED <<applied, tainted>>
    BY <1>6 DEF RetryFailed
  <2> QED
    BY <1>6, <1>f, <2>1, <2>2, <2>3 DEF RetryFailed
<1>7. CASE ResumeUnfinished
  BY <1>7 DEF ResumeUnfinished, BeginFlow, KeepsSteps
<1>8. CASE SkipHandler
  BY <1>8 DEF SkipHandler, KeepsSteps
<1>9. CASE EnterHandler
  <2>1. h \in 1..5 /\ [mem EXCEPT !.phase = Own[h]] \in State
    BY <1>9, StateType, OwnType, PhaseNames DEF EnterHandler
  <2>2. [mem EXCEPT !.phase = Own[h]].steps = mem.steps
    BY StepsOfUpdates
  <2>3. pc' # "record" /\ UNCHANGED <<applied, tainted>>
    BY <1>9 DEF EnterHandler, Raised
  <2>4. \/ Flush([mem EXCEPT !.phase = Own[h]])
        \/ FlushRaises([mem EXCEPT !.phase = Own[h]], dirty)
    BY <1>9 DEF EnterHandler
  <2> QED
    BY <1>f, <2>1, <2>2, <2>3, <2>4
<1>10. CASE PreflightPass
  BY <1>10 DEF PreflightPass, KeepsSteps
<1>11. CASE PreflightFail
  BY <1>11 DEF PreflightFail, Raised, KeepsSteps
<1>12. CASE Complete
  <2>1. [mem EXCEPT !.phase = "completed"] \in State
    BY StateType, PhaseNames
  <2>2. [mem EXCEPT !.phase = "completed"].steps = mem.steps
    BY StepsOfUpdates
  <2> QED
    BY <1>12, <1>f, <2>1, <2>2 DEF Complete
<1>13. CASE SkipStep
  BY <1>13 DEF SkipStep, KeepsSteps
<1>14. CASE StepRaises
  BY <1>14 DEF StepRaises, KeepsSteps
<1>15. CASE ModuleDone
  BY <1>15 DEF ModuleDone, KeepsSteps
<1>16. CASE ReportError
  <2>1. h \in 1..5 /\ WithError(mem, Own[h]) \in State
    BY <1>16, StateType, OwnType, PhaseNames DEF ReportError, TypeInv, ControlOK
  <2>2. WithError(mem, Own[h]).steps = mem.steps
    BY StepsOfUpdates
  <2> QED
    BY <1>16, <1>f, <2>1, <2>2 DEF ReportError
<1>17. CASE FailPhase
  <2>1. WithError(mem, mem.phase) \in State
    BY StateType
  <2>2. CASE UNCHANGED store
    BY <1>17, <2>2 DEF FailPhase, Raised, KeepsSteps
  <2>3. CASE Flush(WithError(mem, mem.phase)) \/ FlushRaises(WithError(mem, mem.phase), dirty)
    BY <1>17, <1>f, <2>1, <2>3 DEF FailPhase, Raised
  <2> QED
    BY <1>17, <2>2, <2>3 DEF FailPhase
<1>18. CASE SetFailed
  <2>1. [mem EXCEPT !.phase = "failed"] \in State
    BY StateType, PhaseNames
  <2>2. [mem EXCEPT !.phase = "failed"].steps = mem.steps
    BY StepsOfUpdates
  <2>3. pc' # "record" /\ UNCHANGED <<applied, tainted>>
    BY <1>18 DEF SetFailed, Raised
  <2> QED
    BY <1>18, <1>f, <2>1, <2>2, <2>3 DEF SetFailed
<1>19. CASE RestoreCheckpoint
  BY <1>19 DEF RestoreCheckpoint, FlushRaises, KeepsSteps
<1>20. CASE Abort
  <2>1. WithError(mem, mem.phase) \in State
    BY StateType
  <2> QED
    BY <1>20, <1>f, <2>1 DEF Abort
<1>21. CASE Interrupt
  BY <1>21 DEF Interrupt, InTry, KeepsSteps
<1>22. CASE Kill
  BY <1>22 DEF Kill, KeepsSteps
<1>23. CASE TimePasses
  BY <1>23 DEF TimePasses, KeepsSteps
<1>24. CASE EnsureContextsRaises
  BY <1>24 DEF EnsureContextsRaises, KeepsSteps
<1>25. CASE ForceResetRaises
  <2>1. WithError(NewState, "init") \in State /\ WithError(NewState, "init").steps = {}
    BY NewStateType, StateType, PhaseNames, StepsOfUpdates
  <2> QED
    BY <1>25, <2>1, StepsOfUpdates DEF ForceResetRaises, Flush, KeepsSteps, ForgetsSteps
<1> QED
  BY <1>1, <1>2, <1>3, <1>4, <1>5, <1>6, <1>7, <1>8, <1>9, <1>10, <1>11, <1>12,
     <1>13, <1>14, <1>15, <1>16, <1>17, <1>18, <1>19, <1>20, <1>21, <1>22, <1>23,
     <1>24, <1>25
  DEF Next, ProcessStep, Fault

LEMMA NextApplied == TypeInv /\ AppliedInv /\ [Next]_vars => AppliedInv'
<1> SUFFICES ASSUME TypeInv, AppliedInv, [Next]_vars PROVE AppliedInv'
  OBVIOUS
<1>m. mem \in State /\ disk \in State /\ run \in Invocations
  BY DEF TypeInv, TypeOK
<1>1. CASE RunStep
  <2>1. /\ mem' = mem /\ disk' = disk /\ run' = run /\ CurrentStep' = CurrentStep
        /\ ~tainted' => ~tainted
    BY <1>1 DEF RunStep, store, control, CurrentStep
  <2>2. applied \subseteq applied' /\ (~run.dry => CurrentStep \in applied')
    BY <1>1 DEF RunStep
  <2> QED
    BY <2>1, <2>2 DEF AppliedInv
<1>2. CASE RecordStep
  <2> DEFINE st == [mem EXCEPT !.steps = @ \cup {CurrentStep}]
  <2>1. i \in DOMAIN Plan[h] /\ h \in 1..5 /\ pc = "record"
    BY <1>2 DEF RecordStep, TypeInv, ControlOK
  <2>2. st \in State /\ st.steps = mem.steps \cup {CurrentStep}
    BY <1>m, <2>1, CurrentStepType, StateType DEF CurrentStep, State
  <2>3. mem'.steps = st.steps /\ disk'.steps \in {disk.steps, st.steps}
    BY <1>2, <2>2, StepsOfUpdates DEF RecordStep, Flush, FlushRaises
  <2>4. pc' # "record" /\ applied' = applied
    BY <1>2 DEF RecordStep
  <2>5. ~tainted' => ~tainted /\ ~run.dry
    BY <1>2, Zenon DEF RecordStep
  <2> QED
    BY <2>1, <2>2, <2>3, <2>4, <2>5 DEF AppliedInv
<1>3. CASE KeepsSteps /\ UNCHANGED <<applied, tainted>>
  BY <1>3 DEF KeepsSteps, AppliedInv
<1>4. CASE ForgetsSteps
  BY <1>4 DEF ForgetsSteps, AppliedInv
<1>5. CASE UNCHANGED vars
  BY <1>5 DEF vars, AppliedInv, CurrentStep
<1> QED
  BY <1>1, <1>2, <1>3, <1>4, <1>5, StepsMove

\* StepContext records a step only after its body ended without an exception:
\* in every run, crashes and failed writes included, a step that the file calls
\* completed was carried out on the hubs since the last reset, unless a dry run
\* recorded one.
THEOREM RecordedWorkIsDone == Spec => []RecordedMeansApplied
<1>1. Init => TypeInv /\ AppliedInv
  <2>1. Init => NewState.steps = {} /\ mem = NewState /\ disk = NewState /\ pc = "down"
    BY DEF Init, NewState
  <2> QED
    BY <2>1, InitType DEF AppliedInv
<1>2. TypeInv /\ AppliedInv /\ [Next]_vars => (TypeInv /\ AppliedInv)'
  BY NextType, NextApplied
<1>3. AppliedInv => RecordedMeansApplied
  BY DEF AppliedInv, RecordedMeansApplied
<1> QED
  BY <1>1, <1>2, <1>3, PTL DEF Spec

-----------------------------------------------------------------------------
(* A completed switchover has every step recorded. *)

LEMMA EntryFacts ==
  /\ Entry(None) = 1 /\ Entry("init") = 1 /\ Entry("preflight") = 1
  /\ Entry("failed") = 1 /\ Entry("completed") = 6
  /\ \A k \in 1..5 : Entry(Own[k]) = k
  /\ \A p \in Phases \ {"completed", "failed"} :
       Entry(p) \in 1..5 /\ p \in Allowed[Entry(p)]
  /\ \A k \in 1..5 : \A p \in Allowed[k] : Entry(p) <= k
  /\ \A k \in 2..5 : Own[k - 1] \in Allowed[k]
<1>1. Entry(None) = 1
  BY NoneAssumption DEF Entry, Phases, Work
<1>2. /\ Entry("init") = 1 /\ Entry("preflight") = 1 /\ Entry("primary_prep") = 2
      /\ Entry("secondary_verify") = 3 /\ Entry("activation") = 3
      /\ Entry("post_activation") = 4 /\ Entry("finalization") = 5
      /\ Entry("failed") = 1 /\ Entry("completed") = 6
  BY DEF Entry
<1>3. \A k \in 1..5 : k = 1 \/ k = 2 \/ k = 3 \/ k = 4 \/ k = 5
  OBVIOUS
<1>4. \A k \in 1..5 : Entry(Own[k]) = k
  BY <1>2, <1>3 DEF Own
<1>5. \A p \in Phases \ {"completed", "failed"} :
        Entry(p) \in 1..5 /\ p \in Allowed[Entry(p)]
  BY <1>2 DEF Allowed, Phases, Work
<1>6. \A k \in 1..5 : \A p \in Allowed[k] : Entry(p) <= k
  BY <1>2, <1>3 DEF Allowed
<1>7. \A k \in 2..5 : Own[k - 1] \in Allowed[k]
  <2>1. \A k \in 2..5 : k = 2 \/ k = 3 \/ k = 4 \/ k = 5
    OBVIOUS
  <2> QED
    BY <2>1 DEF Own, Allowed
<1> QED
  BY <1>1, <1>2, <1>4, <1>5, <1>6, <1>7

LEMMA BeforeFacts ==
  /\ Before(1) = {} /\ Before(2) = {}
  /\ \A k \in 1..5 : Before(k + 1) = Before(k) \cup StepsOf(k)
  /\ AllSteps = Before(6)
<1>1. Before(1) = {}
  BY DEF Before
<1>2. \A k \in 1..5 : Before(k + 1) = Before(k) \cup StepsOf(k)
  <2> SUFFICES ASSUME NEW k \in 1..5 PROVE Before(k + 1) = Before(k) \cup StepsOf(k)
    OBVIOUS
  <2>1. 1..((k + 1) - 1) = 1..(k - 1) \cup {k}
    OBVIOUS
  <2> QED
    BY <2>1 DEF Before
<1>3. StepsOf(1) = {}
  BY PlanAssumption DEF StepsOf
<1>4. AllSteps = Before(6)
  BY DEF AllSteps, Before
<1> QED
  BY <1>1, <1>2, <1>3, <1>4

\* An update of the state document keeps it well placed when the phase it
\* stores, as the current one or as that of an error, is placed already.
LEMMA PlacedUpdates ==
  ASSUME NEW st \in State, WellPlaced(st)
  PROVE  /\ WellPlaced(NewState) /\ WellPlaced(Stamped(st))
         /\ WellPlaced([st EXCEPT !.stale = TRUE])
         /\ \A c : WellPlaced([st EXCEPT !.ctx = c])
         /\ \A s : WellPlaced([st EXCEPT !.steps = @ \cup {s}])
         /\ \A p : Placed(p, st.steps) =>
              /\ WellPlaced([st EXCEPT !.phase = p])
              /\ WellPlaced(WithError(st, p))
              /\ \A b : WellPlaced([st EXCEPT !.phase = p, !.stale = b])
<1>1. WellPlaced(NewState)
  BY EntryFacts, BeforeFacts DEF WellPlaced, Placed, NewState
<1>2. WellPlaced(Stamped(st)) /\ WellPlaced([st EXCEPT !.stale = TRUE])
  BY DEF WellPlaced, Stamped, State
<1>3. \A c : WellPlaced([st EXCEPT !.ctx = c])
  BY DEF WellPlaced, State
<1>4. \A s : WellPlaced([st EXCEPT !.steps = @ \cup {s}])
  BY DEF WellPlaced, Placed, State
<1>5. ASSUME NEW p, Placed(p, st.steps)
      PROVE  /\ WellPlaced([st EXCEPT !.phase = p])
             /\ WellPlaced(WithError(st, p))
             /\ \A b : WellPlaced([st EXCEPT !.phase = p, !.stale = b])
  BY <1>5 DEF WellPlaced, WithError, State
<1> QED
  BY <1>1, <1>2, <1>3, <1>4, <1>5

LEMMA FlushPlaced ==
  ASSUME NEW st \in State, NEW d, WellPlaced(st), WellPlaced(disk),
         Flush(st) \/ FlushRaises(st, d)
  PROVE  WellPlaced(mem') /\ WellPlaced(disk')
  BY PlacedUpdates DEF Flush, FlushRaises

\* Memory and file stay well placed: a phase is stored only when the steps of
\* the handlers before it are recorded.
LEMMA NextPlaced ==
  ASSUME TypeInv, OrderInv, Next
  PROVE  WellPlaced(mem') /\ WellPlaced(disk')
<1>m. mem \in State /\ disk \in State /\ run \in Invocations
  BY DEF TypeInv, TypeOK
<1>w. WellPlaced(mem) /\ WellPlaced(disk)
  BY DEF OrderInv
<1>p. Placed(mem.phase, mem.steps) /\ Placed(mem.lastErr, mem.steps)
  BY <1>w DEF WellPlaced
<1>n. /\ WellPlaced(NewState) /\ WellPlaced([disk EXCEPT !.stale = TRUE])
      /\ WellPlaced(Stamped(mem)) /\ WellPlaced(WithError(mem, mem.phase))
  BY <1>m, <1>w, <1>p, PlacedUpdates
<1> USE DEF store, control, history
<1>1. ASSUME NEW inv \in Invocations, Launch(inv) PROVE WellPlaced(mem') /\ WellPlaced(disk')
  BY <1>1, <1>w, <1>n DEF Launch
<1>2. CASE EnsureContexts
  <2>1. /\ [NewState EXCEPT !.ctx = run.ctx] \in State /\ [mem EXCEPT !.ctx = run.ctx] \in State
        /\ WellPlaced([NewState EXCEPT !.ctx = run.ctx])
        /\ WellPlaced([mem EXCEPT !.ctx = run.ctx])
    BY <1>m, <1>w, <1>n, InvocationType, NewStateType, StateType, PlacedUpdates
  <2> QED
    BY <1>2, <1>w, <2>1, FlushPlaced DEF EnsureContexts
<1>3. CASE UNCHANGED store
  BY <1>3, <1>w
<1>4. CASE ForceReset \/ ForceResetRaises
  <2>1. WithError(NewState, "init") \in State /\ WellPlaced(WithError(NewState, "init"))
    <3>1. Placed("init", NewState.steps)
      BY EntryFacts, BeforeFacts DEF Placed
    <3> QED
      BY <1>n, <3>1, NewStateType, StateType, PhaseNames, PlacedUpdates
  <2> QED
    BY <1>4, <1>w, <1>n, <2>1, NewStateType, FlushPlaced DEF ForceReset, ForceResetRaises
<1>6. CASE RetryFailed
  <2>1. /\ [mem EXCEPT !.phase = mem.lastErr] \in State
        /\ WellPlaced([mem EXCEPT !.phase = mem.lastErr])
    BY <1>6, <1>m, <1>w, <1>p, StateType, PhaseNames, PlacedUpdates DEF RetryFailed
  <2> QED
    BY <1>6, <1>w, <2>1, FlushPlaced DEF RetryFailed
<1>9. CASE EnterHandler
  <2>1. h \in 1..5
    BY <1>9 DEF EnterHandler
  <2>2. Placed(Own[h], mem.steps)
    <3>1. Before(h) \subseteq mem.steps
      <4>1. CASE run.validate
        BY <1>9, <4>1, <2>1, BeforeFacts DEF EnterHandler, OrderInv, Validating
      <4>2. CASE ~run.validate /\ h <= Entry(mem.phase)
        <5>3. mem.phase \in Phases \ {"completed", "failed"} /\ mem.phase \in Allowed[h]
          BY <1>9, <4>2, <1>m, StateType DEF EnterHandler, OrderInv, AtEnter
        <5>1. Entry(mem.phase) <= h /\ Entry(mem.phase) \in 1..5
          BY <2>1, <5>3, EntryFacts
        <5>2. Entry(mem.phase) = h
          BY <2>1, <4>2, <5>1
        <5> QED
          BY <5>2, <1>p DEF Placed
      <4> QED
        BY <1>9, <4>1, <4>2 DEF EnterHandler, OrderInv, AtEnter
    <3> QED
      BY <2>1, <3>1, EntryFacts DEF Placed
  <2>3. [mem EXCEPT !.phase = Own[h]] \in State /\ WellPlaced([mem EXCEPT !.phase = Own[h]])
    BY <1>m, <1>w, <2>1, <2>2, StateType, OwnType, PhaseNames, PlacedUpdates
  <2> QED
    BY <1>9, <1>w, <2>3, FlushPlaced DEF EnterHandler
<1>12. CASE Complete
  <2>1. h = 6 /\ ~run.validate
    BY <1>12 DEF Complete, OrderInv, Validating
  <2>2. Before(6) \subseteq mem.steps
    <3>1. mem.phase \in Phases \ {"completed", "failed"}
      BY <1>12, <1>m, <2>1, StateType DEF Complete, OrderInv, AtEnter
    <3>2. Entry(mem.phase) \in 1..5
      BY <3>1, EntryFacts
    <3>3. ~(h <= Entry(mem.phase))
      BY <2>1, <3>2
    <3> QED
      BY <1>12, <2>1, <3>3 DEF Complete, OrderInv, AtEnter
  <2>3. Placed("completed", mem.steps)
    BY <2>2, EntryFacts DEF Placed
  <2>4. /\ [mem EXCEPT !.phase = "completed"] \in State
        /\ WellPlaced([mem EXCEPT !.phase = "completed"])
    BY <1>m, <1>w, <2>3, StateType, PhaseNames, PlacedUpdates
  <2> QED
    BY <1>12, <1>w, <2>4, FlushPlaced DEF Complete
<1>16. CASE RecordStep
  <2>1. CurrentStep \in Steps
    BY <1>16, CurrentStepType DEF RecordStep, TypeInv, ControlOK, CurrentStep
  <2>2. /\ [mem EXCEPT !.steps = @ \cup {CurrentStep}] \in State
        /\ WellPlaced([mem EXCEPT !.steps = @ \cup {CurrentStep}])
    BY <1>m, <1>w, <2>1, StateType, PlacedUpdates
  <2> QED
    BY <1>16, <1>w, <2>2, FlushPlaced DEF RecordStep
<1>18. CASE ReportError
  <2>1. h \in 1..5 /\ mem.phase = Own[h]
    BY <1>18 DEF ReportError, TypeInv, ControlOK, OrderInv, InHandler
  <2>2. WithError(mem, Own[h]) \in State /\ WellPlaced(WithError(mem, Own[h]))
    BY <1>m, <1>n, <2>1, StateType
  <2> QED
    BY <1>18, <1>w, <2>2, FlushPlaced DEF ReportError
<1>19. CASE FailPhase
  BY <1>19, <1>m, <1>w, <1>n, StateType, FlushPlaced DEF FailPhase
<1>20. CASE SetFailed
  <2>1. Placed("failed", mem.steps)
    BY EntryFacts, BeforeFacts DEF Placed
  <2>2. /\ [mem EXCEPT !.phase = "failed"] \in State
        /\ WellPlaced([mem EXCEPT !.phase = "failed"])
    BY <1>m, <1>w, <2>1, StateType, PhaseNames, PlacedUpdates
  <2> QED
    BY <1>20, <1>w, <2>2, FlushPlaced DEF SetFailed
<1>k. run.validate /\ pc # "down" => WellPlaced(Checkpointed)
  BY <1>m, <1>w, PlacedUpdates DEF OrderInv, Validating, Checkpointed
<1>21. CASE RestoreCheckpoint
  <2>1. run.validate /\ pc # "down"
    BY <1>21 DEF RestoreCheckpoint, TypeInv, ControlOK
  <2> QED
    BY <1>21, <1>k, <1>w, <2>1 DEF RestoreCheckpoint, FlushRaises
<1>22. CASE Abort
  BY <1>22, <1>m, <1>w, <1>n, StateType, FlushPlaced DEF Abort
<1>23. CASE Interrupt
  BY <1>23, <1>w, <1>n DEF Interrupt
<1>24. CASE Kill
  BY <1>24, <1>w, <1>n DEF Kill
<1>25. CASE TimePasses
  BY <1>25, <1>n DEF TimePasses
<1>26. \/ BeginValidate \/ LeaveAlone \/ ResumeUnfinished \/ SkipHandler
       \/ PreflightPass \/ PreflightFail \/ SkipStep \/ RunStep \/ StepRaises
       \/ ModuleDone \/ EnsureContextsRaises
       => UNCHANGED store
  BY DEF BeginValidate, LeaveAlone, ResumeUnfinished, SkipHandler, PreflightPass,
         PreflightFail, SkipStep, RunStep, StepRaises, ModuleDone, EnsureContextsRaises
<1> QED
  BY <1>1, <1>2, <1>3, <1>4, <1>6, <1>9, <1>12, <1>16, <1>18, <1>19, <1>20,
     <1>21, <1>22, <1>23, <1>24, <1>25, <1>26
  DEF Next, ProcessStep, Fault

\* The position of the run stays in step with the phase it has stored.
LEMMA NextPosition ==
  ASSUME TypeInv, OrderInv, Next
  PROVE  (AtEnter /\ InHandler /\ Validating)'
<1>m. mem \in State /\ disk \in State /\ run \in Invocations /\ h \in 1..6
  BY DEF TypeInv, TypeOK
<1>e. Before(Entry(None)) = {} /\ Placed(None, {})
  BY EntryFacts, BeforeFacts DEF Placed
<1>f. ASSUME NEW st \in State, st.steps = mem.steps, NEW d, Flush(st) \/ FlushRaises(st, d)
      PROVE  mem'.steps = mem.steps
  BY <1>f, StepsOfUpdates DEF Flush, FlushRaises
<1>w. WithError(mem, mem.phase) \in State /\ WithError(mem, mem.phase).steps = mem.steps
  BY <1>m, StateType, StepsOfUpdates
<1> USE DEF store, control, history
\* a process that is gone, or that is on its way out, constrains nothing
<1>d. ASSUME pc' = "down" PROVE (AtEnter /\ InHandler /\ Validating)'
  BY <1>d DEF AtEnter, InHandler, Validating
<1>1. ASSUME NEW inv \in Invocations, Launch(inv) PROVE (AtEnter /\ InHandler /\ Validating)'
  BY <1>1, <1>e, EntryFacts, BeforeFacts DEF Launch, AtEnter, InHandler, Validating, Placed
<1>2. CASE EnsureContexts
  BY <1>2, EntryFacts, BeforeFacts
     DEF EnsureContexts, OrderInv, AtEnter, InHandler, Validating, Placed
<1>3. CASE BeginValidate
  <2>1. Placed(mem.phase, mem.steps)
    BY DEF OrderInv, WellPlaced
  <2> QED
    BY <1>3, <2>1 DEF BeginValidate, BeginFlow, AtEnter, InHandler, Validating
<1>4. CASE ForceReset
  BY <1>4, EntryFacts
     DEF ForceReset, BeginFlow, Flush, Stamped, NewState, AtEnter, InHandler, Validating
<1>5. CASE RetryFailed
  <2>1. mem'.phase = mem.lastErr
    BY <1>5, <1>m DEF RetryFailed, Flush, FlushRaises, Stamped, State
  <2>2. mem.lastErr \in Phases \ {"completed", "failed"}
    BY <1>5 DEF RetryFailed, Retryable, Phases, Work
  <2> QED
    BY <1>5, <2>1, <2>2, EntryFacts DEF RetryFailed, AtEnter, InHandler, Validating
<1>6. CASE ResumeUnfinished
  <2>1. mem.phase \in Phases \ {"completed", "failed"}
    BY <1>6, <1>m, StateType DEF ResumeUnfinished
  <2> QED
    BY <1>6, <2>1, EntryFacts DEF ResumeUnfinished, BeginFlow, AtEnter, InHandler, Validating
<1>7. CASE SkipHandler
  <2>1. h \in 1..5 /\ mem.phase \in Phases \ {"completed", "failed"} /\ mem.phase \notin Allowed[h]
    BY <1>7, <1>m, StateType DEF SkipHandler, OrderInv, AtEnter
  <2>2. ~(h > 1 /\ mem.phase = Own[h - 1])
    BY <2>1, EntryFacts
  <2>3. h <= Entry(mem.phase) /\ Entry(mem.phase) # h /\ Entry(mem.phase) \in 1..5
    BY <1>7, <2>1, <2>2, EntryFacts DEF SkipHandler, OrderInv, AtEnter
  <2>4. h + 1 <= Entry(mem.phase)
    BY <2>1, <2>3
  <2> QED
    BY <1>7, <2>1, <2>4 DEF SkipHandler, AtEnter, InHandler, Validating
<1>8. CASE EnterHandler
  <2>1. h \in 1..5 /\ mem'.phase = Own[h] /\ mem'.steps = mem.steps
    BY <1>8, <1>m DEF EnterHandler, Flush, FlushRaises, Stamped, State
  <2>2. \A j \in DOMAIN Plan[h] : ~(j < 1)
    BY <2>1, PlanAssumption
  <2>3. Own[1] = "preflight"
    BY DEF Own
  <2>4. run.validate => h = 1 /\ Placed(ckpt.phase, mem.steps)
    BY <1>8 DEF EnterHandler, OrderInv, Validating
  <2>5. pc' \in {"preflight", "work", "abort", "restoreRaise"} /\ (pc' = "preflight" <=> pc' # "work" /\ pc' \notin {"abort", "restoreRaise"})
    BY <1>8 DEF EnterHandler, Raised
  <2>6. /\ pc' = "preflight" => h = 1
        /\ pc' = "work" => h # 1 /\ i' = 1
        /\ UNCHANGED <<run, h, ckpt>>
    BY <1>8 DEF EnterHandler, Raised
  <2> QED
    BY <2>1, <2>2, <2>3, <2>4, <2>5, <2>6 DEF AtEnter, InHandler, Validating
<1>9. CASE PreflightPass
  BY <1>9, EntryFacts, BeforeFacts
     DEF PreflightPass, Own, OrderInv, AtEnter, InHandler, Validating
<1>10. CASE PreflightFail
  BY <1>10 DEF PreflightFail, Raised, OrderInv, AtEnter, InHandler, Validating
<1>11. CASE Complete
  BY <1>11 DEF Complete, OrderInv, AtEnter, InHandler, Validating
<1>12. CASE SkipStep
  <2>h. h \in 1..5 /\ i \in Nat
    BY <1>12 DEF SkipStep, TypeInv, TypeOK, ControlOK
  <2>d. DOMAIN Plan[h] \subseteq Nat
    BY <2>h, PlanAssumption
  <2>1. \A j \in DOMAIN Plan[h] : j < i + 1 => j < i \/ j = i
    BY <2>h, <2>d, SMT
  <2> QED
    BY <1>12, <2>1
       DEF SkipStep, CurrentStep, OrderInv, AtEnter, InHandler, Validating
<1>13. CASE RunStep
  BY <1>13 DEF RunStep, OrderInv, AtEnter, InHandler, Validating
<1>14. CASE StepRaises
  BY <1>14 DEF StepRaises, OrderInv, AtEnter, InHandler, Validating
<1>15. CASE RecordStep
  <2>1. i \in DOMAIN Plan[h] /\ h \in 1..5 /\ i \in Nat
    BY <1>15 DEF RecordStep, TypeInv, TypeOK, ControlOK
  <2>2. /\ mem'.phase = mem.phase
        /\ mem'.steps = mem.steps \cup {CurrentStep}
    BY <1>15, <1>m DEF RecordStep, Flush, FlushRaises, Stamped, State
  <2>3. ~run.validate /\ mem.phase = Own[h]
    BY <1>15 DEF RecordStep, OrderInv, InHandler, Validating
  <2>4. \A j \in DOMAIN Plan[h] : j < i + 1 => j < i \/ j = i
    BY <2>1, PlanAssumption
  <2>5. \A j \in DOMAIN Plan[h] : j < i + 1 => Plan[h][j] \in mem'.steps
    BY <1>15, <2>2, <2>4 DEF RecordStep, OrderInv, InHandler, CurrentStep
  <2>6. \/ pc' = "work" /\ i' = i + 1
        \/ pc' \in {"abort", "report"}
    BY <1>15 DEF RecordStep
  <2>7. UNCHANGED <<run, h, ckpt>>
    BY <1>15 DEF RecordStep
  <2> QED
    BY <2>2, <2>3, <2>5, <2>6, <2>7 DEF AtEnter, InHandler, Validating
<1>16. CASE ModuleDone
  <2>1. h \in 1..5 /\ i \notin DOMAIN Plan[h] /\ i \in Nat \ {0}
    BY <1>16 DEF ModuleDone, TypeInv, TypeOK, ControlOK
  <2>2. mem.phase = Own[h] /\ ~run.validate
    BY <1>16 DEF ModuleDone, OrderInv, InHandler, Validating
  <2>3. \A j \in DOMAIN Plan[h] : j < i
    BY <2>1, PlanAssumption
  <2>4. StepsOf(h) \subseteq mem.steps
    BY <1>16, <2>3 DEF ModuleDone, OrderInv, InHandler, StepsOf
  <2>5. Before(h) \subseteq mem.steps
    BY <2>1, <2>2, EntryFacts DEF OrderInv, WellPlaced, Placed
  <2>6. Before(h + 1) \subseteq mem.steps
    BY <2>1, <2>4, <2>5, BeforeFacts
  <2>7. Own[h] \notin {"completed", "failed"} /\ (h + 1) - 1 = h /\ h + 1 > 1
    BY <2>1, OwnType DEF Work
  <2> QED
    BY <1>16, <2>2, <2>6, <2>7 DEF ModuleDone, AtEnter, InHandler, Validating
<1>17. CASE ReportError
  BY <1>17 DEF ReportError, OrderInv, AtEnter, InHandler, Validating
<1>18. CASE FailPhase
  <2>1. mem'.steps = mem.steps
    BY <1>18, <1>f, <1>w DEF FailPhase
  <2> QED
    BY <1>18, <2>1 DEF FailPhase, Raised, OrderInv, AtEnter, InHandler, Validating
<1>19. CASE SetFailed
  <2>2. /\ [mem EXCEPT !.phase = "failed"] \in State
        /\ [mem EXCEPT !.phase = "failed"].steps = mem.steps
    BY <1>m, StateType, PhaseNames, StepsOfUpdates
  <2>1. mem'.steps = mem.steps
    BY <1>19, <1>f, <2>2 DEF SetFailed
  <2> QED
    BY <1>19, <2>1 DEF SetFailed, Raised, OrderInv, AtEnter, InHandler, Validating
<1>20. CASE RestoreCheckpoint
  <2>2. Checkpointed.steps = mem.steps
    BY <1>m, StepsOfUpdates DEF Checkpointed
  <2>1. mem'.steps = mem.steps
    BY <1>20, <2>2 DEF RestoreCheckpoint, FlushRaises
  <2> QED
    BY <1>20, <2>1 DEF RestoreCheckpoint, OrderInv, AtEnter, InHandler, Validating
<1>21. LeaveAlone \/ EnsureContextsRaises \/ ForceResetRaises \/ Abort
       \/ Kill \/ TimePasses => pc' = "down"
  BY DEF LeaveAlone, EnsureContextsRaises, ForceResetRaises, Abort, Kill, TimePasses
<1>22. CASE Interrupt
  <2>1. CASE InTry
    BY <1>22, <2>1 DEF Interrupt, InTry, OrderInv, AtEnter, InHandler, Validating
  <2>2. CASE ~InTry
    BY <1>22, <1>d, <2>2 DEF Interrupt
  <2> QED
    BY <2>1, <2>2
<1> QED
  BY <1>d, <1>1, <1>2, <1>3, <1>4, <1>5, <1>6, <1>7, <1>8, <1>9, <1>10, <1>11,
     <1>12, <1>13, <1>14, <1>15, <1>16, <1>17, <1>18, <1>19, <1>20, <1>21, <1>22
  DEF Next, ProcessStep, Fault

LEMMA InitOrder == Init => OrderInv
  BY EntryFacts, BeforeFacts
     DEF Init, NewState, OrderInv, WellPlaced, Placed, AtEnter, InHandler, Validating

\* run_switchover sets COMPLETED only when every step of every phase is
\* recorded: no retry, skipped handler, validate-only checkpoint, failed write
\* or kill lets a run jump over work, whatever the plan of steps is.
THEOREM CompletionIsComplete == Spec => []CompletedMeansEveryStep
<1>1. Init => TypeInv /\ OrderInv
  BY InitType, InitOrder
<1>2. TypeInv /\ OrderInv /\ [Next]_vars => (TypeInv /\ OrderInv)'
  <2> SUFFICES ASSUME TypeInv, OrderInv, [Next]_vars PROVE OrderInv'
    BY NextType
  <2>1. CASE Next
    BY <2>1, NextPlaced, NextPosition DEF OrderInv
  <2>2. CASE UNCHANGED vars
    BY <2>2 DEF vars, OrderInv, AtEnter, InHandler, Validating
  <2> QED
    BY <2>1, <2>2
<1>3. OrderInv => CompletedMeansEveryStep
  BY EntryFacts, BeforeFacts DEF OrderInv, WellPlaced, Placed, CompletedMeansEveryStep
<1> QED
  BY <1>1, <1>2, <1>3, PTL DEF Spec
-----------------------------------------------------------------------------
(* Memory and file. *)

\* A process between the entry into a phase and its end; one that is past the entry.
InFlow == {"enter", "preflight", "work", "record", "report", "failing", "failed"}
Handling == InFlow \ {"enter"}

\* How far the memory of a process may be ahead of the file: in phase only on the
\* way out, in steps only by the one step whose write has just raised.
InSync ==
  /\ pc \in {"loaded", "dispatch"} => mem = disk /\ ~dirty
  /\ pc \in InFlow => mem.phase = disk.phase
  /\ pc \in Handling => mem.phase \in Work
  /\ pc # "down" /\ ~dirty => mem.steps = disk.steps
  /\ pc # "down" /\ dirty =>
       /\ pc \in {"report", "abort"} /\ ~run.validate
       /\ mem.phase = disk.phase /\ mem.phase \in Work
       /\ \E s \in Steps : mem.steps = disk.steps \cup {s}

\* A document with progress that names its hubs names those of its last recorder.
Owned(st) == st.steps # {} /\ st.ctx # None => st.ctx = owner

OwnerInv ==
  /\ Owned(disk)
  /\ pc # "down" => Owned(mem)
  /\ pc \notin {"down", "loaded"} => mem.ctx = disk.ctx /\ mem.ctx \in {run.ctx, None}

\* The errors that a FAILED document may show as its last.
FailedFrom == {failedAt} \cup stray

\* FAILED comes with the error of the phase it came from, in the file, in memory and
\* in what a validate-only run will put back.
FailedInv ==
  /\ disk.phase = "failed" => disk.lastErr \in FailedFrom
  /\ mem.phase = "failed" => mem.lastErr \in FailedFrom
  /\ pc = "failed" => mem.lastErr = mem.phase
  /\ run.validate /\ pc # "down" /\ ckpt.phase = "failed" => mem.lastErr \in FailedFrom
  /\ run.validate /\ pc = "failed" => "preflight" \in stray
  /\ ~run.validate /\ pc = "abort" /\ mem.phase = "failed" => "failed" \in stray

\* A validate-only run fails in PREFLIGHT only, and aborts with its phase put back.
ValidateInv ==
  /\ run.validate /\ pc \in {"failing", "failed"} => mem.phase = "preflight"
  /\ run.validate /\ pc = "abort" => mem.phase = ckpt.phase

\* What the flush of a document leaves in memory and file, and what it leaves
\* when the write raises.
Written(phase, steps, lastErr, ctx) ==
  /\ mem' = disk' /\ dirty' = FALSE
  /\ mem'.phase = phase /\ mem'.steps = steps /\ mem'.lastErr = lastErr /\ mem'.ctx = ctx

NotWritten(d, phase, steps, lastErr, ctx) ==
  /\ disk' = disk /\ dirty' = d
  /\ mem'.phase = phase /\ mem'.steps = steps /\ mem'.lastErr = lastErr /\ mem'.ctx = ctx

LEMMA FlushFields ==
  ASSUME NEW st \in State
  PROVE  /\ Flush(st) => Written(st.phase, st.steps, st.lastErr, st.ctx)
         /\ \A d : FlushRaises(st, d) =>
              NotWritten(d, st.phase, st.steps, st.lastErr, st.ctx)
  BY DEF Flush, FlushRaises, Stamped, State, Written, NotWritten

\* set_phase, add_error and mark_step_completed change one field each.
LEMMA PhaseWrite ==
  ASSUME mem \in State, NEW p \in Phases
  PROVE  /\ Flush([mem EXCEPT !.phase = p]) => Written(p, mem.steps, mem.lastErr, mem.ctx)
         /\ \A d : FlushRaises([mem EXCEPT !.phase = p], d) =>
              NotWritten(d, p, mem.steps, mem.lastErr, mem.ctx)
<1> DEFINE st == [mem EXCEPT !.phase = p]
<1>1. st \in State
  BY StateType
<1>2. st.phase = p /\ st.steps = mem.steps /\ st.lastErr = mem.lastErr /\ st.ctx = mem.ctx
  BY DEF State
<1> HIDE DEF st
<1>3. /\ Flush(st) => Written(p, mem.steps, mem.lastErr, mem.ctx)
      /\ \A d : FlushRaises(st, d) => NotWritten(d, p, mem.steps, mem.lastErr, mem.ctx)
  BY <1>1, <1>2, FlushFields
<1> QED
  BY <1>3 DEF st

LEMMA ErrorWrite ==
  ASSUME mem \in State, NEW p \in Phases
  PROVE  /\ Flush(WithError(mem, p)) => Written(mem.phase, mem.steps, p, mem.ctx)
         /\ \A d : FlushRaises(WithError(mem, p), d) =>
              NotWritten(d, mem.phase, mem.steps, p, mem.ctx)
<1> DEFINE st == WithError(mem, p)
<1>1. st \in State
  BY StateType
<1>2. st.phase = mem.phase /\ st.steps = mem.steps /\ st.lastErr = p /\ st.ctx = mem.ctx
  BY DEF State, WithError
<1> HIDE DEF st
<1>3. /\ Flush(st) => Written(mem.phase, mem.steps, p, mem.ctx)
      /\ \A d : FlushRaises(st, d) => NotWritten(d, mem.phase, mem.steps, p, mem.ctx)
  BY <1>1, <1>2, FlushFields
<1> QED
  BY <1>3 DEF st

LEMMA StepWrite ==
  ASSUME mem \in State, NEW s \in Steps
  PROVE  LET st == [mem EXCEPT !.steps = @ \cup {s}] IN
         /\ Flush(st) => Written(mem.phase, mem.steps \cup {s}, mem.lastErr, mem.ctx)
         /\ \A d : FlushRaises(st, d) =>
              NotWritten(d, mem.phase, mem.steps \cup {s}, mem.lastErr, mem.ctx)
<1> DEFINE st == [mem EXCEPT !.steps = @ \cup {s}]
<1>1. st \in State
  BY StateType
<1>2. /\ st.phase = mem.phase /\ st.steps = mem.steps \cup {s}
      /\ st.lastErr = mem.lastErr /\ st.ctx = mem.ctx
  BY DEF State
<1> HIDE DEF st
<1>3. /\ Flush(st) => Written(mem.phase, mem.steps \cup {s}, mem.lastErr, mem.ctx)
      /\ \A d : FlushRaises(st, d) =>
           NotWritten(d, mem.phase, mem.steps \cup {s}, mem.lastErr, mem.ctx)
  BY <1>1, <1>2, FlushFields
<1> QED
  BY <1>3 DEF st

\* ensure_contexts stores the pair in the state it keeps, or in a fresh one.
LEMMA ContextWrite ==
  ASSUME mem \in State, NEW c \in Contexts
  PROVE  /\ Flush([mem EXCEPT !.ctx = c]) => Written(mem.phase, mem.steps, mem.lastErr, c)
         /\ Flush([NewState EXCEPT !.ctx = c]) => Written("init", {}, None, c)
<1>1. ASSUME NEW o \in State, Flush([o EXCEPT !.ctx = c])
      PROVE  Written(o.phase, o.steps, o.lastErr, c)
  <2> DEFINE st == [o EXCEPT !.ctx = c]
  <2>1. st \in State
    BY StateType
  <2>2. st.phase = o.phase /\ st.steps = o.steps /\ st.lastErr = o.lastErr /\ st.ctx = c
    BY DEF State
  <2>3. Flush(st)
    BY <1>1
  <2> HIDE DEF st
  <2> QED
    BY <2>1, <2>2, <2>3, FlushFields
<1>2. NewState.phase = "init" /\ NewState.steps = {} /\ NewState.lastErr = None
  BY DEF NewState
<1> QED
  BY <1>1, <1>2, NewStateType

\* state.reset(), and the error main adds to the reset state.
LEMMA ResetWrite ==
  /\ Flush(NewState) => Written("init", {}, None, None)
  /\ Flush(WithError(NewState, "init")) => Written("init", {}, "init", None)
  BY DEF Flush, Stamped, WithError, NewState, Written

LEMMA CheckpointedFields ==
  ASSUME mem \in State
  PROVE  /\ Checkpointed.phase = ckpt.phase /\ Checkpointed.steps = mem.steps
         /\ Checkpointed.lastErr = mem.lastErr /\ Checkpointed.ctx = mem.ctx
  BY DEF State, Checkpointed

LEMMA StampedFields ==
  ASSUME NEW st \in State
  PROVE  \A n \in {Stamped(st), [st EXCEPT !.stale = TRUE]} :
           /\ n.phase = st.phase /\ n.steps = st.steps
           /\ n.lastErr = st.lastErr /\ n.ctx = st.ctx
  BY DEF State, Stamped

\* A process is ahead of the file only where a write has raised.
LEMMA NextInSync ==
  ASSUME TypeInv, OrderInv, InSync, Next
  PROVE  InSync'
<1>m. mem \in State /\ disk \in State /\ run \in Invocations /\ dirty \in BOOLEAN
  BY DEF TypeInv, TypeOK
<1>t. mem.phase \in Phases /\ mem.lastErr \in Phases \cup {None}
  BY <1>m, StateType
<1> USE DEF store, control, history, InFlow, Handling
<1>d. pc' = "down" => InSync'
  BY DEF InSync
\* a written document whose phase is that of a handler, or that no handler runs on
<1>f. ASSUME NEW p, NEW s, NEW e, NEW c, Written(p, s, e, c), pc' \in Handling => p \in Work
      PROVE  InSync'
  BY <1>f DEF InSync, Written
\* a write that raises on the way out
<1>r. ASSUME NEW p, NEW e, NEW c, NotWritten(FALSE, p, mem.steps, e, c),
             ~dirty, pc # "down", pc' \notin InFlow \cup {"loaded", "dispatch"}
      PROVE  InSync'
  BY <1>r DEF InSync, NotWritten
<1>1. ASSUME NEW inv \in Invocations, Launch(inv) PROVE InSync'
  BY <1>1 DEF Launch, InSync
<1>2. CASE EnsureContexts
  BY <1>2 DEF EnsureContexts, InSync, Flush
<1>3. CASE BeginValidate \/ ResumeUnfinished
  BY <1>3 DEF BeginValidate, ResumeUnfinished, BeginFlow, InSync
<1>4. CASE ForceReset
  BY <1>4 DEF ForceReset, BeginFlow, InSync, Flush
<1>5. CASE RetryFailed
  <2>1. mem.lastErr \in Phases /\ ~dirty /\ pc = "dispatch"
    BY <1>5, PhaseNames DEF RetryFailed, InSync
  <2>2. \/ Flush([mem EXCEPT !.phase = mem.lastErr]) /\ pc' = "enter"
        \/ FlushRaises([mem EXCEPT !.phase = mem.lastErr], dirty) /\ pc' = "abort"
    BY <1>5 DEF RetryFailed
  <2> QED
    BY <1>m, <1>f, <1>r, <2>1, <2>2, PhaseWrite
<1>6. CASE EnterHandler
  <2>1. h \in 1..5 /\ Own[h] \in Work /\ Own[h] \in Phases /\ ~dirty /\ pc = "enter"
    BY <1>6, OwnType, PhaseNames DEF EnterHandler, InSync
  <2>2. \/ Flush([mem EXCEPT !.phase = Own[h]])
        \/ FlushRaises([mem EXCEPT !.phase = Own[h]], dirty) /\ pc' \in {"abort", "restoreRaise"}
    BY <1>6 DEF EnterHandler, Raised
  <2> QED
    BY <1>m, <1>f, <1>r, <2>1, <2>2, PhaseWrite
<1>7. CASE SkipHandler \/ PreflightPass \/ ModuleDone \/ SkipStep \/ RunStep
  BY <1>7 DEF SkipHandler, PreflightPass, ModuleDone, SkipStep, RunStep, InSync
<1>8. CASE PreflightFail
  BY <1>8 DEF PreflightFail, Raised, InSync
<1>9. CASE StepRaises
  BY <1>9 DEF StepRaises, InSync
<1>10. CASE Complete
  <2>1. ~dirty /\ pc = "enter" /\ "completed" \in Phases
    BY <1>10, PhaseNames DEF Complete, InSync
  <2>2. \/ pc' = "down"
        \/ FlushRaises([mem EXCEPT !.phase = "completed"], dirty) /\ pc' = "abort"
    BY <1>10 DEF Complete
  <2> QED
    BY <1>m, <1>d, <1>r, <2>1, <2>2, PhaseWrite
<1>11. CASE RecordStep
  <2>1. CurrentStep \in Steps /\ ~run.validate
    BY <1>11, CurrentStepType
       DEF RecordStep, TypeInv, ControlOK, CurrentStep, OrderInv, Validating
  <2>2. pc = "record" /\ UNCHANGED run
    BY <1>11 DEF RecordStep
  <2>3. ~dirty /\ mem.steps = disk.steps /\ mem.phase = disk.phase /\ mem.phase \in Work
    BY <2>2 DEF InSync
  <2>4. \/ Flush([mem EXCEPT !.steps = @ \cup {CurrentStep}])
        \/ /\ FlushRaises([mem EXCEPT !.steps = @ \cup {CurrentStep}], TRUE)
           /\ pc' \in {"abort", "report"}
    BY <1>11 DEF RecordStep
  <2>5. CASE Flush([mem EXCEPT !.steps = @ \cup {CurrentStep}])
    BY <1>m, <1>f, <2>1, <2>3, <2>5, StepWrite
  <2>6. CASE /\ FlushRaises([mem EXCEPT !.steps = @ \cup {CurrentStep}], TRUE)
             /\ pc' \in {"abort", "report"}
    <3>1. NotWritten(TRUE, mem.phase, mem.steps \cup {CurrentStep}, mem.lastErr, mem.ctx)
      BY <1>m, <2>1, <2>6, StepWrite
    <3> QED
      BY <2>1, <2>2, <2>3, <2>6, <3>1 DEF InSync, NotWritten
  <2> QED
    BY <2>4, <2>5, <2>6
<1>12. CASE ReportError
  <2>1. Own[h] \in Phases /\ mem.phase = Own[h]
    BY <1>12, <1>t DEF ReportError, OrderInv, InHandler
  <2>2. pc = "report" /\ UNCHANGED run /\ mem.phase \in Work
    BY <1>12 DEF ReportError, InSync
  <2>3. \/ Flush(WithError(mem, Own[h]))
        \/ FlushRaises(WithError(mem, Own[h]), dirty) /\ pc' = "abort"
    BY <1>12 DEF ReportError
  <2>4. CASE FlushRaises(WithError(mem, Own[h]), dirty) /\ pc' = "abort"
    <3>1. NotWritten(dirty, mem.phase, mem.steps, Own[h], mem.ctx)
      BY <1>m, <2>1, <2>4, ErrorWrite
    <3> QED
      BY <2>2, <2>4, <3>1 DEF InSync, NotWritten
  <2> QED
    BY <1>m, <1>f, <2>1, <2>2, <2>3, <2>4, ErrorWrite
<1>13. CASE FailPhase
  <2>1. pc = "failing" /\ ~dirty /\ mem.phase \in Work
    BY <1>13 DEF FailPhase, InSync
  <2>2. \/ Flush(WithError(mem, mem.phase))
        \/ /\ FlushRaises(WithError(mem, mem.phase), dirty)
           /\ pc' \in {"abort", "restoreRaise"}
        \/ pc' = "failed" /\ UNCHANGED store
    BY <1>13 DEF FailPhase, Raised
  <2>3. UNCHANGED run
    BY <1>13 DEF FailPhase
  <2>4. pc' = "failed" /\ UNCHANGED store => InSync'
    BY <2>1, <2>3 DEF InSync
  <2> QED
    BY <1>m, <1>t, <1>f, <1>r, <2>1, <2>2, <2>4, ErrorWrite
<1>14. CASE SetFailed
  <2>1. pc = "failed" /\ ~dirty /\ "failed" \in Phases
    BY <1>14, PhaseNames DEF SetFailed, InSync
  <2>2. \/ Flush([mem EXCEPT !.phase = "failed"]) /\ pc' \in {"restore", "down"}
        \/ /\ FlushRaises([mem EXCEPT !.phase = "failed"], dirty)
           /\ pc' \in {"abort", "restoreRaise"}
    BY <1>14 DEF SetFailed, Raised
  <2> QED
    BY <1>m, <1>f, <1>r, <2>1, <2>2, PhaseWrite
<1>15. CASE RestoreCheckpoint
  <2>1. Checkpointed.steps = mem.steps
    BY <1>m, CheckpointedFields
  <2> QED
    BY <1>15, <2>1 DEF RestoreCheckpoint, InSync, FlushRaises
<1>16. \/ LeaveAlone \/ EnsureContextsRaises \/ ForceResetRaises \/ Abort
       \/ Kill \/ TimePasses
       => pc' = "down"
  BY DEF LeaveAlone, EnsureContextsRaises, ForceResetRaises, Abort, Kill, TimePasses
<1>17. CASE Interrupt
  <2>1. CASE InTry
    <3>1. ~dirty /\ mem.steps = disk.steps
      BY <2>1 DEF InTry, InSync
    <3> QED
      BY <1>17, <2>1, <3>1 DEF Interrupt, InSync
  <2> QED
    BY <1>17, <1>d, <2>1 DEF Interrupt
<1> QED
  BY <1>d, <1>1, <1>2, <1>3, <1>4, <1>5, <1>6, <1>7, <1>8, <1>9, <1>10, <1>11,
     <1>12, <1>13, <1>14, <1>15, <1>16, <1>17
  DEF Next, ProcessStep, Fault

\* What names its hubs names those of the run that last recorded a step.
LEMMA NextOwner ==
  ASSUME TypeInv, InSync, OwnerInv, Next
  PROVE  OwnerInv'
<1>m. mem \in State /\ disk \in State /\ run \in Invocations /\ run.ctx \in Contexts
  BY InvocationType DEF TypeInv, TypeOK
<1>t. mem.phase \in Phases /\ mem.lastErr \in Phases \cup {None}
  BY <1>m, StateType
<1> USE DEF store, control, history
\* a write of the current context pair and steps, one that raises, and none
<1>w. ASSUME NEW p, NEW e, Written(p, mem.steps, e, mem.ctx),
             pc \notin {"down", "loaded"}, UNCHANGED <<run, owner>>
      PROVE  OwnerInv'
  BY <1>w DEF OwnerInv, Owned, Written
<1>n. ASSUME NEW d, NEW p, NEW e, NotWritten(d, p, mem.steps, e, mem.ctx),
             pc \notin {"down", "loaded"}, UNCHANGED <<run, owner>>
      PROVE  OwnerInv'
  BY <1>n DEF OwnerInv, Owned, NotWritten
<1>u. ASSUME UNCHANGED <<store, run, owner>>, pc \notin {"down", "loaded"} \/ pc' = "down"
      PROVE  OwnerInv'
  BY <1>u DEF OwnerInv, Owned
\* the end of a process
<1>d. ASSUME pc' = "down", UNCHANGED owner,
             \/ disk'.steps = disk.steps /\ disk'.ctx = disk.ctx
             \/ pc # "down" /\ disk'.steps = mem.steps /\ disk'.ctx = mem.ctx
      PROVE  OwnerInv'
  BY <1>d DEF OwnerInv, Owned
\* a fresh state
<1>z. ASSUME disk'.steps = {}, mem' = disk', mem'.ctx \in {run'.ctx, None} \/ pc' = "loaded"
      PROVE  OwnerInv'
  BY <1>z DEF OwnerInv, Owned
<1>1. ASSUME NEW inv \in Invocations, Launch(inv) PROVE OwnerInv'
  <2>1. CASE inv.reset
    BY <1>1, <1>z, <2>1 DEF Launch, NewState
  <2>2. CASE ~inv.reset
    BY <1>1, <2>2 DEF Launch, OwnerInv, Owned
  <2> QED
    BY <2>1, <2>2
<1>2. CASE EnsureContexts
  <2>0. mem = disk /\ UNCHANGED run /\ pc' = "dispatch"
    BY <1>2 DEF EnsureContexts, InSync
  <2>1. CASE ForeignState
    <3>1. Flush([NewState EXCEPT !.ctx = run.ctx])
      BY <1>2, <2>1 DEF EnsureContexts
    <3>2. Written("init", {}, None, run.ctx)
      BY <1>m, <3>1, ContextWrite
    <3> QED
      BY <1>z, <2>0, <3>2 DEF Written
  <2>2. CASE ~ForeignState /\ mem.ctx = run.ctx
    BY <1>2, <2>0, <2>2 DEF EnsureContexts, OwnerInv, Owned
  <2>3. CASE ~ForeignState /\ mem.ctx # run.ctx
    <3>1. Flush([mem EXCEPT !.ctx = run.ctx]) /\ mem.steps = {}
      BY <1>2, <2>3 DEF EnsureContexts, ForeignState, HasProgress
    <3>2. Written(mem.phase, mem.steps, mem.lastErr, run.ctx)
      BY <1>m, <3>1, ContextWrite
    <3> QED
      BY <1>z, <2>0, <3>1, <3>2 DEF Written
  <2> QED
    BY <2>1, <2>2, <2>3
<1>3. CASE BeginValidate \/ ResumeUnfinished \/ LeaveAlone
  BY <1>3, <1>u DEF BeginValidate, ResumeUnfinished, LeaveAlone, BeginFlow
<1>4. CASE ForceReset
  BY <1>4, <1>z, ResetWrite DEF ForceReset, Written
<1>5. CASE RetryFailed
  <2>1. mem.lastErr \in Phases /\ pc = "dispatch" /\ UNCHANGED <<run, owner>>
    BY <1>5, PhaseNames DEF RetryFailed
  <2>2. \/ Flush([mem EXCEPT !.phase = mem.lastErr])
        \/ FlushRaises([mem EXCEPT !.phase = mem.lastErr], dirty)
    BY <1>5 DEF RetryFailed
  <2> QED
    BY <1>m, <1>w, <1>n, <2>1, <2>2, PhaseWrite
<1>6. CASE EnterHandler
  <2>1. Own[h] \in Phases /\ pc = "enter" /\ UNCHANGED <<run, owner>>
    BY <1>6, OwnType, PhaseNames DEF EnterHandler
  <2>2. \/ Flush([mem EXCEPT !.phase = Own[h]])
        \/ FlushRaises([mem EXCEPT !.phase = Own[h]], dirty)
    BY <1>6 DEF EnterHandler
  <2> QED
    BY <1>m, <1>w, <1>n, <2>1, <2>2, PhaseWrite
<1>7. CASE SkipHandler \/ PreflightPass \/ ModuleDone \/ SkipStep \/ RunStep
           \/ PreflightFail \/ StepRaises
  BY <1>7, <1>u DEF SkipHandler, PreflightPass, ModuleDone, SkipStep, RunStep,
     PreflightFail, StepRaises
<1>8. CASE Complete
  <2>1. "completed" \in Phases /\ pc = "enter" /\ UNCHANGED <<run, owner>>
    BY <1>8, PhaseNames DEF Complete
  <2>2. \/ Flush([mem EXCEPT !.phase = "completed"])
        \/ FlushRaises([mem EXCEPT !.phase = "completed"], dirty)
    BY <1>8 DEF Complete
  <2> QED
    BY <1>m, <1>w, <1>n, <2>1, <2>2, PhaseWrite
<1>9. CASE RecordStep
  <2>1. /\ CurrentStep \in Steps
        /\ pc = "record" /\ UNCHANGED run /\ owner' = run.ctx
    BY <1>9, CurrentStepType DEF RecordStep, TypeInv, ControlOK, CurrentStep
  <2>2. \/ Flush([mem EXCEPT !.steps = @ \cup {CurrentStep}])
        \/ FlushRaises([mem EXCEPT !.steps = @ \cup {CurrentStep}], TRUE)
    BY <1>9 DEF RecordStep
  <2>3. mem.ctx = disk.ctx /\ mem.ctx \in {run.ctx, None}
    BY <2>1 DEF OwnerInv
  <2>4. \/ Written(mem.phase, mem.steps \cup {CurrentStep}, mem.lastErr, mem.ctx)
        \/ NotWritten(TRUE, mem.phase, mem.steps \cup {CurrentStep}, mem.lastErr, mem.ctx)
    BY <1>m, <2>1, <2>2, StepWrite
  <2> QED
    BY <2>1, <2>3, <2>4 DEF OwnerInv, Owned, Written, NotWritten
<1>10. CASE ReportError
  <2>1. Own[h] \in Phases /\ pc = "report" /\ UNCHANGED <<run, owner>>
    BY <1>10, OwnType, PhaseNames DEF ReportError, TypeInv, ControlOK
  <2>2. Flush(WithError(mem, Own[h])) \/ FlushRaises(WithError(mem, Own[h]), dirty)
    BY <1>10 DEF ReportError
  <2> QED
    BY <1>m, <1>w, <1>n, <2>1, <2>2, ErrorWrite
<1>11. CASE FailPhase
  <2>1. pc = "failing" /\ UNCHANGED <<run, owner>>
    BY <1>11 DEF FailPhase
  <2>2. \/ Flush(WithError(mem, mem.phase)) \/ FlushRaises(WithError(mem, mem.phase), dirty)
        \/ UNCHANGED store
    BY <1>11 DEF FailPhase
  <2> QED
    BY <1>m, <1>t, <1>w, <1>n, <1>u, <2>1, <2>2, ErrorWrite
<1>12. CASE SetFailed
  <2>1. "failed" \in Phases /\ pc = "failed" /\ UNCHANGED <<run, owner>>
    BY <1>12, PhaseNames DEF SetFailed
  <2>2. \/ Flush([mem EXCEPT !.phase = "failed"])
        \/ FlushRaises([mem EXCEPT !.phase = "failed"], dirty)
    BY <1>12 DEF SetFailed
  <2> QED
    BY <1>m, <1>w, <1>n, <2>1, <2>2, PhaseWrite
<1>k. Checkpointed.steps = mem.steps /\ Checkpointed.ctx = mem.ctx
  BY <1>m, CheckpointedFields
<1>s. /\ Stamped(mem).steps = mem.steps /\ Stamped(mem).ctx = mem.ctx
      /\ [disk EXCEPT !.stale = TRUE].steps = disk.steps
      /\ [disk EXCEPT !.stale = TRUE].ctx = disk.ctx
  BY <1>m, StampedFields
<1>13. CASE RestoreCheckpoint
  BY <1>13, <1>k DEF RestoreCheckpoint, FlushRaises, OwnerInv, Owned
<1>14. CASE Abort
  <2>1. pc = "abort" /\ pc' = "down" /\ UNCHANGED <<run, owner>>
    BY <1>14 DEF Abort
  <2>2. Flush(WithError(mem, mem.phase)) \/ FlushRaises(WithError(mem, mem.phase), dirty)
    BY <1>14 DEF Abort
  <2> QED
    BY <1>m, <1>t, <1>w, <1>n, <2>1, <2>2, ErrorWrite
<1>15. CASE Interrupt
  <2>1. CASE InTry
    <3>1. UNCHANGED <<store, run, owner>> /\ pc \notin {"down", "loaded"}
      BY <1>15, <2>1 DEF Interrupt, InTry, InSync, TypeInv, TypeOK
    <3> QED
      BY <1>u, <3>1
  <2>2. CASE ~InTry
    BY <1>15, <1>d, <1>s, <2>2 DEF Interrupt
  <2> QED
    BY <2>1, <2>2
<1>16. CASE Kill
  BY <1>16, <1>d, <1>s DEF Kill
<1>17. CASE TimePasses
  BY <1>17, <1>d, <1>s DEF TimePasses
<1>18. CASE EnsureContextsRaises
  BY <1>18, <1>u DEF EnsureContextsRaises
<1>19. CASE ForceResetRaises
  BY <1>19, <1>z, <1>u, ResetWrite DEF ForceResetRaises, Written
<1> QED
  BY <1>1, <1>2, <1>3, <1>4, <1>5, <1>6, <1>7, <1>8, <1>9, <1>10, <1>11,
     <1>12, <1>13, <1>14, <1>15, <1>16, <1>17, <1>18, <1>19
  DEF Next, ProcessStep, Fault

\* A validate-only run fails in preflight, and is back at its checkpoint when
\* its exception reaches main.
LEMMA NextValidate ==
  ASSUME TypeInv, OrderInv, ValidateInv, Next
  PROVE  ValidateInv'
<1>m. mem \in State /\ run \in Invocations /\ run.validate \in BOOLEAN
  BY InvocationType DEF TypeInv, TypeOK
<1>t. mem.phase \in Phases
  BY <1>m, StateType
<1> USE DEF store, control, history
<1>a. pc' \notin {"failing", "failed", "abort"} => ValidateInv'
  BY DEF ValidateInv
<1>b. ~run.validate /\ UNCHANGED run => ValidateInv'
  BY DEF ValidateInv
<1>1. ASSUME NEW inv \in Invocations, Launch(inv) PROVE ValidateInv'
  BY <1>1, <1>a DEF Launch
<1>2. EnsureContexts \/ BeginValidate => ValidateInv'
  BY <1>a DEF EnsureContexts, BeginValidate, BeginFlow
<1>3. ForceReset \/ RetryFailed \/ ResumeUnfinished \/ SkipHandler => ValidateInv'
  BY <1>b DEF ForceReset, RetryFailed, ResumeUnfinished, SkipHandler
<1>4. EnterHandler => ValidateInv'
  BY <1>a, <1>b DEF EnterHandler, Raised
<1>5. PreflightPass \/ SkipStep \/ RunStep \/ ModuleDone => ValidateInv'
  BY <1>a DEF PreflightPass, SkipStep, RunStep, ModuleDone
<1>6. PreflightFail => ValidateInv'
  BY DEF PreflightFail, Raised, OrderInv, InHandler, ValidateInv
<1>7. Complete => ValidateInv'
  BY <1>b DEF Complete, OrderInv, Validating
<1>8. StepRaises \/ RecordStep \/ ReportError => ValidateInv'
  BY <1>b DEF StepRaises, RecordStep, ReportError, OrderInv, Validating
<1>9. CASE FailPhase
  <2>1. pc = "failing" /\ UNCHANGED <<run, ckpt>>
    BY <1>9 DEF FailPhase
  <2>2. \/ Flush(WithError(mem, mem.phase)) /\ pc' = "failed"
        \/ FlushRaises(WithError(mem, mem.phase), dirty) /\ pc' = Raised
        \/ pc' = "failed" /\ UNCHANGED mem
    BY <1>9 DEF FailPhase
  <2>3. mem'.phase = mem.phase
    BY <1>m, <1>t, <2>2, ErrorWrite DEF Written, NotWritten
  <2> QED
    BY <2>1, <2>2, <2>3 DEF ValidateInv, Raised
<1>10. SetFailed => ValidateInv'
  BY <1>a, <1>b DEF SetFailed, Raised
<1>11. CASE RestoreCheckpoint
  <2>1. mem'.phase = ckpt.phase /\ UNCHANGED <<run, ckpt>> /\ pc' \in {"down", "abort"}
    BY <1>11, <1>m, CheckpointedFields DEF RestoreCheckpoint, FlushRaises
  <2> QED
    BY <2>1 DEF ValidateInv
<1>12. \/ LeaveAlone \/ EnsureContextsRaises \/ ForceResetRaises \/ Abort
       \/ Interrupt \/ Kill \/ TimePasses
       => pc' \in {"down", "restore"}
  BY DEF LeaveAlone, EnsureContextsRaises, ForceResetRaises, Abort, Interrupt, Kill,
         TimePasses
<1> QED
  BY <1>a, <1>1, <1>2, <1>3, <1>4, <1>5, <1>6, <1>7, <1>8, <1>9, <1>10, <1>11, <1>12
  DEF Next, ProcessStep, Fault

\* The last error of a failed document is that of the phase it failed in.
LEMMA NextFailed ==
  ASSUME TypeInv, OrderInv, InSync, ValidateInv, FailedInv, Next
  PROVE  FailedInv'
<1>m. mem \in State /\ disk \in State /\ run \in Invocations /\ run.validate \in BOOLEAN
  BY InvocationType DEF TypeInv, TypeOK
<1>t. mem.phase \in Phases /\ mem.lastErr \in Phases \cup {None}
  BY <1>m, StateType
<1>q. "failed" \notin Work /\ "failed" \notin Retryable /\ None # "failed"
  BY NoneAssumption DEF Work, Retryable, Phases
<1> USE DEF store, control, history
\* a phase that is not "failed", written or not
<1>w. ASSUME NEW p, NEW s, NEW c, p # "failed", pc' # "failed", pc # "down",
             UNCHANGED <<run, ckpt, failedAt, stray>>,
             \/ Written(p, s, mem.lastErr, c)
             \/ \E d : NotWritten(d, p, s, mem.lastErr, c)
      PROVE  FailedInv'
  BY <1>w DEF FailedInv, FailedFrom, Written, NotWritten
<1>u. ASSUME UNCHANGED <<store, run, ckpt, failedAt, stray>>, pc' # "failed", pc # "down",
             pc' # "abort" \/ mem.phase # "failed"
      PROVE  FailedInv'
  BY <1>u DEF FailedInv, FailedFrom
\* the end of a process
<1>d. ASSUME pc' = "down", mem' = disk', UNCHANGED failedAt,
             UNCHANGED stray,
             \/ disk'.phase = disk.phase /\ disk'.lastErr = disk.lastErr
             \/ disk'.phase = mem.phase /\ disk'.lastErr = mem.lastErr
      PROVE  FailedInv'
  BY <1>d DEF FailedInv, FailedFrom
<1>1. ASSUME NEW inv \in Invocations, Launch(inv) PROVE FailedInv'
  <2>1. CASE inv.reset
    BY <1>1, <1>q, <2>1 DEF Launch, NewState, FailedInv
  <2>2. CASE ~inv.reset
    BY <1>1, <1>q, <2>2 DEF Launch, FailedInv, FailedFrom
  <2> QED
    BY <2>1, <2>2
<1>2. CASE EnsureContexts
  <2>0. /\ mem = disk /\ UNCHANGED <<run, ckpt>> /\ pc' = "dispatch" /\ run.ctx \in Contexts
        /\ ckpt.phase = None
    BY <1>2, <1>m, InvocationType DEF EnsureContexts, InSync, OrderInv, Validating
  <2>1. CASE ForeignState
    <3>1. Flush([NewState EXCEPT !.ctx = run.ctx])
      BY <1>2, <2>1 DEF EnsureContexts
    <3>2. Written("init", {}, None, run.ctx)
      BY <1>m, <2>0, <3>1, ContextWrite
    <3> QED
      BY <1>q, <2>0, <3>2 DEF Written, FailedInv
  <2>2. CASE ~ForeignState /\ mem.ctx = run.ctx
    BY <1>2, <1>q, <2>0, <2>2 DEF EnsureContexts, FailedInv, FailedFrom
  <2>3. CASE ~ForeignState /\ mem.ctx # run.ctx
    <3>1. Flush([mem EXCEPT !.ctx = run.ctx]) /\ UNCHANGED <<failedAt, stray>>
      BY <1>2, <2>3 DEF EnsureContexts
    <3>2. Written(mem.phase, mem.steps, mem.lastErr, run.ctx)
      BY <1>m, <2>0, <3>1, ContextWrite
    <3> QED
      BY <1>q, <2>0, <3>1, <3>2 DEF Written, FailedInv, FailedFrom
  <2> QED
    BY <2>1, <2>2, <2>3
<1>3. CASE BeginValidate
  BY <1>3 DEF BeginValidate, BeginFlow, FailedInv, FailedFrom
<1>4. CASE ForceReset
  <2>1. Written("init", {}, None, None) /\ ~run'.validate /\ pc' = "enter"
    BY <1>4, ResetWrite DEF ForceReset, BeginFlow
  <2> QED
    BY <2>1 DEF Written, FailedInv
<1>5. CASE RetryFailed
  <2>1. /\ mem.lastErr \in Phases /\ mem.lastErr # "failed"
        /\ pc' # "failed" /\ pc # "down" /\ UNCHANGED <<run, ckpt, failedAt, stray>>
    BY <1>5, <1>q, PhaseNames DEF RetryFailed
  <2>2. \/ Flush([mem EXCEPT !.phase = mem.lastErr])
        \/ FlushRaises([mem EXCEPT !.phase = mem.lastErr], dirty)
    BY <1>5 DEF RetryFailed
  <2> QED
    BY <1>m, <1>w, <2>1, <2>2, PhaseWrite
<1>6. CASE EnterHandler
  <2>1. /\ Own[h] \in Phases /\ Own[h] # "failed"
        /\ pc' # "failed" /\ pc # "down" /\ UNCHANGED <<run, ckpt, failedAt, stray>>
    BY <1>6, <1>q, OwnType, PhaseNames DEF EnterHandler, Raised
  <2>2. \/ Flush([mem EXCEPT !.phase = Own[h]])
        \/ FlushRaises([mem EXCEPT !.phase = Own[h]], dirty)
    BY <1>6 DEF EnterHandler
  <2> QED
    BY <1>m, <1>w, <2>1, <2>2, PhaseWrite
<1>7. CASE SkipHandler \/ PreflightPass \/ ModuleDone \/ SkipStep \/ RunStep
           \/ PreflightFail \/ StepRaises \/ ResumeUnfinished \/ LeaveAlone
           \/ EnsureContextsRaises
  <2>1. PreflightFail \/ StepRaises => mem.phase # "failed"
    BY <1>q DEF PreflightFail, StepRaises, InSync, Handling, InFlow
  <2> QED
    BY <1>7, <1>u, <2>1 DEF SkipHandler, PreflightPass, ModuleDone, SkipStep, RunStep,
       PreflightFail, StepRaises, ResumeUnfinished, LeaveAlone, BeginFlow, Raised,
       EnsureContextsRaises
<1>8. CASE Complete
  <2>1. /\ "completed" \in Phases /\ pc' # "failed" /\ pc # "down"
        /\ UNCHANGED <<run, ckpt, failedAt, stray>>
    BY <1>8, PhaseNames DEF Complete
  <2>2. \/ Flush([mem EXCEPT !.phase = "completed"])
        \/ FlushRaises([mem EXCEPT !.phase = "completed"], dirty)
    BY <1>8 DEF Complete
  <2> QED
    BY <1>m, <1>w, <2>1, <2>2, PhaseWrite
<1>9. CASE RecordStep
  <2>1. /\ CurrentStep \in Steps /\ mem.phase # "failed"
        /\ pc' # "failed" /\ pc # "down" /\ UNCHANGED <<run, ckpt, failedAt, stray>>
    BY <1>9, <1>q, CurrentStepType
       DEF RecordStep, TypeInv, ControlOK, CurrentStep, InSync, Handling, InFlow
  <2>2. \/ Flush([mem EXCEPT !.steps = @ \cup {CurrentStep}])
        \/ FlushRaises([mem EXCEPT !.steps = @ \cup {CurrentStep}], TRUE)
    BY <1>9 DEF RecordStep
  <2> QED
    BY <1>m, <1>w, <2>1, <2>2, StepWrite
<1>10. CASE ReportError
  <2>1. /\ Own[h] \in Phases /\ mem.phase # "failed" /\ disk.phase # "failed"
        /\ pc' \in {"failing", "abort"} /\ ~run.validate /\ UNCHANGED run
    BY <1>10, <1>q, OwnType, PhaseNames
       DEF ReportError, TypeInv, ControlOK, InSync, InFlow, Handling, OrderInv, Validating
  <2>2. Flush(WithError(mem, Own[h])) \/ FlushRaises(WithError(mem, Own[h]), dirty)
    BY <1>10 DEF ReportError
  <2>3. \/ Written(mem.phase, mem.steps, Own[h], mem.ctx)
        \/ NotWritten(dirty, mem.phase, mem.steps, Own[h], mem.ctx)
    BY <1>m, <2>1, <2>2, ErrorWrite
  <2> QED
    BY <2>1, <2>3 DEF Written, NotWritten, FailedInv
<1>11. CASE FailPhase
  <2>1. /\ mem.phase # "failed" /\ disk.phase # "failed"
        /\ run.validate => mem.phase = "preflight" /\ "preflight" \in stray'
        /\ stray \subseteq stray' /\ UNCHANGED <<run, ckpt, failedAt>>
    BY <1>11, <1>q DEF FailPhase, InSync, InFlow, Handling, ValidateInv
  <2>2. \/ Flush(WithError(mem, mem.phase)) \/ FlushRaises(WithError(mem, mem.phase), dirty)
        \/ UNCHANGED store /\ mem.lastErr = mem.phase
    BY <1>11 DEF FailPhase
  <2>3. mem'.phase = mem.phase /\ mem'.lastErr = mem.phase
        /\ (disk'.phase = disk.phase \/ disk'.phase = mem.phase)
    BY <1>m, <1>t, <2>2, ErrorWrite DEF Written, NotWritten
  <2> QED
    BY <2>1, <2>3 DEF FailedInv, FailedFrom
<1>12. CASE SetFailed
  <2>1. /\ disk.phase # "failed" /\ mem.lastErr = mem.phase
        /\ run.validate => mem.phase = "preflight" /\ "preflight" \in stray /\ stray' = stray
        /\ ~run.validate => mem.phase = failedAt'
        /\ pc' # "failed" /\ UNCHANGED <<run, ckpt>> /\ "failed" \in Phases
    BY <1>12, <1>q, PhaseNames
       DEF SetFailed, Raised, InSync, InFlow, Handling, ValidateInv, FailedInv
  <2>2. \/ Flush([mem EXCEPT !.phase = "failed"]) /\ pc' # "abort"
        \/ /\ FlushRaises([mem EXCEPT !.phase = "failed"], dirty)
           /\ ~run.validate => "failed" \in stray'
    BY <1>12 DEF SetFailed
  <2>3. /\ mem'.lastErr = mem.phase
        /\ disk' = mem' \/ disk' = disk
    BY <1>m, <2>1, <2>2, PhaseWrite DEF Written, NotWritten
  <2> QED
    BY <2>1, <2>2, <2>3 DEF FailedInv, FailedFrom
<1>k. Checkpointed.phase = ckpt.phase /\ Checkpointed.lastErr = mem.lastErr
  BY <1>m, CheckpointedFields
<1>s. /\ Stamped(mem).phase = mem.phase /\ Stamped(mem).lastErr = mem.lastErr
      /\ [disk EXCEPT !.stale = TRUE].phase = disk.phase
      /\ [disk EXCEPT !.stale = TRUE].lastErr = disk.lastErr
  BY <1>m, StampedFields
<1>13. CASE RestoreCheckpoint
  <2>1. run.validate /\ pc # "down" /\ UNCHANGED <<run, ckpt, failedAt, stray>> /\ pc' # "failed"
    BY <1>13 DEF RestoreCheckpoint, TypeInv, ControlOK
  <2>2. mem' = Checkpointed /\ (disk' = mem' \/ disk' = disk)
    BY <1>13 DEF RestoreCheckpoint, FlushRaises
  <2> QED
    BY <1>k, <2>1, <2>2 DEF FailedInv, FailedFrom
<1>14. CASE Abort
  <2>1. /\ pc = "abort" /\ pc' = "down" /\ UNCHANGED <<run, ckpt, failedAt>>
        /\ stray \subseteq stray' /\ (run.validate => mem.phase \in stray')
    BY <1>14 DEF Abort
  <2>2. Flush(WithError(mem, mem.phase)) \/ FlushRaises(WithError(mem, mem.phase), dirty)
    BY <1>14 DEF Abort
  <2>3. /\ mem'.phase = mem.phase /\ mem'.lastErr = mem.phase
        /\ disk' = mem' \/ disk' = disk
    BY <1>m, <1>t, <2>2, ErrorWrite DEF Written, NotWritten
  <2>4. mem.phase = "failed" => "failed" \in stray'
    BY <2>1 DEF FailedInv
  <2> QED
    BY <2>1, <2>3, <2>4 DEF FailedInv, FailedFrom
<1>15. CASE Interrupt
  <2>1. CASE InTry
    <3>1. UNCHANGED <<store, run, ckpt, failedAt, stray>> /\ pc' = "restore" /\ pc # "down"
      BY <1>15, <2>1 DEF Interrupt, InTry, InSync, TypeInv, TypeOK
    <3> QED
      BY <1>u, <3>1
  <2>2. CASE ~InTry
    BY <1>15, <1>d, <1>s, <2>2 DEF Interrupt
  <2> QED
    BY <2>1, <2>2
<1>16. CASE Kill
  BY <1>16, <1>d, <1>s DEF Kill
<1>17. CASE TimePasses
  BY <1>17, <1>d, <1>s DEF TimePasses
<1>19. CASE ForceResetRaises
  <2>1. UNCHANGED <<store, run, ckpt, failedAt, stray>> => FailedInv'
    BY <1>19, <1>u DEF ForceResetRaises
  <2>2. Flush(WithError(NewState, "init")) => FailedInv'
    BY <1>19, ResetWrite DEF ForceResetRaises, Written, FailedInv
  <2> QED
    BY <1>19, <2>1, <2>2 DEF ForceResetRaises
<1> QED
  BY <1>1, <1>2, <1>3, <1>4, <1>5, <1>6, <1>7, <1>8, <1>9, <1>10, <1>11,
     <1>12, <1>13, <1>14, <1>15, <1>16, <1>17, <1>19
  DEF Next, ProcessStep, Fault

-----------------------------------------------------------------------------
(* What a run that failed, that validates or that runs again may rely on. *)

FileInv ==
  /\ TypeInv /\ OrderInv /\ AppliedInv
  /\ InSync /\ OwnerInv /\ ValidateInv /\ FailedInv

\* The whole invariant of memory, file and history, on which the theorems below
\* rest.
LEMMA FileInvariant == Spec => []FileInv
<1>1. Init => FileInv
  <2> SUFFICES ASSUME Init PROVE FileInv
    OBVIOUS
  <2>1. /\ mem = disk /\ disk.phase = "init" /\ disk.steps = {} /\ disk.lastErr = None
        /\ mem.phase = "init" /\ mem.steps = {} /\ pc = "down"
    BY DEF Init, NewState
  <2>2. AppliedInv /\ InSync /\ OwnerInv /\ ValidateInv /\ FailedInv
    BY <2>1 DEF AppliedInv, InSync, InFlow, Handling, OwnerInv, Owned, ValidateInv, FailedInv
  <2> QED
    BY <2>2, InitType, InitOrder DEF FileInv
<1>2. FileInv /\ [Next]_vars => FileInv'
  <2> SUFFICES ASSUME FileInv, [Next]_vars PROVE FileInv'
    OBVIOUS
  <2>1. TypeInv' /\ AppliedInv'
    BY NextType, NextApplied DEF FileInv
  <2>2. CASE Next
    <3>1. OrderInv'
      BY <2>2, NextPlaced, NextPosition DEF FileInv, OrderInv
    <3>2. InSync' /\ OwnerInv' /\ ValidateInv' /\ FailedInv'
      BY <2>2, NextInSync, NextOwner, NextValidate, NextFailed DEF FileInv
    <3> QED
      BY <2>1, <3>1, <3>2 DEF FileInv
  <2>3. CASE UNCHANGED vars
    <3>1. OrderInv'
      BY <2>3 DEF vars, FileInv, OrderInv, AtEnter, InHandler, Validating
    <3>2. InSync' /\ OwnerInv' /\ ValidateInv' /\ FailedInv'
      BY <2>3 DEF vars, FileInv, InSync, OwnerInv, Owned, ValidateInv, FailedInv, FailedFrom
    <3> QED
      BY <2>1, <3>1, <3>2 DEF FileInv
  <2> QED
    BY <2>2, <2>3
<1> QED
  BY <1>1, <1>2, PTL DEF Spec

\* get_last_error_phase and _fail_phase: however a run failed, and whatever was
\* retried, validated, killed or left unwritten before, the error that decides
\* where the next run starts is that of the phase the run failed in, unless a
\* validate-only run, or main after a failed write of FAILED, added one since.
THEOREM FailedRunsRetry == Spec => []RetriesWhereItFailed
<1>1. FileInv => RetriesWhereItFailed
  BY DEF FileInv, FailedInv, FailedFrom, RetriesWhereItFailed
<1> QED
  BY <1>1, FileInvariant, PTL

\* restore_runtime_checkpoint: a validate-only run ends with the phase it found in
\* the file, unless it is killed, or interrupted or refused a write at the very
\* point where the phase is being put back.
THEOREM ValidationIsNeutral == Spec => ValidateOnlyKeepsPhase
<1>1. FileInv /\ [Next]_vars =>
        [pc # "down" /\ pc' = "down" /\ run.validate /\ ckpt.phase # None =>
           \/ disk'.phase = ckpt.phase
           \/ Kill
           \/ pc \in {"restore", "restoreRaise", "abort"} /\ faults' > faults]_vars
  <2> SUFFICES ASSUME FileInv, Next, pc # "down", pc' = "down",
                      run.validate, ckpt.phase # None
               PROVE  \/ disk'.phase = ckpt.phase
                      \/ Kill
                      \/ pc \in {"restore", "restoreRaise", "abort"} /\ faults' > faults
    OBVIOUS
  <2>m. mem \in State /\ mem.phase \in Phases /\ faults \in Nat
    BY StateType DEF FileInv, TypeInv, TypeOK
  <2>k. Checkpointed.phase = ckpt.phase
    BY <2>m, CheckpointedFields
  <2>f. Adverse => faults' > faults
    BY <2>m DEF Adverse
  <2>1. pc \notin {"loaded", "dispatch", "work", "record", "report"}
    BY DEF FileInv, OrderInv, Validating
  <2>2. RestoreCheckpoint => disk'.phase = ckpt.phase
    BY <2>k DEF RestoreCheckpoint
  <2>3. CASE Abort
    <3>1. pc = "abort" /\ mem.phase = ckpt.phase
      BY <2>3 DEF Abort, FileInv, ValidateInv
    <3>2. \/ Flush(WithError(mem, mem.phase))
          \/ FlushRaises(WithError(mem, mem.phase), dirty)
      BY <2>3 DEF Abort
    <3>3. Flush(WithError(mem, mem.phase)) => disk'.phase = mem.phase
      BY <2>m, ErrorWrite DEF Written
    <3>4. FlushRaises(WithError(mem, mem.phase), dirty) => faults' > faults
      BY <2>m DEF FlushRaises
    <3> QED
      BY <3>1, <3>2, <3>3, <3>4
  <2>4. Interrupt => pc \in {"restore", "restoreRaise", "abort"} /\ faults' > faults
    BY <2>1, <2>f DEF Interrupt, InTry, TypeInv, TypeOK, Labels, FileInv
  <2>5. ~Complete
    BY <2>m DEF Complete, FileInv, OrderInv, Validating
  <2>6. ~SetFailed
    BY DEF SetFailed, Raised
  <2>7. ~(EnterHandler \/ FailPhase \/ PreflightPass \/ PreflightFail \/ SkipHandler)
    BY DEF EnterHandler, FailPhase, PreflightPass, PreflightFail, SkipHandler, Raised
  <2>8. ~(\/ EnsureContexts \/ EnsureContextsRaises \/ BeginValidate \/ ForceReset
          \/ ForceResetRaises \/ LeaveAlone \/ RetryFailed \/ ResumeUnfinished)
    BY <2>1 DEF EnsureContexts, EnsureContextsRaises, BeginValidate, ForceReset,
       ForceResetRaises, LeaveAlone, RetryFailed, ResumeUnfinished
  <2>9. ~(SkipStep \/ RunStep \/ RecordStep \/ StepRaises \/ ModuleDone \/ ReportError)
    BY <2>1 DEF SkipStep, RunStep, RecordStep, StepRaises, ModuleDone, ReportError
  <2>10. ~(TimePasses \/ \E inv \in Invocations : Launch(inv))
    BY DEF TimePasses, Launch
  <2> QED
    BY <2>2, <2>3, <2>4, <2>5, <2>6, <2>7, <2>8, <2>9, <2>10 DEF Next, ProcessStep, Fault
<1> QED
  BY <1>1, FileInvariant, PTL DEF Spec, ValidateOnlyKeepsPhase

\* Every step of the machine as the file and the hubs see it: work, a record, the
\* record of a step whose own write had raised, a reset the operator asked for,
\* or nothing but a change of phase.
ResetAsked ==
  \/ run'.reset
  \/ pc = "dispatch" /\ run.force
  \/ pc = "loaded" /\ ForeignState

LEMMA FileMoves ==
  ASSUME FileInv, Next
  PROVE  \/ RunStep \/ RecordStep
         \/ UNCHANGED <<applied, tainted>> /\ disk'.steps = disk.steps
         \/ /\ UNCHANGED <<applied, tainted>> /\ dirty /\ pc # "down"
            /\ disk'.steps = mem.steps /\ disk'.phase = disk.phase
         \/ Forgotten /\ disk'.steps = {} /\ disk'.phase = "init" /\ ResetAsked
<1> DEFINE Moved == \/ UNCHANGED <<applied, tainted>> /\ disk'.steps = disk.steps
                    \/ /\ UNCHANGED <<applied, tainted>> /\ dirty /\ pc # "down"
                       /\ disk'.steps = mem.steps /\ disk'.phase = disk.phase
<1> DEFINE Reset == Forgotten /\ disk'.steps = {} /\ disk'.phase = "init" /\ ResetAsked
<1>m. mem \in State /\ disk \in State /\ run \in Invocations /\ run.ctx \in Contexts
  BY InvocationType DEF FileInv, TypeInv, TypeOK
<1>t. mem.phase \in Phases /\ mem.lastErr \in Phases \cup {None}
  BY <1>m, StateType
<1>s. InSync
  BY DEF FileInv
<1> USE DEF store, control, history
\* memory reaches the file as it is, with another phase, or not at all
<1>w. ASSUME pc # "down", UNCHANGED <<applied, tainted>>,
             \/ disk' = disk
             \/ disk'.steps = mem.steps /\ disk'.phase = mem.phase
             \/ ~dirty /\ disk'.steps = mem.steps
      PROVE  Moved
  BY <1>w, <1>s DEF InSync
<1>1. ASSUME NEW inv \in Invocations, Launch(inv) PROVE Moved \/ Reset
  BY <1>1 DEF Launch, NewState, ResetAsked
<1>2. CASE EnsureContexts
  <2>1. CASE ForeignState
    <3>1. Flush([NewState EXCEPT !.ctx = run.ctx]) /\ Forgotten /\ ResetAsked
      BY <1>2, <2>1 DEF EnsureContexts, ResetAsked
    <3>2. Written("init", {}, None, run.ctx)
      BY <1>m, <3>1, ContextWrite
    <3> QED
      BY <3>1, <3>2 DEF Written
  <2>2. CASE ~ForeignState
    <3>1. pc = "loaded" /\ UNCHANGED <<applied, tainted>> /\ (disk' = disk \/ Flush([mem EXCEPT !.ctx = run.ctx]))
      BY <1>2, <2>2 DEF EnsureContexts
    <3>2. Flush([mem EXCEPT !.ctx = run.ctx]) => Written(mem.phase, mem.steps, mem.lastErr, run.ctx)
      BY <1>m, ContextWrite
    <3> QED
      BY <1>w, <3>1, <3>2 DEF Written
  <2> QED
    BY <2>1, <2>2
<1>3. CASE ForceReset
  BY <1>3, ResetWrite DEF ForceReset, Written, ResetAsked
<1>4. CASE ForceResetRaises
  <2>1. UNCHANGED <<store, history>> => Moved
    OBVIOUS
  <2>2. Flush(WithError(NewState, "init")) /\ Forgotten => Reset
    BY <1>4, ResetWrite DEF ForceResetRaises, Written, ResetAsked
  <2> QED
    BY <1>4, <2>1, <2>2 DEF ForceResetRaises
<1>5. CASE RetryFailed
  <2>1. mem.lastErr \in Phases /\ pc = "dispatch" /\ UNCHANGED <<applied, tainted>> /\ ~dirty
    BY <1>5, <1>s, PhaseNames DEF RetryFailed, InSync
  <2>2. \/ Flush([mem EXCEPT !.phase = mem.lastErr])
        \/ FlushRaises([mem EXCEPT !.phase = mem.lastErr], dirty)
    BY <1>5 DEF RetryFailed
  <2> QED
    BY <1>m, <1>w, <2>1, <2>2, PhaseWrite DEF Written, NotWritten
<1>6. CASE EnterHandler
  <2>1. Own[h] \in Phases /\ pc = "enter" /\ UNCHANGED <<applied, tainted>> /\ ~dirty
    BY <1>6, <1>s, OwnType, PhaseNames DEF EnterHandler, InSync
  <2>2. \/ Flush([mem EXCEPT !.phase = Own[h]])
        \/ FlushRaises([mem EXCEPT !.phase = Own[h]], dirty)
    BY <1>6 DEF EnterHandler
  <2> QED
    BY <1>m, <1>w, <2>1, <2>2, PhaseWrite DEF Written, NotWritten
<1>7. CASE Complete
  <2>1. "completed" \in Phases /\ pc = "enter" /\ UNCHANGED <<applied, tainted>> /\ ~dirty
    BY <1>7, <1>s, PhaseNames DEF Complete, InSync
  <2>2. \/ Flush([mem EXCEPT !.phase = "completed"])
        \/ FlushRaises([mem EXCEPT !.phase = "completed"], dirty)
    BY <1>7 DEF Complete
  <2> QED
    BY <1>m, <1>w, <2>1, <2>2, PhaseWrite DEF Written, NotWritten
<1>8. CASE ReportError
  <2>1. Own[h] \in Phases /\ pc # "down" /\ UNCHANGED <<applied, tainted>>
    BY <1>8, OwnType, PhaseNames DEF ReportError, FileInv, TypeInv, ControlOK
  <2>2. Flush(WithError(mem, Own[h])) \/ FlushRaises(WithError(mem, Own[h]), dirty)
    BY <1>8 DEF ReportError
  <2> QED
    BY <1>m, <1>w, <2>1, <2>2, ErrorWrite DEF Written, NotWritten
<1>9. CASE FailPhase
  <2>1. pc # "down" /\ UNCHANGED <<applied, tainted>>
    BY <1>9 DEF FailPhase
  <2>2. \/ Flush(WithError(mem, mem.phase)) \/ FlushRaises(WithError(mem, mem.phase), dirty)
        \/ disk' = disk
    BY <1>9 DEF FailPhase
  <2> QED
    BY <1>m, <1>t, <1>w, <2>1, <2>2, ErrorWrite DEF Written, NotWritten
<1>10. CASE SetFailed
  <2>1. "failed" \in Phases /\ pc = "failed" /\ UNCHANGED <<applied, tainted>> /\ ~dirty
    BY <1>10, <1>s, PhaseNames DEF SetFailed, InSync
  <2>2. \/ Flush([mem EXCEPT !.phase = "failed"])
        \/ FlushRaises([mem EXCEPT !.phase = "failed"], dirty)
    BY <1>10 DEF SetFailed
  <2> QED
    BY <1>m, <1>w, <2>1, <2>2, PhaseWrite DEF Written, NotWritten
<1>k. Checkpointed.steps = mem.steps
  BY <1>m, CheckpointedFields
<1>n. /\ Stamped(mem).steps = mem.steps /\ Stamped(mem).phase = mem.phase
      /\ [disk EXCEPT !.stale = TRUE].steps = disk.steps
  BY <1>m, StampedFields
<1>11. CASE RestoreCheckpoint
  <2>1. pc \in {"restore", "restoreRaise"} /\ UNCHANGED <<applied, tainted>>
    BY <1>11 DEF RestoreCheckpoint
  <2>2. ~dirty
    BY <1>s, <2>1 DEF InSync
  <2>3. disk' = disk \/ disk' = Checkpointed
    BY <1>11 DEF RestoreCheckpoint, FlushRaises
  <2> QED
    BY <1>w, <1>k, <2>1, <2>2, <2>3
<1>12. CASE Abort
  <2>1. pc # "down" /\ UNCHANGED <<applied, tainted>>
    BY <1>12 DEF Abort
  <2>2. Flush(WithError(mem, mem.phase)) \/ FlushRaises(WithError(mem, mem.phase), dirty)
    BY <1>12 DEF Abort
  <2> QED
    BY <1>m, <1>t, <1>w, <2>1, <2>2, ErrorWrite DEF Written, NotWritten
<1>13. CASE Interrupt
  <2>1. pc # "down" /\ UNCHANGED <<applied, tainted>>
    BY <1>13 DEF Interrupt
  <2>2. disk' = Stamped(mem) \/ disk' = disk
    BY <1>13 DEF Interrupt
  <2> QED
    BY <1>w, <1>n, <2>1, <2>2
<1>14. CASE Kill
  BY <1>14, <1>w, <1>n DEF Kill
<1>15. CASE TimePasses
  BY <1>15, <1>n DEF TimePasses
<1>16. CASE \/ BeginValidate \/ LeaveAlone \/ ResumeUnfinished \/ SkipHandler
            \/ PreflightPass \/ PreflightFail \/ SkipStep \/ StepRaises
            \/ ModuleDone \/ EnsureContextsRaises
  BY <1>16 DEF BeginValidate, LeaveAlone, ResumeUnfinished, SkipHandler, PreflightPass,
     PreflightFail, SkipStep, StepRaises, ModuleDone, EnsureContextsRaises
<1> QED
  BY <1>1, <1>2, <1>3, <1>4, <1>5, <1>6, <1>7, <1>8, <1>9, <1>10, <1>11, <1>12,
     <1>13, <1>14, <1>15, <1>16
  DEF Next, ProcessStep, Fault

\* ensure_contexts, reset: recorded progress leaves a file that names its hubs
\* only when the operator resets, forces, or works on another pair of hubs than
\* that of the run that recorded it; no failure, kill or failed write takes any.
THEOREM ProgressIsKept == Spec => NamedProgressKept
<1>1. FileInv /\ [Next]_vars =>
        [~(disk.steps \subseteq disk'.steps) => AskedToForget \/ disk.ctx = None]_vars
  <2> SUFFICES ASSUME FileInv, Next, ~(disk.steps \subseteq disk'.steps), disk.ctx # None
               PROVE  AskedToForget
    OBVIOUS
  <2>m. mem \in State /\ disk \in State
    BY DEF FileInv, TypeInv, TypeOK
  <2>1. pc # "down" => disk.steps \subseteq mem.steps
    BY DEF FileInv, InSync, TypeInv, TypeOK
  <2>2. ~RunStep
    BY DEF RunStep, store
  <2>3. ~RecordStep
    <3> SUFFICES ASSUME RecordStep PROVE FALSE
      OBVIOUS
    <3>1. CurrentStep \in Steps /\ pc # "down"
      BY CurrentStepType DEF RecordStep, FileInv, TypeInv, ControlOK, CurrentStep
    <3>2. \/ Flush([mem EXCEPT !.steps = @ \cup {CurrentStep}])
          \/ FlushRaises([mem EXCEPT !.steps = @ \cup {CurrentStep}], TRUE)
      BY DEF RecordStep
    <3>3. disk' = disk \/ disk'.steps = mem.steps \cup {CurrentStep}
      BY <2>m, <3>1, <3>2, StepWrite DEF Written, NotWritten
    <3> QED
      BY <2>1, <3>1, <3>3
  <2>4. ResetAsked
    BY <2>1, <2>2, <2>3, FileMoves
  <2>5. CASE pc = "loaded" /\ ForeignState
    <3>1. mem = disk /\ mem.ctx # run.ctx
      BY <2>5 DEF FileInv, InSync, ForeignState
    <3>2. disk.ctx = owner
      BY <2>m DEF FileInv, OwnerInv, Owned
    <3> QED
      BY <3>1, <3>2 DEF AskedToForget
  <2> QED
    BY <2>4, <2>5 DEF ResetAsked, AskedToForget
<1> QED
  BY <1>1, FileInvariant, PTL DEF Spec, NamedProgressKept

-----------------------------------------------------------------------------
(* The machine implements the resumable workflow. *)

\* The order of the abstract workflow.
PlanOrder == Plan[2] \o Plan[3] \o Plan[4] \o Plan[5]

\* What is in s, and what is in it before position k.
Elements(s) == {s[n] : n \in DOMAIN s}
First(s, k) == {s[n] : n \in 1..(k - 1)}

\* x stands in the sequence s with only elements of seen before it.
Stands(s, x, seen) ==
  \E n \in DOMAIN s : s[n] = x /\ \A m \in 1..(n - 1) : s[m] \in seen

LEMMA ConcatIndex ==
  ASSUME NEW s \in Seq(Steps), NEW t \in Seq(Steps)
  PROVE  /\ s \o t \in Seq(Steps)
         /\ Len(s) \in Nat /\ DOMAIN s = 1..Len(s)
         /\ Len(t) \in Nat /\ DOMAIN t = 1..Len(t)
         /\ DOMAIN (s \o t) = 1..(Len(s) + Len(t))
         /\ \A n \in 1..Len(s) : (s \o t)[n] = s[n]
         /\ \A n \in 1..Len(t) : (s \o t)[Len(s) + n] = t[n]
  OBVIOUS

LEMMA ConcatElements ==
  ASSUME NEW s \in Seq(Steps), NEW t \in Seq(Steps)
  PROVE  Elements(s \o t) = Elements(s) \cup Elements(t)
<1> DEFINE o == s \o t
<1>1. /\ Len(s) \in Nat /\ DOMAIN s = 1..Len(s)
      /\ Len(t) \in Nat /\ DOMAIN t = 1..Len(t)
      /\ DOMAIN o = 1..(Len(s) + Len(t))
      /\ \A n \in 1..Len(s) : o[n] = s[n]
      /\ \A n \in 1..Len(t) : o[Len(s) + n] = t[n]
  BY ConcatIndex
<1> HIDE DEF o
<1>2. ASSUME NEW n \in DOMAIN o PROVE o[n] \in Elements(s) \cup Elements(t)
  <2>1. CASE n <= Len(s)
    BY <1>1, <2>1 DEF Elements
  <2>2. CASE ~(n <= Len(s))
    <3>1. n - Len(s) \in 1..Len(t) /\ n = Len(s) + (n - Len(s))
      BY <1>1, <2>2
    <3> QED
      BY <1>1, <3>1 DEF Elements
  <2> QED
    BY <2>1, <2>2
<1>3. ASSUME NEW n \in DOMAIN s PROVE s[n] \in Elements(o)
  <2>1. n \in DOMAIN o /\ o[n] = s[n]
    BY <1>1
  <2> QED
    BY <2>1 DEF Elements
<1>4. ASSUME NEW n \in DOMAIN t PROVE t[n] \in Elements(o)
  <2>1. Len(s) + n \in DOMAIN o /\ o[Len(s) + n] = t[n]
    BY <1>1
  <2> QED
    BY <2>1 DEF Elements
<1>5. Elements(o) = Elements(s) \cup Elements(t)
  BY <1>2, <1>3, <1>4 DEF Elements
<1> QED
  BY <1>5 DEF o

\* Appending moves nothing that stands in a sequence, and puts the appended
\* elements behind all of it.
LEMMA StandsLeft ==
  ASSUME NEW s \in Seq(Steps), NEW t \in Seq(Steps), NEW x, NEW seen, Stands(s, x, seen)
  PROVE  Stands(s \o t, x, seen)
<1> DEFINE o == s \o t
<1>1. /\ Len(s) \in Nat /\ DOMAIN s = 1..Len(s) /\ Len(t) \in Nat
      /\ DOMAIN o = 1..(Len(s) + Len(t))
      /\ \A n \in 1..Len(s) : o[n] = s[n]
  BY ConcatIndex
<1> HIDE DEF o
<1>2. PICK n \in DOMAIN s : s[n] = x /\ \A m \in 1..(n - 1) : s[m] \in seen
  BY DEF Stands
<1>3. n \in DOMAIN o /\ o[n] = x
  BY <1>1, <1>2
<1>4. \A m \in 1..(n - 1) : m \in 1..Len(s) /\ o[m] = s[m]
  BY <1>1
<1>5. Stands(o, x, seen)
  BY <1>2, <1>3, <1>4 DEF Stands
<1> QED
  BY <1>5 DEF o

LEMMA StandsRight ==
  ASSUME NEW s \in Seq(Steps), NEW t \in Seq(Steps), NEW j \in DOMAIN t
  PROVE  Stands(s \o t, t[j], Elements(s) \cup First(t, j))
<1> DEFINE o == s \o t
<1>1. /\ Len(s) \in Nat /\ DOMAIN s = 1..Len(s)
      /\ Len(t) \in Nat /\ DOMAIN t = 1..Len(t)
      /\ DOMAIN o = 1..(Len(s) + Len(t))
      /\ \A n \in 1..Len(s) : o[n] = s[n]
      /\ \A n \in 1..Len(t) : o[Len(s) + n] = t[n]
  BY ConcatIndex
<1> HIDE DEF o
<1>2. Len(s) + j \in DOMAIN o /\ o[Len(s) + j] = t[j]
  BY <1>1
<1>3. ASSUME NEW m \in 1..(Len(s) + j - 1)
      PROVE  o[m] \in Elements(s) \cup First(t, j)
  <2>1. CASE m <= Len(s)
    <3>1. m \in DOMAIN s /\ o[m] = s[m]
      BY <1>1, <2>1
    <3> QED
      BY <3>1 DEF Elements
  <2>2. CASE ~(m <= Len(s))
    <3>1. m - Len(s) \in 1..(j - 1) /\ m - Len(s) \in 1..Len(t) /\ m = Len(s) + (m - Len(s))
      BY <1>1, <2>2
    <3> QED
      BY <1>1, <3>1 DEF First
  <2> QED
    BY <2>1, <2>2
<1>4. Stands(o, t[j], Elements(s) \cup First(t, j))
  BY <1>2, <1>3 DEF Stands
<1> QED
  BY <1>4 DEF o

\* In the order of the whole plan a step stands behind those of the earlier
\* handlers and the earlier ones of its own, and behind nothing else.
LEMMA PlanStands ==
  ASSUME NEW k \in 1..5, NEW j \in DOMAIN Plan[k]
  PROVE  Stands(PlanOrder, Plan[k][j], Before(k) \cup First(Plan[k], j))
<1>1. \A n \in 1..5 : Plan[n] \in Seq(Steps) /\ Elements(Plan[n]) = StepsOf(n)
  BY PlanAssumption DEF Elements, StepsOf
<1>2. Plan[1] = <<>>
  BY PlanAssumption
<1>3. k # 1
  BY <1>2
<1> DEFINE p2 == Plan[2]
           p3 == Plan[3]
           p4 == Plan[4]
           p5 == Plan[5]
<1>4. PlanOrder = ((p2 \o p3) \o p4) \o p5
  BY Zenon DEF PlanOrder
<1>5. /\ Before(3) = StepsOf(2) /\ Before(4) = Before(3) \cup StepsOf(3)
      /\ Before(5) = Before(4) \cup StepsOf(4)
  <2>1. Before(2 + 1) = Before(2) \cup StepsOf(2) /\ Before(3 + 1) = Before(3) \cup StepsOf(3)
        /\ Before(4 + 1) = Before(4) \cup StepsOf(4) /\ Before(2) = {}
    BY BeforeFacts
  <2> QED
    BY <2>1
<1>6. /\ p2 \in Seq(Steps) /\ p3 \in Seq(Steps) /\ p4 \in Seq(Steps) /\ p5 \in Seq(Steps)
      /\ Elements(p2) = StepsOf(2) /\ Elements(p3) = StepsOf(3) /\ Elements(p4) = StepsOf(4)
  BY <1>1
<1>7. CASE k = 2
  <2>1. /\ DOMAIN Plan[2] = 1..Len(Plan[2]) /\ Len(Plan[2]) \in Nat
        /\ j \in DOMAIN Plan[2]
    BY <1>1, <1>7
  <2>2. Stands(p2, p2[j], Before(2) \cup First(p2, j))
    BY <2>1 DEF Stands, First
  <2> HIDE DEF p2, p3, p4, p5
  <2>3. p2 \o p3 \in Seq(Steps) /\ (p2 \o p3) \o p4 \in Seq(Steps)
    BY <1>6
  <2>4. Stands(PlanOrder, p2[j], Before(2) \cup First(p2, j))
    BY <1>4, <1>6, <2>2, <2>3, StandsLeft, Zenon
  <2> QED
    BY <1>7, <2>4 DEF p2
<1>8. CASE k = 3
  <2>1. j \in DOMAIN p3
    BY <1>8
  <2> HIDE DEF p2, p3, p4, p5
  <2>2. p2 \o p3 \in Seq(Steps) /\ (p2 \o p3) \o p4 \in Seq(Steps)
    BY <1>6
  <2>3. Stands(p2 \o p3, p3[j], Elements(p2) \cup First(p3, j))
    BY <1>6, <2>1, StandsRight, Zenon
  <2>4. Stands(PlanOrder, p3[j], Elements(p2) \cup First(p3, j))
    BY <1>4, <1>6, <2>2, <2>3, StandsLeft, Zenon
  <2>5. Elements(p2) = Before(3)
    BY <1>5, <1>6
  <2> QED
    BY <1>8, <2>4, <2>5 DEF p3
<1>9. CASE k = 4
  <2>1. j \in DOMAIN p4
    BY <1>9
  <2> HIDE DEF p2, p3, p4, p5
  <2>2. p2 \o p3 \in Seq(Steps) /\ (p2 \o p3) \o p4 \in Seq(Steps)
    BY <1>6
  <2>3. Stands((p2 \o p3) \o p4, p4[j], Elements(p2 \o p3) \cup First(p4, j))
    BY <1>6, <2>1, <2>2, StandsRight, Zenon
  <2>4. Stands(PlanOrder, p4[j], Elements(p2 \o p3) \cup First(p4, j))
    BY <1>4, <1>6, <2>2, <2>3, StandsLeft, Zenon
  <2>5. Elements(p2 \o p3) = Elements(p2) \cup Elements(p3)
    BY <1>6, ConcatElements, Zenon
  <2>6. Elements(p2 \o p3) = Before(4)
    BY <1>5, <1>6, <2>5, Zenon
  <2> QED
    BY <1>9, <2>4, <2>6, Zenon DEF p4
<1>10. CASE k = 5
  <2>1. j \in DOMAIN p5
    BY <1>10
  <2> HIDE DEF p2, p3, p4, p5
  <2>2. p2 \o p3 \in Seq(Steps) /\ (p2 \o p3) \o p4 \in Seq(Steps)
    BY <1>6
  <2>3. Stands(PlanOrder, p5[j], Elements((p2 \o p3) \o p4) \cup First(p5, j))
    BY <1>4, <1>6, <2>1, <2>2, StandsRight, Zenon
  <2>5. /\ Elements(p2 \o p3) = Elements(p2) \cup Elements(p3)
        /\ Elements((p2 \o p3) \o p4) = Elements(p2 \o p3) \cup Elements(p4)
    BY <1>6, <2>2, ConcatElements, Zenon
  <2>6. Elements((p2 \o p3) \o p4) = Before(5)
    BY <1>5, <1>6, <2>5, Zenon
  <2> QED
    BY <1>10, <2>3, <2>6, Zenon DEF p5
<1> QED
  BY <1>3, <1>7, <1>8, <1>9, <1>10

LEMMA OrderRange == Elements(PlanOrder) = AllSteps
<1> DEFINE p2 == Plan[2]
           p3 == Plan[3]
           p4 == Plan[4]
           p5 == Plan[5]
<1>1. \A n \in 1..5 : Plan[n] \in Seq(Steps) /\ Elements(Plan[n]) = StepsOf(n)
  BY PlanAssumption DEF Elements, StepsOf
<1>2. PlanOrder = ((p2 \o p3) \o p4) \o p5
  BY Zenon DEF PlanOrder
<1>3. /\ p2 \in Seq(Steps) /\ p3 \in Seq(Steps) /\ p4 \in Seq(Steps) /\ p5 \in Seq(Steps)
      /\ Elements(p2) = StepsOf(2) /\ Elements(p3) = StepsOf(3)
      /\ Elements(p4) = StepsOf(4) /\ Elements(p5) = StepsOf(5)
  BY <1>1
<1> HIDE DEF p2, p3, p4, p5
<1>4. p2 \o p3 \in Seq(Steps) /\ (p2 \o p3) \o p4 \in Seq(Steps)
  BY <1>3
<1>5. /\ Elements(p2 \o p3) = Elements(p2) \cup Elements(p3)
      /\ Elements((p2 \o p3) \o p4) = Elements(p2 \o p3) \cup Elements(p4)
      /\ Elements(PlanOrder) = Elements((p2 \o p3) \o p4) \cup Elements(p5)
  BY <1>2, <1>3, <1>4, ConcatElements, Zenon
<1>6. Elements(PlanOrder) = StepsOf(2) \cup StepsOf(3) \cup StepsOf(4) \cup StepsOf(5)
  BY <1>3, <1>5, Zenon
<1>7. StepsOf(1) = {}
  BY PlanAssumption DEF StepsOf
<1>8. 1..5 = {1, 2, 3, 4, 5}
  OBVIOUS
<1> QED
  BY <1>6, <1>7, <1>8 DEF AllSteps

\* Without dry runs nothing is recorded that was not done.
LEMMA NeverTainted ==
  ASSUME \A inv \in Invocations : ~inv.dry
  PROVE  FileInv /\ ~tainted /\ [Next]_vars => ~tainted'
<1> SUFFICES ASSUME FileInv, ~tainted, [Next]_vars PROVE ~tainted'
  OBVIOUS
<1>1. RunStep => tainted' = tainted
  BY DEF RunStep
<1>2. RecordStep => ~tainted'
  BY Zenon DEF RecordStep, FileInv, TypeInv, TypeOK
<1>3. UNCHANGED vars => tainted' = tainted
  BY DEF vars
<1>4. Forgotten => ~tainted'
  BY DEF Forgotten
<1> QED
  BY <1>1, <1>2, <1>3, <1>4, FileMoves

\* One step of the machine is one step of the workflow, or none.
LEMMA StepRefines ==
  ASSUME \A inv \in Invocations : ~inv.dry,
         FileInv, FileInv', ~tainted, [Next]_vars
  PROVE  [RW!Next]_(RW!wvars)
<1> USE DEF RW!wvars
<1>m. /\ mem \in State /\ disk \in State /\ run \in Invocations /\ disk' \in State
      /\ mem.steps \subseteq Steps /\ ~run.dry
  BY StateType DEF FileInv, TypeInv, TypeOK
<1>a. mem.steps \subseteq applied
  BY DEF FileInv, AppliedInv
\* a verdict that is given or withdrawn while the records stay
<1>v. ASSUME UNCHANGED applied, disk'.steps = disk.steps PROVE [RW!Next]_(RW!wvars)
  <2>1. CASE disk'.phase = "completed" /\ disk.phase # "completed"
    <3>1. AllSteps \subseteq disk'.steps
      BY <2>1, EntryFacts, BeforeFacts DEF FileInv, OrderInv, WellPlaced, Placed
    <3>2. \A n \in DOMAIN PlanOrder : PlanOrder[n] \in disk.steps
      BY <1>v, <3>1, OrderRange DEF Elements
    <3>3. RW!Finish
      BY <1>v, <2>1, <3>2, Zenon DEF RW!Finish, PlanOrder
    <3> QED
      BY <3>3, Zenon DEF RW!Next
  <2>2. CASE disk'.phase # "completed" /\ disk.phase = "completed"
    <3>1. RW!Reopen
      BY <1>v, <2>2, Zenon DEF RW!Reopen
    <3> QED
      BY <3>1, Zenon DEF RW!Next
  <2>3. CASE (disk'.phase = "completed") = (disk.phase = "completed")
    BY <1>v, <2>3, Zenon
  <2> QED
    BY <2>1, <2>2, <2>3
\* a step that was carried out is recorded
<1>r. ASSUME NEW s \in Steps, s \in applied, UNCHANGED applied,
             disk'.steps = disk.steps \cup {s}, disk'.phase = disk.phase
      PROVE  [RW!Next]_(RW!wvars)
  <2>1. RW!Record(s)
    BY <1>r, Zenon DEF RW!Record
  <2> QED
    BY <2>1, Zenon DEF RW!Next
<1>1. CASE RunStep
  <2>1. /\ CurrentStep \notin mem.steps /\ applied' = applied \cup {CurrentStep}
        /\ disk' = disk /\ i \in DOMAIN Plan[h] /\ pc = "work" /\ h \in 1..5
    BY <1>1, <1>m, Zenon DEF RunStep, store, FileInv, TypeInv, ControlOK
  <2>2. mem.steps = disk.steps /\ mem.phase = Own[h]
    BY <2>1 DEF FileInv, InSync, OrderInv, InHandler
  <2>3. Before(h) \subseteq mem.steps
    BY <2>1, <2>2, EntryFacts DEF FileInv, OrderInv, WellPlaced, Placed
  <2>4. First(Plan[h], i) \subseteq mem.steps
    <3>1. DOMAIN Plan[h] = 1..Len(Plan[h]) /\ Len(Plan[h]) \in Nat
      BY <2>1, PlanAssumption
    <3>2. \A j \in DOMAIN Plan[h] : j < i => Plan[h][j] \in mem.steps
      BY <2>1 DEF FileInv, OrderInv, InHandler
    <3>3. \A j \in 1..(i - 1) : j \in DOMAIN Plan[h] /\ j < i
      BY <2>1, <3>1
    <3> QED
      BY <3>2, <3>3 DEF First
  <2>5. PICK n \in DOMAIN PlanOrder :
          PlanOrder[n] = CurrentStep /\ \A m \in 1..(n - 1) : PlanOrder[m] \in disk.steps
    BY <2>1, <2>2, <2>3, <2>4, PlanStands DEF Stands, CurrentStep
  <2>6. RW!Apply(n)
    BY <2>1, <2>2, <2>5, Zenon DEF RW!Apply, PlanOrder
  <2> QED
    BY <2>5, <2>6, Zenon DEF RW!Next, PlanOrder
<1>2. CASE RecordStep
  <2>1. CurrentStep \in Steps /\ UNCHANGED applied /\ pc = "record"
    BY <1>2, CurrentStepType DEF RecordStep, FileInv, TypeInv, ControlOK, CurrentStep
  <2>2. /\ mem.steps = disk.steps /\ mem.phase = disk.phase /\ CurrentStep \in applied
    BY <1>m, <2>1 DEF FileInv, InSync, InFlow, AppliedInv
  <2>3. \/ Flush([mem EXCEPT !.steps = @ \cup {CurrentStep}])
        \/ FlushRaises([mem EXCEPT !.steps = @ \cup {CurrentStep}], TRUE)
    BY <1>2 DEF RecordStep
  <2>4. \/ disk' = disk
        \/ disk'.steps = disk.steps \cup {CurrentStep} /\ disk'.phase = disk.phase
    BY <1>m, <2>1, <2>2, <2>3, StepWrite DEF Written, NotWritten
  <2> QED
    BY <1>r, <1>v, <2>1, <2>2, <2>4
<1>3. CASE /\ UNCHANGED applied /\ dirty /\ pc # "down"
           /\ disk'.steps = mem.steps /\ disk'.phase = disk.phase
  <2>1. PICK s \in Steps : mem.steps = disk.steps \cup {s}
    BY <1>3 DEF FileInv, InSync
  <2> QED
    BY <1>3, <1>a, <1>r, <2>1
<1>4. CASE Forgotten /\ disk'.steps = {} /\ disk'.phase = "init"
  <2>1. RW!Forget
    BY <1>4 DEF RW!Forget, Forgotten
  <2> QED
    BY <2>1, Zenon DEF RW!Next
<1>5. CASE UNCHANGED vars
  BY <1>5, <1>v DEF vars
<1> QED
  BY <1>1, <1>2, <1>3, <1>4, <1>5, <1>v, FileMoves

\* The whole switchover, crashes, retries, validations and failed writes included,
\* is the resumable workflow its operator is promised, whatever the plan of steps
\* and as long as no dry run works on the file: work starts in the order of the
\* plan, is recorded after it was done, is forgotten all at once, and the verdict
\* "completed" comes after the last record.
THEOREM RealRunsResume ==
  ASSUME \A inv \in Invocations : ~inv.dry
  PROVE  Spec => ImplementsResumableWorkflow
<1>1. Init => RW!Init /\ ~tainted
  BY DEF Init, NewState, RW!Init
<1>2. FileInv /\ ~tainted /\ [Next]_vars => ~tainted'
  BY NeverTainted
<1>3. FileInv /\ FileInv' /\ ~tainted /\ [Next]_vars => [RW!Next]_(RW!wvars)
  BY StepRefines
<1> QED
  BY <1>1, <1>2, <1>3, FileInvariant, PTL DEF Spec, ImplementsResumableWorkflow, RW!Spec

\* What the next run skips has been carried out: where no run is a dry run, the
\* promise that "re-runs skip work already completed" is kept.
THEOREM SkippingIsSoundWithoutDryRuns ==
  ASSUME \A inv \in Invocations : ~inv.dry
  PROVE  Spec => []SkippedWorkWasDone
<1>1. Init => ~tainted
  BY DEF Init
<1>2. FileInv /\ ~tainted /\ [Next]_vars => ~tainted'
  BY NeverTainted
<1>3. ~tainted /\ RecordedMeansApplied => SkippedWorkWasDone
  BY DEF RecordedMeansApplied, SkippedWorkWasDone
<1> QED
  BY <1>1, <1>2, <1>3, FileInvariant, RecordedWorkIsDone, PTL DEF Spec
=============================================================================
