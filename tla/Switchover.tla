----------------------------- MODULE Switchover -----------------------------
(***************************************************************************)
(* The phase machine of acm_switchover.py together with the state file of  *)
(* lib/utils.py: one operator starts one process after another on the same *)
(* state file, each process can fail, be interrupted or be killed between  *)
(* any two writes, and the next one has to find its place from the file.   *)
(*                                                                         *)
(* Data abstraction.  The state document is cut down to what steers a run: *)
(* its phase, the recorded steps, the phase of its last error, the context *)
(* pair and whether its timestamp is older than STALE_STATE_THRESHOLD.  A  *)
(* missing file and a fresh _new_state are the same value, because loading *)
(* a missing file writes the fresh state.  The steps of a phase are a      *)
(* sequence Plan[k]; what the work of a step does to the hubs is the       *)
(* subject of the other modules, here it is done or it is not.             *)
(***************************************************************************)
EXTENDS Naturals, Sequences, FiniteSets

CONSTANTS
  Steps,         \* names of the steps guarded by `with state.step(name)`
  Plan,          \* Plan[k]: the steps of the k-th phase handler, in order
  Contexts,      \* (primary, secondary) context pairs given on the command line
  Invocations,   \* the command lines the operator may use
  None,          \* Python's None
  WriteFaults,   \* may writing the state file raise (disk full, permissions)?
  Kills,         \* may the process be killed by SIGTERM, SIGKILL or a crash?
  MaxFaults      \* bound on adverse events: failures, kills, write errors

Work == {"preflight", "primary_prep", "activation", "post_activation", "finalization"}
Phases == Work \cup {"init", "secondary_verify", "completed", "failed"}

\* Mutant: finalization left out of the recovery list.
MutRetryable == (Work \cup {"secondary_verify"}) \ {"finalization"}

\* The phases of the FAILED-state recovery list: a retry may start from these.
Retryable == Work \cup {"secondary_verify"}

\* Mutant: primary_prep cannot be resumed from its own phase.
MutAllowed == <<{"init", "preflight"},
                {"preflight"},
                {"preflight", "primary_prep", "secondary_verify", "activation"},
                {"activation", "post_activation"},
                {"post_activation", "finalization"}>>

\* The handlers of phase_flow: the phase each one sets and those it runs from.
Own == <<"preflight", "primary_prep", "activation", "post_activation", "finalization">>
Allowed == <<{"init", "preflight"},
             {"preflight", "primary_prep"},
             {"preflight", "primary_prep", "secondary_verify", "activation"},
             {"activation", "post_activation"},
             {"post_activation", "finalization"}>>

State == [phase : Phases, steps : SUBSET Steps, lastErr : Phases \cup {None},
          ctx : Contexts \cup {None}, stale : BOOLEAN]
Invocation == [ctx : Contexts, dry : BOOLEAN, validate : BOOLEAN,
               force : BOOLEAN, reset : BOOLEAN]

ASSUME NoneAssumption == None \notin Phases /\ None \notin Contexts
\* preflight records no step
ASSUME PlanAssumption ==
  /\ Plan \in [1..5 -> Seq(Steps)]
  /\ Plan[1] = <<>>
\* argparse puts --validate-only and --dry-run in one exclusive group.
ASSUME InvocationAssumption ==
  /\ Invocations \subseteq Invocation
  /\ \A inv \in Invocations : ~(inv.validate /\ inv.dry)
ASSUME BoundAssumption ==
  /\ WriteFaults \in BOOLEAN
  /\ Kills \in BOOLEAN
  /\ MaxFaults \in Nat

VARIABLES
  disk,      \* the state file
  mem,       \* StateManager.state of the running process
  dirty,     \* StateManager._dirty
  run,       \* the command line of the running, or of the last, process
  pc,        \* where the process is; "down" when there is none
  h,         \* the phase handler the run is at; 6 after the last one
  i,         \* the step of that handler it is at
  baseline,  \* _retry_error_baseline: the retried phase, None once an error is added
  ckpt,      \* capture_runtime_checkpoint: the phase and timestamp to put back
  faults,    \* adverse events so far
  \* History variables: no action's guard reads them.
  applied,   \* steps whose work a real run has carried out since the last reset
  tainted,   \* a dry run has recorded a step since the last reset
  failedAt,  \* the phase in which the run that last set FAILED had failed
  stray,     \* phases of errors added since by a validate-only run, or by main
             \* after the write of FAILED had raised
  owner      \* the context pair of the run that last recorded a step

store == <<disk, mem, dirty>>
control == <<h, i, baseline, ckpt>>
history == <<applied, tainted, failedAt, stray, owner>>
vars == <<disk, mem, dirty, run, pc, h, i, baseline, ckpt, faults,
          applied, tainted, failedAt, stray, owner>>

Labels == {"down", "loaded", "dispatch", "enter", "preflight", "work", "record",
           "report", "failing", "failed", "restore", "restoreRaise", "abort"}

NewState == [phase |-> "init", steps |-> {}, lastErr |-> None, ctx |-> None,
             stale |-> FALSE]

StepsOf(k) == {Plan[k][j] : j \in DOMAIN Plan[k]}
AllSteps == UNION {StepsOf(k) : k \in 1..5}

-----------------------------------------------------------------------------
(* Reading and writing the state document. *)

HasProgress(st) == st.steps # {} \/ st.lastErr # None \/ st.phase # "init"

\* _do_flush stamps last_updated before it writes.
Stamped(st) == [st EXCEPT !.stale = FALSE]

\* A flush that reaches the disk.
Flush(st) ==
  /\ mem' = Stamped(st)
  /\ disk' = Stamped(st)
  /\ dirty' = FALSE

\* A flush that raises: memory has moved on, the file has not.
FlushRaises(st, d) ==
  /\ WriteFaults /\ faults < MaxFaults
  /\ faults' = faults + 1
  /\ mem' = st
  /\ dirty' = d
  /\ UNCHANGED disk

Adverse == faults < MaxFaults /\ faults' = faults + 1

\* add_error(.., phase); the error history is kept as its last phase, which is
\* all the code reads of it, and as "longer than at the baseline" in baseline.
WithError(st, phase) == [st EXCEPT !.lastErr = phase]

\* The history a reset forgets.
Forgotten ==
  /\ applied' = {}
  /\ tainted' = FALSE
  /\ failedAt' = None
  /\ stray' = {}
  /\ owner' = None

\* Where an exception that leaves the phase handler goes: run_switchover's
\* `finally` of a validate-only run, else straight to main's except clause.
Raised == IF run.validate THEN "restoreRaise" ELSE "abort"

-----------------------------------------------------------------------------
(* main: start a process on the state file. *)

\* --reset-state removes the file before StateManager loads it.
Launch(inv) ==
  /\ pc = "down"
  /\ run' = inv
  /\ disk' = IF inv.reset THEN NewState ELSE disk
  /\ mem' = disk'
  /\ dirty' = FALSE
  /\ IF inv.reset THEN Forgotten ELSE UNCHANGED history
  /\ h' = 1 /\ i' = 1 /\ baseline' = None
  /\ ckpt' = [phase |-> None, stale |-> FALSE]
  /\ pc' = "loaded"
  /\ UNCHANGED faults

\* Mutant: progress counts against a file whose contexts are there.
MutForeignState == (mem.ctx # None /\ mem.ctx # run.ctx) \/ HasProgress(mem)

\* The file belongs to another context pair, or to none although work was done.
ForeignState == \/ mem.ctx # None /\ mem.ctx # run.ctx
                \/ mem.ctx = None /\ HasProgress(mem)

EnsureContexts ==
  /\ pc = "loaded"
  /\ \/ ForeignState /\ Flush([NewState EXCEPT !.ctx = run.ctx]) /\ Forgotten
     \/ ~ForeignState /\ mem.ctx = run.ctx /\ UNCHANGED <<store, history>>
     \/ /\ ~ForeignState /\ mem.ctx # run.ctx
        /\ Flush([mem EXCEPT !.ctx = run.ctx])
        /\ UNCHANGED history
  /\ pc' = "dispatch"
  /\ UNCHANGED <<run, control, faults>>

\* The call is outside main's try: when its write raises the process is gone.
EnsureContextsRaises ==
  /\ pc = "loaded"
  /\ ForeignState \/ mem.ctx # run.ctx
  /\ WriteFaults /\ Adverse
  /\ pc' = "down"
  /\ UNCHANGED <<store, run, control, history>>

-----------------------------------------------------------------------------
(* run_switchover: what the recorded phase means for this invocation. *)

BeginFlow == pc' = "enter" /\ h' = 1 /\ i' = 1

BeginValidate ==
  /\ pc = "dispatch" /\ run.validate
  /\ ckpt' = [phase |-> mem.phase, stale |-> mem.stale]
  /\ BeginFlow
  /\ UNCHANGED <<store, run, baseline, faults, history>>

\* States the code goes on from only with --force.
NeedsForce == \/ mem.phase = "completed" /\ mem.stale
              \/ mem.phase = "failed" /\ mem.lastErr \notin Retryable

\* state.reset(): the contexts stored by EnsureContexts go too.
ForceReset ==
  /\ pc = "dispatch" /\ ~run.validate /\ run.force
  /\ NeedsForce
  /\ Flush(NewState)
  /\ Forgotten
  /\ BeginFlow
  /\ UNCHANGED <<run, baseline, ckpt, faults>>

\* The write of the reset raises, and main adds the error to the fresh state:
\* that write succeeds or raises like the first.
ForceResetRaises ==
  /\ pc = "dispatch" /\ ~run.validate /\ run.force
  /\ NeedsForce
  /\ WriteFaults /\ Adverse
  /\ \/ Flush(WithError(NewState, "init")) /\ Forgotten
     \/ UNCHANGED <<store, history>>
  /\ pc' = "down"
  /\ UNCHANGED <<run, control>>

\* A recent completed state is a no-op; a stale one, and a failed one whose
\* phase cannot be determined, exit and ask for --force.
LeaveAlone ==
  /\ pc = "dispatch" /\ ~run.validate
  /\ \/ mem.phase = "completed" /\ ~mem.stale
     \/ NeedsForce /\ ~run.force
  /\ pc' = "down"
  /\ UNCHANGED <<store, run, control, faults, history>>

RetryFailed ==
  /\ pc = "dispatch" /\ ~run.validate
  /\ mem.phase = "failed" /\ mem.lastErr \in Retryable
  /\ baseline' = mem.lastErr
  /\ LET st == [mem EXCEPT !.phase = mem.lastErr] IN
       \/ Flush(st) /\ pc' = "enter" /\ UNCHANGED faults
       \/ FlushRaises(st, dirty) /\ pc' = "abort"
  /\ h' = 1 /\ i' = 1
  /\ UNCHANGED <<run, ckpt, history>>

ResumeUnfinished ==
  /\ pc = "dispatch" /\ ~run.validate
  /\ mem.phase \notin {"completed", "failed"}
  /\ BeginFlow
  /\ UNCHANGED <<store, run, baseline, ckpt, faults, history>>

-----------------------------------------------------------------------------
(* run_switchover: the loop over phase_flow. *)

SkipHandler ==
  /\ pc = "enter" /\ h \in 1..5
  /\ ~run.validate /\ mem.phase \notin Allowed[h]
  /\ h' = h + 1
  /\ UNCHANGED <<store, run, pc, i, baseline, ckpt, faults, history>>

EnterHandler ==
  /\ pc = "enter" /\ h \in 1..5
  /\ run.validate \/ mem.phase \in Allowed[h]
  /\ LET st == [mem EXCEPT !.phase = Own[h]] IN
       \/ /\ Flush(st)
          /\ pc' = IF h = 1 THEN "preflight" ELSE "work"
          /\ UNCHANGED faults
       \/ FlushRaises(st, dirty) /\ pc' = Raised
  /\ i' = 1
  /\ UNCHANGED <<run, h, baseline, ckpt, history>>

PreflightPass ==
  /\ pc = "preflight"
  /\ IF run.validate THEN pc' = "restore" /\ h' = h
                     ELSE pc' = "enter" /\ h' = 2
  /\ UNCHANGED <<store, run, i, baseline, ckpt, faults, history>>

\* A critical check failed, or the coordinator raised.
PreflightFail ==
  /\ pc = "preflight"
  /\ Adverse
  /\ pc' \in {"failing", Raised}
  /\ UNCHANGED <<store, run, control, history>>

Complete ==
  /\ pc = "enter" /\ h = 6
  /\ LET st == [mem EXCEPT !.phase = "completed"] IN
       \/ Flush(st) /\ pc' = "down" /\ UNCHANGED faults
       \/ FlushRaises(st, dirty) /\ pc' = "abort"
  /\ UNCHANGED <<run, control, history>>

-----------------------------------------------------------------------------
(* A phase module: its steps under StepContext. *)

CurrentStep == Plan[h][i]

\* StepContext.__enter__ on a recorded step
SkipStep ==
  /\ pc = "work" /\ i \in DOMAIN Plan[h]
  /\ CurrentStep \in mem.steps
  /\ i' = i + 1
  /\ UNCHANGED <<store, run, pc, h, baseline, ckpt, faults, history>>

\* The body of the `with`; a dry run only logs what it would do.
RunStep ==
  /\ pc = "work" /\ i \in DOMAIN Plan[h]
  /\ CurrentStep \notin mem.steps
  /\ applied' = IF run.dry THEN applied ELSE applied \cup {CurrentStep}
  /\ pc' = "record"
  /\ UNCHANGED <<store, run, control, faults, tainted, failedAt, stray, owner>>

\* Mutant: StepContext.__exit__ marks the step whatever the body did.
MutStepRaises ==
  /\ pc = "work" /\ i \in DOMAIN Plan[h]
  /\ CurrentStep \notin mem.steps
  /\ Adverse
  /\ pc' = "record"
  /\ UNCHANGED <<store, run, control, history>>

\* The body raises: the module records the error, save that activation lets
\* anything but a SwitchoverError, RuntimeError or ValueError through to main.
StepRaises ==
  /\ pc = "work" /\ i \in DOMAIN Plan[h]
  /\ CurrentStep \notin mem.steps
  /\ Adverse
  /\ pc' \in {"report"} \cup (IF Own[h] = "activation" THEN {"abort"} ELSE {})
  /\ UNCHANGED <<store, run, control, history>>

\* StepContext.__exit__ without an exception: mark_step_completed.
RecordStep ==
  /\ pc = "record"
  /\ LET st == [mem EXCEPT !.steps = @ \cup {CurrentStep}] IN
       \/ Flush(st) /\ pc' = "work" /\ i' = i + 1 /\ UNCHANGED faults
       \/ /\ FlushRaises(st, TRUE)
          /\ pc' = IF Own[h] = "activation" THEN "abort" ELSE "report"
          /\ i' = i
  /\ tainted' = (tainted \/ run.dry)
  /\ owner' = run.ctx
  /\ UNCHANGED <<run, h, baseline, ckpt, applied, failedAt, stray>>

ModuleDone ==
  /\ pc = "work" /\ i \notin DOMAIN Plan[h]
  /\ h' = h + 1
  /\ pc' = "enter"
  /\ UNCHANGED <<store, run, i, baseline, ckpt, faults, history>>

\* The except clause of a phase module: add_error(.., own phase).
ReportError ==
  /\ pc = "report"
  /\ LET st == WithError(mem, Own[h]) IN
       \/ Flush(st) /\ pc' = "failing" /\ UNCHANGED faults
       \/ FlushRaises(st, dirty) /\ pc' = "abort"
  /\ baseline' = None
  /\ UNCHANGED <<run, h, i, ckpt, history>>

-----------------------------------------------------------------------------
(* Failing: _fail_phase, the `finally` of validate-only, main's except. *)

\* Mutant: the wrapper message is never added, modules record their own errors.
MutFailPhase ==
  /\ pc = "failing"
  /\ pc' = "failed"
  /\ UNCHANGED <<store, run, control, faults, history>>

\* The generic message is added only when the phase has no error of its own,
\* or none newer than the retry's baseline.
FailPhase ==
  /\ pc = "failing"
  /\ LET st == WithError(mem, mem.phase) IN
       IF mem.lastErr # mem.phase \/ baseline = mem.phase
       THEN /\ \/ Flush(st) /\ pc' = "failed" /\ UNCHANGED faults
               \/ FlushRaises(st, dirty) /\ pc' = Raised
            /\ baseline' = None
       ELSE pc' = "failed" /\ UNCHANGED <<store, baseline, faults>>
  /\ stray' = IF run.validate THEN stray \cup {mem.phase} ELSE stray
  /\ UNCHANGED <<run, h, i, ckpt, applied, tainted, failedAt, owner>>

\* Mutant: validate-only without the try/finally around its preflight.
MutSetFailed ==
  /\ pc = "failed"
  /\ Flush([mem EXCEPT !.phase = "failed"])
  /\ failedAt' = IF run.validate THEN failedAt ELSE mem.phase
  /\ pc' = "down"
  /\ UNCHANGED <<run, control, faults, applied, tainted, stray, owner>>

SetFailed ==
  /\ pc = "failed"
  /\ LET st == [mem EXCEPT !.phase = "failed"] IN
       \/ /\ Flush(st)
          /\ pc' = IF run.validate THEN "restore" ELSE "down"
          /\ stray' = IF run.validate THEN stray ELSE {}
          /\ UNCHANGED faults
       \/ /\ FlushRaises(st, dirty)
          /\ pc' = Raised
          /\ stray' = IF run.validate THEN stray ELSE {"failed"}
  /\ failedAt' = IF run.validate THEN failedAt ELSE mem.phase
  /\ UNCHANGED <<run, control, applied, tainted, owner>>

Checkpointed == [mem EXCEPT !.phase = ckpt.phase, !.stale = ckpt.stale]

\* restore_runtime_checkpoint writes directly and clears _dirty first.
RestoreCheckpoint ==
  /\ pc \in {"restore", "restoreRaise"}
  /\ \/ /\ mem' = Checkpointed /\ disk' = Checkpointed /\ dirty' = FALSE
        /\ pc' = IF pc = "restore" THEN "down" ELSE "abort"
        /\ UNCHANGED faults
     \/ FlushRaises(Checkpointed, FALSE) /\ pc' = "abort"
  /\ UNCHANGED <<run, control, history>>

\* main records the exception under whatever phase the state is in, and exits;
\* when that write raises too, the atexit handler flushes once more if dirty.
Abort ==
  /\ pc = "abort"
  /\ LET st == WithError(mem, mem.phase) IN
       \/ Flush(st) /\ UNCHANGED faults
       \/ FlushRaises(st, dirty)
       \/ WriteFaults /\ Adverse /\ dirty /\ Flush(st)
  /\ pc' = "down"
  /\ baseline' = None
  /\ stray' = IF run.validate THEN stray \cup {mem.phase} ELSE stray
  /\ UNCHANGED <<run, h, i, ckpt, applied, tainted, failedAt, owner>>

-----------------------------------------------------------------------------
(* The environment. *)

\* The `try` of a validate-only run, whose `finally` puts the checkpoint back.
InTry == run.validate /\ pc \in {"enter", "preflight", "failing", "failed"}

\* SIGINT: the handler flushes a dirty state, suppressing errors, and raises
\* KeyboardInterrupt.  Out of the `try` of a validate-only run it goes through
\* the `finally`; one that arrives in the `finally` itself, before the phase is
\* back in the file, leaves it at once.
Interrupt ==
  /\ pc # "down"
  /\ Adverse
  /\ disk' \in IF dirty THEN {Stamped(mem)} \cup (IF WriteFaults THEN {disk} ELSE {})
                        ELSE {disk}
  /\ dirty' = FALSE
  /\ IF InTry THEN pc' = "restore" /\ UNCHANGED mem
              ELSE pc' = "down" /\ mem' = disk'
  /\ UNCHANGED <<run, control, history>>

\* SIGKILL or a crash; or SIGTERM, whose handler flushes a dirty state and then
\* lets the default action end the process without running any `finally`.
Kill ==
  /\ Kills
  /\ pc # "down"
  /\ Adverse
  /\ disk' \in {disk} \cup (IF dirty THEN {Stamped(mem)} ELSE {})
  /\ mem' = disk' /\ dirty' = FALSE
  /\ pc' = "down"
  /\ UNCHANGED <<run, control, history>>

\* STALE_STATE_THRESHOLD seconds go by between two runs.
TimePasses ==
  /\ pc = "down"
  /\ disk' = [disk EXCEPT !.stale = TRUE]
  /\ mem' = disk'
  /\ UNCHANGED <<dirty, run, pc, control, faults, history>>

-----------------------------------------------------------------------------
Init ==
  /\ disk = NewState /\ mem = NewState /\ dirty = FALSE
  /\ run \in Invocations
  /\ pc = "down"
  /\ h = 1 /\ i = 1 /\ baseline = None
  /\ ckpt = [phase |-> None, stale |-> FALSE]
  /\ faults = 0
  /\ applied = {} /\ tainted = FALSE /\ failedAt = None /\ stray = {} /\ owner = None

\* What a process does by itself.
ProcessStep ==
  \/ EnsureContexts
  \/ BeginValidate \/ ForceReset \/ LeaveAlone \/ RetryFailed \/ ResumeUnfinished
  \/ SkipHandler \/ EnterHandler \/ PreflightPass \/ Complete
  \/ SkipStep \/ RunStep \/ RecordStep \/ ModuleDone
  \/ ReportError \/ FailPhase \/ SetFailed \/ RestoreCheckpoint \/ Abort

\* What can go wrong.
Fault ==
  \/ EnsureContextsRaises \/ ForceResetRaises \/ PreflightFail \/ StepRaises
  \/ Interrupt \/ Kill

Next ==
  \/ \E inv \in Invocations : Launch(inv)
  \/ ProcessStep
  \/ Fault
  \/ TimePasses

Spec == Init /\ [][Next]_vars

\* A process that is not stopped goes on, and the operator comes back to a run
\* that is more than a validation, whatever else is started in between.  Faults
\* get no fairness; MaxFaults bounds them.
Fairness ==
  /\ WF_vars(ProcessStep)
  /\ SF_vars(\E inv \in Invocations : ~inv.validate /\ Launch(inv))

FairSpec == Spec /\ Fairness
-----------------------------------------------------------------------------
(* Properties. *)

TypeOK ==
  /\ disk \in State /\ mem \in State /\ dirty \in BOOLEAN
  /\ run \in Invocations
  /\ pc \in Labels
  /\ h \in 1..6 /\ i \in Nat \ {0}
  /\ baseline \in Phases \cup {None}
  /\ ckpt \in [phase : Phases \cup {None}, stale : BOOLEAN]
  /\ faults \in Nat
  /\ applied \subseteq Steps /\ tainted \in BOOLEAN
  /\ failedAt \in Phases \cup {None} /\ stray \subseteq Phases
  /\ owner \in Contexts \cup {None}

\* The file says "completed" only when every step of the plan is recorded in
\* it: no path through retries, skipped handlers, validate-only checkpoints or
\* failed writes lets a run jump over work (phase_flow, RetryFailed).
CompletedMeansEveryStep ==
  disk.phase = "completed" => AllSteps \subseteq disk.steps

\* A recorded step is one whose work a real run has carried out, as long as no
\* dry run has recorded a step since the last reset (StepContext.__exit__).
RecordedMeansApplied ==
  ~tainted => disk.steps \subseteq applied

\* "Re-runs skip work already completed": what the file says is completed, and
\* the next run will skip, was carried out -- a dry run included.
SkippedWorkWasDone == disk.steps \subseteq applied

\* A run that failed is retried from the phase it failed in: the last error of
\* a FAILED state is of that phase and never an older one, unless an error was
\* added to that state since: by a validate-only run that failed on it, which
\* sends the retry back to preflight or, where it raised, asks for --force; or by
\* main when the write of FAILED itself had raised (_fail_phase,
\* get_last_error_phase).
RetriesWhereItFailed ==
  disk.phase = "failed" /\ pc = "down" => disk.lastErr \in {failedAt} \cup stray

\* The operator asks for progress to be forgotten: --reset-state, --force on a
\* state that needs it, or another context pair than that of the recording run.
AskedToForget == \/ run'.reset
                 \/ run.force /\ pc = "dispatch"
                 \/ run.ctx # owner

\* "Simply re-run the same command": progress leaves the file only when the
\* operator asks for it, as long as the file names its hubs: after a reset by
\* --force it does not (ensure_contexts, reset).
NamedProgressKept ==
  [][~(disk.steps \subseteq disk'.steps) => AskedToForget \/ disk.ctx = None]_vars

\* However a validate-only run ends, the phase in the file is the one it found:
\* by itself, by an exception or by Ctrl+C, and after a failed write when main's
\* own write succeeds.  What leaves another phase behind is a kill, and a Ctrl+C
\* or one more failed write where the phase is just being put back: in the
\* `finally`, or in main after its write had raised (restore_runtime_checkpoint).
ValidateOnlyKeepsPhase ==
  [][pc # "down" /\ pc' = "down" /\ run.validate /\ ckpt.phase # None =>
        \/ disk'.phase = ckpt.phase
        \/ Kill
        \/ pc \in {"restore", "restoreRaise", "abort"} /\ faults' > faults]_vars

\* Seen through the file, the machine is the resumable workflow: steps in the
\* order of the plan, work before record, completion after the last record.
RW == INSTANCE ResumableWorkflow
        WITH Order <- Plan[2] \o Plan[3] \o Plan[4] \o Plan[5],
             recorded <- disk.steps,
             complete <- disk.phase = "completed"

ImplementsResumableWorkflow == RW!Spec

\* The state that only --force gets out of: main recorded an error under the phase
\* "failed", because the write of FAILED had raised or because the preflight of a
\* validate-only run raised on a FAILED state, whose phase the `finally` put back.
NeedsForceToGoOn == disk.phase = "failed" /\ disk.lastErr = "failed"

\* When things stop going wrong and the operator keeps running the command, the
\* switchover completes: no failure, kill, failed write or validate-only run
\* leaves another state that a plain rerun cannot get out of (get_last_error_phase,
\* _fail_phase, StateManager.set_phase).
EventuallyCompletedOrForced == <>(disk.phase = "completed" \/ NeedsForceToGoOn)
=============================================================================
