------------------------------- MODULE RunLock -------------------------------
(***************************************************************************)
(* Several processes on one state file: the run lock that StateManager     *)
(* takes for its lifetime, the write lock and the temporary file of one    *)
(* write, --reset-state, and a state file that is reached by a symbolic    *)
(* link.  Switchover assumes that one process at a time works on the file; *)
(* this module is about what the code does to make that true.              *)
(*                                                                         *)
(* Data abstraction.  A document is the number of the write that made it,  *)
(* so that two documents are equal only when they are the same write.  The *)
(* kernel's part (flock, replace, the death of a process closing its       *)
(* files) is external.                                                     *)
(***************************************************************************)
EXTENDS Naturals, FiniteSets

CONSTANTS
  Procs,       \* processes started on the same --state-file
  Resetters,   \* those started with --reset-state
  None,        \* no document, no process
  Torn,        \* what a temporary file holds before it is synced
  Linked,      \* is the path given on the command line a symbolic link?
  MaxWrites    \* bound on the writes of a behaviour

ASSUME ProcsAssumption == Resetters \subseteq Procs /\ None \notin Procs
ASSUME LinkAssumption == Linked \in BOOLEAN
ASSUME WritesAssumption == MaxWrites \in Nat /\ {None, Torn} \cap Nat = {} /\ None # Torn

VARIABLES
  file,     \* the document the state file holds, None when there is no file
  tmp,      \* the temporary file: None, Torn, or a whole document
  linked,   \* the path is still a symbolic link
  runLock,  \* runLock[path]: the holder of the .run.lock file of that path
  wLock,    \* the holder of the .lock file, taken around one write
  pc,       \* pc[p]: where process p is
  seen,     \* seen[p]: the document p has loaded or written last
  lockedAt, \* lockedAt[p]: the path whose run lock p has opened
  writes    \* writes so far; the number of the next document

vars == <<file, tmp, linked, runLock, wLock, pc, seen, lockedAt, writes>>

Paths == {"link", "target"}
Docs == Nat \cup {None}

\* os.path.realpath(state_file) at the time of the call
RealPath == IF linked THEN "target" ELSE "link"

\* The processes past _acquire_run_lock.
Live == {"load", "running", "locking", "writing", "synced"}

\* A process ends: its memory is gone, the kernel gives back its locks.
Ended(p) ==
  /\ seen' = [seen EXCEPT ![p] = None]
  /\ runLock' = [x \in Paths |-> IF runLock[x] = p THEN None ELSE runLock[x]]
  /\ wLock' = IF wLock = p THEN None ELSE wLock
  /\ pc' = [pc EXCEPT ![p] = "idle"]

-----------------------------------------------------------------------------
\* main removes the file before it constructs the StateManager.
ResetState(p) ==
  /\ pc[p] = "idle" /\ p \in Resetters
  /\ file' = None
  /\ linked' = FALSE
  /\ pc' = [pc EXCEPT ![p] = "start"]
  /\ UNCHANGED <<tmp, runLock, wLock, seen, lockedAt, writes>>

Start(p) ==
  /\ pc[p] = "idle" /\ (p \in Resetters => file = None)
  /\ pc' = [pc EXCEPT ![p] = "start"]
  /\ UNCHANGED <<file, tmp, linked, runLock, wLock, seen, lockedAt, writes>>

\* __init__ computes the path of the lock; the lock is taken a moment later.
OpenRunLock(p) ==
  /\ pc[p] = "start"
  /\ lockedAt' = [lockedAt EXCEPT ![p] = RealPath]
  /\ pc' = [pc EXCEPT ![p] = "flock"]
  /\ UNCHANGED <<file, tmp, linked, runLock, wLock, seen, writes>>

\* Mutant: the lock file is written but never locked.
MutAcquireRunLock(p) ==
  /\ pc[p] = "flock"
  /\ runLock' = [runLock EXCEPT ![lockedAt[p]] = p]
  /\ pc' = [pc EXCEPT ![p] = "load"]
  /\ UNCHANGED <<file, tmp, linked, wLock, seen, lockedAt, writes>>

\* flock(LOCK_EX | LOCK_NB) on the run lock
AcquireRunLock(p) ==
  /\ pc[p] = "flock" /\ runLock[lockedAt[p]] = None
  /\ runLock' = [runLock EXCEPT ![lockedAt[p]] = p]
  /\ pc' = [pc EXCEPT ![p] = "load"]
  /\ UNCHANGED <<file, tmp, linked, wLock, seen, lockedAt, writes>>

\* StateLockError: the process exits
Refused(p) ==
  /\ pc[p] = "flock" /\ runLock[lockedAt[p]] # None
  /\ pc' = [pc EXCEPT ![p] = "idle"]
  /\ UNCHANGED <<file, tmp, linked, runLock, wLock, seen, lockedAt, writes>>

\* _load_state; a missing file is written at once with a new document
Load(p) ==
  /\ pc[p] = "load"
  /\ seen' = [seen EXCEPT ![p] = file]
  /\ pc' = [pc EXCEPT ![p] = IF file = None THEN "locking" ELSE "running"]
  /\ UNCHANGED <<file, tmp, linked, runLock, wLock, lockedAt, writes>>

-----------------------------------------------------------------------------
(* _write_state. *)

Write(p) ==
  /\ pc[p] = "running"
  /\ pc' = [pc EXCEPT ![p] = "locking"]
  /\ UNCHANGED <<file, tmp, linked, runLock, wLock, seen, lockedAt, writes>>

\* the blocking flock of the write lock, then open(temp_file, O_TRUNC)
OpenTemp(p) ==
  /\ pc[p] = "locking" /\ wLock = None
  /\ writes < MaxWrites
  /\ wLock' = p
  /\ tmp' = Torn
  /\ pc' = [pc EXCEPT ![p] = "writing"]
  /\ UNCHANGED <<file, linked, runLock, seen, lockedAt, writes>>

\* Mutant: the rename goes ahead of the fsync of the temporary file.
MutSyncTemp(p) ==
  /\ pc[p] = "writing"
  /\ file' = tmp /\ linked' = FALSE
  /\ tmp' = writes + 1
  /\ writes' = writes + 1
  /\ pc' = [pc EXCEPT ![p] = "synced"]
  /\ UNCHANGED <<runLock, wLock, seen, lockedAt>>

\* json.dump, flush and fsync
SyncTemp(p) ==
  /\ pc[p] = "writing"
  /\ tmp' = writes + 1
  /\ writes' = writes + 1
  /\ pc' = [pc EXCEPT ![p] = "synced"]
  /\ UNCHANGED <<file, linked, runLock, wLock, seen, lockedAt>>

\* os.replace(temp_file, state_file): a symbolic link is replaced, not followed
Replace(p) ==
  /\ pc[p] = "synced"
  /\ file' = tmp /\ tmp' = None
  /\ linked' = FALSE
  /\ seen' = [seen EXCEPT ![p] = tmp]
  /\ wLock' = None
  /\ pc' = [pc EXCEPT ![p] = "running"]
  /\ UNCHANGED <<runLock, lockedAt, writes>>

\* The write raises: the temporary file is removed and the write lock released;
\* out of the constructor the exception ends the process.
WriteFails(p) ==
  /\ pc[p] \in {"writing", "synced"}
  /\ tmp' = None
  /\ IF seen[p] = None
     THEN Ended(p)
     ELSE /\ wLock' = None
          /\ pc' = [pc EXCEPT ![p] = "running"]
          /\ UNCHANGED <<runLock, seen>>
  /\ UNCHANGED <<file, linked, lockedAt, writes>>

-----------------------------------------------------------------------------
\* _release_run_lock in the atexit handlers
Finish(p) ==
  /\ pc[p] = "running"
  /\ Ended(p)
  /\ UNCHANGED <<file, tmp, linked, lockedAt, writes>>

\* The process dies anywhere; its temporary file stays behind.
Die(p) ==
  /\ pc[p] # "idle"
  /\ Ended(p)
  /\ UNCHANGED <<file, tmp, linked, lockedAt, writes>>

Init ==
  /\ file = 0 /\ tmp = None
  /\ linked = Linked
  /\ runLock = [x \in Paths |-> None] /\ wLock = None
  /\ pc = [p \in Procs |-> "idle"]
  /\ seen = [p \in Procs |-> None]
  /\ lockedAt = [p \in Procs |-> "link"]
  /\ writes = 0

Next ==
  \E p \in Procs :
    \/ ResetState(p) \/ Start(p)
    \/ OpenRunLock(p) \/ AcquireRunLock(p) \/ Refused(p) \/ Load(p)
    \/ Write(p) \/ OpenTemp(p) \/ SyncTemp(p) \/ Replace(p) \/ WriteFails(p)
    \/ Finish(p) \/ Die(p)

Spec == Init /\ [][Next]_vars
-----------------------------------------------------------------------------
(* Properties. *)

\* The types, and: the write lock is held by the process that is writing and by
\* no other, so that the blocking flock of the next writer always returns.
TypeOK ==
  /\ file \in Docs /\ tmp \in Docs \cup {Torn}
  /\ linked \in BOOLEAN
  /\ runLock \in [Paths -> Procs \cup {None}] /\ wLock \in Procs \cup {None}
  /\ pc \in [Procs -> Live \cup {"idle", "start", "flock"}]
  /\ seen \in [Procs -> Docs]
  /\ lockedAt \in [Procs -> Paths]
  /\ writes \in Nat
  /\ \A p \in Procs : wLock = p <=> pc[p] \in {"writing", "synced"}

\* Two runs never work on the state file at the same time: the run lock is held
\* from before the file is loaded until the process ends (_acquire_run_lock).
OneRunAtATime ==
  \A p, q \in Procs : pc[p] \in Live /\ pc[q] \in Live => p = q

\* A write never destroys progress its writer has not seen: the document it
\* replaces is the one it loaded or wrote last, or there is none (_load_state
\* under the lock, _write_state).
NoLostUpdate ==
  [][\A p \in Procs : Replace(p) => file \in {seen[p], None}]_vars

\* Whoever dies at whatever moment, the state file holds a whole document.
NeverTorn == file # Torn
=============================================================================
