-------------------------- MODULE ResumableWorkflow --------------------------
(***************************************************************************)
(* What the switchover promises its operator, with the state file, the     *)
(* phases and the processes taken away: an ordered plan of steps, each     *)
(* carried out on the hubs and then recorded, so that a run that is cut    *)
(* short can be started again and skips what is recorded.                  *)
(*                                                                         *)
(*   - the work of a step starts only when every earlier step is recorded, *)
(*     and never when the step itself is;                                  *)
(*   - a step is recorded only after its work was carried out;             *)
(*   - the workflow is reported complete only when every step is recorded; *)
(*   - progress is forgotten all at once, never in part.                   *)
(***************************************************************************)
EXTENDS Naturals, Sequences

CONSTANTS
  Steps,     \* the names of the steps
  Order      \* a sequence of steps: the order in which they are carried out

VARIABLES
  applied,   \* the steps whose work was carried out on the hubs
  recorded,  \* the steps the state file says are completed
  complete   \* the state file says the switchover is completed

wvars == <<applied, recorded, complete>>

Init ==
  /\ applied = {}
  /\ recorded = {}
  /\ complete = FALSE

Apply(k) ==
  /\ Order[k] \notin recorded
  /\ \A j \in 1..(k - 1) : Order[j] \in recorded
  /\ applied' = applied \cup {Order[k]}
  /\ UNCHANGED <<recorded, complete>>

Record(s) ==
  /\ s \in applied
  /\ recorded' = recorded \cup {s}
  /\ UNCHANGED <<applied, complete>>

Finish ==
  /\ \A k \in DOMAIN Order : Order[k] \in recorded
  /\ complete' = TRUE
  /\ UNCHANGED <<applied, recorded>>

\* The verdict is withdrawn (another run works on the file), the records stay.
Reopen ==
  /\ complete' = FALSE
  /\ UNCHANGED <<applied, recorded>>

Forget ==
  /\ applied' = {}
  /\ recorded' = {}
  /\ complete' = FALSE

Next ==
  \/ \E k \in DOMAIN Order : Apply(k)
  \/ \E s \in Steps : Record(s)
  \/ Finish
  \/ Reopen
  \/ Forget

Spec == Init /\ [][Next]_wvars
=============================================================================
