------------------------------ MODULE ApiClient ------------------------------
(***************************************************************************)
(* The calls of lib/kube_client.py that change something: a request may    *)
(* not reach the server, or its answer may be lost after it took effect;   *)
(* a call that fails in a way that may pass is made again from the start,  *)
(* up to five times, while others change the same object.                  *)
(*                                                                         *)
(* Data abstraction.  One object name; a body is what the caller sets of   *)
(* the object, "the same body" what _create_result_matches_requested_body  *)
(* finds out.  "ensure" is create_or_patch_configmap, "patch" stands for   *)
(* patch_custom_resource, scale_* and rollout_restart_deployment.  A       *)
(* request takes effect before its call is given up or never.  Dry runs    *)
(* and the validation of names are left out.                               *)
(***************************************************************************)
EXTENDS ApiCall, Naturals

CONSTANTS
  MaxAttempts,  \* stop_after_attempt
  MaxChanges    \* bound: changes by others

ASSUME AttemptsAssumption == MaxAttempts \in Nat \ {0} /\ MaxChanges \in Nat

VARIABLES
  pc,         \* "idle", "request", "patch" (of ensure), or "reread" (of create)
  attempt,    \* the number of the current attempt
  contested,  \* history: others had or changed the object since the call began
  changes

vars == <<contract, pc, attempt, contested, changes>>

Finish(how) ==
  /\ pc' = "idle" /\ attempt' = 0
  /\ call' = None /\ outcome' = how

\* Mutant: the attempts are not counted.
MutRetry ==
  IF attempt = MaxAttempts THEN Finish("raised")
  ELSE pc' = "request" /\ UNCHANGED <<attempt, call, outcome>>

\* The last attempt's error is raised.
Retry ==
  IF attempt = MaxAttempts THEN Finish("raised")
  ELSE pc' = "request" /\ attempt' = attempt + 1 /\ UNCHANGED <<call, outcome>>

\* What the request that is made now may turn the object into.
Sent ==
  IF \/ pc = "reread"
     \/ pc = "request" /\ call.verb = "ensure" /\ object # Absent
     \/ pc = "patch" /\ object = Absent
  THEN {object} ELSE Effects(call, object)

\* No answer, or one that is_retryable_error takes for transient; the request
\* had its effect or not.
Lost ==
  /\ pc # "idle"
  /\ object' \in Sent \cup {object}
  /\ Note
  /\ Retry
  /\ UNCHANGED <<contested, changes>>

\* The server turns the request down for good.
Refused ==
  /\ pc # "idle"
  /\ Finish("raised")
  /\ UNCHANGED <<object, achieved, contested, changes>>

\* The request of the call has its effect and the answer arrives.
Succeed ==
  /\ object' \in Sent
  /\ Note
  /\ Finish("ok")
  /\ UNCHANGED <<contested, changes>>

Conflict(next) ==
  /\ pc' = next
  /\ UNCHANGED <<object, call, outcome, achieved, attempt, contested, changes>>

\* Mutant: a conflict is raised at once.
MutCreate ==
  /\ pc = "request" /\ call.verb = "create"
  /\ \/ object = Absent /\ Succeed
     \/ /\ object # Absent
        /\ Finish("conflict")
        /\ UNCHANGED <<object, achieved, contested, changes>>

\* create_custom_resource
Create ==
  /\ pc = "request" /\ call.verb = "create"
  /\ \/ object = Absent /\ Succeed
     \/ object # Absent /\ Conflict("reread")

\* Mutant: a conflict is a success.
MutReread ==
  /\ pc = "reread"
  /\ Finish("ok")
  /\ UNCHANGED <<object, achieved, contested, changes>>

\* After a 409: an object with the body asked for may be the call's own.
Reread ==
  /\ pc = "reread"
  /\ Finish(IF object # Absent /\ object.body = call.body THEN "ok" ELSE "conflict")
  /\ UNCHANGED <<object, achieved, contested, changes>>

\* create_or_patch_configmap
Ensure ==
  /\ pc = "request" /\ call.verb = "ensure"
  /\ \/ object = Absent /\ Succeed
     \/ object # Absent /\ Conflict("patch")

\* A 404 is raised.
Patch ==
  /\ pc = "patch" \/ (pc = "request" /\ call.verb = "patch")
  /\ \/ object # Absent /\ Succeed
     \/ object = Absent /\ Refused

\* delete_custom_resource, delete_configmap; a 404 is a success.
Delete ==
  /\ pc = "request" /\ call.verb = "delete"
  /\ Succeed

-----------------------------------------------------------------------------
Begin(c) ==
  /\ pc = "idle"
  /\ Invoke(c)
  /\ pc' = "request" /\ attempt' = 1
  /\ contested' = (object # Absent)
  /\ UNCHANGED changes

\* A controller or an operator; the finalizers of an object come to their end.
Interfere ==
  /\ changes < MaxChanges
  /\ changes' = changes + 1
  /\ Others
  /\ contested' = (contested \/ call # None)
  /\ UNCHANGED <<pc, attempt>>

Init ==
  /\ CallInit
  /\ pc = "idle" /\ attempt = 0 /\ contested = FALSE /\ changes = 0

ClientStep == Create \/ Reread \/ Ensure \/ Patch \/ Delete \/ Lost \/ Refused

Next == (\E c \in Calls : Begin(c)) \/ ClientStep \/ Interfere

Spec == Init /\ [][Next]_vars

\* A request is answered or given up after its timeout.
FairSpec == Spec /\ WF_vars(ClientStep)
-----------------------------------------------------------------------------
(* Properties. *)

TypeOK ==
  /\ object \in Objects /\ call \in Calls \cup {None}
  /\ outcome \in {"none", "ok", "raised", "conflict"} /\ achieved \in BOOLEAN
  /\ pc \in {"idle", "request", "patch", "reread"} /\ attempt \in 0..MaxAttempts
  /\ contested \in BOOLEAN /\ changes \in 0..MaxChanges
  /\ (pc = "idle") = (call = None)

\* The calls are what the callers take them for, over lost requests, lost answers
\* and interference: no call ends well without what it was made for.
Contract == INSTANCE ApiCall
  WITH outcome <- IF outcome = "conflict" THEN "raised" ELSE outcome
ImplementsApiCall == Contract!CallSpec

\* A create whose answer was lost recognises its own object: a conflict is raised
\* only if others had or changed the object (create_custom_resource).
OwnCreateIsRecognised == outcome = "conflict" => contested

\* Every call returns, whatever is lost.
EventuallyReturns == []<>(call = None)
=============================================================================
