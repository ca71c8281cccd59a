------------------------------- MODULE ApiCall -------------------------------
(***************************************************************************)
(* What a call of lib/kube_client.py promises its callers, and what the    *)
(* other modules take a call for: it ends well only if at some time during *)
(* the call the object was as the caller wanted it, and it raises with or  *)
(* without its effect.  The object has one name; others change it too.     *)
(***************************************************************************)
CONSTANTS
  Bodies,  \* the contents an object can have, as far as callers set them
  Absent,  \* no object
  None     \* no call

Verbs == {"create", "ensure", "patch", "delete"}
Calls == [verb : Verbs, body : Bodies]
Present == [body : Bodies, leaving : BOOLEAN]
Objects == Present \cup {Absent}

ASSUME ValuesAssumption == Absent \notin Present /\ None \notin Calls

VARIABLES
  object,   \* what is on the server; one that is leaving waits for finalizers
  call,     \* the call that is being made
  outcome,  \* of the last one
  achieved  \* history: the object has been as the call wants it since it began

contract == <<object, call, outcome, achieved>>

Fresh(b) == [body |-> b, leaving |-> FALSE]

\* The object is as call c wants it.
Holds(c, x) ==
  IF c.verb = "delete" THEN x = Absent \/ x.leaving
  ELSE x # Absent /\ x.body = c.body

\* What the server may turn object x into for call c.
Effects(c, x) ==
  CASE c.verb = "delete" /\ x # Absent -> {Absent, [x EXCEPT !.leaving = TRUE]}
    [] c.verb \in {"patch", "ensure"} /\ x # Absent -> {[x EXCEPT !.body = c.body]}
    [] c.verb \in {"create", "ensure"} /\ x = Absent -> {Fresh(c.body)}
    [] OTHER -> {x}

\* What others may turn it into.
OtherEffects(x) ==
  IF x = Absent THEN {Fresh(b) : b \in Bodies}
  ELSE {[x EXCEPT !.body = b] : b \in Bodies \ {x.body}}
         \cup {Absent, [x EXCEPT !.leaving = TRUE]}

Note == achieved' = (achieved \/ (call # None /\ Holds(call, object')))

-----------------------------------------------------------------------------
CallInit ==
  /\ object \in Objects
  /\ call = None /\ outcome = "none" /\ achieved = FALSE

Invoke(c) ==
  /\ call = None
  /\ call' = c /\ outcome' = "none" /\ achieved' = Holds(c, object)
  /\ UNCHANGED object

TakeEffect ==
  /\ call # None
  /\ object' \in Effects(call, object)
  /\ Note
  /\ UNCHANGED <<call, outcome>>

Return ==
  /\ call # None /\ achieved
  /\ call' = None /\ outcome' = "ok"
  /\ UNCHANGED <<object, achieved>>

\* The last effect and the answer to it are one.
EffectAndReturn ==
  /\ call # None
  /\ object' \in Effects(call, object)
  /\ Holds(call, object')
  /\ call' = None /\ outcome' = "ok" /\ achieved' = TRUE

Raise ==
  /\ call # None
  /\ object' \in Effects(call, object) \cup {object}
  /\ Note
  /\ call' = None /\ outcome' = "raised"

Others ==
  /\ object' \in OtherEffects(object)
  /\ Note
  /\ UNCHANGED <<call, outcome>>

CallNext ==
  \/ \E c \in Calls : Invoke(c)
  \/ TakeEffect \/ Return \/ EffectAndReturn \/ Raise \/ Others

CallSpec == CallInit /\ [][CallNext]_contract
=============================================================================
