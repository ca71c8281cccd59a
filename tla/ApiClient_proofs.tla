--------------------------- MODULE ApiClient_proofs ---------------------------
(***************************************************************************)
(* The calls of the client implement the contract that its callers rely    *)
(* on, for every number of attempts and of changes by others.              *)
(***************************************************************************)
EXTENDS ApiClient, TLAPS

-----------------------------------------------------------------------------
(* The inductive invariant. *)

\* The second request of a call belongs to its verb.
Stages ==
  /\ pc = "reread" => call.verb = "create"
  /\ pc = "patch" => call.verb = "ensure"

\* The history has missed nothing.
Noted == call # None => (Holds(call, object) => achieved)

\* Without others a create meets no object but its own.
Alone ==
  call # None /\ call.verb = "create" /\ ~contested =>
    /\ object = Absent \/ object = Fresh(call.body)
    /\ pc = "reread" => object # Absent

Inv == TypeOK /\ Stages /\ Noted /\ Alone /\ OwnCreateIsRecognised

-----------------------------------------------------------------------------
(* The data. *)

LEMMA FreshIsPresent ==
  ASSUME NEW b \in Bodies
  PROVE  Fresh(b) \in Present /\ Fresh(b) # Absent /\ Fresh(b).body = b
<1>1. Fresh(b) \in Present
  BY DEF Fresh, Present
<1> QED
  BY <1>1, ValuesAssumption DEF Fresh

\* What the server makes of an object is an object.
LEMMA EffectsAreObjects ==
  ASSUME NEW c \in Calls, NEW x \in Objects, NEW y \in Effects(c, x)
  PROVE  y \in Objects
<1>1. c.verb \in Verbs /\ c.body \in Bodies
  BY DEF Calls
<1>2. CASE x = Absent
  BY <1>1, <1>2, FreshIsPresent DEF Effects, Objects, Verbs
<1>3. CASE x \in Present
  <2>1. [x EXCEPT !.leaving = TRUE] \in Present /\ [x EXCEPT !.body = c.body] \in Present
    BY <1>1, <1>3 DEF Present
  <2>2. x # Absent
    BY <1>3, ValuesAssumption
  <2> QED
    BY <1>1, <2>1, <2>2 DEF Effects, Objects, Verbs
<1> QED
  BY <1>2, <1>3 DEF Objects

LEMMA OtherEffectsAreObjects ==
  ASSUME NEW x \in Objects, NEW y \in OtherEffects(x)
  PROVE  y \in Objects
<1>1. CASE x = Absent
  BY <1>1, FreshIsPresent DEF OtherEffects, Objects
<1>2. CASE x \in Present
  <2>1. [x EXCEPT !.leaving = TRUE] \in Present
    BY <1>2 DEF Present
  <2>2. \A b \in Bodies : [x EXCEPT !.body = b] \in Present
    BY <1>2 DEF Present
  <2>3. x # Absent
    BY <1>2, ValuesAssumption
  <2> QED
    BY <2>1, <2>2, <2>3 DEF OtherEffects, Objects
<1> QED
  BY <1>1, <1>2 DEF Objects

\* The last request of a call that ends well leaves what the call wants.
LEMMA SentHolds ==
  ASSUME TypeOK, call # None, NEW y \in Sent,
         \/ pc = "request" /\ call.verb \in {"create", "ensure"} /\ object = Absent
         \/ pc = "patch" /\ call.verb = "ensure" /\ object # Absent
         \/ pc = "request" /\ call.verb = "patch" /\ object # Absent
         \/ pc = "request" /\ call.verb = "delete"
  PROVE  Holds(call, y) /\ y \in Effects(call, object)
<1> call \in Calls /\ object \in Objects
  BY DEF TypeOK
<1>1. y \in Effects(call, object)
  BY DEF Sent
<1>2. CASE object = Absent
  BY <1>1, <1>2, FreshIsPresent DEF Effects, Holds, Calls, Verbs
<1>3. CASE object \in Present
  BY <1>1, <1>3, ValuesAssumption DEF Effects, Holds, Present, Calls, Verbs
<1> QED
  BY <1>1, <1>2, <1>3 DEF Objects

\* Whatever is sent is one of the effects of the call or none.
LEMMA SentIsEffect ==
  ASSUME NEW y \in Sent
  PROVE  y = object \/ y \in Effects(call, object)
BY DEF Sent

-----------------------------------------------------------------------------
(* The invariant is inductive. *)

LEMMA InitInv == Init => Inv
<1> SUFFICES ASSUME Init PROVE Inv
  OBVIOUS
<1> USE DEF Init, CallInit
<1>1. 0 \in 0..MaxAttempts /\ 0 \in 0..MaxChanges
  BY AttemptsAssumption
<1>2. TypeOK
  BY <1>1 DEF TypeOK
<1>3. Stages /\ Noted /\ Alone /\ OwnCreateIsRecognised
  BY DEF Stages, Noted, Alone, OwnCreateIsRecognised
<1> QED
  BY <1>2, <1>3 DEF Inv

LEMMA NextInv == Inv /\ [Next]_vars => Inv'
<1> SUFFICES ASSUME Inv, [Next]_vars PROVE Inv'
  OBVIOUS
<1> USE ValuesAssumption, AttemptsAssumption DEF Inv
<1>1. ASSUME NEW c \in Calls, Begin(c) PROVE Inv'
  <2>1. c # None /\ call' = c /\ object' = object /\ pc' = "request"
    BY <1>1 DEF Begin, Invoke
  <2>2. achieved' = Holds(c, object) /\ contested' = (object # Absent) /\ outcome' = "none"
    BY <1>1 DEF Begin, Invoke
  <2>3. attempt' \in 0..MaxAttempts
    BY <1>1 DEF Begin
  <2>4. achieved' \in BOOLEAN /\ contested' \in BOOLEAN
    BY <2>2 DEF Holds
  <2>5. TypeOK'
    BY <1>1, <2>1, <2>2, <2>3, <2>4 DEF Begin, Invoke, TypeOK
  <2>6. Noted'
    BY <2>1, <2>2 DEF Noted, Holds
  <2>7. Stages' /\ Alone' /\ OwnCreateIsRecognised'
    BY <2>1, <2>2 DEF Stages, Alone, OwnCreateIsRecognised
  <2> QED
    BY <2>5, <2>6, <2>7
<1>2. ASSUME Create PROVE Inv'
  <2>0. pc = "request" /\ call.verb = "create" /\ call # None /\ call \in Calls /\ object \in Objects
    BY <1>2 DEF Create, TypeOK
  <2>1. CASE object = Absent /\ Succeed
    <3>1. object' \in Objects /\ Holds(call, object')
      BY <2>0, <2>1, SentHolds, EffectsAreObjects DEF Succeed
    <3> QED
      BY <2>0, <2>1, <3>1 DEF Succeed, Finish, Note, TypeOK, Stages, Noted, Alone, OwnCreateIsRecognised
  <2>2. CASE object # Absent /\ Conflict("reread")
    BY <2>0, <2>2 DEF Conflict, TypeOK, Stages, Noted, Alone, OwnCreateIsRecognised, Holds, Fresh
  <2> QED
    BY <1>2, <2>1, <2>2 DEF Create
<1>3. ASSUME Reread PROVE Inv'
  <2>0. pc = "reread" /\ call.verb = "create" /\ call # None /\ call \in Calls /\ object \in Objects
    BY <1>3 DEF Reread, TypeOK, Stages
  <2>1. contested \/ (object # Absent /\ object.body = call.body)
    BY <2>0 DEF Alone, Fresh
  <2> QED
    BY <1>3, <2>0, <2>1 DEF Reread, Finish, TypeOK, Stages, Noted, Alone, OwnCreateIsRecognised
<1>4. ASSUME Ensure PROVE Inv'
  <2>0. pc = "request" /\ call.verb = "ensure" /\ call # None /\ call \in Calls /\ object \in Objects
    BY <1>4 DEF Ensure, TypeOK
  <2>1. CASE object = Absent /\ Succeed
    <3>1. object' \in Objects /\ Holds(call, object')
      BY <2>0, <2>1, SentHolds, EffectsAreObjects DEF Succeed
    <3> QED
      BY <2>0, <2>1, <3>1 DEF Succeed, Finish, Note, TypeOK, Stages, Noted, Alone, OwnCreateIsRecognised
  <2>2. CASE object # Absent /\ Conflict("patch")
    BY <2>0, <2>2 DEF Conflict, TypeOK, Stages, Noted, Alone, OwnCreateIsRecognised, Holds, Fresh
  <2> QED
    BY <1>4, <2>1, <2>2 DEF Ensure
<1>5. ASSUME Patch PROVE Inv'
  <2>0. call # None /\ call \in Calls /\ object \in Objects
    BY <1>5 DEF Patch, TypeOK
  <2>1. CASE object # Absent /\ Succeed
    <3>1. object' \in Objects /\ Holds(call, object')
      BY <1>5, <2>0, <2>1, SentHolds, EffectsAreObjects DEF Succeed, Patch, Stages
    <3> QED
      BY <2>0, <2>1, <3>1 DEF Succeed, Finish, Note, TypeOK, Stages, Noted, Alone, OwnCreateIsRecognised
  <2>2. CASE object = Absent /\ Refused
    BY <2>0, <2>2 DEF Refused, Finish, TypeOK, Stages, Noted, Alone, OwnCreateIsRecognised
  <2> QED
    BY <1>5, <2>1, <2>2 DEF Patch
<1>6. ASSUME Delete PROVE Inv'
  <2>0. pc = "request" /\ call.verb = "delete" /\ call # None /\ call \in Calls /\ object \in Objects
    BY <1>6 DEF Delete, TypeOK
  <2>1. object' \in Objects /\ Holds(call, object')
    BY <1>6, <2>0, SentHolds, EffectsAreObjects DEF Succeed, Delete
  <2> QED
    BY <1>6, <2>0, <2>1 DEF Delete, Succeed, Finish, Note, TypeOK, Stages, Noted, Alone, OwnCreateIsRecognised
<1>7. ASSUME Lost PROVE Inv'
  <2>0. call # None /\ call \in Calls /\ object \in Objects
    BY <1>7 DEF Lost, TypeOK
  <2>1. object' = object \/ object' \in Effects(call, object)
    BY <1>7, SentIsEffect DEF Lost
  <2>2. object' \in Objects
    BY <2>0, <2>1, EffectsAreObjects
  <2>3. achieved' = (achieved \/ Holds(call, object')) /\ achieved' \in BOOLEAN
    BY <1>7, <2>0 DEF Lost, Note, TypeOK
  <2>4. call.verb = "create" /\ ~contested => object' = Absent \/ object' = Fresh(call.body)
    BY <2>0, <2>1 DEF Alone, Effects, Calls
  <2>5. CASE Finish("raised")
    BY <1>7, <2>2, <2>3, <2>5 DEF Lost, Finish, TypeOK, Stages, Noted, Alone, OwnCreateIsRecognised
  <2>6. CASE pc' = "request" /\ attempt' = attempt + 1 /\ attempt # MaxAttempts /\ UNCHANGED <<call, outcome>>
    <3>1. attempt' \in 0..MaxAttempts
      BY <2>6 DEF TypeOK
    <3>2. TypeOK'
      BY <1>7, <2>2, <2>3, <2>6, <3>1 DEF Lost, TypeOK
    <3>3. Noted'
      BY <2>3, <2>6 DEF Noted, Holds
    <3>4. Alone'
      BY <1>7, <2>4, <2>6 DEF Lost, Alone, Fresh
    <3>5. Stages' /\ OwnCreateIsRecognised'
      BY <1>7, <2>6 DEF Lost, Stages, OwnCreateIsRecognised
    <3> QED
      BY <3>2, <3>3, <3>4, <3>5
  <2> QED
    BY <1>7, <2>5, <2>6 DEF Lost, Retry
<1>8. ASSUME Refused PROVE Inv'
  BY <1>8 DEF Refused, Finish, TypeOK, Stages, Noted, Alone, OwnCreateIsRecognised
<1>9. ASSUME Interfere PROVE Inv'
  <2>1. object' \in Objects
    BY <1>9, OtherEffectsAreObjects DEF Interfere, Others, TypeOK
  <2>2. achieved' \in BOOLEAN
    BY <1>9 DEF Interfere, Others, Note, TypeOK
  <2>3. changes' \in 0..MaxChanges
    BY <1>9 DEF Interfere, TypeOK
  <2>4. contested' = (contested \/ call # None) /\ contested' \in BOOLEAN
    BY <1>9 DEF Interfere, TypeOK
  <2>5. TypeOK'
    BY <1>9, <2>1, <2>2, <2>3, <2>4 DEF Interfere, Others, TypeOK
  <2>6. Noted'
    BY <1>9 DEF Interfere, Others, Note, Noted, Holds
  <2>7. Alone'
    BY <1>9, <2>4 DEF Interfere, Others, Alone
  <2>8. Stages' /\ OwnCreateIsRecognised'
    BY <1>9, <2>4 DEF Interfere, Others, Stages, OwnCreateIsRecognised
  <2> QED
    BY <2>5, <2>6, <2>7, <2>8
<1>10. CASE UNCHANGED vars
  BY <1>10 DEF vars, contract, TypeOK, Stages, Noted, Alone, OwnCreateIsRecognised, Holds, Fresh
<1> QED
  BY <1>1, <1>2, <1>3, <1>4, <1>5, <1>6, <1>7, <1>8, <1>9, <1>10 DEF Next, ClientStep

LEMMA Invariant == Spec => []Inv
BY InitInv, NextInv, PTL DEF Spec

\* The client stays in its types (KubeClient).
THEOREM TypeCorrect == Spec => []TypeOK
<1>1. Inv => TypeOK
  BY DEF Inv
<1> QED
  BY <1>1, Invariant, PTL

\* A conflict is raised only when others had or changed the object
\* (create_custom_resource).
THEOREM ConflictsAreForeign == Spec => []OwnCreateIsRecognised
<1>1. Inv => OwnCreateIsRecognised
  BY DEF Inv
<1> QED
  BY <1>1, Invariant, PTL

-----------------------------------------------------------------------------
(* The refinement. *)

\* Every step of the client is one of the contract or none.
LEMMA StepSimulates ==
  Inv /\ [Next]_vars => [Contract!CallNext]_(Contract!contract)
<1> SUFFICES ASSUME Inv, [Next]_vars, UNCHANGED Contract!contract => FALSE
             PROVE  Contract!CallNext
  OBVIOUS
<1> USE ValuesAssumption DEF Inv
<1>1. ASSUME NEW c \in Calls, Begin(c) PROVE Contract!CallNext
  <2>1. Contract!Invoke(c)
    BY <1>1 DEF Begin, Invoke, Contract!Invoke, Holds, Contract!Holds
  <2> QED
    BY <2>1 DEF Contract!CallNext, Contract!Calls, Calls, Contract!Verbs, Verbs
<1>2. ASSUME Succeed, call # None, Holds(call, object'), object' \in Effects(call, object)
      PROVE  Contract!CallNext
  <2>1. Contract!EffectAndReturn
    BY <1>2 DEF Succeed, Finish, Note, Contract!EffectAndReturn, Holds, Contract!Holds,
                Effects, Contract!Effects, Fresh, Contract!Fresh
  <2> QED
    BY <2>1 DEF Contract!CallNext
<1>3. ASSUME Create \/ Ensure \/ Patch \/ Delete PROVE Contract!CallNext
  <2>1. CASE Succeed
    <3>1. Holds(call, object') /\ object' \in Effects(call, object) /\ call # None
      BY <1>3, <2>1, SentHolds
         DEF Create, Ensure, Patch, Delete, Succeed, Conflict, Refused, Stages, TypeOK, Finish
    <3> QED
      BY <1>2, <2>1, <3>1
  <2>2. CASE Conflict("reread") \/ Conflict("patch")
    BY <2>2 DEF Conflict, Contract!contract
  <2>3. CASE Refused
    <3>1. Contract!Raise
      BY <2>3 DEF Refused, Finish, Noted, TypeOK, Contract!Raise, Contract!Note, Holds, Contract!Holds
    <3> QED
      BY <3>1 DEF Contract!CallNext
  <2> QED
    BY <1>3, <2>1, <2>2, <2>3 DEF Create, Ensure, Patch, Delete
<1>4. ASSUME Reread PROVE Contract!CallNext
  <2>1. pc = "reread" /\ call # None /\ call.verb = "create"
    BY <1>4 DEF Reread, TypeOK, Stages
  <2>2. CASE object # Absent /\ object.body = call.body
    <3>1. achieved
      BY <2>1, <2>2 DEF Noted, Holds
    <3>2. Contract!Return
      BY <1>4, <2>1, <2>2, <3>1 DEF Reread, Finish, Contract!Return
    <3> QED
      BY <3>2 DEF Contract!CallNext
  <2>3. CASE ~(object # Absent /\ object.body = call.body)
    <3>1. Contract!Raise
      BY <1>4, <2>1, <2>3 DEF Reread, Finish, Noted, TypeOK, Contract!Raise, Contract!Note, Holds, Contract!Holds
    <3> QED
      BY <3>1 DEF Contract!CallNext
  <2> QED
    BY <2>2, <2>3
<1>5. ASSUME Lost PROVE Contract!CallNext
  <2>0. call # None
    BY <1>5 DEF Lost, TypeOK
  <2>1. object' = object \/ object' \in Contract!Effects(call, object)
    BY <1>5, SentIsEffect DEF Lost, Effects, Contract!Effects, Fresh, Contract!Fresh
  <2>2. Contract!Note
    BY <1>5 DEF Lost, Note, Contract!Note, Holds, Contract!Holds
  <2>3. CASE Finish("raised")
    <3>1. Contract!Raise
      BY <2>0, <2>1, <2>2, <2>3 DEF Finish, Contract!Raise
    <3> QED
      BY <3>1 DEF Contract!CallNext
  <2>4. CASE UNCHANGED <<call, outcome>> /\ object' \in Contract!Effects(call, object)
    <3>1. Contract!TakeEffect
      BY <2>0, <2>2, <2>4 DEF Contract!TakeEffect
    <3> QED
      BY <3>1 DEF Contract!CallNext
  <2>5. CASE UNCHANGED <<call, outcome>> /\ object' = object
    <3>1. achieved' = achieved
      BY <1>5, <2>0, <2>5 DEF Lost, Note, Noted, TypeOK
    <3> QED
      BY <2>5, <3>1 DEF Contract!contract
  <2> QED
    BY <1>5, <2>1, <2>3, <2>4, <2>5 DEF Lost, Retry
<1>6. ASSUME Refused PROVE Contract!CallNext
  <2>1. Contract!Raise
    BY <1>6 DEF Refused, Finish, Noted, TypeOK, Contract!Raise, Contract!Note, Holds, Contract!Holds
  <2> QED
    BY <2>1 DEF Contract!CallNext
<1>7. ASSUME Interfere PROVE Contract!CallNext
  <2>1. Contract!Others
    BY <1>7 DEF Interfere, Others, Contract!Others, OtherEffects, Contract!OtherEffects,
                Fresh, Contract!Fresh, Note, Contract!Note, Holds, Contract!Holds
  <2> QED
    BY <2>1 DEF Contract!CallNext
<1>8. CASE UNCHANGED vars
  BY <1>8 DEF vars, contract, Contract!contract
<1> QED
  BY <1>1, <1>3, <1>4, <1>5, <1>6, <1>7, <1>8 DEF Next, ClientStep

\* The calls are what their callers take them for (KubeClient).
THEOREM Refinement == Spec => ImplementsApiCall
<1>1. Init => Contract!CallInit
  BY DEF Init, CallInit, Contract!CallInit, Objects, Contract!Objects, Present, Contract!Present
<1> QED
  BY <1>1, Invariant, StepSimulates, PTL DEF Spec, ImplementsApiCall, Contract!CallSpec
=============================================================================
