------------------------ MODULE PostActivation_proofs ------------------------
(***************************************************************************)
(* The annotations, the compactors and the repair of the klusterlets, for  *)
(* every set of clusters.                                                  *)
(***************************************************************************)
EXTENDS PostActivation, TLAPS

-----------------------------------------------------------------------------
(* The inductive invariant. *)

\* The steps on the old hub and the activation.
Early == {"disable_auto_import", "scale_down_thanos", "activation"}
BeforeActivation == {"disable_auto_import", "scale_down_thanos"}

\* These are recorded before all others, and the process is where the record
\* has it.
Ordered ==
  /\ recorded \subseteq BeforeActivation \/ Early \subseteq recorded
  /\ pc \in Early \cup {"annotate", "look_at_pods"} => recorded \subseteq BeforeActivation
  /\ pc = "activation" => BeforeActivation \subseteq recorded
  /\ pc \in Steps => pc \notin recorded
  /\ pc = "repair" => "verify_klusterlet_connections" \notin recorded
  /\ pc \notin Early \cup {"annotate", "look_at_pods", "down"} => Early \subseteq recorded

\* What a loop has not come to yet it has on its list.
Annotated ==
  /\ Clusters \ Late \subseteq managed
  /\ pc = "annotate" => (Clusters \ Late) \ held \subseteq todo
  /\ AnnotationsInPlace

\* A look at the pods is only taken once there are no replicas.
Scaled ==
  /\ "scale_down_thanos" \in recorded => compactor = "gone" \/ (compactor = "ending" /\ warned)
  /\ pc = "look_at_pods" => compactor \in {"ending", "gone"}

\* Before the activation no agent moves.
Still ==
  "activation" \notin recorded =>
    \A c \in Clusters : bootstrap[c] = "old" /\ agent[c] = "old"

\* The threads end with the process.
Threads == \A c \in Clusters : worker[c] # "idle" => pc = "repair"

\* The old hub does not take back a cluster that has the annotation.
NotTakenBack == \A c \in held : agent[c] = "new" => bootstrap[c] # "old"

\* How far the repair of c has come.
RepairGoesOn(c) ==
  /\ worker[c] \in {"idle", "restart"} => "new" \in {bootstrap[c], agent[c]}
  /\ worker[c] = "create" => bootstrap[c] # "old"

Repairing == pc = "repair" => \A c \in (managed \cap held) \ missed : RepairGoesOn(c)

Inv == /\ TypeOK /\ Ordered /\ Annotated /\ Scaled
       /\ Still /\ Threads /\ NotTakenBack /\ Repairing /\ RepairedUnlessMissed

-----------------------------------------------------------------------------
(* The order of the steps. *)

LEMMA NextStepOrdered ==
  ASSUME NEW rec, rec \subseteq BeforeActivation \/ Early \subseteq rec
  PROVE  /\ NextStep(rec) \in (Steps \ rec) \cup {"end"}
         /\ NextStep(rec) \in Early => rec \subseteq BeforeActivation
         /\ NextStep(rec) = "activation" => BeforeActivation \subseteq rec
         /\ NextStep(rec) \notin Early => Early \subseteq rec
<1>1. Len(Order) = 10
  BY DEF Order
<1>2. Early \subseteq Steps /\ "end" \notin Early
  <2>1. Order[1] \in Steps /\ Order[2] \in Steps /\ Order[3] \in Steps
    BY <1>1 DEF Steps
  <2> QED
    BY <2>1 DEF Order, Early
<1>3. CASE Steps \subseteq rec
  BY <1>2, <1>3 DEF NextStep
<1>4. CASE ~(Steps \subseteq rec)
  <2> DEFINE First(k) == Order[k] \notin rec /\ \A j \in 1..(k - 1) : Order[j] \in rec
  <2>1. \E k \in 1..10 : Order[k] \notin rec
    BY <1>1, <1>4 DEF Steps
  <2>2. \E k \in 1..10 : First(k)
    <3>1. ASSUME \A k \in 1..10 : ~First(k) PROVE FALSE
      <4>1. Order[1] \in rec
        BY <3>1
      <4>2. Order[2] \in rec
        BY <3>1, <4>1
      <4>3. Order[3] \in rec
        BY <3>1, <4>1, <4>2
      <4>4. Order[4] \in rec
        BY <3>1, <4>1, <4>2, <4>3
      <4>5. Order[5] \in rec
        BY <3>1, <4>1, <4>2, <4>3, <4>4
      <4>6. Order[6] \in rec
        BY <3>1, <4>1, <4>2, <4>3, <4>4, <4>5
      <4>7. Order[7] \in rec
        BY <3>1, <4>1, <4>2, <4>3, <4>4, <4>5, <4>6
      <4>8. Order[8] \in rec
        BY <3>1, <4>1, <4>2, <4>3, <4>4, <4>5, <4>6, <4>7
      <4>9. Order[9] \in rec
        BY <3>1, <4>1, <4>2, <4>3, <4>4, <4>5, <4>6, <4>7, <4>8
      <4>10. Order[10] \in rec
        BY <3>1, <4>1, <4>2, <4>3, <4>4, <4>5, <4>6, <4>7, <4>8, <4>9
      <4> QED
        BY <2>1, <4>1, <4>2, <4>3, <4>4, <4>5, <4>6, <4>7, <4>8, <4>9, <4>10
    <3> QED
      BY <3>1
  <2> DEFINE n == CHOOSE k \in 1..Len(Order) : First(k)
  <2>3. n \in 1..10 /\ First(n)
    BY <1>1, <2>2
  <2>4. NextStep(rec) = Order[n]
    BY <1>4 DEF NextStep
  <2>5. Order[n] \in Steps \ rec
    BY <1>1, <2>3 DEF Steps
  <2> HIDE DEF n
  <2>6. Order[1] = "disable_auto_import" /\ Order[2] = "scale_down_thanos"
        /\ Order[3] = "activation"
    BY DEF Order
  <2>7. CASE n \in 1..3
    <3>1. Order[n] \in Early
      BY <2>6, <2>7 DEF Early
    <3>2. rec \subseteq BeforeActivation
      BY <2>5, <3>1
    <3>3. Order[n] = "activation" => BeforeActivation \subseteq rec
      BY <2>3, <2>6, <2>7 DEF BeforeActivation
    <3> QED
      BY <2>4, <2>5, <3>1, <3>2, <3>3
  <2>8. CASE n \in 4..10
    <3>1. Early \subseteq rec
      BY <2>3, <2>6, <2>8 DEF Early
    <3> QED
      BY <2>4, <2>5, <3>1 DEF Early
  <2> QED
    BY <2>3, <2>7, <2>8
<1> QED
  BY <1>3, <1>4

\* A step that is recorded where the process is keeps the order.
LEMMA RecordKeepsOrder ==
  ASSUME TypeOK, Ordered, NEW step \in Steps, RecordStep(step),
         pc = step \/ (step = "disable_auto_import" /\ pc = "annotate")
           \/ (step = "scale_down_thanos" /\ pc = "look_at_pods")
           \/ (step \notin Early /\ pc \notin Early \cup {"annotate", "look_at_pods", "down"})
  PROVE  /\ Ordered'
         /\ recorded' = recorded \cup {step} /\ recorded' \subseteq Steps
         /\ pc' \in Steps \cup {"end"}
<1>0. recorded' = recorded \cup {step} /\ Early = BeforeActivation \cup {"activation"}
  BY DEF RecordStep, Early, BeforeActivation
<1>1. recorded' \subseteq BeforeActivation \/ Early \subseteq recorded'
  <2>1. CASE step \in BeforeActivation
    <3>1. pc \in Early \cup {"annotate", "look_at_pods"}
      BY <1>0, <2>1
    <3> QED
      BY <1>0, <2>1, <3>1 DEF Ordered
  <2>2. CASE step = "activation"
    <3>1. pc = "activation"
      BY <1>0, <2>2
    <3> QED
      BY <1>0, <2>2, <3>1 DEF Ordered
  <2>3. CASE step \notin Early
    <3>1. Early \subseteq recorded
      <4>1. pc \notin Early \cup {"annotate", "look_at_pods", "down"}
        BY <2>3 DEF Steps, Order, Early
      <4> QED
        BY <4>1 DEF Ordered
    <3> QED
      BY <1>0, <3>1
  <2> QED
    BY <1>0, <2>1, <2>2, <2>3
<1>2. pc' = NextStep(recorded') /\ recorded' = recorded \cup {step}
  BY DEF RecordStep
<1>3. {"repair", "annotate", "look_at_pods", "down", "end"} \cap Steps = {}
  BY DEF Steps, Order
<1>4. pc' \in (Steps \ recorded') \cup {"end"}
  BY <1>1, <1>2, NextStepOrdered
<1>5. Ordered'
  <2>1. pc' \in Early => recorded' \subseteq BeforeActivation
    BY <1>1, <1>2, NextStepOrdered
  <2>2. pc' = "activation" => BeforeActivation \subseteq recorded'
    BY <1>1, <1>2, NextStepOrdered
  <2>3. pc' \notin Early => Early \subseteq recorded'
    BY <1>1, <1>2, NextStepOrdered
  <2> QED
    BY <1>1, <1>3, <1>4, <2>1, <2>2, <2>3 DEF Ordered
<1> QED
  BY <1>2, <1>4, <1>5 DEF TypeOK

-----------------------------------------------------------------------------
(* The steps of the process. *)

LEMMA StepsAre ==
  Steps = Early \cup {"verify_clusters_connected", "verify_klusterlet_connections",
                      "verify_auto_import_cleanup", "scale_up_observability_components",
                      "restart_observatorium_api", "verify_observability_pods",
                      "verify_metrics_collection"}
<1>1. Len(Order) = 10 /\ 1..10 = {1, 2, 3, 4, 5, 6, 7, 8, 9, 10}
  BY DEF Order
<1>2. Steps = {Order[1], Order[2], Order[3], Order[4], Order[5], Order[6], Order[7],
               Order[8], Order[9], Order[10]}
  BY <1>1 DEF Steps
<1> QED
  BY <1>2 DEF Order, Early

\* Outside the repair what is recorded leaves the agents' part of the invariant alone.
LEMMA AgentsLeftAlone ==
  ASSUME Inv, UNCHANGED <<secrets, worker, missed, managed, held>>,
         pc # "repair", pc' # "repair",
         "activation" \in recorded => "activation" \in recorded',
         "verify_klusterlet_connections" \in recorded' =>
           "verify_klusterlet_connections" \in recorded
  PROVE  Still' /\ Threads' /\ NotTakenBack' /\ Repairing' /\ RepairedUnlessMissed'
<1> USE DEF Inv, secrets
<1>1. Still' /\ Threads'
  BY DEF Still, Threads
<1>2. NotTakenBack' /\ Repairing'
  BY DEF NotTakenBack, Repairing
<1>3. RepairedUnlessMissed'
  BY DEF RepairedUnlessMissed
<1> QED
  BY <1>1, <1>2, <1>3

LEMMA ProcessInv == Inv /\ (Start \/ ProcessStep) => Inv'
<1> SUFFICES ASSUME Inv, Start \/ ProcessStep PROVE Inv'
  OBVIOUS
<1>0. Early = {"disable_auto_import", "scale_down_thanos", "activation"}
      /\ BeforeActivation = {"disable_auto_import", "scale_down_thanos"}
  BY DEF Early, BeforeActivation
<1> USE StepsAre, <1>0 DEF Inv, klusterlet, hubs, secrets
<1>1. ASSUME Start PROVE Inv'
  <2>1. pc' = NextStep(recorded) /\ recorded' = recorded
    BY <1>1 DEF Start
  <2>2. pc' \in (Steps \ recorded) \cup {"end"}
    BY <2>1, NextStepOrdered DEF Ordered
  <2>3. Ordered'
    BY <2>1, <2>2, NextStepOrdered DEF Ordered
  <2>4. TypeOK'
    BY <1>1, <2>1, <2>2 DEF Start, TypeOK, KlusterletTypeOK
  <2>5. Annotated' /\ Scaled'
    BY <1>1, <2>2 DEF Start, Annotated, AnnotationsInPlace, Scaled
  <2>6. pc # "repair" /\ pc' # "repair"
    BY <1>1, <2>2 DEF Start
  <2> QED
    BY <1>1, <2>1, <2>3, <2>4, <2>5, <2>6, AgentsLeftAlone DEF Start
<1>2. ASSUME ListOldClusters PROVE Inv'
  <2>1. Ordered' /\ TypeOK'
    BY <1>2 DEF ListOldClusters, Ordered, TypeOK, KlusterletTypeOK
  <2>2. Annotated' /\ Scaled'
    BY <1>2 DEF ListOldClusters, Annotated, AnnotationsInPlace, Scaled
  <2> QED
    BY <1>2, <2>1, <2>2, AgentsLeftAlone DEF ListOldClusters
<1>3. ASSUME Annotate PROVE Inv'
  <2>1. recorded \subseteq BeforeActivation
    BY <1>3 DEF Annotate, Ordered
  <2>2. Ordered' /\ TypeOK'
    BY <1>3 DEF Annotate, Ordered, TypeOK, KlusterletTypeOK
  <2>3. Annotated' /\ Scaled'
    BY <1>3 DEF Annotate, Annotated, AnnotationsInPlace, Scaled
  <2>4. Still' /\ Threads'
    BY <1>3 DEF Annotate, Still, Threads
  <2>5. \A c \in Clusters : agent[c] = "old"
    BY <2>1 DEF Still
  <2>6. NotTakenBack'
    BY <1>3, <2>2, <2>5 DEF Annotate, NotTakenBack, TypeOK
  <2>7. Repairing' /\ RepairedUnlessMissed'
    BY <1>3, <2>1 DEF Annotate, Repairing, RepairedUnlessMissed
  <2> QED
    BY <2>2, <2>3, <2>4, <2>6, <2>7
<1>4. ASSUME AllAnnotated PROVE Inv'
  <2>1. /\ Ordered' /\ recorded' = recorded \cup {"disable_auto_import"}
        /\ recorded' \subseteq Steps /\ pc' \in Steps \cup {"end"}
    BY <1>4, RecordKeepsOrder DEF AllAnnotated
  <2>2. TypeOK'
    BY <1>4, <2>1 DEF AllAnnotated, TypeOK, KlusterletTypeOK
  <2>3. Annotated' /\ Scaled'
    BY <1>4, <2>1 DEF AllAnnotated, Ordered, Annotated, AnnotationsInPlace, Scaled, TypeOK
  <2> QED
    BY <1>4, <2>1, <2>2, <2>3, AgentsLeftAlone DEF AllAnnotated
<1>5. ASSUME ScaleDown PROVE Inv'
  <2>1. CASE compactor = "gone" /\ UNCHANGED compactor /\ RecordStep("scale_down_thanos")
    <3>1. /\ Ordered' /\ recorded' = recorded \cup {"scale_down_thanos"}
          /\ recorded' \subseteq Steps /\ pc' \in Steps \cup {"end"}
      BY <1>5, <2>1, RecordKeepsOrder DEF ScaleDown
    <3>2. TypeOK'
      BY <1>5, <2>1, <3>1 DEF ScaleDown, TypeOK, KlusterletTypeOK
    <3>3. Annotated' /\ Scaled'
      BY <1>5, <2>1, <3>1 DEF ScaleDown, Ordered, Annotated, AnnotationsInPlace, Scaled, TypeOK
    <3> QED
      BY <1>5, <3>1, <3>2, <3>3, AgentsLeftAlone DEF ScaleDown
  <2>2. CASE /\ compactor' = IF compactor = "up" THEN "ending" ELSE compactor
             /\ pc' = "look_at_pods" /\ UNCHANGED recorded
    <3>1. Ordered' /\ TypeOK'
      BY <1>5, <2>2 DEF ScaleDown, Ordered, TypeOK, KlusterletTypeOK
    <3>2. Annotated' /\ Scaled'
      BY <1>5, <2>2 DEF ScaleDown, Annotated, AnnotationsInPlace, Scaled, TypeOK
    <3> QED
      BY <1>5, <2>2, <3>1, <3>2, AgentsLeftAlone DEF ScaleDown
  <2> QED
    BY <1>5, <2>1, <2>2 DEF ScaleDown
<1>17. ASSUME LookAtPods PROVE Inv'
  <2>1. /\ Ordered' /\ recorded' = recorded \cup {"scale_down_thanos"}
        /\ recorded' \subseteq Steps /\ pc' \in Steps \cup {"end"}
    BY <1>17, RecordKeepsOrder DEF LookAtPods
  <2>2. TypeOK'
    BY <1>17, <2>1 DEF LookAtPods, TypeOK, KlusterletTypeOK
  <2>3. Annotated' /\ Scaled'
    BY <1>17, <2>1 DEF LookAtPods, Ordered, Annotated, AnnotationsInPlace, Scaled, TypeOK
  <2> QED
    BY <1>17, <2>1, <2>2, <2>3, AgentsLeftAlone DEF LookAtPods
<1>6. ASSUME Activate PROVE Inv'
  <2>1. /\ Ordered' /\ recorded' = recorded \cup {"activation"}
        /\ recorded' \subseteq Steps /\ pc' \in Steps \cup {"end"}
    BY <1>6, RecordKeepsOrder DEF Activate
  <2>2. TypeOK'
    BY <1>6, <2>1 DEF Activate, TypeOK, KlusterletTypeOK
  <2>3. Annotated' /\ Scaled'
    BY <1>6, <2>1 DEF Activate, Ordered, Annotated, AnnotationsInPlace, Scaled, TypeOK
  <2> QED
    BY <1>6, <2>1, <2>2, <2>3, AgentsLeftAlone DEF Activate
<1>7. ASSUME BriefWait PROVE Inv'
  <2>1. CASE AllReported
    <3>1. /\ Ordered' /\ recorded' = recorded \cup {"verify_clusters_connected"}
          /\ recorded' \subseteq Steps /\ pc' \in Steps \cup {"end"}
      BY <1>7, <2>1, RecordKeepsOrder DEF BriefWait
    <3>2. TypeOK' /\ Annotated' /\ Scaled'
      BY <1>7, <3>1 DEF BriefWait, TypeOK, KlusterletTypeOK, Annotated, AnnotationsInPlace, Scaled
    <3> QED
      BY <1>7, <3>1, <3>2, AgentsLeftAlone DEF BriefWait
  <2>2. CASE ~AllReported
    <3>0. pc' \in {"long_wait", "verify_klusterlet_connections"} /\ UNCHANGED <<klusterlet, hubs, recorded, todo>>
      BY <1>7, <2>2 DEF BriefWait
    <3>1. TypeOK'
      BY <3>0 DEF TypeOK, KlusterletTypeOK
    <3>2. Ordered'
      BY <1>7, <2>2, <3>0 DEF BriefWait, Ordered
    <3>3. Annotated' /\ Scaled'
      BY <1>7, <2>2 DEF BriefWait, Annotated, AnnotationsInPlace, Scaled
    <3> QED
      BY <1>7, <2>2, <3>1, <3>2, <3>3, AgentsLeftAlone DEF BriefWait
  <2> QED
    BY <2>1, <2>2
<1>8. ASSUME LongWait PROVE Inv'
  <2>1. CASE AllReported
    <3>1. /\ Ordered' /\ recorded' = recorded \cup {"verify_clusters_connected"}
          /\ recorded' \subseteq Steps /\ pc' \in Steps \cup {"end"}
      BY <1>8, <2>1, RecordKeepsOrder DEF LongWait
    <3>2. TypeOK' /\ Annotated' /\ Scaled'
      BY <1>8, <3>1 DEF LongWait, TypeOK, KlusterletTypeOK, Annotated, AnnotationsInPlace, Scaled
    <3> QED
      BY <1>8, <3>1, <3>2, AgentsLeftAlone DEF LongWait
  <2>2. CASE ~AllReported
    <3>0. pc' = "down" /\ UNCHANGED <<klusterlet, hubs, recorded, todo>>
      BY <1>8, <2>2 DEF LongWait
    <3>1. TypeOK'
      BY <3>0 DEF TypeOK, KlusterletTypeOK
    <3>2. Ordered'
      BY <1>8, <2>2, <3>0 DEF LongWait, Ordered
    <3>3. Annotated' /\ Scaled'
      BY <1>8, <2>2 DEF LongWait, Annotated, AnnotationsInPlace, Scaled
    <3> QED
      BY <1>8, <2>2, <3>1, <3>2, <3>3, AgentsLeftAlone DEF LongWait
  <2> QED
    BY <2>1, <2>2
<1>9. ASSUME BeginRepair PROVE Inv'
  <2>0. /\ pc = "verify_klusterlet_connections" /\ Early \subseteq recorded
        /\ "verify_klusterlet_connections" \notin recorded
        /\ UNCHANGED <<secrets, hubs, todo>>
    BY <1>9 DEF BeginRepair, Ordered
  <2>1. CASE worker' = [c \in Clusters |-> IF c \in managed THEN "check" ELSE "idle"]
             /\ missed' = {} /\ pc' = "repair" /\ UNCHANGED <<recorded, faults>>
    <3>1. Ordered' /\ TypeOK'
      BY <2>0, <2>1 DEF Ordered, TypeOK, KlusterletTypeOK
    <3>2. Annotated' /\ Scaled'
      BY <2>0, <2>1 DEF Annotated, AnnotationsInPlace, Scaled
    <3>3. Still' /\ Threads' /\ NotTakenBack'
      BY <2>0, <2>1 DEF Still, Threads, NotTakenBack
    <3>4. Repairing' /\ RepairedUnlessMissed'
      BY <2>0, <2>1 DEF Repairing, RepairGoesOn, RepairedUnlessMissed, TypeOK
    <3> QED
      BY <3>1, <3>2, <3>3, <3>4
  <2>2. CASE Adverse /\ missed' = managed /\ RecordRepair /\ UNCHANGED worker
    <3>1. recorded' = recorded \cup {"verify_klusterlet_connections"}
          /\ recorded' \subseteq Steps
      BY <2>2 DEF RecordRepair, TypeOK
    <3>2. pc' = NextStep(recorded') \/ pc' = "long_wait"
      BY <2>2 DEF RecordRepair
    <3>3. pc' \in (Steps \ recorded') \cup {"end", "long_wait"}
      BY <2>0, <3>1, <3>2, NextStepOrdered
    <3>4. Ordered'
      BY <2>0, <3>1, <3>2, <3>3, NextStepOrdered DEF Ordered
    <3>5. faults' \in 0..MaxFaults
      BY <2>2, FaultsAssumption DEF Adverse, TypeOK, KlusterletTypeOK
    <3>6. TypeOK'
      BY <2>0, <2>2, <3>1, <3>3, <3>5 DEF TypeOK, KlusterletTypeOK
    <3>7. Annotated' /\ Scaled'
      BY <2>0, <2>2, <3>1, <3>3 DEF Annotated, AnnotationsInPlace, Scaled
    <3>8. Still' /\ Threads' /\ NotTakenBack'
      BY <2>0, <2>2, <3>1 DEF Still, Threads, NotTakenBack
    <3>9. Repairing' /\ RepairedUnlessMissed'
      BY <2>0, <2>2, <3>3 DEF Repairing, RepairedUnlessMissed
    <3> QED
      BY <3>4, <3>6, <3>7, <3>8, <3>9
  <2> QED
    BY <1>9, <2>1, <2>2 DEF BeginRepair
<1>10. ASSUME EndRepair PROVE Inv'
  <2>0. /\ pc = "repair" /\ Early \subseteq recorded /\ RecordRepair
        /\ \A c \in Clusters : worker[c] = "idle"
        /\ UNCHANGED <<klusterlet, hubs, todo>>
    BY <1>10 DEF EndRepair, Ordered
  <2>1. recorded' = recorded \cup {"verify_klusterlet_connections"}
        /\ recorded' \subseteq Steps
    BY <2>0 DEF RecordRepair, TypeOK
  <2>2. pc' = NextStep(recorded') \/ pc' = "long_wait"
    BY <2>0 DEF RecordRepair
  <2>3. pc' \in (Steps \ recorded') \cup {"end", "long_wait"}
    BY <2>0, <2>1, <2>2, NextStepOrdered
  <2>4. Ordered'
    BY <2>0, <2>1, <2>2, <2>3, NextStepOrdered DEF Ordered
  <2>5. TypeOK'
    BY <2>0, <2>1, <2>3 DEF TypeOK, KlusterletTypeOK
  <2>6. Annotated' /\ Scaled'
    BY <2>0, <2>1, <2>3 DEF Annotated, AnnotationsInPlace, Scaled
  <2>7. Still' /\ Threads' /\ NotTakenBack'
    BY <2>0, <2>1 DEF Still, Threads, NotTakenBack
  <2>8. Repairing' /\ RepairedUnlessMissed'
    BY <2>0, <2>3 DEF Repairing, RepairGoesOn, RepairedUnlessMissed, TypeOK
  <2> QED
    BY <2>4, <2>5, <2>6, <2>7, <2>8
<1>11. ASSUME ListFlagged PROVE Inv'
  <2>1. Ordered' /\ TypeOK'
    BY <1>11 DEF ListFlagged, Ordered, TypeOK, KlusterletTypeOK
  <2>2. Annotated' /\ Scaled'
    BY <1>11 DEF ListFlagged, Annotated, AnnotationsInPlace, Scaled
  <2> QED
    BY <1>11, <2>1, <2>2, AgentsLeftAlone DEF ListFlagged
<1>12. ASSUME Clear PROVE Inv'
  <2>0. faults' \in 0..MaxFaults
    BY <1>12, FaultsAssumption DEF Clear, Adverse, TypeOK, KlusterletTypeOK
  <2>1. Ordered' /\ TypeOK'
    BY <1>12, <2>0 DEF Clear, Ordered, TypeOK, KlusterletTypeOK
  <2>2. Annotated' /\ Scaled'
    BY <1>12 DEF Clear, Annotated, AnnotationsInPlace, Scaled
  <2> QED
    BY <1>12, <2>1, <2>2, AgentsLeftAlone DEF Clear
<1>13. ASSUME VerifyCleared PROVE Inv'
  <2>1. CASE flagged = {}
    <3>1. /\ Ordered' /\ recorded' = recorded \cup {"verify_auto_import_cleanup"}
          /\ recorded' \subseteq Steps /\ pc' \in Steps \cup {"end"}
      BY <1>13, <2>1, RecordKeepsOrder DEF VerifyCleared
    <3>2. TypeOK' /\ Annotated' /\ Scaled'
      BY <1>13, <2>1, <3>1
         DEF VerifyCleared, TypeOK, KlusterletTypeOK, Annotated, AnnotationsInPlace, Scaled
    <3> QED
      BY <1>13, <3>1, <3>2, AgentsLeftAlone DEF VerifyCleared
  <2>2. CASE flagged # {}
    <3>1. Ordered' /\ TypeOK'
      BY <1>13, <2>2 DEF VerifyCleared, Ordered, TypeOK, KlusterletTypeOK
    <3>2. Annotated' /\ Scaled'
      BY <1>13, <2>2 DEF VerifyCleared, Annotated, AnnotationsInPlace, Scaled
    <3> QED
      BY <1>13, <2>2, <3>1, <3>2, AgentsLeftAlone DEF VerifyCleared
  <2> QED
    BY <2>1, <2>2
<1>14. ASSUME ScaleUp PROVE Inv'
  <2>1. Ordered' /\ TypeOK'
    BY <1>14 DEF ScaleUp, Ordered, TypeOK, KlusterletTypeOK
  <2>2. Annotated' /\ Scaled'
    BY <1>14 DEF ScaleUp, Annotated, AnnotationsInPlace, Scaled
  <2> QED
    BY <1>14, <2>1, <2>2, AgentsLeftAlone DEF ScaleUp
<1>15. ASSUME ScaledUp PROVE Inv'
  <2>0. faults' \in 0..MaxFaults
    BY <1>15, FaultsAssumption DEF ScaledUp, Adverse, TypeOK, KlusterletTypeOK
  <2>1. /\ Ordered' /\ recorded' = recorded \cup {"scale_up_observability_components"}
        /\ recorded' \subseteq Steps /\ pc' \in Steps \cup {"end"}
    BY <1>15, RecordKeepsOrder DEF ScaledUp
  <2>2. TypeOK' /\ Annotated' /\ Scaled'
    BY <1>15, <2>0, <2>1
       DEF ScaledUp, TypeOK, KlusterletTypeOK, Annotated, AnnotationsInPlace, Scaled
  <2> QED
    BY <1>15, <2>1, <2>2, AgentsLeftAlone DEF ScaledUp
<1>16. ASSUME VerifyObservability PROVE Inv'
  <2>1. /\ Ordered' /\ recorded' = recorded \cup {pc}
        /\ recorded' \subseteq Steps /\ pc' \in Steps \cup {"end"}
    BY <1>16, RecordKeepsOrder DEF VerifyObservability
  <2>2. TypeOK' /\ Annotated' /\ Scaled'
    BY <1>16, <2>1
       DEF VerifyObservability, TypeOK, KlusterletTypeOK, Annotated, AnnotationsInPlace, Scaled
  <2> QED
    BY <1>16, <2>1, <2>2, AgentsLeftAlone DEF VerifyObservability
<1> QED
  BY <1>1, <1>2, <1>3, <1>4, <1>5, <1>6, <1>7, <1>8, <1>9, <1>10, <1>11, <1>12,
     <1>13, <1>14, <1>15, <1>16, <1>17 DEF ProcessStep

-----------------------------------------------------------------------------
(* The threads, the clusters and the hubs. *)

\* The threads change nothing but the secrets, and what is missed only grows.
LEMMA RepairInv == Inv /\ (\E c \in Clusters : Repair(c)) => Inv'
<1> SUFFICES ASSUME Inv, NEW c \in Clusters, Repair(c) PROVE Inv'
  OBVIOUS
<1> USE DEF Inv, secrets, klusterlet, hubs, Goto
<1>1. pc = "repair"
  BY DEF Repair, WorkerStep, Check, GetImport, DeleteBootstrap, CreateBootstrap, Restart,
         Threads
<1>2. /\ UNCHANGED <<hubs, recorded, pc, todo>>
      /\ Early \subseteq recorded /\ "verify_klusterlet_connections" \notin recorded
  BY <1>1 DEF Repair, Ordered, Early
<1>3. Ordered' /\ Annotated' /\ Scaled'
  BY <1>2 DEF Ordered, Annotated, AnnotationsInPlace, Scaled
<1>4. Still' /\ Threads' /\ RepairedUnlessMissed'
  BY <1>1, <1>2 DEF Still, Threads, RepairedUnlessMissed, Early
<1>5. ASSUME NEW stages, Despite(c, stages),
             stages \subseteq {"idle", "check", "wrong_hub", "delete", "create", "restart"}
      PROVE  /\ faults' \in 0..MaxFaults /\ missed' = missed \cup {c}
             /\ worker' \in [Clusters -> {"idle", "check", "wrong_hub", "delete", "create",
                                          "restart"}]
             /\ \A d \in Clusters \ {c} : worker'[d] = worker[d]
  BY <1>5, FaultsAssumption DEF Despite, Adverse, TypeOK, KlusterletTypeOK
\* What is left to show of a step of the thread of c.
<1> DEFINE Kept ==
      /\ KlusterletTypeOK'
      /\ agent' = agent /\ missed \subseteq missed'
      /\ \A d \in Clusters \ {c} : worker'[d] = worker[d] /\ bootstrap'[d] = bootstrap[d]
      /\ bootstrap'[c] = "old" => bootstrap[c] = "old"
      /\ c \in (managed \cap held) \ missed' => RepairGoesOn(c)'
<1>6. ASSUME Check(c) PROVE Kept
  <2>1. CASE Despite(c, {"idle"})
    BY <1>5, <1>6, <2>1 DEF Check, TypeOK, KlusterletTypeOK
  <2>2. CASE c \notin Reach \/ Endpoint(c) = "none"
    BY <1>5, <1>6, <2>2 DEF Check, TypeOK, KlusterletTypeOK
  <2>3. CASE /\ Goto(c, IF Endpoint(c) = "new" THEN "idle" ELSE "wrong_hub")
             /\ UNCHANGED <<missed, faults>>
    <3>1. RepairGoesOn(c)'
      BY <1>6, <2>3 DEF Check, Endpoint, RepairGoesOn, TypeOK, KlusterletTypeOK
    <3> QED
      BY <1>6, <2>3, <3>1 DEF Check, TypeOK, KlusterletTypeOK
  <2> QED
    BY <1>6, <2>1, <2>2, <2>3 DEF Check
<1>7. ASSUME GetImport(c) PROVE Kept
  BY <1>7 DEF GetImport, RepairGoesOn, TypeOK, KlusterletTypeOK
<1>8. ASSUME DeleteBootstrap(c) PROVE Kept
  <2>1. CASE Goto(c, "create") /\ bootstrap' = [bootstrap EXCEPT ![c] = "none"]
             /\ UNCHANGED <<missed, faults>>
    BY <1>8, <2>1 DEF DeleteBootstrap, RepairGoesOn, TypeOK, KlusterletTypeOK
  <2>2. CASE Despite(c, {"create", "idle"})
    BY <1>5, <1>8, <2>2 DEF DeleteBootstrap, TypeOK, KlusterletTypeOK
  <2> QED
    BY <1>8, <2>1, <2>2 DEF DeleteBootstrap
<1>9. ASSUME CreateBootstrap(c) PROVE Kept
  <2>0. restarted' \subseteq Clusters
    BY <1>9 DEF CreateBootstrap, TypeOK, KlusterletTypeOK
  <2>1. CASE Goto(c, "restart") /\ UNCHANGED <<missed, faults>>
             /\ bootstrap' = [bootstrap EXCEPT ![c] = IF @ = "none" THEN "new" ELSE @]
    <3>1. bootstrap[c] # "old" \/ c \notin (managed \cap held) \ missed
      BY <1>1, <1>9 DEF CreateBootstrap, Repairing, RepairGoesOn
    <3>2. KlusterletTypeOK'
      BY <1>9, <2>0, <2>1 DEF CreateBootstrap, TypeOK, KlusterletTypeOK, Hubs
    <3> QED
      BY <1>9, <2>1, <3>1, <3>2
         DEF CreateBootstrap, RepairGoesOn, TypeOK, KlusterletTypeOK, Hubs
  <2>2. CASE /\ Despite(c, {"restart", "idle"})
             /\ bootstrap' \in {[bootstrap EXCEPT ![c] = IF @ = "none" THEN "new" ELSE @], bootstrap}
    BY <1>5, <1>9, <2>0, <2>2 DEF CreateBootstrap, TypeOK, KlusterletTypeOK, Hubs
  <2> QED
    BY <1>9, <2>1, <2>2 DEF CreateBootstrap
<1>10. ASSUME Restart(c) PROVE Kept
  <2>0. restarted' \subseteq Clusters
    BY <1>10 DEF Restart, TypeOK, KlusterletTypeOK
  <2>1. CASE Goto(c, "idle") /\ UNCHANGED <<missed, faults>>
    BY <1>1, <1>10, <2>0, <2>1
       DEF Restart, Repairing, RepairGoesOn, TypeOK, KlusterletTypeOK
  <2>2. CASE Despite(c, {"idle"})
    BY <1>5, <1>10, <2>0, <2>2 DEF Restart, TypeOK, KlusterletTypeOK
  <2> QED
    BY <1>10, <2>1, <2>2 DEF Restart
<1>11. Kept
  BY <1>6, <1>7, <1>8, <1>9, <1>10 DEF Repair, WorkerStep
<1>12. TypeOK'
  BY <1>2, <1>11 DEF TypeOK
<1>13. NotTakenBack'
  BY <1>2, <1>11 DEF NotTakenBack, TypeOK
<1>14. Repairing'
  <2> SUFFICES ASSUME NEW d \in (managed \cap held) \ missed' PROVE RepairGoesOn(d)'
    BY <1>2 DEF Repairing
  <2>1. CASE d = c
    BY <1>11, <2>1
  <2>2. CASE d # c
    BY <1>1, <1>11, <2>2 DEF Repairing, RepairGoesOn, TypeOK
  <2> QED
    BY <2>1, <2>2
<1> QED
  BY <1>3, <1>4, <1>12, <1>13, <1>14

\* The hubs and the agents change nothing but secrets, reports and the clusters
\* there are.
LEMMA OthersInv ==
  Inv /\ (\E c \in Clusters : Join(c) \/ OldHubImports(c) \/ Moves(c) \/ MovesUnasked(c))
    => Inv'
<1> SUFFICES ASSUME Inv, NEW c \in Clusters,
                    Join(c) \/ OldHubImports(c) \/ Moves(c) \/ MovesUnasked(c)
             PROVE  Inv'
  OBVIOUS
<1> USE DEF Inv, secrets, klusterlet, hubs, process, onHubs
<1>1. ASSUME Join(c) PROVE Inv'
  <2>1. "verify_klusterlet_connections" \notin recorded /\ pc # "repair"
    BY <1>1 DEF Join, Ordered, Early, BeforeActivation
  <2>2. TypeOK' /\ Ordered' /\ Annotated' /\ Scaled'
    BY <1>1 DEF Join, TypeOK, KlusterletTypeOK, Ordered, Annotated, AnnotationsInPlace, Scaled
  <2>3. Still' /\ Threads' /\ NotTakenBack' /\ Repairing' /\ RepairedUnlessMissed'
    BY <1>1, <2>1 DEF Join, Still, Threads, NotTakenBack, Repairing, RepairedUnlessMissed
  <2> QED
    BY <2>2, <2>3
\* What is left to show of the others.
<1> DEFINE Kept ==
      /\ TypeOK' /\ UNCHANGED <<managed, held, flagged, compactor, warned, process, worker, missed>>
      /\ "activation" \in recorded
      /\ \A d \in held :
           /\ agent'[d] = "new" => bootstrap'[d] # "old"
           /\ bootstrap'[d] = "old" => bootstrap[d] = "old"
           /\ "new" \in {bootstrap[d], agent[d]} => "new" \in {bootstrap'[d], agent'[d]}
<1>2. ASSUME OldHubImports(c) PROVE Kept
  <2>1. faults' \in 0..MaxFaults
    BY <1>2, FaultsAssumption DEF OldHubImports, Adverse, TypeOK, KlusterletTypeOK
  <2> QED
    BY <1>2, <2>1
       DEF OldHubImports, Activated, Import, NotTakenBack, TypeOK, KlusterletTypeOK, Hubs
<1>3. ASSUME LeaveHub(c), Activated(c), UNCHANGED <<hubs, process>> PROVE Kept
  BY <1>3 DEF LeaveHub, Activated, NotTakenBack, TypeOK, KlusterletTypeOK, Hubs
<1>4. ASSUME Register(c), Activated(c), UNCHANGED <<hubs, process>> PROVE Kept
  BY <1>4 DEF Register, Activated, NotTakenBack, TypeOK, KlusterletTypeOK, Hubs
<1>5. ASSUME NewHubImports(c) PROVE Kept
  BY <1>5 DEF NewHubImports, Activated, Import, NotTakenBack, TypeOK, KlusterletTypeOK, Hubs
<1>6. ASSUME Report(c) PROVE Kept
  BY <1>6 DEF Report, Activated, NotTakenBack, TypeOK, KlusterletTypeOK
<1>7. ASSUME Kept PROVE Inv'
  <2>1. Ordered' /\ Annotated' /\ Scaled'
    BY <1>7 DEF Ordered, Annotated, AnnotationsInPlace, Scaled
  <2>2. Still' /\ Threads' /\ NotTakenBack'
    BY <1>7 DEF Still, Threads, NotTakenBack
  <2>3. Repairing' /\ RepairedUnlessMissed'
    BY <1>7 DEF Repairing, RepairGoesOn, RepairedUnlessMissed
  <2> QED
    BY <1>7, <2>1, <2>2, <2>3
<1> QED
  BY <1>1, <1>2, <1>3, <1>4, <1>5, <1>6, <1>7 DEF Moves, MovesUnasked

LEMMA PodsEndInv == Inv /\ PodsEnd => Inv'
<1> SUFFICES ASSUME Inv, PodsEnd PROVE Inv'
  OBVIOUS
<1> USE DEF Inv, secrets, klusterlet, process, PodsEnd
<1>1. TypeOK' /\ Ordered' /\ Annotated' /\ Scaled'
  BY DEF TypeOK, KlusterletTypeOK, Ordered, Annotated, AnnotationsInPlace, Scaled
<1>2. Still' /\ Threads' /\ NotTakenBack' /\ Repairing' /\ RepairedUnlessMissed'
  BY DEF Still, Threads, NotTakenBack, Repairing, RepairGoesOn, RepairedUnlessMissed
<1> QED
  BY <1>1, <1>2

LEMMA StopInv == Inv /\ Stop => Inv'
<1> SUFFICES ASSUME Inv, Stop PROVE Inv'
  OBVIOUS
<1> USE DEF Inv, secrets, klusterlet, hubs, Stop
<1>1. faults' \in 0..MaxFaults
  BY FaultsAssumption DEF Adverse, TypeOK, KlusterletTypeOK
<1>2. TypeOK'
  BY <1>1 DEF TypeOK, KlusterletTypeOK
<1>3. Ordered' /\ Annotated' /\ Scaled'
  BY StepsAre DEF Early, Ordered, Annotated, AnnotationsInPlace, Scaled
<1>4. Still' /\ Threads' /\ NotTakenBack' /\ Repairing' /\ RepairedUnlessMissed'
  BY DEF Still, Threads, NotTakenBack, Repairing, RepairedUnlessMissed
<1> QED
  BY <1>2, <1>3, <1>4

-----------------------------------------------------------------------------
(* The theorems. *)

LEMMA InitInv == Init => Inv
<1> SUFFICES ASSUME Init PROVE Inv
  OBVIOUS
<1> USE DEF Init, KlusterletInit
<1>0. KlusterletTypeOK
  BY FaultsAssumption DEF KlusterletTypeOK, Hubs
<1>1. TypeOK
  BY <1>0, LateAssumption DEF TypeOK
<1>2. Ordered /\ Annotated /\ Scaled
  BY StepsAre DEF Early, BeforeActivation, Ordered, Annotated, AnnotationsInPlace, Scaled
<1>3. Still /\ Threads /\ NotTakenBack /\ Repairing /\ RepairedUnlessMissed
  BY DEF Still, Threads, NotTakenBack, Repairing, RepairedUnlessMissed
<1> QED
  BY <1>1, <1>2, <1>3 DEF Inv

LEMMA NextInv == Inv /\ [Next]_vars => Inv'
<1>1. Inv /\ UNCHANGED vars => Inv'
  BY DEF vars, klusterlet, secrets, hubs, Inv, TypeOK, KlusterletTypeOK, Ordered, Annotated,
         AnnotationsInPlace, Scaled, Still, Threads, NotTakenBack, Repairing, RepairGoesOn,
         RepairedUnlessMissed
<1> QED
  BY <1>1, ProcessInv, RepairInv, OthersInv, PodsEndInv, StopInv DEF Next

LEMMA Invariant == Spec => []Inv
BY InitInv, NextInv, PTL DEF Spec

\* The verification stays in its types (PostActivationVerification).
THEOREM TypeCorrect == Spec => []TypeOK
<1>1. Inv => TypeOK
  BY DEF Inv
<1> QED
  BY <1>1, Invariant, PTL

\* What is recorded of the annotation has been done on both hubs
\* (_disable_auto_import, _verify_disable_auto_import_cleared).
THEOREM AnnotationsHold == Spec => []AnnotationsInPlace
<1>1. Inv => AnnotationsInPlace
  BY DEF Inv, Annotated
<1> QED
  BY <1>1, Invariant, PTL

\* A repair that is recorded has moved every cluster that it did not miss
\* (_verify_klusterlet_connections).
THEOREM RepairsHold == Spec => []RepairedUnlessMissed
<1>1. Inv => RepairedUnlessMissed
  BY DEF Inv
<1> QED
  BY <1>1, Invariant, PTL

\* When the tool scales up the compactor of the new hub, the one of the old hub has
\* ended, unless its pods outlasted the only look at them, which warned and let the
\* run go on (_scale_down_thanos_compactor, _scale_up_observability_components).
THEOREM CompactorsApart == Spec => OneCompactor
<1> DEFINE Apart == "thanos-compact" \in unscaled \ unscaled'
                      => compactor = "gone" \/ (compactor = "ending" /\ warned)
<1>1. Inv /\ [Next]_vars => Apart
  <2> SUFFICES ASSUME Inv, Next, unscaled' # unscaled
               PROVE  compactor = "gone" \/ (compactor = "ending" /\ warned)
    BY DEF vars, hubs
  <2>1. ScaleUp
    BY DEF Next, ProcessStep, Start, ListOldClusters, Annotate, AllAnnotated, ScaleDown,
           LookAtPods, Activate, BriefWait, LongWait, BeginRepair, EndRepair, ListFlagged,
           Clear, VerifyCleared, ScaledUp, VerifyObservability, Stop, Repair, Join, PodsEnd,
           OldHubImports, Moves, MovesUnasked, NewHubImports, Report, hubs, onHubs
  <2>2. Early \subseteq recorded
    BY <2>1 DEF ScaleUp, Inv, Ordered, Early
  <2> QED
    BY <2>2 DEF Inv, Scaled, Early
<1>2. Inv /\ [Next]_vars => [Apart]_vars
  BY <1>1
<1> QED
  BY <1>2, Invariant, PTL DEF Spec, OneCompactor
=============================================================================
