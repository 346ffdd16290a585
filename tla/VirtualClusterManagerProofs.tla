--------------------- MODULE VirtualClusterManagerProofs ---------------------
(***************************************************************************)
(* Theorems about VirtualClusterManager, for every finite set of clusters. *)
(***************************************************************************)
EXTENDS VirtualClusterManager, FiniteSetTheorems, TLAPS

(***************************************************************************)
(* Type correctness.                                                       *)
(***************************************************************************)
LEMMA TypeInit == Init => TypeOK
  BY DEF Init, TypeOK, CreateSteps, DeleteSteps

LEMMA TypeCreate ==
  ASSUME TypeOK, NEW c \in Clusters, CreateGoroutine(c) \/ Spawn(c)
  PROVE  TypeOK'
  <1> USE DEF TypeOK, Step, hostVars, CreateSteps, ConnStep, Ingress,
              CustomValues
  <1>1. CASE Spawn(c)
    BY <1>1 DEF Spawn
  <1>2. CASE SkipValues(c)
    BY <1>2 DEF SkipValues
  <1>3. CASE ReadValuesPath(c)
    BY <1>3 DEF ReadValuesPath, ReadOption
  <1>4. CASE RenderValues(c)
    BY <1>4 DEF RenderValues, Exists, Rendered, Content
  <1>5. CASE StoreLen(c)
    BY <1>5 DEF StoreLen
  <1>6. CASE StorePtr(c)
    BY <1>6 DEF StorePtr
  <1>7. CASE CreateNamespace(c)
    BY <1>7 DEF CreateNamespace
  <1>8. CASE CreateIngress(c)
    BY <1>8 DEF CreateIngress
  <1>9. CASE RenderOwnValues(c)
    BY <1>9 DEF RenderOwnValues
  <1>10. CASE BuildCreateArgs(c)
    <2>1. PICK p \in Clusters \union {UserValues, Torn, None} :
             path' = [path EXCEPT ![c] = p]
      BY <1>10 DEF BuildCreateArgs, ReadOption
    <2> QED
      BY <1>10, <2>1 DEF BuildCreateArgs
  <1>11. CASE VclusterCreate(c)
    BY <1>11 DEF VclusterCreate, Exists, Content
  <1>12. CASE VclusterConnect(c)
    BY <1>12 DEF VclusterConnect
  <1>13. CASE RemoveOwnValues(c)
    BY <1>13 DEF RemoveOwnValues
  <1>14. CASE Provision(c)
    BY <1>14 DEF Provision
  <1>15. CASE CreateDone(c)
    BY <1>15 DEF CreateDone
  <1>16. CASE RemoveValues(c)
    BY <1>16 DEF RemoveValues
  <1>17. CASE CreateFatal(c)
    BY <1>17 DEF CreateFatal
  <1> QED
    BY <1>1, <1>2, <1>3, <1>4, <1>5, <1>6, <1>7, <1>8, <1>9, <1>10, <1>11,
       <1>12, <1>13, <1>14, <1>15, <1>16, <1>17 DEF CreateGoroutine

LEMMA TypeDelete ==
  ASSUME TypeOK, NEW c \in Clusters, DeleteGoroutine(c) \/ SpawnDelete(c)
  PROVE  TypeOK'
  <1> USE DEF TypeOK, DeleteStep, hostVars, DeleteSteps
  <1>1. CASE SpawnDelete(c)
    BY <1>1 DEF SpawnDelete
  <1>2. CASE VclusterDelete(c)
    BY <1>2 DEF VclusterDelete
  <1>3. CASE NamespaceDelete(c)
    BY <1>3 DEF NamespaceDelete
  <1>4. CASE DeleteDone(c)
    BY <1>4 DEF DeleteDone
  <1>5. CASE DeleteFatal(c)
    BY <1>5 DEF DeleteFatal
  <1> QED
    BY <1>1, <1>2, <1>3, <1>4, <1>5 DEF DeleteGoroutine

LEMMA TypeStep == TypeOK /\ [Next]_vars => TypeOK'
  <1> SUFFICES ASSUME TypeOK, [Next]_vars PROVE TypeOK'
    OBVIOUS
  <1>1. CASE \E c \in Clusters : CreateGoroutine(c) \/ Spawn(c)
    BY <1>1, TypeCreate
  <1>2. CASE \E c \in Clusters : DeleteGoroutine(c) \/ SpawnDelete(c)
    BY <1>2, TypeDelete
  <1>3. CASE CreateReturns \/ CallDelete \/ DeleteReturns \/ ProcessEnds
    BY <1>3 DEF CreateReturns, CallDelete, DeleteReturns, ProcessEnds,
         TypeOK, hostVars
  <1>4. CASE UNCHANGED vars
    BY <1>4 DEF TypeOK, vars, hostVars
  <1> QED
    BY <1>1, <1>2, <1>3, <1>4 DEF Next, Main, Terminated

(* Every variable keeps its type: a goroutine of Create is always at one   *)
(* of its steps, and every values path is a known file, the template or a  *)
(* torn string.                                                            *)
THEOREM TypeCorrect == Spec => []TypeOK
  BY TypeInit, TypeStep, PTL DEF Spec

(***************************************************************************)
(* The wait group counts the goroutines that still have to call Done.      *)
(***************************************************************************)
LEMMA WorkingFinite == IsFiniteSet(Working) /\ Cardinality(Working) \in Nat
  BY ClustersAssumption, FS_Subset, FS_CardinalityType DEF Working

LEMMA WorkerAdded ==
  ASSUME WgCountsWorking, NEW c, c \notin Working,
         Working' = Working \union {c}, wg' = wg + 1
  PROVE  WgCountsWorking'
  BY WorkingFinite, FS_AddElement DEF WgCountsWorking

LEMMA WorkerRemoved ==
  ASSUME WgCountsWorking, NEW c, c \in Working,
         Working' = Working \ {c}, wg' = wg - 1
  PROVE  WgCountsWorking'
  BY WorkingFinite, FS_RemoveElement DEF WgCountsWorking

LEMMA WorkersUnchanged ==
  ASSUME WgCountsWorking, Working' = Working, wg' = wg
  PROVE  WgCountsWorking'
  BY DEF WgCountsWorking

LEMMA CountStep ==
  ASSUME TypeOK, WgCountsWorking, CallsDoNotOverlap, [Next]_vars
  PROVE  WgCountsWorking'
  <1> USE DEF TypeOK, CallsDoNotOverlap, Working
  <1>1. CASE \E c \in Clusters : Spawn(c)
    <2>1. PICK c \in Clusters : Spawn(c)
      BY <1>1
    <2>2. c \notin Working /\ Working' = Working \union {c} /\ wg' = wg + 1
      BY <2>1 DEF Spawn, Step
    <2> QED
      BY <2>2, WorkerAdded
  <1>2. CASE \E c \in Clusters : SpawnDelete(c)
    <2>1. PICK c \in Clusters : SpawnDelete(c)
      BY <1>2
    <2>2. c \notin Working /\ Working' = Working \union {c} /\ wg' = wg + 1
      BY <2>1 DEF SpawnDelete, DeleteStep
    <2> QED
      BY <2>2, WorkerAdded
  <1>3. CASE \E c \in Clusters : CreateDone(c)
    <2>1. PICK c \in Clusters : CreateDone(c)
      BY <1>3
    <2>2. dpc[c] = "idle"
      BY <2>1 DEF CreateDone, Step
    <2>3. c \in Working /\ Working' = Working \ {c} /\ wg' = wg - 1
      BY <2>1, <2>2 DEF CreateDone, Step
    <2> QED
      BY <2>3, WorkerRemoved
  <1>4. CASE \E c \in Clusters : DeleteDone(c)
    <2>1. PICK c \in Clusters : DeleteDone(c)
      BY <1>4
    <2>2. pc[c] \in {"unlink", "done"}
      BY <2>1 DEF DeleteDone, DeleteStep
    <2>3. c \in Working /\ Working' = Working \ {c} /\ wg' = wg - 1
      BY <2>1, <2>2 DEF DeleteDone, DeleteStep
    <2> QED
      BY <2>3, WorkerRemoved
  <1>5. CASE \E c \in Clusters : CreateGoroutine(c) /\ ~CreateDone(c)
    <2>1. PICK c \in Clusters : CreateGoroutine(c) /\ ~CreateDone(c)
      BY <1>5
    <2>2. Working' = Working /\ wg' = wg
      BY <2>1 DEF CreateGoroutine, Step, ConnStep, SkipValues, ReadValuesPath,
           RenderValues, StoreLen, StorePtr, CreateNamespace, CreateIngress,
           RenderOwnValues, BuildCreateArgs, VclusterCreate, VclusterConnect,
           RemoveOwnValues, Provision, RemoveValues, CreateFatal
    <2> QED
      BY <2>2, WorkersUnchanged
  <1>6. CASE \E c \in Clusters : DeleteGoroutine(c) /\ ~DeleteDone(c)
    <2>1. PICK c \in Clusters : DeleteGoroutine(c) /\ ~DeleteDone(c)
      BY <1>6
    <2>2. Working' = Working /\ wg' = wg
      BY <2>1 DEF DeleteGoroutine, DeleteStep, VclusterDelete, NamespaceDelete,
           DeleteFatal
    <2> QED
      BY <2>2, WorkersUnchanged
  <1>7. CASE CreateReturns \/ CallDelete \/ DeleteReturns
           \/ ProcessEnds \/ UNCHANGED vars
    <2>1. Working' = Working /\ wg' = wg
      BY <1>7 DEF CreateReturns, CallDelete, DeleteReturns,
         ProcessEnds, vars
    <2> QED
      BY <2>1, WorkersUnchanged
  <1> QED
    BY <1>1, <1>2, <1>3, <1>4, <1>5, <1>6, <1>7 DEF Next, Main, Terminated

(***************************************************************************)
(* A call returns with every goroutine of its own past wg.Done().          *)
(***************************************************************************)
LEMMA NobodyWorking ==
  ASSUME TypeOK, WgCountsWorking, wg = 0
  PROVE  /\ \A c \in Clusters : pc[c] \in {"idle", "unlink", "done"}
         /\ \A c \in Clusters : dpc[c] \in {"idle", "done"}
  <1>1. Working = {}
    BY WorkingFinite, FS_EmptySet DEF WgCountsWorking
  <1> QED
    BY <1>1 DEF Working, TypeOK, DeleteSteps

LEMMA OverlapStep ==
  ASSUME TypeOK, WgCountsWorking, CallsDoNotOverlap, [Next]_vars
  PROVE  CallsDoNotOverlap'
  <1> USE DEF TypeOK, CallsDoNotOverlap
  <1>1. CASE CreateReturns
    BY <1>1, NobodyWorking DEF CreateReturns
  <1>2. CASE DeleteReturns
    BY <1>2, NobodyWorking DEF DeleteReturns
  <1>3. CASE \E c \in Clusters : CreateGoroutine(c) \/ Spawn(c)
    <2>1. PICK c \in Clusters : CreateGoroutine(c) \/ Spawn(c)
      BY <1>3
    <2> QED
      BY <2>1 DEF CreateGoroutine, Step, ConnStep, Spawn, SkipValues,
           ReadValuesPath, RenderValues, StoreLen, StorePtr, CreateNamespace,
           CreateIngress, RenderOwnValues, BuildCreateArgs, VclusterCreate,
           VclusterConnect, RemoveOwnValues, Provision, CreateDone,
           RemoveValues, CreateFatal
  <1>4. CASE \E c \in Clusters : DeleteGoroutine(c) \/ SpawnDelete(c)
    <2>1. PICK c \in Clusters : DeleteGoroutine(c) \/ SpawnDelete(c)
      BY <1>4
    <2> QED
      BY <2>1 DEF DeleteGoroutine, DeleteStep, SpawnDelete, VclusterDelete,
           NamespaceDelete, DeleteDone, DeleteFatal
  <1>5. CASE CallDelete \/ ProcessEnds \/ UNCHANGED vars
    BY <1>5 DEF CallDelete, ProcessEnds, vars
  <1> QED
    BY <1>1, <1>2, <1>3, <1>4, <1>5 DEF Next, Main, Terminated

(***************************************************************************)
(* What a goroutine has done to the host cluster.                          *)
(***************************************************************************)
LEMMA CreateStepsDone ==
  ASSUME TypeOK, CallsDoNotOverlap, StepsDone, NEW c \in Clusters,
         CreateGoroutine(c) \/ Spawn(c)
  PROVE  StepsDone'
  <1> USE DEF TypeOK, CallsDoNotOverlap, StepsDone, Step, hostVars, Connected
  <1>1. CASE Spawn(c)
    BY <1>1 DEF Spawn
  <1>2. CASE SkipValues(c) \/ ReadValuesPath(c) \/ RenderValues(c)
    BY <1>2 DEF SkipValues, ReadValuesPath, RenderValues, ConnStep
  <1>3. CASE StoreLen(c) \/ StorePtr(c)
    BY <1>3 DEF StoreLen, StorePtr, ConnStep
  <1>4. CASE CreateNamespace(c) \/ CreateIngress(c) \/ RenderOwnValues(c)
    BY <1>4 DEF CreateNamespace, CreateIngress, RenderOwnValues
  <1>5. CASE BuildCreateArgs(c)
    BY <1>5 DEF BuildCreateArgs
  <1>6. CASE VclusterCreate(c)
    BY <1>6 DEF VclusterCreate
  <1>7. CASE VclusterConnect(c) \/ RemoveOwnValues(c)
    BY <1>7 DEF VclusterConnect, RemoveOwnValues
  <1>8. CASE Provision(c)
    BY <1>8 DEF Provision
  <1>9. CASE CreateDone(c) \/ RemoveValues(c) \/ CreateFatal(c)
    BY <1>9 DEF CreateDone, RemoveValues, CreateFatal
  <1> QED
    BY <1>1, <1>2, <1>3, <1>4, <1>5, <1>6, <1>7, <1>8, <1>9
    DEF CreateGoroutine

LEMMA DeleteStepsDone ==
  ASSUME TypeOK, CallsDoNotOverlap, StepsDone, NEW c \in Clusters,
         DeleteGoroutine(c) \/ SpawnDelete(c)
  PROVE  StepsDone'
  <1> USE DEF TypeOK, CallsDoNotOverlap, StepsDone, DeleteStep, hostVars,
              Connected
  <1>1. CASE SpawnDelete(c)
    BY <1>1 DEF SpawnDelete
  <1>2. CASE VclusterDelete(c)
    BY <1>2 DEF VclusterDelete
  <1>3. CASE NamespaceDelete(c)
    BY <1>3 DEF NamespaceDelete
  <1>4. CASE DeleteDone(c) \/ DeleteFatal(c)
    BY <1>4 DEF DeleteDone, DeleteFatal
  <1> QED
    BY <1>1, <1>2, <1>3, <1>4 DEF DeleteGoroutine

LEMMA StepsDoneStep ==
  ASSUME TypeOK, CallsDoNotOverlap, StepsDone, [Next]_vars
  PROVE  StepsDone'
  <1>1. CASE CreateReturns \/ CallDelete \/ DeleteReturns
           \/ ProcessEnds \/ UNCHANGED vars
    BY <1>1 DEF CreateReturns, CallDelete, DeleteReturns,
         ProcessEnds, vars, hostVars,
         StepsDone
  <1> QED
    BY <1>1, CreateStepsDone, DeleteStepsDone DEF Next, Main, Terminated

(***************************************************************************)
(* What the goroutines find in the shared slot.                            *)
(***************************************************************************)
LEMMA CreateSlot ==
  ASSUME TypeOK, SlotIsRendered, NEW c \in Clusters,
         CreateGoroutine(c) \/ Spawn(c)
  PROVE  SlotIsRendered'
  <1> USE DEF TypeOK, SlotIsRendered, Step, hostVars, CustomValues
  <1>1. CASE Spawn(c) \/ SkipValues(c) \/ ReadValuesPath(c) \/ RenderValues(c)
    BY <1>1 DEF Spawn, SkipValues, ReadValuesPath, RenderValues, ConnStep
  <1>2. CASE StoreLen(c)
    BY <1>2 DEF StoreLen
  <1>3. CASE StorePtr(c)
    BY <1>3 DEF StorePtr, ConnStep
  <1>4. CASE CreateNamespace(c) \/ CreateIngress(c) \/ RenderOwnValues(c)
    BY <1>4 DEF CreateNamespace, CreateIngress, RenderOwnValues
  <1>5. CASE BuildCreateArgs(c)
    BY <1>5 DEF BuildCreateArgs, ReadOption
  <1>6. CASE VclusterCreate(c)
    <2> SUFFICES ASSUME CustomValues PROVE SlotIsRendered'
      BY <1>6 DEF VclusterCreate
    <2>1. Content(path[c]) \in Clusters /\ path[c] # None
      BY <1>6, PathsAssumption DEF VclusterCreate, Exists, Content
    <2> QED
      BY <1>6, <2>1 DEF VclusterCreate
  <1>7. CASE VclusterConnect(c) \/ RemoveOwnValues(c)
    BY <1>7 DEF VclusterConnect, RemoveOwnValues
  <1>8. CASE Provision(c) \/ CreateDone(c) \/ RemoveValues(c) \/ CreateFatal(c)
    BY <1>8 DEF Provision, CreateDone, RemoveValues, CreateFatal
  <1> QED
    BY <1>1, <1>2, <1>3, <1>4, <1>5, <1>6, <1>7, <1>8 DEF CreateGoroutine

LEMMA SlotStep ==
  ASSUME TypeOK, SlotIsRendered, [Next]_vars
  PROVE  SlotIsRendered'
  <1>1. CASE \E c \in Clusters : DeleteGoroutine(c) \/ SpawnDelete(c)
    BY <1>1 DEF DeleteGoroutine, SpawnDelete, VclusterDelete, NamespaceDelete,
         DeleteDone, DeleteFatal, DeleteStep, hostVars, SlotIsRendered,
         CustomValues, TypeOK
  <1>2. CASE CreateReturns \/ CallDelete \/ DeleteReturns
           \/ ProcessEnds \/ UNCHANGED vars
    BY <1>2 DEF CreateReturns, CallDelete, DeleteReturns,
         ProcessEnds, vars, hostVars,
         SlotIsRendered, CustomValues
  <1> QED
    BY <1>1, <1>2, CreateSlot DEF Next, Main, Terminated

(***************************************************************************)
(* The inductive invariant, and the properties it implies.                 *)
(***************************************************************************)
LEMMA InvInit == Init => IInv
  <1> SUFFICES ASSUME Init PROVE IInv
    OBVIOUS
  <1>1. Working = {} /\ wg = 0
    BY DEF Init, Working
  <1>2. WgCountsWorking
    BY <1>1, FS_EmptySet DEF WgCountsWorking
  <1>3. CallsDoNotOverlap /\ StepsDone /\ SlotIsRendered
    BY DEF Init, CallsDoNotOverlap, StepsDone, SlotIsRendered, Connected
  <1> QED
    BY <1>2, <1>3, TypeInit DEF IInv

LEMMA InvStep == IInv /\ [Next]_vars => IInv'
  BY TypeStep, CountStep, OverlapStep, StepsDoneStep, SlotStep DEF IInv

(* The goroutines of the two calls never overlap, the wait group counts    *)
(* them exactly, and the place of each one tells what it has done.         *)
THEOREM Invariance == Spec => []IInv
  BY InvInit, InvStep, PTL DEF Spec

(* Create never returns with a cluster that is missing, unreachable, or    *)
(* not monitored although the configuration asks for it, whatever the      *)
(* number of clusters and however their goroutines interleave.             *)
THEOREM CreateIsComplete == Spec => []ReadyWhenCreateReturns
  <1>1. IInv => ReadyWhenCreateReturns
    BY DEF IInv, CallsDoNotOverlap, StepsDone, Connected,
         ReadyWhenCreateReturns, Ready
  <1> QED
    BY <1>1, Invariance, PTL

(* Delete never returns while a cluster or its namespace is left.          *)
THEOREM DeleteIsComplete == Spec => []DeleteLeavesNothing
  <1>1. IInv => DeleteLeavesNothing
    BY DEF IInv, TypeOK, CallsDoNotOverlap, StepsDone, DeleteLeavesNothing
  <1> QED
    BY <1>1, Invariance, PTL

(* The unsynchronised slice can give a cluster the values of another one,  *)
(* but never the user's template with its placeholders still in place.     *)
THEOREM TemplateIsRendered == Spec => []NeverRawTemplate
  <1>1. IInv => NeverRawTemplate
    BY DEF IInv, TypeOK, SlotIsRendered, NeverRawTemplate
  <1> QED
    BY <1>1, Invariance, PTL

(***************************************************************************)
(* The manager implements ClusterFleet.                                    *)
(***************************************************************************)
LEMMA FleetInit == Init => Fleet!Init
  BY DEF Init, Fleet!Init, PhaseMap, FleetMap, Ready

(* A goroutine of Create makes at most its own cluster ready.              *)
LEMMA FleetCreate ==
  ASSUME IInv, NEW c \in Clusters, CreateGoroutine(c) \/ Spawn(c)
  PROVE  [Fleet!Next]_(Fleet!vars)
  <1> USE DEF Fleet!Next, Fleet!vars
  <1>1. CASE CreateFatal(c)
    <2>1. main = "creating"
      BY <1>1 DEF CreateFatal, IInv, CallsDoNotOverlap
    <2>2. FleetMap' = FleetMap
      BY <1>1 DEF CreateFatal, hostVars, FleetMap, Ready
    <2> QED
      BY <1>1, <2>1, <2>2 DEF CreateFatal, PhaseMap, Fleet!Abort
  <1>2. CASE RemoveValues(c)
    BY <1>2 DEF RemoveValues, Step, hostVars, PhaseMap, FleetMap, Ready
  <1>3. CASE ~CreateFatal(c) /\ ~RemoveValues(c)
    <2>1. /\ alive /\ alive' /\ main = "creating" /\ main' = "creating"
          /\ config' = config
      BY <1>3 DEF CreateGoroutine, Spawn, SkipValues, ReadValuesPath,
           RenderValues, StoreLen, StorePtr, CreateNamespace, CreateIngress,
           RenderOwnValues, BuildCreateArgs, VclusterCreate, VclusterConnect,
           RemoveOwnValues, Provision, CreateDone, Step, ConnStep, IInv,
           TypeOK, CallsDoNotOverlap
    <2>2. /\ \A d \in Clusters : Ready(d) => Ready(d)'
          /\ \A d \in Clusters \ {c} : Ready(d)' => Ready(d)
      BY <1>3 DEF CreateGoroutine, Spawn, SkipValues, ReadValuesPath,
           RenderValues, StoreLen, StorePtr, CreateNamespace, CreateIngress,
           RenderOwnValues, BuildCreateArgs, VclusterCreate, VclusterConnect,
           RemoveOwnValues, Provision, CreateDone, Step, hostVars, Ready
    <2>3. CASE Ready(c) \/ ~Ready(c)'
      <3>1. FleetMap' = FleetMap
        BY <2>1, <2>2, <2>3 DEF FleetMap
      <3> QED
        BY <2>1, <3>1 DEF PhaseMap
    <2>4. CASE ~Ready(c) /\ Ready(c)'
      <3>1. /\ FleetMap[c] = "absent"
            /\ FleetMap' = [FleetMap EXCEPT ![c] = "ready"]
        BY <2>1, <2>2, <2>4 DEF FleetMap
      <3> QED
        BY <2>1, <3>1 DEF PhaseMap, Fleet!BecomeReady
    <2> QED
      BY <2>2, <2>3, <2>4
  <1> QED
    BY <1>1, <1>2, <1>3

(* A goroutine of Delete removes its cluster when the namespace goes.      *)
LEMMA FleetDelete ==
  ASSUME IInv, NEW c \in Clusters, DeleteGoroutine(c) \/ SpawnDelete(c)
  PROVE  [Fleet!Next]_(Fleet!vars)
  <1>0. main = "deleting" /\ main' = "deleting" /\ alive
    BY DEF DeleteGoroutine, SpawnDelete, VclusterDelete, NamespaceDelete,
         DeleteDone, DeleteFatal, DeleteStep, IInv, TypeOK, CallsDoNotOverlap,
         DeleteSteps
  <1>1. CASE NamespaceDelete(c)
    <2>1. /\ alive' /\ c \in namespaces /\ c \notin vclusters
          /\ vclusters' = vclusters /\ namespaces' = namespaces \ {c}
      BY <1>1 DEF NamespaceDelete, DeleteStep, IInv, StepsDone
    <2>2. /\ FleetMap[c] = "ready"
          /\ FleetMap' = [FleetMap EXCEPT ![c] = "removed"]
      BY <1>0, <2>1 DEF FleetMap
    <2> QED
      BY <1>0, <2>1, <2>2 DEF PhaseMap, Fleet!Next, Fleet!BecomeRemoved
  <1>2. CASE ~NamespaceDelete(c)
    <2>1. /\ namespaces' = namespaces
          /\ \A d \in Clusters :
               d \in namespaces \/ (d \in vclusters' <=> d \in vclusters)
      BY <1>2 DEF DeleteGoroutine, SpawnDelete, VclusterDelete, DeleteDone,
           DeleteFatal, DeleteStep, hostVars, IInv, StepsDone, TypeOK,
           CallsDoNotOverlap, Connected
    <2>2. FleetMap' = FleetMap
      BY <1>0, <2>1 DEF FleetMap
    <2>3. alive' \in BOOLEAN
      BY <1>2 DEF IInv, TypeOK, DeleteGoroutine, SpawnDelete, VclusterDelete,
           DeleteDone, DeleteFatal, DeleteStep
    <2> QED
      BY <1>0, <2>2, <2>3 DEF PhaseMap, Fleet!vars, Fleet!Next, Fleet!Abort
  <1> QED
    BY <1>1, <1>2

LEMMA FleetStep == IInv /\ [Next]_vars => [Fleet!Next]_(Fleet!vars)
  <1> SUFFICES ASSUME IInv, [Next]_vars PROVE [Fleet!Next]_(Fleet!vars)
    OBVIOUS
  <1>1. CASE CreateReturns
    <2>1. \A c \in Clusters : Ready(c) /\ c \in vclusters
      BY <1>1, NobodyWorking DEF CreateReturns, IInv, TypeOK,
           CallsDoNotOverlap, StepsDone, Connected, Ready
    <2>2. FleetMap' = FleetMap /\ \A c \in Clusters : FleetMap[c] = "ready"
      BY <1>1, <2>1 DEF CreateReturns, FleetMap, hostVars
    <2> QED
      BY <1>1, <2>2 DEF CreateReturns, PhaseMap, Fleet!Next, Fleet!Create
  <1>2. CASE CallDelete
    BY <1>2 DEF CallDelete, hostVars, PhaseMap, FleetMap, Fleet!Next,
         Fleet!StartDelete
  <1>3. CASE DeleteReturns
    <2>1. \A c \in Clusters : c \notin vclusters \union namespaces
      BY <1>3, NobodyWorking DEF DeleteReturns, IInv, TypeOK, StepsDone
    <2> QED
      BY <1>3, <2>1 DEF DeleteReturns, hostVars, PhaseMap, FleetMap,
           Fleet!Next, Fleet!Delete
  <1>4. CASE UNCHANGED vars
    BY <1>4 DEF vars, hostVars, PhaseMap, FleetMap, Ready, Fleet!vars
  <1>5. CASE ProcessEnds
    <2>1. FleetMap' = FleetMap
      BY <1>5 DEF ProcessEnds, hostVars, FleetMap, Ready
    <2> QED
      BY <1>5, <2>1 DEF ProcessEnds, PhaseMap, Fleet!Next, Fleet!Abort,
           Fleet!vars
  <1> QED
    BY <1>1, <1>2, <1>3, <1>4, <1>5, FleetCreate, FleetDelete
    DEF Next, Main, Terminated

(* Seen through PhaseMap and FleetMap, every behaviour of the manager is   *)
(* one that the VirtualClusterManager interface promises: a call returns   *)
(* with the whole fleet ready (or removed), or the process ends.           *)
THEOREM ManagerImplementsFleet == Spec => FleetSpec
  BY FleetInit, FleetStep, Invariance, PTL DEF Spec, FleetSpec, Fleet!Spec

(***************************************************************************)
(* The values that the manager renders itself.                             *)
(***************************************************************************)
LEMMA OwnFileCreate ==
  ASSUME TypeOK, OwnFile, Ingress, ~CustomValues, NEW c \in Clusters,
         CreateGoroutine(c) \/ Spawn(c)
  PROVE  OwnFile'
  <1> USE PathsAssumption
      DEF TypeOK, OwnFile, Step, hostVars, ConnStep, Ingress, CustomValues
  <1>1. CASE Spawn(c)
    BY <1>1 DEF Spawn
  <1>2. CASE SkipValues(c) \/ CreateNamespace(c) \/ CreateIngress(c)
    BY <1>2 DEF SkipValues, CreateNamespace, CreateIngress
  <1>3. CASE ReadValuesPath(c) \/ RenderValues(c) \/ StoreLen(c)
             \/ StorePtr(c) \/ RemoveValues(c)
    BY <1>3 DEF ReadValuesPath, RenderValues, StoreLen, StorePtr, RemoveValues
  <1>4. CASE RenderOwnValues(c)
    BY <1>4 DEF RenderOwnValues
  <1>5. CASE BuildCreateArgs(c)
    BY <1>5 DEF BuildCreateArgs
  <1>6. CASE VclusterCreate(c)
    BY <1>6 DEF VclusterCreate, Content
  <1>7. CASE VclusterConnect(c) \/ Provision(c) \/ CreateDone(c)
    BY <1>7 DEF VclusterConnect, Provision, CreateDone
  <1>8. CASE RemoveOwnValues(c)
    BY <1>8 DEF RemoveOwnValues
  <1>9. CASE CreateFatal(c)
    BY <1>9 DEF CreateFatal
  <1> QED
    BY <1>1, <1>2, <1>3, <1>4, <1>5, <1>6, <1>7, <1>8, <1>9
    DEF CreateGoroutine

LEMMA OwnFileStep == TypeOK /\ OwnFile /\ [Next]_vars => OwnFile'
  <1> SUFFICES ASSUME TypeOK, OwnFile, [Next]_vars, (Ingress /\ ~CustomValues)'
               PROVE  OwnFile'
    BY DEF OwnFile
  <1>1. CASE \E c \in Clusters : CreateGoroutine(c) \/ Spawn(c)
    <2>1. PICK c \in Clusters : CreateGoroutine(c) \/ Spawn(c)
      BY <1>1
    <2>2. config' = config
      BY <2>1 DEF CreateGoroutine, Spawn, SkipValues, ReadValuesPath,
        RenderValues, StoreLen, StorePtr, CreateNamespace, CreateIngress,
        RenderOwnValues, BuildCreateArgs, VclusterCreate, VclusterConnect,
        RemoveOwnValues, Provision, CreateDone, RemoveValues, CreateFatal, Step
    <2> QED
      BY <2>1, <2>2, OwnFileCreate DEF Ingress, CustomValues
  <1>2. CASE \E c \in Clusters : DeleteGoroutine(c) \/ SpawnDelete(c)
    BY <1>2 DEF DeleteGoroutine, SpawnDelete, VclusterDelete, NamespaceDelete,
      DeleteDone, DeleteFatal, DeleteStep, OwnFile, hostVars, Ingress,
      CustomValues
  <1>3. CASE CreateReturns \/ CallDelete \/ DeleteReturns
           \/ ProcessEnds \/ UNCHANGED vars
    BY <1>3 DEF CreateReturns, CallDelete, DeleteReturns,
         ProcessEnds, vars, hostVars,
      OwnFile, Ingress, CustomValues
  <1> QED
    BY <1>1, <1>2, <1>3 DEF Next, Main, Terminated

(* No goroutine ever passes another one's ingress values: they never go    *)
(* through the shared slice.                                               *)
THEOREM IngressValuesAreOwn == Spec => []OwnIngressValues
  <1>1. Init => OwnFile
    BY DEF Init, OwnFile
  <1>2. TypeOK /\ OwnFile => OwnIngressValues
    BY DEF TypeOK, OwnFile, OwnIngressValues
  <1> QED
    BY <1>1, <1>2, OwnFileStep, TypeCorrect, PTL DEF Spec

-----------------------------------------------------------------------------
(* Without "-f" and without ingress no goroutine has a values file at all. *)
NoValues ==
  ~CustomValues /\ ~Ingress =>
    \A c \in Clusters : path[c] = None /\ values[c] = None

LEMMA NoValuesStep == TypeOK /\ NoValues /\ [Next]_vars => NoValues'
  <1> SUFFICES ASSUME TypeOK, NoValues, [Next]_vars,
                      (~CustomValues /\ ~Ingress)'
               PROVE  NoValues'
    BY DEF NoValues
  <1>1. CASE \E c \in Clusters : CreateGoroutine(c)
    <2> PICK c \in Clusters : CreateGoroutine(c)
      BY <1>1
    <2>1. UNCHANGED config
      BY DEF CreateGoroutine, SkipValues, ReadValuesPath, RenderValues,
        StoreLen, StorePtr, CreateNamespace, CreateIngress, RenderOwnValues,
        BuildCreateArgs, VclusterCreate, VclusterConnect, RemoveOwnValues,
        Provision, CreateDone, RemoveValues, CreateFatal, Step
    <2>2. /\ ~CustomValues /\ ~Ingress
          /\ \A d \in Clusters : path[d] = None /\ values[d] = None
      BY <2>1 DEF CustomValues, Ingress, NoValues
    <2>3. CASE UNCHANGED <<path, values>>
      BY <2>2, <2>3 DEF NoValues
    <2>4. CASE BuildCreateArgs(c)
      BY <2>2, <2>4 DEF BuildCreateArgs, NoValues, TypeOK, hostVars
    <2>5. CASE VclusterCreate(c)
      BY <2>2, <2>5 DEF VclusterCreate, NoValues, TypeOK
    <2> QED
      BY <2>2, <2>3, <2>4, <2>5 DEF CreateGoroutine, SkipValues,
        ReadValuesPath, RenderValues, StoreLen, StorePtr, CreateNamespace,
        CreateIngress, RenderOwnValues, VclusterConnect, RemoveOwnValues,
        Provision, CreateDone, RemoveValues, CreateFatal, hostVars
  <1>2. CASE \E c \in Clusters : DeleteGoroutine(c)
    BY <1>2 DEF DeleteGoroutine, VclusterDelete, NamespaceDelete, DeleteDone,
      DeleteFatal, DeleteStep, NoValues, hostVars, Ingress, CustomValues
  <1>3. CASE Main \/ ProcessEnds \/ Terminated \/ UNCHANGED vars
    BY <1>3 DEF Main, ProcessEnds, CreateReturns, CallDelete, DeleteReturns,
      Spawn, SpawnDelete, Step, DeleteStep, Terminated, vars, hostVars,
      NoValues, Ingress, CustomValues
  <1> QED
    BY <1>1, <1>2, <1>3 DEF Next

(* A cluster can get the values of another one only where two goroutines   *)
(* share the "-f" of ClusterCreateOptions: every other configuration, and  *)
(* every benchmark of one cluster, creates each cluster from its own.      *)
THEOREM OwnValuesUnlessShared ==
  Spec => [](OwnValues \/ (CustomValues /\ \E c, d \in Clusters : c # d))
  <1> DEFINE Shared == CustomValues /\ \E c, d \in Clusters : c # d
  <1>1. Init => NoValues
    BY DEF Init, NoValues
  <1>2. TypeOK /\ NoValues /\ NeverRawTemplate /\ OwnIngressValues
          => OwnValues \/ Shared
    <2> SUFFICES ASSUME TypeOK, NoValues, NeverRawTemplate, OwnIngressValues
                 PROVE  OwnValues \/ Shared
      OBVIOUS
    <2>1. CASE CustomValues
      BY <2>1 DEF TypeOK, NeverRawTemplate, OwnValues
    <2>2. CASE ~CustomValues
      BY <2>2 DEF TypeOK, NoValues, OwnIngressValues, OwnValues
    <2> QED
      BY <2>1, <2>2
  <1> QED
    BY <1>1, <1>2, NoValuesStep, TypeCorrect, TemplateIsRendered,
       IngressValuesAreOwn, PTL DEF Spec
=============================================================================
