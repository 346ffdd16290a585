------------------------- MODULE LifecycleTestProofs -------------------------
(***************************************************************************)
(* Theorems about LifecycleTest, for any number of goroutines and clusters *)
(* of each.                                                                *)
(***************************************************************************)
EXTENDS LifecycleTest, FiniteSetTheorems, TLAPS

(* What all steps have in common: the configuration stays, and with it the *)
(* goroutines.                                                             *)
LEMMA ConfigStays ==
  ASSUME [Next]_vars
  PROVE  config' = config /\ Workers' = Workers /\ AllClusters' = AllClusters
<1>1. config' = config
  BY DEF Next, vars, RunTests, Worker, Terminated, Main, Step, Prepare,
    SpawnWorker, SpawnPanics, AllSpawned, WaitReturns, Report, MainFatal,
    CreateSingle, LockCreateTimes, StoreCreateTimes, DeleteCluster,
    DeleteNamespace, LockDeleteTimes, StoreDeleteTimes, IterationDone,
    CommandFatal
<1>2. QED
  BY <1>1 DEF Workers, AllClusters

LEMMA ConfigTypes ==
  ASSUME TypeOK
  PROVE  /\ config.parallelism \in Int /\ config.count \in Int
         /\ Workers \subseteq Nat /\ Nobody \notin Workers
BY ConfigsAssumption, NobodyAssumption DEF TypeOK, Workers

LEMMA StepTypes == TypeOK /\ [Next]_vars => TypeOK'
<1> SUFFICES ASSUME TypeOK, [Next]_vars PROVE TypeOK'
  OBVIOUS
<1>0. config' = config /\ Workers' = Workers
  BY ConfigStays
<1>t. /\ config.parallelism \in Int /\ config.count \in Int
      /\ Workers \subseteq Nat /\ Nobody \notin Workers
  BY ConfigTypes
<1> USE <1>0, <1>t DEF TypeOK
<1>1. CASE UNCHANGED vars \/ Terminated
  BY <1>1 DEF Terminated, vars, mutexes, lists, hostVars
<1>2. CASE \/ Prepare \/ SpawnPanics \/ AllSpawned \/ WaitReturns \/ Report
           \/ MainFatal
  BY <1>2 DEF Prepare, SpawnPanics, AllSpawned, WaitReturns, Report,
    MainFatal, Main, mutexes, lists, hostVars
<1>3. CASE SpawnWorker
  <2>1. pc' \in [Workers -> WorkerSteps]
    BY <1>3 DEF SpawnWorker, WorkerSteps
  <2>2. next' \in Nat /\ wg' \in Int
    BY <1>3 DEF SpawnWorker
  <2>3. QED
    BY <1>3, <2>1, <2>2 DEF SpawnWorker, Main, mutexes, lists, hostVars
<1>4. ASSUME NEW t \in Workers, Worker(t)
      PROVE  TypeOK'
  <2>1. CASE CommandFatal(t)
    BY <2>1 DEF CommandFatal, mutexes, lists, hostVars
  <2>2. CASE \/ CreateSingle(t) \/ DeleteCluster(t) \/ DeleteNamespace(t)
    <3>1. Current(t) \in Workers \X Nat
      BY DEF Current
    <3>2. pc' \in [Workers -> WorkerSteps]
      BY <2>2 DEF CreateSingle, DeleteCluster, DeleteNamespace, Step,
        WorkerSteps
    <3>3. QED
      BY <2>2, <3>1, <3>2 DEF CreateSingle, DeleteCluster, DeleteNamespace,
        Step, mutexes, lists, hostVars
  <2>3. CASE LockCreateTimes(t) \/ LockDeleteTimes(t)
    <3>1. pc' \in [Workers -> WorkerSteps]
      BY <2>3 DEF LockCreateTimes, LockDeleteTimes, Step, WorkerSteps
    <3>2. seen' \in [Workers -> Seq(Workers \X Nat)]
      BY <2>3 DEF LockCreateTimes, LockDeleteTimes
    <3>3. QED
      BY <2>3, <3>1, <3>2 DEF LockCreateTimes, LockDeleteTimes, Step, hostVars
  <2>4. CASE StoreCreateTimes(t) \/ StoreDeleteTimes(t)
    <3>1. pc' \in [Workers -> WorkerSteps]
      BY <2>4 DEF StoreCreateTimes, StoreDeleteTimes, Step, WorkerSteps
    <3>2. Append(seen[t], Current(t)) \in Seq(Workers \X Nat)
      BY DEF Current
    <3>3. QED
      BY <2>4, <3>1, <3>2 DEF StoreCreateTimes, StoreDeleteTimes, Step,
        hostVars
  <2>5. CASE IterationDone(t)
    <3>1. pc' \in [Workers -> WorkerSteps] /\ iter' \in [Workers -> Nat]
      BY <2>5 DEF IterationDone, Step, WorkerSteps
    <3>2. wg' \in Int
      BY <2>5 DEF IterationDone
    <3>3. QED
      BY <2>5, <3>1, <3>2 DEF IterationDone, Step, mutexes, lists, hostVars
  <2>6. QED
    BY <1>4, <2>1, <2>2, <2>3, <2>4, <2>5 DEF Worker
<1>5. QED
  BY <1>1, <1>2, <1>3, <1>4 DEF Next, RunTests

(* A goroutine between Lock and Unlock is alone there.                     *)
LEMMA StepMutex == TypeOK /\ MutexInv /\ [Next]_vars => MutexInv'
<1> SUFFICES ASSUME TypeOK, MutexInv, [Next]_vars PROVE MutexInv'
  OBVIOUS
<1>0. config' = config /\ Workers' = Workers
  BY ConfigStays
<1>t. /\ config.parallelism \in Int /\ config.count \in Int
      /\ Workers \subseteq Nat /\ Nobody \notin Workers
  BY ConfigTypes
<1> USE <1>0, <1>t DEF TypeOK, MutexInv
<1>1. CASE UNCHANGED vars \/ Terminated
  BY <1>1 DEF Terminated, vars, mutexes, lists
<1>2. CASE \/ Prepare \/ SpawnPanics \/ AllSpawned \/ WaitReturns \/ Report
           \/ MainFatal
  BY <1>2 DEF Prepare, SpawnPanics, AllSpawned, WaitReturns, Report,
    MainFatal, Main, mutexes, lists
<1>3. CASE SpawnWorker
  BY <1>3 DEF SpawnWorker, Main, mutexes, lists
<1>4. ASSUME NEW t \in Workers, Worker(t)
      PROVE  MutexInv'
  <2>1. CASE CommandFatal(t)
    BY <2>1 DEF CommandFatal, mutexes, lists
  <2>2. CASE \/ CreateSingle(t) \/ DeleteCluster(t) \/ DeleteNamespace(t)
             \/ IterationDone(t)
    BY <2>2 DEF CreateSingle, DeleteCluster, DeleteNamespace, IterationDone,
      Step, mutexes, lists
  <2>3. CASE LockCreateTimes(t)
    BY <2>3 DEF LockCreateTimes, Step
  <2>4. CASE LockDeleteTimes(t)
    BY <2>4 DEF LockDeleteTimes, Step
  <2>5. CASE StoreCreateTimes(t)
    BY <2>5 DEF StoreCreateTimes, Step
  <2>6. CASE StoreDeleteTimes(t)
    BY <2>6 DEF StoreDeleteTimes, Step
  <2>7. QED
    BY <1>4, <2>1, <2>2, <2>3, <2>4, <2>5, <2>6 DEF Worker
<1>5. QED
  BY <1>1, <1>2, <1>3, <1>4 DEF Next, RunTests

(* A cluster and its namespace come and go within one iteration.           *)
LEMMA StepHost == TypeOK /\ HostInv /\ LoopInv /\ [Next]_vars => HostInv'
<1> SUFFICES ASSUME TypeOK, HostInv, LoopInv, [Next]_vars PROVE HostInv'
  OBVIOUS
<1>0. config' = config /\ Workers' = Workers
  BY ConfigStays
<1>t. /\ config.parallelism \in Int /\ config.count \in Int
      /\ Workers \subseteq Nat /\ Nobody \notin Workers
  BY ConfigTypes
<1>1. \A p \in vclusters \union namespaces : p[1] \in Workers
  BY DEF TypeOK
<1> USE <1>0, <1>t, <1>1 DEF TypeOK, HostInv, Current
<1>2. CASE UNCHANGED <<pc, iter, hostVars>>
  BY <1>2 DEF hostVars
<1>3. CASE SpawnWorker
  <2>1. next \in Workers /\ pc[next] = "idle"
    BY <1>3 DEF SpawnWorker, LoopInv, Workers
  <2>2. QED
    BY <1>3, <2>1 DEF SpawnWorker, Main, hostVars
<1>4. ASSUME NEW t \in Workers, Worker(t)
      PROVE  HostInv'
  <2>1. CASE CommandFatal(t)
    BY <1>2, <2>1 DEF CommandFatal
  <2>2. CASE CreateSingle(t)
    BY <2>2 DEF CreateSingle, Step
  <2>3. CASE LockCreateTimes(t) \/ StoreCreateTimes(t)
    BY <2>3 DEF LockCreateTimes, StoreCreateTimes, Step, hostVars
  <2>4. CASE DeleteCluster(t)
    BY <2>4 DEF DeleteCluster, Step
  <2>5. CASE DeleteNamespace(t)
    BY <2>5 DEF DeleteNamespace, Step
  <2>6. CASE LockDeleteTimes(t) \/ StoreDeleteTimes(t)
    BY <2>6 DEF LockDeleteTimes, StoreDeleteTimes, Step, hostVars
  <2>7. CASE IterationDone(t)
    BY <2>7 DEF IterationDone, Step, hostVars
  <2>8. QED
    BY <1>4, <2>1, <2>2, <2>3, <2>4, <2>5, <2>6, <2>7 DEF Worker
<1>5. CASE Terminated \/ Prepare \/ SpawnPanics \/ AllSpawned
           \/ WaitReturns \/ Report \/ MainFatal
  <2>1. UNCHANGED <<pc, iter, hostVars>>
    BY <1>5 DEF Terminated, vars, Prepare, SpawnPanics, AllSpawned,
      WaitReturns, Report, MainFatal, Main
  <2>2. QED
    BY <1>2, <2>1
<1>6. CASE UNCHANGED vars
  BY <1>2, <1>6 DEF vars
<1>7. QED
  BY <1>3, <1>4, <1>5, <1>6 DEF Next, RunTests

(* What appending one element does to a list.                              *)
LEMMA AppendOne ==
  ASSUME NEW S, NEW list \in Seq(S), NEW e \in S
  PROVE  /\ Entries(Append(list, e)) = Entries(list) \union {e}
         /\ IsPrefixOf(list, Append(list, e))
         /\ Once(list) /\ e \notin Entries(list) => Once(Append(list, e))
<1>1. /\ Len(list) \in Nat /\ DOMAIN list = 1..Len(list)
      /\ DOMAIN Append(list, e) = 1..(Len(list) + 1)
      /\ \A n \in 1..Len(list) : Append(list, e)[n] = list[n]
      /\ Append(list, e)[Len(list) + 1] = e
      /\ Len(Append(list, e)) = Len(list) + 1
  OBVIOUS
<1>2. Entries(Append(list, e)) = Entries(list) \union {e}
  <2>1. 1..(Len(list) + 1) = (1..Len(list)) \union {Len(list) + 1}
    BY <1>1
  <2>2. QED
    BY <1>1, <2>1, Zenon DEF Entries
<1>3. IsPrefixOf(list, Append(list, e))
  BY <1>1 DEF IsPrefixOf
<1>4. ASSUME Once(list), e \notin Entries(list)
      PROVE  Once(Append(list, e))
  BY <1>1, <1>4 DEF Once, Entries
<1>5. QED
  BY <1>2, <1>3, <1>4

(* The lists hold exactly what has been measured.                          *)
LEMMA StepLists ==
  TypeOK /\ MutexInv /\ LoopInv /\ ListsInv /\ [Next]_vars => ListsInv'
<1> SUFFICES ASSUME TypeOK, MutexInv, LoopInv, ListsInv, [Next]_vars
             PROVE  ListsInv'
  OBVIOUS
<1>0. config' = config /\ Workers' = Workers /\ AllClusters' = AllClusters
  BY ConfigStays
<1>t. /\ config.parallelism \in Int /\ config.count \in Int
      /\ Workers \subseteq Nat /\ Nobody \notin Workers
  BY ConfigTypes
<1>e. /\ Entries(createTimes) \subseteq Workers \X Nat
      /\ Entries(deleteTimes) \subseteq Workers \X Nat
      /\ AllClusters \subseteq Workers \X Nat
  BY <1>t DEF TypeOK, Entries, AllClusters
(* Most steps keep the lists, and what they count as measured.             *)
<1>s. ASSUME UNCHANGED <<createTimes, deleteTimes>>,
             \A t \in Workers : \A i \in Nat :
               /\ Created(t, i)' <=> Created(t, i)
               /\ Deleted(t, i)' <=> Deleted(t, i)
      PROVE  ListsInv'
  <2>1. /\ Entries(createTimes)' = Entries(createTimes)
        /\ Entries(deleteTimes)' = Entries(deleteTimes)
        /\ Once(createTimes)' = Once(createTimes)
        /\ Once(deleteTimes)' = Once(deleteTimes)
    BY <1>s DEF Entries, Once
  <2>2. \A p \in Workers \X Nat :
          /\ Created(p[1], p[2])' <=> Created(p[1], p[2])
          /\ Deleted(p[1], p[2])' <=> Deleted(p[1], p[2])
    BY <1>s
  <2>3. QED
    BY <1>0, <1>e, <2>1, <2>2 DEF ListsInv
<1>1. CASE UNCHANGED <<pc, iter, lists>>
  BY <1>1, <1>s DEF lists, Created, Deleted
<1>2. CASE SpawnWorker
  <2>1. next \in Workers /\ pc[next] = "idle"
    BY <1>2, <1>t DEF SpawnWorker, LoopInv, Workers, TypeOK
  <2>2. \A t \in Workers : \A i \in Nat :
          /\ Created(t, i)' <=> Created(t, i)
          /\ Deleted(t, i)' <=> Deleted(t, i)
    BY <1>2, <2>1 DEF SpawnWorker, Main, Created, Deleted, TypeOK
  <2>3. QED
    BY <1>2, <1>s, <2>2 DEF SpawnWorker, Main, lists
<1>3. ASSUME NEW t \in Workers, Worker(t)
      PROVE  ListsInv'
  <2>1. CASE CommandFatal(t)
    BY <1>1, <2>1 DEF CommandFatal
  <2>2. CASE \/ CreateSingle(t) \/ DeleteCluster(t) \/ DeleteNamespace(t)
             \/ LockCreateTimes(t) \/ LockDeleteTimes(t)
    <3>1. \A u \in Workers : \A i \in Nat :
            /\ Created(u, i)' <=> Created(u, i)
            /\ Deleted(u, i)' <=> Deleted(u, i)
      BY <2>2 DEF CreateSingle, DeleteCluster, DeleteNamespace,
        LockCreateTimes, LockDeleteTimes, Step, Created, Deleted, TypeOK
    <3>2. UNCHANGED <<createTimes, deleteTimes>>
      BY <2>2 DEF CreateSingle, DeleteCluster, DeleteNamespace,
        LockCreateTimes, LockDeleteTimes, lists
    <3>3. QED
      BY <1>s, <3>1, <3>2
  <2>3. CASE IterationDone(t)
    <3>1. \A u \in Workers : \A i \in Nat :
            /\ Created(u, i)' <=> Created(u, i)
            /\ Deleted(u, i)' <=> Deleted(u, i)
      BY <2>3 DEF IterationDone, Step, Created, Deleted, TypeOK
    <3>2. QED
      BY <1>s, <2>3, <3>1 DEF IterationDone, lists
  <2> DEFINE e == <<t, iter[t]>>
  <2>e. e \in Workers \X Nat /\ Current(t) = e
    BY DEF TypeOK, Current
  <2>l. /\ createTimes \in Seq(Workers \X Nat)
        /\ deleteTimes \in Seq(Workers \X Nat)
    BY DEF TypeOK
  <2>4. CASE StoreCreateTimes(t)
    <3>1. /\ createTimes' = Append(createTimes, e)
          /\ deleteTimes' = deleteTimes
      BY <2>4, <2>e DEF StoreCreateTimes, Step, MutexInv
    <3>2. e \notin Entries(createTimes)
      <4>1. ~ Created(t, iter[t])
        BY <2>4 DEF StoreCreateTimes, Step, Created, TypeOK
      <4>2. e[1] = t /\ e[2] = iter[t]
        OBVIOUS
      <4>3. QED
        BY <4>1, <4>2 DEF ListsInv
    <3>3. /\ Entries(createTimes)' = Entries(createTimes) \union {e}
          /\ Once(createTimes)'
          /\ Entries(deleteTimes)' = Entries(deleteTimes)
          /\ Once(deleteTimes)'
      <4>1. /\ Entries(Append(createTimes, e))
                 = Entries(createTimes) \union {e}
            /\ Once(Append(createTimes, e))
        BY <2>e, <2>l, <3>2, AppendOne DEF ListsInv
      <4>2. QED
        BY <3>1, <4>1 DEF Entries, Once, ListsInv
    <3>4. \A u \in Workers : \A i \in Nat :
            /\ Created(u, i)' <=> Created(u, i) \/ <<u, i>> = e
            /\ Deleted(u, i)' <=> Deleted(u, i)
      BY <2>4 DEF StoreCreateTimes, Step, Created, Deleted, TypeOK
    <3>5. \A p \in Workers \X Nat :
            /\ Created(p[1], p[2])' <=> Created(p[1], p[2]) \/ p = e
            /\ Deleted(p[1], p[2])' <=> Deleted(p[1], p[2])
      BY <3>4
    <3>6. QED
      BY <1>0, <1>e, <2>e, <3>3, <3>5 DEF ListsInv
  <2>5. CASE StoreDeleteTimes(t)
    <3>1. /\ deleteTimes' = Append(deleteTimes, e)
          /\ createTimes' = createTimes
      BY <2>5, <2>e DEF StoreDeleteTimes, Step, MutexInv
    <3>2. e \notin Entries(deleteTimes)
      <4>1. ~ Deleted(t, iter[t])
        BY <2>5 DEF StoreDeleteTimes, Step, Deleted, TypeOK
      <4>2. e[1] = t /\ e[2] = iter[t]
        OBVIOUS
      <4>3. QED
        BY <4>1, <4>2 DEF ListsInv
    <3>3. /\ Entries(deleteTimes)' = Entries(deleteTimes) \union {e}
          /\ Once(deleteTimes)'
          /\ Entries(createTimes)' = Entries(createTimes)
          /\ Once(createTimes)'
      <4>1. /\ Entries(Append(deleteTimes, e))
                 = Entries(deleteTimes) \union {e}
            /\ Once(Append(deleteTimes, e))
        BY <2>e, <2>l, <3>2, AppendOne DEF ListsInv
      <4>2. QED
        BY <3>1, <4>1 DEF Entries, Once, ListsInv
    <3>4. \A u \in Workers : \A i \in Nat :
            /\ Created(u, i)' <=> Created(u, i)
            /\ Deleted(u, i)' <=> Deleted(u, i) \/ <<u, i>> = e
      BY <2>5 DEF StoreDeleteTimes, Step, Created, Deleted, TypeOK
    <3>5. \A p \in Workers \X Nat :
            /\ Created(p[1], p[2])' <=> Created(p[1], p[2])
            /\ Deleted(p[1], p[2])' <=> Deleted(p[1], p[2]) \/ p = e
      BY <3>4
    <3>6. QED
      BY <1>0, <1>e, <2>e, <3>3, <3>5 DEF ListsInv
  <2>6. QED
    BY <1>3, <2>1, <2>2, <2>3, <2>4, <2>5 DEF Worker
<1>4. CASE Terminated \/ Prepare \/ SpawnPanics \/ AllSpawned
           \/ WaitReturns \/ Report \/ MainFatal
  <2>1. UNCHANGED <<pc, iter, lists>>
    BY <1>4 DEF Terminated, vars, Prepare, SpawnPanics, AllSpawned,
      WaitReturns, Report, MainFatal, Main
  <2>2. QED
    BY <1>1, <2>1
<1>5. CASE UNCHANGED vars
  BY <1>1, <1>5 DEF vars
<1>6. QED
  BY <1>2, <1>3, <1>4, <1>5 DEF Next, RunTests

(* The outstanding iterations are finitely many, as the clusters are.      *)
LEMMA FinitelyMany ==
  ASSUME TypeOK
  PROVE  /\ IsFiniteSet(AllClusters)
         /\ IsFiniteSet(Remaining) /\ Cardinality(Remaining) \in Nat
<1>1. config.parallelism \in Int /\ config.count \in Int
  BY ConfigTypes
<1>2. IsFiniteSet(Workers) /\ IsFiniteSet(0..(config.count - 1))
  BY <1>1, FS_Interval DEF Workers
<1>3. IsFiniteSet(AllClusters)
  BY <1>2, FS_Product DEF AllClusters
<1>4. Remaining \subseteq AllClusters
  BY DEF Remaining
<1>5. QED
  BY <1>3, <1>4, FS_Subset, FS_CardinalityType

(* The wait group counts them: a goroutine that starts brings Count of     *)
(* them, an iteration that ends takes one away.                            *)
LEMMA StepLoop == TypeOK /\ LoopInv /\ [Next]_vars => LoopInv'
<1> SUFFICES ASSUME TypeOK, LoopInv, [Next]_vars PROVE LoopInv'
  OBVIOUS
<1>0. config' = config /\ Workers' = Workers /\ AllClusters' = AllClusters
  BY ConfigStays
<1>t. /\ config.parallelism \in Int /\ config.count \in Int
      /\ Workers \subseteq Nat /\ Nobody \notin Workers
  BY ConfigTypes
<1>f. IsFiniteSet(Remaining) /\ Cardinality(Remaining) \in Nat
  BY FinitelyMany
<1>a. AllClusters \subseteq Workers \X Nat
  BY <1>t DEF AllClusters
<1>b. Busy = {"create", "lockCreate", "storeCreate", "delete",
              "deleteNamespace", "lockDelete", "storeDelete", "done"}
  BY DEF Busy, WorkerSteps
<1>1. CASE UNCHANGED <<main, next, wg, pc, iter>>
  <2>1. Remaining' = Remaining
    BY <1>0, <1>1 DEF Remaining
  <2>2. QED
    BY <1>0, <1>1, <2>1 DEF LoopInv
<1>2. CASE Prepare \/ AllSpawned \/ WaitReturns \/ Report
  <2>1. UNCHANGED <<next, wg, pc, iter>>
    BY <1>2 DEF Prepare, AllSpawned, WaitReturns, Report, Main
  <2>2. Remaining' = Remaining
    BY <1>0, <2>1 DEF Remaining
  <2>3. /\ main' \in {"wait", "report", "finished"}
                                         => next >= config.parallelism
        /\ main' # "prepare"
        /\ main' \in {"report", "finished"} => wg = 0
    BY <1>2 DEF Prepare, AllSpawned, WaitReturns, Report, Main, LoopInv
  <2>4. QED
    BY <1>0, <2>1, <2>2, <2>3 DEF LoopInv
<1>3. CASE SpawnWorker
  <2> DEFINE New == {next} \X (0..(config.count - 1))
  <2>1. /\ next \in Workers /\ pc[next] = "idle" /\ iter[next] = 0
        /\ main = "spawn" /\ main' = "spawn" /\ next' = next + 1
        /\ iter' = iter /\ wg' = wg + config.count
        /\ pc' = [pc EXCEPT ![next] =
                     IF config.count > 0 THEN "create" ELSE "exit"]
    BY <1>3, <1>t DEF SpawnWorker, Main, LoopInv, Workers, TypeOK
  <2>2. config.count >= 0
    <3>1. CASE next > 0
      BY <3>1 DEF LoopInv
    <3>2. CASE next = 0
      <4>1. Remaining = {}
        <5>1. \A p \in AllClusters : p[1] \in Nat
          BY <1>a, <1>t
        <5>2. QED
          BY <3>2, <5>1 DEF Remaining
      <4>2. wg = 0
        BY <4>1, FS_EmptySet DEF LoopInv
      <4>3. QED
        BY <1>3, <1>t, <4>2 DEF SpawnWorker
    <3>3. QED
      BY <3>1, <3>2 DEF TypeOK
  <2>3. Remaining' = Remaining \union New /\ Remaining \cap New = {}
    <3>1. Remaining' =
            {p \in AllClusters : p[1] < next + 1 /\ iter[p[1]] <= p[2]}
      BY <1>0, <2>1 DEF Remaining
    <3>2. ASSUME NEW p \in Workers \X Nat
          PROVE  /\ p \in New <=> p \in AllClusters /\ p[1] = next
                 /\ p[1] < next + 1 <=> p[1] < next \/ p[1] = next
                 /\ p[1] = next => iter[p[1]] <= p[2]
      <4>1. p[1] \in Workers /\ p[1] \in Nat /\ p[2] \in Nat /\ next \in Nat
        BY <1>t DEF TypeOK
      <4>2. p \in AllClusters <=> p[2] \in 0..(config.count - 1)
        BY <4>1 DEF AllClusters
      <4>3. p \in New <=> p[1] = next /\ p[2] \in 0..(config.count - 1)
        OBVIOUS
      <4>4. p[1] = next => iter[p[1]] <= p[2]
        BY <2>1, <4>1
      <4> HIDE DEF New
      <4>5. QED
        BY <4>1, <4>2, <4>3, <4>4
    <3>3. New \subseteq Workers \X Nat
      BY <1>t, <2>1
    <3>4. /\ next \in Nat
          /\ \A p \in Workers \X Nat : ~(p[1] < next /\ p[1] = next)
      BY <1>t DEF TypeOK
    <3> HIDE DEF New
    <3>5. QED
      BY <1>a, <3>1, <3>2, <3>3, <3>4 DEF Remaining
  <2>4. IsFiniteSet(New) /\ Cardinality(New) = config.count
    <3>1. /\ IsFiniteSet(0..(config.count - 1))
          /\ Cardinality(0..(config.count - 1)) = config.count
      BY <1>t, <2>2, FS_Interval
    <3>2. IsFiniteSet({next}) /\ Cardinality({next}) = 1
      BY FS_Singleton
    <3>3. QED
      BY <1>t, <3>1, <3>2, FS_Product
  <2>5. Cardinality(Remaining') = Cardinality(Remaining) + config.count
    <3>1. Cardinality(Remaining \cap New) = 0
      BY <2>3, FS_EmptySet
    <3> HIDE DEF New
    <3>2. Cardinality(Remaining \union New) =
            Cardinality(Remaining) + Cardinality(New)
              - Cardinality(Remaining \cap New)
      BY <1>f, <2>4, FS_Union
    <3>3. QED
      BY <1>f, <1>t, <2>3, <2>4, <3>1, <3>2
  <2>6. \A t \in Workers :
          /\ pc'[t] = "idle" <=> t >= next'
          /\ pc'[t] = "idle" => iter'[t] = 0
          /\ pc'[t] = "exit" => iter'[t] = config.count
          /\ pc'[t] \in Busy => iter'[t] < config.count
    BY <1>b, <1>t, <2>1, <2>2 DEF LoopInv, TypeOK
  <2>7. QED
    BY <1>0, <2>1, <2>2, <2>5, <2>6 DEF LoopInv
<1>4. ASSUME NEW t \in Workers, Worker(t)
      PROVE  LoopInv'
  <2>1. CASE CommandFatal(t)
    BY <1>1, <2>1 DEF CommandFatal
  <2>2. CASE \/ CreateSingle(t) \/ LockCreateTimes(t) \/ StoreCreateTimes(t)
             \/ DeleteCluster(t) \/ DeleteNamespace(t)
             \/ LockDeleteTimes(t) \/ StoreDeleteTimes(t)
    <3>1. /\ UNCHANGED <<main, next, wg, iter>>
          /\ \E to \in Busy : pc[t] \in Busy /\ pc' = [pc EXCEPT ![t] = to]
      BY <1>b, <2>2 DEF CreateSingle, LockCreateTimes, StoreCreateTimes,
        DeleteCluster, DeleteNamespace, LockDeleteTimes, StoreDeleteTimes, Step
    <3>2. Remaining' = Remaining
      BY <1>0, <3>1 DEF Remaining
    <3>3. \A u \in Workers :
            /\ pc'[u] = "idle" <=> u >= next
            /\ pc'[u] = "idle" => iter[u] = 0
            /\ pc'[u] = "exit" => iter[u] = config.count
            /\ pc'[u] \in Busy => iter[u] < config.count
      BY <1>b, <3>1 DEF LoopInv, TypeOK
    <3>4. QED
      BY <1>0, <3>1, <3>2, <3>3 DEF LoopInv
  <2>3. CASE IterationDone(t)
    <3> DEFINE e == <<t, iter[t]>>
    <3>1. /\ UNCHANGED <<main, next>> /\ wg' = wg - 1
          /\ pc[t] = "done" /\ iter' = [iter EXCEPT ![t] = @ + 1]
          /\ pc' = [pc EXCEPT ![t] =
                       IF iter[t] + 1 < config.count THEN "create" ELSE "exit"]
      BY <2>3 DEF IterationDone, Step
    <3>2. iter[t] \in Nat /\ iter[t] < config.count /\ t < next
      BY <1>b, <1>t, <3>1 DEF LoopInv, TypeOK
    <3>3. e \in Remaining
      BY <1>t, <3>2 DEF Remaining, AllClusters
    <3>4. Remaining' = Remaining \ {e}
      <4>1. Remaining' =
              {p \in AllClusters : p[1] < next /\ iter'[p[1]] <= p[2]}
        BY <1>0, <3>1 DEF Remaining
      <4>2. \A p \in Workers \X Nat :
              iter'[p[1]] <= p[2] <=> (iter[p[1]] <= p[2] /\ p # e)
        BY <1>t, <3>1, <3>2 DEF TypeOK
      <4>3. QED
        BY <1>a, <4>1, <4>2 DEF Remaining
    <3>5. Cardinality(Remaining') = Cardinality(Remaining) - 1
      BY <1>f, <3>3, <3>4, FS_RemoveElement
    <3>6. Cardinality(Remaining) # 0
      BY <1>f, <3>3, FS_EmptySet
    <3>7. \A u \in Workers :
            /\ pc'[u] = "idle" <=> u >= next
            /\ pc'[u] = "idle" => iter'[u] = 0
            /\ pc'[u] = "exit" => iter'[u] = config.count
            /\ pc'[u] \in Busy => iter'[u] < config.count
      BY <1>b, <1>t, <3>1, <3>2 DEF LoopInv, TypeOK
    <3>8. QED
      BY <1>0, <3>1, <3>5, <3>6, <3>7 DEF LoopInv
  <2>4. QED
    BY <1>4, <2>1, <2>2, <2>3 DEF Worker
<1>5. CASE Terminated \/ SpawnPanics \/ MainFatal
  <2>1. UNCHANGED <<main, next, wg, pc, iter>>
    BY <1>5 DEF Terminated, vars, SpawnPanics, MainFatal, Main
  <2>2. QED
    BY <1>1, <2>1
<1>6. CASE UNCHANGED vars
  BY <1>1, <1>6 DEF vars
<1>7. QED
  BY <1>2, <1>3, <1>4, <1>5, <1>6 DEF Next, RunTests

LEMMA InitIInv == Init => IInv
<1> SUFFICES ASSUME Init PROVE IInv
  OBVIOUS
<1>t. /\ config.parallelism \in Int /\ config.count \in Int
      /\ Workers \subseteq Nat
  BY ConfigsAssumption DEF Init, Workers
<1>1. TypeOK
  BY <1>t DEF Init, TypeOK, WorkerSteps
<1>2. MutexInv /\ HostInv
  BY DEF Init, MutexInv, HostInv
<1>3. ListsInv
  <2>1. Entries(createTimes) = {} /\ Entries(deleteTimes) = {}
    BY DEF Init, Entries
  <2>2. \A p \in AllClusters : ~ Created(p[1], p[2]) /\ ~ Deleted(p[1], p[2])
    BY <1>t DEF Init, AllClusters, Created, Deleted
  <2>3. QED
    BY <2>1, <2>2 DEF Init, ListsInv, Once
<1>4. LoopInv
  <2>1. \A p \in AllClusters : p[1] \in Nat
    BY <1>t DEF AllClusters
  <2>2. Remaining = {}
    BY <2>1 DEF Init, Remaining
  <2>3. QED
    BY <1>t, <2>2, FS_EmptySet DEF Init, LoopInv, Busy, WorkerSteps
<1>5. QED
  BY <1>1, <1>2, <1>3, <1>4 DEF IInv

(* The inductive invariant: who holds which mutex, what exists in the host *)
(* cluster, what the lists hold, and what the wait group counts.           *)
THEOREM Invariance == Spec => []IInv
<1>1. Init => IInv
  BY InitIInv
<1>2. IInv /\ [Next]_vars => IInv'
  BY StepTypes, StepMutex, StepHost, StepLists, StepLoop DEF IInv
<1>3. QED
  BY <1>1, <1>2, PTL DEF Spec

-----------------------------------------------------------------------------
(* A goroutine has one cluster at most: both are that of its iteration.    *)
THEOREM LoadIsBounded == Spec => []OneClusterPerWorker
<1>1. IInv => OneClusterPerWorker
  BY DEF IInv, HostInv, Current, OneClusterPerWorker
<1>2. QED
  BY <1>1, Invariance, PTL

(* No append of a duration is ever lost: what a goroutine writes back is   *)
(* the list as it is, with one more element.                               *)
THEOREM AppendsAreKept == Spec => NoDurationLost
<1> DEFINE Kept == /\ IsPrefixOf(createTimes, createTimes')
                   /\ IsPrefixOf(deleteTimes, deleteTimes')
<1>1. ASSUME TypeOK, MutexInv, [Next]_vars
      PROVE  Kept
  <2>t. /\ createTimes \in Seq(Workers \X Nat)
        /\ deleteTimes \in Seq(Workers \X Nat)
        /\ IsPrefixOf(createTimes, createTimes)
        /\ IsPrefixOf(deleteTimes, deleteTimes)
    BY <1>1 DEF TypeOK, IsPrefixOf
  <2>1. CASE UNCHANGED <<createTimes, deleteTimes>>
    BY <2>1, <2>t
  <2>2. ASSUME NEW t \in Workers, StoreCreateTimes(t) \/ StoreDeleteTimes(t)
        PROVE  Kept
    <3>1. Current(t) \in Workers \X Nat
      BY <1>1 DEF Current, TypeOK
    <3>2. \/ /\ createTimes' = Append(createTimes, Current(t))
             /\ deleteTimes' = deleteTimes
          \/ /\ deleteTimes' = Append(deleteTimes, Current(t))
             /\ createTimes' = createTimes
      BY <1>1, <2>2 DEF StoreCreateTimes, StoreDeleteTimes, Step, MutexInv
    <3>3. /\ IsPrefixOf(createTimes, Append(createTimes, Current(t)))
          /\ IsPrefixOf(deleteTimes, Append(deleteTimes, Current(t)))
      BY <2>t, <3>1, AppendOne
    <3>4. QED
      BY <2>t, <3>2, <3>3
  <2>3. CASE \A t \in Workers : ~(StoreCreateTimes(t) \/ StoreDeleteTimes(t))
    <3>1. UNCHANGED <<createTimes, deleteTimes>>
      BY <1>1, <2>3 DEF Next, vars, RunTests, Worker, Terminated, Main,
        Prepare, SpawnWorker, SpawnPanics, AllSpawned, WaitReturns, Report,
        MainFatal, CreateSingle, LockCreateTimes, DeleteCluster,
        DeleteNamespace, LockDeleteTimes, IterationDone, CommandFatal, lists
    <3>2. QED
      BY <2>1, <3>1
  <2>4. QED
    BY <2>2, <2>3
<1>2. IInv /\ [Next]_vars => [Kept]_vars
  BY <1>1 DEF IInv
<1>3. QED
  BY <1>2, Invariance, PTL DEF Spec, NoDurationLost

(* A list in which each cluster occurs once is as long as it has entries.  *)
LEMMA LengthOfOnce ==
  ASSUME NEW S, NEW list \in Seq(S), Once(list)
  PROVE  Cardinality(Entries(list)) = Len(list)
<1> DEFINE f == [n \in 1..Len(list) |-> list[n]]
<1>1. Len(list) \in Nat /\ DOMAIN list = 1..Len(list)
  OBVIOUS
<1>2. f \in Bijection(1..Len(list), Entries(list))
  BY <1>1 DEF Bijection, Injection, IsInjective, Surjection, Once, Entries
<1>3. ExistsBijection(1..Len(list), Entries(list))
  BY <1>2 DEF ExistsBijection
<1>4. QED
  BY <1>1, <1>3, FS_CountingElements

(* Whenever there is a report, it is complete and nothing is left behind:  *)
(* with a counter of zero no iteration is outstanding.                     *)
THEOREM ReportsAreComplete == Spec => []ReportIsComplete
<1>1. ASSUME IInv, main = "finished"
      PROVE  /\ Entries(createTimes) = AllClusters
             /\ Entries(deleteTimes) = AllClusters
             /\ Len(createTimes) = Cardinality(AllClusters)
             /\ Len(deleteTimes) = Cardinality(AllClusters)
             /\ vclusters = {} /\ namespaces = {}
  <2> USE <1>1 DEF IInv
  <2>t. /\ config.parallelism \in Int /\ config.count \in Int
        /\ Workers \subseteq Nat
    BY ConfigTypes
  <2>n. \A t \in Workers :
          /\ t \in Nat /\ t < next /\ iter[t] \in Nat
          /\ pc[t] \in Busy \union {"exit"}
    <3>1. next \in Nat /\ next >= config.parallelism
      BY DEF LoopInv, TypeOK
    <3>2. \A t \in Workers : t \in Nat /\ t < next
      BY <2>t, <3>1 DEF Workers
    <3>3. \A t \in Workers : pc[t] # "idle"
      BY <2>t, <3>1, <3>2 DEF LoopInv
    <3>4. \A t \in Workers : iter[t] \in Nat /\ pc[t] \in WorkerSteps
      BY DEF TypeOK
    <3>5. QED
      BY <3>2, <3>3, <3>4 DEF Busy
  <2>1. Remaining = {}
    BY FinitelyMany, FS_EmptySet DEF LoopInv
  <2>2. \A p \in AllClusters :
          p[1] \in Workers /\ p[2] \in Nat /\ p[2] < config.count
    BY <2>t DEF AllClusters
  <2>3. \A p \in AllClusters : Created(p[1], p[2]) /\ Deleted(p[1], p[2])
    BY <2>1, <2>2, <2>n DEF Remaining, Created, Deleted
  <2>4. \A p \in Workers \X Nat :
          Created(p[1], p[2]) \/ Deleted(p[1], p[2]) => p \in AllClusters
    <3>1. ASSUME NEW t \in Workers, NEW i \in Nat,
                 Created(t, i) \/ Deleted(t, i)
          PROVE  i \in 0..(config.count - 1)
      BY <2>n, <2>t, <3>1 DEF Created, Deleted, LoopInv, Busy, WorkerSteps
    <3>2. QED
      BY <3>1 DEF AllClusters
  <2>5. /\ Entries(createTimes) \subseteq Workers \X Nat
        /\ Entries(deleteTimes) \subseteq Workers \X Nat
    BY DEF TypeOK, Entries
  <2>6. /\ Entries(createTimes) = AllClusters
        /\ Entries(deleteTimes) = AllClusters
    BY <2>3, <2>4, <2>5 DEF ListsInv
  <2>7. /\ Cardinality(Entries(createTimes)) = Len(createTimes)
        /\ Cardinality(Entries(deleteTimes)) = Len(deleteTimes)
    BY LengthOfOnce DEF ListsInv, TypeOK
  <2>8. ASSUME NEW t \in Workers
        PROVE  pc[t] \notin Busy
    <3>1. SUFFICES ASSUME pc[t] \in Busy PROVE FALSE
      OBVIOUS
    <3>2. iter[t] < config.count /\ iter[t] \in Nat
      BY <2>n, <3>1 DEF LoopInv
    <3>3. <<t, iter[t]>> \in Remaining
      BY <2>n, <2>t, <3>2 DEF Remaining, AllClusters
    <3>4. QED
      BY <2>1, <3>3
  <2>9. vclusters = {} /\ namespaces = {}
    BY <2>8 DEF HostInv, TypeOK, Busy, WorkerSteps
  <2>10. QED
    BY <2>6, <2>7, <2>9
<1>2. IInv => ReportIsComplete
  BY <1>1 DEF ReportIsComplete
<1>3. QED
  BY <1>2, Invariance, PTL
-----------------------------------------------------------------------------
(* What a step can do to the two lists.                                    *)
LEMMA StepOfLists ==
  ASSUME IInv, [Next]_vars
  PROVE  \/ UNCHANGED <<createTimes, deleteTimes>>
         \/ \E t \in Workers :
              /\ StoreCreateTimes(t)
              /\ createTimes' = Append(createTimes, <<t, iter[t]>>)
              /\ deleteTimes' = deleteTimes
         \/ \E t \in Workers :
              /\ StoreDeleteTimes(t)
              /\ deleteTimes' = Append(deleteTimes, <<t, iter[t]>>)
              /\ createTimes' = createTimes
<1>1. ASSUME NEW t \in Workers, StoreCreateTimes(t)
      PROVE  /\ createTimes' = Append(createTimes, <<t, iter[t]>>)
             /\ deleteTimes' = deleteTimes
  BY <1>1 DEF StoreCreateTimes, Step, MutexInv, IInv, Current
<1>2. ASSUME NEW t \in Workers, StoreDeleteTimes(t)
      PROVE  /\ deleteTimes' = Append(deleteTimes, <<t, iter[t]>>)
             /\ createTimes' = createTimes
  BY <1>2 DEF StoreDeleteTimes, Step, MutexInv, IInv, Current
<1>3. CASE \A t \in Workers : ~(StoreCreateTimes(t) \/ StoreDeleteTimes(t))
  BY <1>3 DEF Next, vars, RunTests, Worker, Terminated, Main,
    Prepare, SpawnWorker, SpawnPanics, AllSpawned, WaitReturns, Report,
    MainFatal, CreateSingle, LockCreateTimes, DeleteCluster,
    DeleteNamespace, LockDeleteTimes, IterationDone, CommandFatal, lists
<1>4. QED
  BY <1>1, <1>2, <1>3

LEMMA AppendInOrder ==
  ASSUME NEW list \in Seq(Workers \X Nat), NEW t \in Workers, NEW i \in Nat,
         InLoopOrder(list),
         \A p \in Entries(list) : p[1] = t => p[2] < i
  PROVE  InLoopOrder(Append(list, <<t, i>>))
<1> DEFINE longer == Append(list, <<t, i>>)
<1>1. /\ Len(list) \in Nat /\ DOMAIN list = 1..Len(list)
      /\ DOMAIN longer = 1..(Len(list) + 1)
      /\ \A n \in 1..Len(list) : longer[n] = list[n]
      /\ longer[Len(list) + 1] = <<t, i>>
  OBVIOUS
<1> HIDE DEF longer
<1>2. SUFFICES ASSUME NEW m \in DOMAIN longer, NEW n \in DOMAIN longer,
                      m < n, longer[m][1] = longer[n][1]
               PROVE  longer[m][2] < longer[n][2]
  BY DEF InLoopOrder, longer
<1>3. CASE n \in 1..Len(list)
  BY <1>1, <1>2, <1>3 DEF InLoopOrder
<1>4. CASE n = Len(list) + 1
  <2>1. m \in 1..Len(list) /\ longer[m] = list[m] /\ longer[n] = <<t, i>>
    BY <1>1, <1>2, <1>4
  <2>2. list[m] \in Entries(list) /\ list[m][1] = t
    BY <1>1, <1>2, <2>1 DEF Entries
  <2>3. QED
    BY <2>1, <2>2
<1>5. QED
  BY <1>1, <1>3, <1>4

(* A new entry is of the iteration under way, all others of its goroutine  *)
(* are of iterations before.                                               *)
LEMMA StepOrder == IInv /\ OrderInv /\ [Next]_vars => OrderInv'
<1> SUFFICES ASSUME IInv, OrderInv, [Next]_vars PROVE OrderInv'
  OBVIOUS
<1>t. /\ createTimes \in Seq(Workers \X Nat)
      /\ deleteTimes \in Seq(Workers \X Nat)
      /\ \A t \in Workers : iter[t] \in Nat
  BY DEF IInv, TypeOK
<1>1. CASE UNCHANGED <<createTimes, deleteTimes>>
  BY <1>1 DEF OrderInv, InLoopOrder
<1>2. ASSUME NEW t \in Workers, StoreCreateTimes(t),
             createTimes' = Append(createTimes, <<t, iter[t]>>),
             deleteTimes' = deleteTimes
      PROVE  OrderInv'
  <2>1. \A p \in Entries(createTimes) : p[1] = t => p[2] < iter[t]
    BY <1>2 DEF StoreCreateTimes, Step, IInv, ListsInv, Created
  <2>2. InLoopOrder(Append(createTimes, <<t, iter[t]>>))
    BY <1>t, <2>1, AppendInOrder DEF OrderInv
  <2>3. QED
    BY <1>2, <2>2 DEF OrderInv, InLoopOrder
<1>3. ASSUME NEW t \in Workers, StoreDeleteTimes(t),
             deleteTimes' = Append(deleteTimes, <<t, iter[t]>>),
             createTimes' = createTimes
      PROVE  OrderInv'
  <2>1. \A p \in Entries(deleteTimes) : p[1] = t => p[2] < iter[t]
    BY <1>3 DEF StoreDeleteTimes, Step, IInv, ListsInv, Deleted
  <2>2. InLoopOrder(Append(deleteTimes, <<t, iter[t]>>))
    BY <1>t, <2>1, AppendInOrder DEF OrderInv
  <2>3. QED
    BY <1>3, <2>2 DEF OrderInv, InLoopOrder
<1>4. QED
  BY <1>1, <1>2, <1>3, StepOfLists

(* Every delete duration has its create duration, in the order of the      *)
(* loops: the list of the creates is never behind that of the deletes.     *)
THEOREM ListsGoTogether == Spec => []ListsAgree
<1>1. Init => OrderInv
  BY DEF Init, OrderInv, InLoopOrder
<1>2. ASSUME IInv, NEW p \in Entries(deleteTimes)
      PROVE  p \in Entries(createTimes)
  <2> USE <1>2 DEF IInv
  <2>t. /\ config.parallelism \in Int /\ config.count \in Int
        /\ Workers \subseteq Nat
    BY ConfigTypes
  <2>1. p \in Workers \X Nat /\ Deleted(p[1], p[2])
    <3>1. deleteTimes \in Seq(Workers \X Nat)
      BY DEF TypeOK
    <3>2. p \in Workers \X Nat
      BY <3>1 DEF Entries
    <3>3. QED
      BY <3>2 DEF ListsInv
  <2>2. Created(p[1], p[2])
    BY <2>1 DEF Created, Deleted
  <2>3. iter[p[1]] \in Nat /\ pc[p[1]] \in Busy \union {"idle", "exit"}
    BY <2>1 DEF TypeOK, Busy, WorkerSteps
  <2>4. p[2] < config.count
    <3> DEFINE t == p[1]
    <3>1. t \in Workers /\ p[2] \in Nat
      BY <2>1
    <3>2. /\ pc[t] = "idle" => iter[t] = 0
          /\ pc[t] = "exit" => iter[t] = config.count
          /\ pc[t] \in Busy => iter[t] < config.count
      BY <3>1 DEF LoopInv
    <3>3. p[2] < iter[t] \/ (p[2] = iter[t] /\ pc[t] = "done")
      BY <2>1 DEF Deleted
    <3>4. pc[t] = "done" => pc[t] \in Busy
      BY DEF Busy, WorkerSteps
    <3> HIDE DEF t
    <3>5. iter[t] \in Nat /\ pc[t] \in Busy \union {"idle", "exit"}
      BY <2>3 DEF t
    <3>6. QED
      BY <2>t, <3>1, <3>2, <3>3, <3>4, <3>5
  <2>5. p \in AllClusters
    BY <2>1, <2>4, <2>t DEF AllClusters
  <2>6. QED
    BY <2>2, <2>5 DEF ListsInv
<1>3. IInv /\ OrderInv => ListsAgree
  BY <1>2 DEF OrderInv, ListsAgree
<1>4. QED
  BY <1>1, <1>3, StepOrder, Invariance, PTL DEF Spec
(* A goroutine alone fills both lists in the order of its loop.            *)
LEMMA StepSerial == IInv /\ SerialInv /\ [Next]_vars => SerialInv'
<1> SUFFICES ASSUME IInv, SerialInv, [Next]_vars, config.parallelism = 1
             PROVE  SerialInv'
  BY ConfigStays DEF SerialInv
<1> DEFINE Lengths ==
      /\ Len(createTimes) = iter[0] + (IF Created(0, iter[0]) THEN 1 ELSE 0)
      /\ Len(deleteTimes) = iter[0] + (IF Deleted(0, iter[0]) THEN 1 ELSE 0)
<1>0. config' = config /\ Workers = {0} /\ Workers' = Workers
  BY ConfigStays DEF Workers
<1>s. Serial(createTimes) /\ Serial(deleteTimes) /\ Lengths
  BY DEF SerialInv
<1>t. /\ createTimes \in Seq(Workers \X Nat)
      /\ deleteTimes \in Seq(Workers \X Nat)
      /\ pc[0] \in WorkerSteps /\ iter[0] \in Nat
      /\ DOMAIN pc = {0} /\ DOMAIN iter = {0}
  BY <1>0 DEF IInv, TypeOK
<1>q. SUFFICES Serial(createTimes)' /\ Serial(deleteTimes)' /\ Lengths'
  BY DEF SerialInv
<1>1. ASSUME NEW list \in Seq(Workers \X Nat), Serial(list),
             Len(list) = iter[0]
      PROVE  /\ Serial(Append(list, <<0, iter[0]>>))
             /\ Len(Append(list, <<0, iter[0]>>)) = iter[0] + 1
  BY <1>0, <1>1, <1>t DEF Serial
<1>2. CASE UNCHANGED <<pc, iter, createTimes, deleteTimes>>
  BY <1>2, <1>s DEF Serial, Created, Deleted
<1>3. CASE SpawnWorker
  <2>1. next = 0 /\ pc[0] = "idle"
    BY <1>0, <1>3 DEF SpawnWorker, IInv, LoopInv, TypeOK
  <2>2. /\ pc'[0] \in {"create", "exit"}
        /\ UNCHANGED <<iter, createTimes, deleteTimes>>
    BY <1>3, <1>t, <2>1 DEF SpawnWorker, Main, lists
  <2>3. QED
    BY <1>s, <2>1, <2>2 DEF Serial, Created, Deleted
<1>4. ASSUME Worker(0)
      PROVE  Serial(createTimes)' /\ Serial(deleteTimes)' /\ Lengths'
  <2>1. CASE CommandFatal(0)
    BY <1>2, <2>1 DEF CommandFatal, lists
  <2>2. CASE \/ CreateSingle(0) \/ DeleteCluster(0) \/ DeleteNamespace(0)
             \/ LockCreateTimes(0) \/ LockDeleteTimes(0)
    <3>1. /\ UNCHANGED <<iter, createTimes, deleteTimes>>
          /\ Created(0, iter[0])' <=> Created(0, iter[0])
          /\ Deleted(0, iter[0])' <=> Deleted(0, iter[0])
      BY <2>2, <1>t DEF CreateSingle, DeleteCluster, DeleteNamespace,
        LockCreateTimes, LockDeleteTimes, Step, lists, Created, Deleted
    <3>2. QED
      BY <1>s, <3>1 DEF Serial
  <2>3. CASE IterationDone(0)
    <3>1. /\ UNCHANGED <<createTimes, deleteTimes>>
          /\ pc[0] = "done" /\ pc'[0] \in {"create", "exit"}
          /\ iter'[0] = iter[0] + 1
      BY <2>3, <1>t DEF IterationDone, Step, lists
    <3>2. /\ Created(0, iter[0]) /\ Deleted(0, iter[0])
          /\ ~ Created(0, iter[0])' /\ ~ Deleted(0, iter[0])'
      BY <1>t, <3>1 DEF Created, Deleted
    <3>3. QED
      BY <1>s, <1>t, <3>1, <3>2 DEF Serial
  <2>4. CASE StoreCreateTimes(0)
    <3>1. /\ createTimes' = Append(createTimes, <<0, iter[0]>>)
          /\ UNCHANGED <<iter, deleteTimes>>
          /\ pc[0] = "storeCreate" /\ pc'[0] = "delete"
      BY <2>4, <1>t, <1>0 DEF StoreCreateTimes, Step, IInv, MutexInv, Current
    <3>2. /\ ~ Created(0, iter[0]) /\ Created(0, iter[0])'
          /\ ~ Deleted(0, iter[0]) /\ ~ Deleted(0, iter[0])'
      BY <1>t, <3>1 DEF Created, Deleted
    <3>3. Len(createTimes) = iter[0]
      BY <1>s, <1>t, <3>2
    <3>4. QED
      BY <1>1, <1>s, <1>t, <3>1, <3>2, <3>3 DEF Serial
  <2>5. CASE StoreDeleteTimes(0)
    <3>1. /\ deleteTimes' = Append(deleteTimes, <<0, iter[0]>>)
          /\ UNCHANGED <<iter, createTimes>>
          /\ pc[0] = "storeDelete" /\ pc'[0] = "done"
      BY <2>5, <1>t, <1>0 DEF StoreDeleteTimes, Step, IInv, MutexInv, Current
    <3>2. /\ Created(0, iter[0]) /\ Created(0, iter[0])'
          /\ ~ Deleted(0, iter[0]) /\ Deleted(0, iter[0])'
      BY <1>t, <3>1 DEF Created, Deleted
    <3>3. Len(deleteTimes) = iter[0]
      BY <1>s, <1>t, <3>2
    <3>4. QED
      BY <1>1, <1>s, <1>t, <3>1, <3>2, <3>3 DEF Serial
  <2>6. QED
    BY <1>4, <2>1, <2>2, <2>3, <2>4, <2>5 DEF Worker
<1>5. CASE Terminated \/ Prepare \/ SpawnPanics \/ AllSpawned
           \/ WaitReturns \/ Report \/ MainFatal
  <2>1. UNCHANGED <<pc, iter, createTimes, deleteTimes>>
    BY <1>5 DEF Terminated, vars, Prepare, SpawnPanics, AllSpawned,
      WaitReturns, Report, MainFatal, Main, lists
  <2>2. QED
    BY <1>2, <2>1
<1>6. CASE UNCHANGED vars
  BY <1>2, <1>6 DEF vars, lists
<1>7. QED
  BY <1>0, <1>3, <1>4, <1>5, <1>6 DEF Next, RunTests

(* With one goroutine the n-th entries of both lists are of one cluster.   *)
THEOREM PairsWhenSerial == Spec => []PairedWhenSerial
<1>1. Init => SerialInv
  <2> SUFFICES ASSUME Init, config.parallelism = 1
               PROVE  /\ Serial(createTimes) /\ Serial(deleteTimes)
                      /\ iter[0] = 0 /\ ~Created(0, 0) /\ ~Deleted(0, 0)
    BY DEF Init, SerialInv
  <2>1. Workers = {0}
    BY DEF Workers
  <2>2. QED
    BY <2>1 DEF Init, Serial, Created, Deleted
<1>2. IInv /\ SerialInv => PairedWhenSerial
  <2> SUFFICES ASSUME IInv, SerialInv, config.parallelism = 1
               PROVE  IsPrefixOf(deleteTimes, createTimes)
    BY DEF PairedWhenSerial
  <2>1. /\ createTimes \in Seq(Workers \X Nat)
        /\ deleteTimes \in Seq(Workers \X Nat)
        /\ 0 \in Workers /\ iter[0] \in Nat
    BY DEF IInv, TypeOK, Workers
  <2>2. Deleted(0, iter[0]) => Created(0, iter[0])
    BY DEF Created, Deleted
  <2>3. Len(deleteTimes) <= Len(createTimes)
    BY <2>1, <2>2 DEF SerialInv
  <2>4. /\ DOMAIN deleteTimes = 1..Len(deleteTimes)
        /\ DOMAIN createTimes = 1..Len(createTimes)
        /\ Len(deleteTimes) \in Nat /\ Len(createTimes) \in Nat
    BY <2>1
  <2>5. QED
    BY <2>3, <2>4 DEF SerialInv, Serial, IsPrefixOf
<1>3. QED
  BY <1>1, <1>2, StepSerial, Invariance, PTL DEF Spec
=============================================================================
