---------------------------- MODULE LifecycleTest ----------------------------
(***************************************************************************)
(* The lifecycle benchmark, cmd/vbench-lifecycle/vbench-lifecycle.go:      *)
(* runTests starts Parallelism goroutines, and each of them creates and    *)
(* deletes Count virtual clusters one after the other with CreateSingle    *)
(* and DeleteSingle.  The durations go to two lists that all goroutines    *)
(* share, each behind its own mutex; when the wait group is empty both     *)
(* lists are written to report.json.                                       *)
(*                                                                         *)
(* A duration is represented by the cluster it was measured on, the pair   *)
(* <<t, i>> behind the name "vcluster-t-i".                                *)
(***************************************************************************)
EXTENDS Integers, Sequences, FiniteSets

CONSTANTS
  Configs,  \* the configurations: how many goroutines, how many clusters each
  Nobody    \* holder of a mutex that is free

ASSUME ConfigsAssumption == Configs \subseteq [parallelism : Int, count : Int]
ASSUME NobodyAssumption == Nobody \notin Int

VARIABLES
  config,       \* the LifecycleTestConfig of the run
  main,         \* where runTests is
  alive,        \* FALSE once log.Fatal or a panic has ended the process
  next,         \* t, the loop counter of runTests
  wg,           \* counter of the WaitGroup
  pc,           \* next step of each goroutine
  iter,         \* i, the loop counter of each goroutine
  cMutex,       \* who holds the mutex of createTimes
  dMutex,       \* who holds the mutex of deleteTimes
  createTimes,  \* the two shared lists of durations
  deleteTimes,
  seen,         \* the list a goroutine is appending to, as it has read it
  vclusters,    \* virtual clusters that exist
  namespaces    \* their namespaces that exist

mutexes == <<cMutex, dMutex>>
lists == <<createTimes, deleteTimes, seen>>
hostVars == <<vclusters, namespaces>>
vars == <<config, main, alive, next, wg, pc, iter, mutexes, lists, hostVars>>

Workers == 0..(config.parallelism - 1)
AllClusters == Workers \X (0..(config.count - 1))

WorkerSteps ==
  {"idle", "create", "lockCreate", "storeCreate", "delete", "deleteNamespace",
   "lockDelete", "storeDelete", "done", "exit"}

TypeOK ==
  /\ config \in Configs
  /\ main \in {"prepare", "spawn", "wait", "report", "finished"}
  /\ alive \in BOOLEAN
  /\ next \in Nat
  /\ wg \in Int
  /\ pc \in [Workers -> WorkerSteps]
  /\ iter \in [Workers -> Nat]
  /\ cMutex \in Workers \union {Nobody}
  /\ dMutex \in Workers \union {Nobody}
  /\ createTimes \in Seq(Workers \X Nat)
  /\ deleteTimes \in Seq(Workers \X Nat)
  /\ seen \in [Workers -> Seq(Workers \X Nat)]
  /\ vclusters \subseteq Workers \X Nat
  /\ namespaces \subseteq Workers \X Nat

Init ==
  /\ config \in Configs
  /\ main = "prepare"
  /\ alive = TRUE
  /\ next = 0
  /\ wg = 0
  /\ pc = [t \in Workers |-> "idle"]
  /\ iter = [t \in Workers |-> 0]
  /\ cMutex = Nobody
  /\ dMutex = Nobody
  /\ createTimes = <<>>
  /\ deleteTimes = <<>>
  /\ seen = [t \in Workers |-> <<>>]
  /\ vclusters = {}
  /\ namespaces = {}

-----------------------------------------------------------------------------
(* The main goroutine, or the goroutine t, moves on; the process lives.    *)
Main(from, to) ==
  /\ alive
  /\ main = from
  /\ main' = to
  /\ UNCHANGED <<config, iter, mutexes, lists, hostVars>>

Step(t, from, to) ==
  /\ alive
  /\ pc[t] = from
  /\ pc' = [pc EXCEPT ![t] = to]
  /\ UNCHANGED <<config, main, alive, next>>

-----------------------------------------------------------------------------
(* Faulty variants: slips that would be easy to make in the code.  Each    *)
(* stands in for the definition its name begins with, to break a property. *)

(* "t := t" is forgotten: the goroutine sees the counter of the loop.      *)
CurrentCaptured(t) == <<next, iter[t]>>

(* wg.Add(1) for a goroutine that calls wg.Done() once for each cluster.   *)
SpawnWorkerOnce ==
  /\ next < config.parallelism
  /\ Main("spawn", "spawn")
  /\ wg' = wg + 1
  /\ pc' = [pc EXCEPT ![next] = IF config.count > 0 THEN "create" ELSE "exit"]
  /\ next' = next + 1
  /\ UNCHANGED alive

(* The cluster "vcluster-t-i" of the iteration under way.                  *)
Current(t) == <<t, iter[t]>>

(* A failed create leaves its namespace; that is cleaned up, and the create *)
(* tried again, without limit.                                             *)
CreateSingleRetries(t) ==
  /\ Step(t, "create", "create")
  /\ namespaces' = IF Current(t) \in namespaces
                   THEN namespaces \ {Current(t)}
                   ELSE namespaces \union {Current(t)}
  /\ UNCHANGED <<wg, iter, mutexes, lists, vclusters>>

(* createTimes is extended without its mutex.                              *)
LockCreateTimesUnguarded(t) ==
  /\ Step(t, "lockCreate", "storeCreate")
  /\ seen' = [seen EXCEPT ![t] = createTimes]
  /\ UNCHANGED <<wg, iter, mutexes, createTimes, deleteTimes, hostVars>>

(* "kubectl delete namespace" is left out.                                 *)
DeleteClusterOnly(t) ==
  /\ Current(t) \in vclusters
  /\ Step(t, "delete", "lockDelete")
  /\ vclusters' = vclusters \ {Current(t)}
  /\ UNCHANGED <<wg, iter, mutexes, lists, namespaces>>

(* deleteTimes = append(createTimes, elapsed)                              *)
StoreDeleteTimesMixed(t) ==
  /\ Step(t, "storeDelete", "done")
  /\ deleteTimes' = Append(createTimes, Current(t))
  /\ dMutex' = Nobody
  /\ UNCHANGED <<wg, iter, cMutex, createTimes, seen, hostVars>>

(* The new duration goes to the front of the list.                         *)
StoreDeleteTimesInFront(t) ==
  /\ Step(t, "storeDelete", "done")
  /\ deleteTimes' = <<Current(t)>> \o seen[t]
  /\ dMutex' = Nobody
  /\ UNCHANGED <<wg, iter, cMutex, createTimes, seen, hostVars>>

-----------------------------------------------------------------------------
(* runTests.                                                               *)

(* The output directory is made and the two files are copied.              *)
Prepare ==
  /\ Main("prepare", "spawn")
  /\ UNCHANGED <<alive, next, wg, pc>>

(* for t := 0; t < Parallelism; t++ { wg.Add(Count); go func() { ... }() } *)
SpawnWorker ==
  /\ next < config.parallelism
  /\ wg + config.count >= 0
  /\ Main("spawn", "spawn")
  /\ wg' = wg + config.count
  /\ pc' = [pc EXCEPT ![next] = IF config.count > 0 THEN "create" ELSE "exit"]
  /\ next' = next + 1
  /\ UNCHANGED alive

(* wg.Add panics when it makes the counter negative.                       *)
SpawnPanics ==
  /\ next < config.parallelism
  /\ wg + config.count < 0
  /\ Main("spawn", "spawn")
  /\ alive' = FALSE
  /\ UNCHANGED <<next, wg, pc>>

AllSpawned ==
  /\ next >= config.parallelism
  /\ Main("spawn", "wait")
  /\ UNCHANGED <<alive, next, wg, pc>>

WaitReturns ==
  /\ wg = 0
  /\ Main("wait", "report")
  /\ UNCHANGED <<alive, next, wg, pc>>

(* LifeCycleTestJsonReporter writes both lists to report.json.             *)
Report ==
  /\ Main("report", "finished")
  /\ UNCHANGED <<alive, next, wg, pc>>

(* log.Fatal, when a directory or a file cannot be made.                   *)
MainFatal ==
  /\ \E at \in {"prepare", "report"} : Main(at, at)
  /\ alive' = FALSE
  /\ UNCHANGED <<next, wg, pc>>

-----------------------------------------------------------------------------
(* The goroutine t.                                                        *)

(* CreateSingle, as it is called here (direct connection, no connect, no   *)
(* monitoring): "vcluster create" makes the cluster and its namespace.     *)
CreateSingle(t) ==
  /\ Step(t, "create", "lockCreate")
  /\ vclusters' = vclusters \union {Current(t)}
  /\ namespaces' = namespaces \union {Current(t)}
  /\ UNCHANGED <<wg, iter, mutexes, lists>>

(* cMutex.Lock(), and append reads the slice it extends.                   *)
LockCreateTimes(t) ==
  /\ cMutex = Nobody
  /\ Step(t, "lockCreate", "storeCreate")
  /\ cMutex' = t
  /\ seen' = [seen EXCEPT ![t] = createTimes]
  /\ UNCHANGED <<wg, iter, dMutex, createTimes, deleteTimes, hostVars>>

(* The longer slice is assigned; cMutex.Unlock().                          *)
StoreCreateTimes(t) ==
  /\ Step(t, "storeCreate", "delete")
  /\ createTimes' = Append(seen[t], Current(t))
  /\ cMutex' = Nobody
  /\ UNCHANGED <<wg, iter, dMutex, deleteTimes, seen, hostVars>>

(* DeleteSingle: "vcluster delete", then "kubectl delete namespace".       *)
DeleteCluster(t) ==
  /\ Current(t) \in vclusters
  /\ Step(t, "delete", "deleteNamespace")
  /\ vclusters' = vclusters \ {Current(t)}
  /\ UNCHANGED <<wg, iter, mutexes, lists, namespaces>>

DeleteNamespace(t) ==
  /\ Current(t) \in namespaces
  /\ Step(t, "deleteNamespace", "lockDelete")
  /\ namespaces' = namespaces \ {Current(t)}
  /\ UNCHANGED <<wg, iter, mutexes, lists, vclusters>>

LockDeleteTimes(t) ==
  /\ dMutex = Nobody
  /\ Step(t, "lockDelete", "storeDelete")
  /\ dMutex' = t
  /\ seen' = [seen EXCEPT ![t] = deleteTimes]
  /\ UNCHANGED <<wg, iter, cMutex, createTimes, deleteTimes, hostVars>>

StoreDeleteTimes(t) ==
  /\ Step(t, "storeDelete", "done")
  /\ deleteTimes' = Append(seen[t], Current(t))
  /\ dMutex' = Nobody
  /\ UNCHANGED <<wg, iter, cMutex, createTimes, seen, hostVars>>

(* wg.Done(), i++ and the test of the loop.                                *)
IterationDone(t) ==
  /\ Step(t, "done", IF iter[t] + 1 < config.count THEN "create" ELSE "exit")
  /\ wg' = wg - 1
  /\ iter' = [iter EXCEPT ![t] = @ + 1]
  /\ UNCHANGED <<mutexes, lists, hostVars>>

(* log.Fatalf, when one of the three commands fails.                       *)
CommandFatal(t) ==
  /\ alive
  /\ pc[t] \in {"create", "delete", "deleteNamespace"}
  /\ alive' = FALSE
  /\ UNCHANGED <<config, main, next, wg, pc, iter, mutexes, lists, hostVars>>

-----------------------------------------------------------------------------
RunTests ==
  \/ Prepare \/ SpawnWorker \/ SpawnPanics \/ AllSpawned \/ WaitReturns
  \/ Report \/ MainFatal

Worker(t) ==
  \/ CreateSingle(t) \/ LockCreateTimes(t) \/ StoreCreateTimes(t)
  \/ DeleteCluster(t) \/ DeleteNamespace(t)
  \/ LockDeleteTimes(t) \/ StoreDeleteTimes(t)
  \/ IterationDone(t) \/ CommandFatal(t)

Terminated ==
  /\ ~alive \/ main = "finished"
  /\ UNCHANGED vars

Next == RunTests \/ Terminated \/ \E t \in Workers : Worker(t)

Spec == Init /\ [][Next]_vars

(* Goroutines that can run do run, and each command is assumed to return.  *)
(* A waiter for a mutex needs no more: the others take it finitely often.  *)
FairSpec ==
  /\ Spec
  /\ WF_vars(RunTests)
  /\ \A t \in UNION {0..(c.parallelism - 1) : c \in Configs} :
       WF_vars(t \in Workers /\ Worker(t))

-----------------------------------------------------------------------------
(* Properties.                                                             *)

Entries(list) == {list[n] : n \in DOMAIN list}

(* Whatever is in report.json is complete: every cluster of the run has    *)
(* been measured exactly once in each list, and none is left behind.       *)
ReportIsComplete ==
  main = "finished" =>
    /\ \A list \in {createTimes, deleteTimes} :
         /\ Entries(list) = AllClusters
         /\ Len(list) = Cardinality(AllClusters)
    /\ vclusters = {} /\ namespaces = {}

(* The load on the host cluster is what Parallelism says: a goroutine has  *)
(* at most one cluster at any time, and a new one only when the namespace  *)
(* of the one before is gone.                                              *)
OneClusterPerWorker ==
  \A p, q \in vclusters \union namespaces : p[1] = q[1] => p = q

(* No append is ever lost: once a duration is in a list it stays at its    *)
(* place, although every goroutine writes the whole list.                  *)
IsPrefixOf(s, r) == Len(s) <= Len(r) /\ \A n \in 1..Len(s) : r[n] = s[n]

NoDurationLost ==
  [][ /\ IsPrefixOf(createTimes, createTimes')
      /\ IsPrefixOf(deleteTimes, deleteTimes') ]_vars

(* Every delete duration has its create duration, and both lists hold the  *)
(* clusters of one goroutine in the order of its loop.                     *)
InLoopOrder(list) ==
  \A m, n \in DOMAIN list :
    m < n /\ list[m][1] = list[n][1] => list[m][2] < list[n][2]

ListsAgree ==
  /\ Entries(deleteTimes) \subseteq Entries(createTimes)
  /\ InLoopOrder(createTimes) /\ InLoopOrder(deleteTimes)

(* The n-th create and the n-th delete duration are of the same cluster    *)
(* when one goroutine does it all (and in general only then).              *)
PairedWhenSerial ==
  config.parallelism = 1 => IsPrefixOf(deleteTimes, createTimes)

(* The run ends: with its report or with the end of the process.           *)
RunEnds == <>(main = "finished" \/ ~alive)

-----------------------------------------------------------------------------
(* Why they hold: an inductive invariant.                                  *)

(* A mutex is held while its list is extended, and the list that has been  *)
(* read is still the current one when it is written back.                  *)
MutexInv ==
  \A t \in Workers :
    /\ pc[t] = "storeCreate" => cMutex = t /\ seen[t] = createTimes
    /\ pc[t] = "storeDelete" => dMutex = t /\ seen[t] = deleteTimes

(* What exists in the host cluster belongs to the iteration under way.     *)
HostInv ==
  /\ \A p \in vclusters :
       /\ p = Current(p[1])
       /\ pc[p[1]] \in {"lockCreate", "storeCreate", "delete"}
  /\ \A p \in namespaces :
       /\ p = Current(p[1])
       /\ pc[p[1]] \in {"lockCreate", "storeCreate", "delete",
                        "deleteNamespace"}

(* The goroutine t has measured its i-th create, or its i-th delete.       *)
Created(t, i) ==
  \/ i < iter[t]
  \/ i = iter[t] /\ pc[t] \in {"delete", "deleteNamespace", "lockDelete",
                              "storeDelete", "done"}
Deleted(t, i) == i < iter[t] \/ (i = iter[t] /\ pc[t] = "done")

(* The lists hold what has been measured, each cluster once.               *)
Once(list) == \A m, n \in DOMAIN list : list[m] = list[n] => m = n

ListsInv ==
  /\ \A p \in Entries(createTimes) : Created(p[1], p[2])
  /\ \A p \in Entries(deleteTimes) : Deleted(p[1], p[2])
  /\ \A p \in AllClusters :
       /\ Created(p[1], p[2]) => p \in Entries(createTimes)
       /\ Deleted(p[1], p[2]) => p \in Entries(deleteTimes)
  /\ Once(createTimes) /\ Once(deleteTimes)

(* The WaitGroup counts the iterations of the goroutines started so far    *)
(* that are not over.                                                      *)
Remaining ==
  {p \in AllClusters : p[1] < next /\ iter[p[1]] <= p[2]}

Busy == WorkerSteps \ {"idle", "exit"}

LoopInv ==
  /\ next > 0 => config.count >= 0
  /\ \A t \in Workers :
       /\ pc[t] = "idle" <=> t >= next
       /\ pc[t] = "idle" => iter[t] = 0
       /\ pc[t] = "exit" => iter[t] = config.count
       /\ pc[t] \in Busy => iter[t] < config.count
  /\ wg = Cardinality(Remaining)
  /\ main \in {"wait", "report", "finished"} => next >= config.parallelism
  /\ main = "prepare" => next = 0
  /\ main \in {"report", "finished"} => wg = 0

IInv == TypeOK /\ MutexInv /\ HostInv /\ ListsInv /\ LoopInv

(* The lists in their order, in general and of one goroutine alone.        *)
OrderInv == InLoopOrder(createTimes) /\ InLoopOrder(deleteTimes)

Serial(list) == \A n \in DOMAIN list : list[n] = <<0, n - 1>>

SerialInv ==
  config.parallelism = 1 =>
    /\ Serial(createTimes) /\ Serial(deleteTimes)
    /\ Len(createTimes) = iter[0] + (IF Created(0, iter[0]) THEN 1 ELSE 0)
    /\ Len(deleteTimes) = iter[0] + (IF Deleted(0, iter[0]) THEN 1 ELSE 0)
=============================================================================
