--------------------------- MODULE ExperimentProofs ---------------------------
(* Theorems about Experiment, for any configurations, however they are     *)
(* batched, and any number of runs of vbench.                              *)
EXTENDS Experiment, FiniteSetTheorems, TLAPS

(* What the assumption says of one configuration.                          *)
LEMMA ConfigFacts ==
  ASSUME NEW x \in Configs
  PROVE  /\ x # None
         /\ x.clusterType \in {"host", "virtual"}
         /\ x.configMaps \in Nat
         /\ Len(x.clusters) \in Nat /\ Len(x.clusters) >= 1
         /\ DOMAIN x.clusters = 1..Len(x.clusters)
         /\ \A n \in 1..Len(x.clusters) :
              /\ x.clusters[n] \in Clusters
              /\ x.clusterType = "virtual" => x.clusters[n] \in Virtual
              /\ x.clusterType = "host" => x.clusters[n] = Host
         /\ \A i, j \in 1..Len(x.clusters) :
              x.clusters[i] = x.clusters[j] => i = j
<1>1. x # None
  BY NoneAssumption
<1>2. /\ x.clusterType \in {"host", "virtual"} /\ x.configMaps \in Nat
      /\ x.clusters \in Seq(IF x.clusterType = "host" THEN {Host} ELSE Virtual)
      /\ x.clusters # <<>>
      /\ \A i, j \in DOMAIN x.clusters :
           x.clusters[i] = x.clusters[j] => i = j
  BY ConfigsAssumption
<1>3. PICK S : x.clusters \in Seq(S) /\
                S = IF x.clusterType = "host" THEN {Host} ELSE Virtual
  BY <1>2
<1>4. /\ Len(x.clusters) \in Nat /\ DOMAIN x.clusters = 1..Len(x.clusters)
      /\ \A n \in 1..Len(x.clusters) : x.clusters[n] \in S
  BY <1>3
<1>5. Len(x.clusters) >= 1
  BY <1>2, <1>3
<1>6. QED
  BY <1>1, <1>2, <1>3, <1>4, <1>5 DEF Clusters

LEMMA ClustersOfConfig ==
  ASSUME NEW x \in Configs
  PROVE  /\ ClustersOf(x) \subseteq Clusters
         /\ ClustersOf(x) = {x.clusters[n] : n \in 1..Len(x.clusters)}
         /\ x.clusterType = "virtual" => ClustersOf(x) \subseteq Virtual
BY ConfigFacts DEF ClustersOf

LEMMA InitTypes == Init => TypeOK
<1> SUFFICES ASSUME Init PROVE TypeOK
  OBVIOUS
<1>1. /\ kpc \in [Clusters -> {"idle", "start", "run", "close", "done"}]
      /\ collected \in
           [{"host", "virtual"} -> (SUBSET Clusters) \union {None}]
      /\ initial \in [Clusters -> Nat \union {None}]
  BY DEF Init, NothingMeasured, NothingCollected
<1>2. run \in 1..MaxRuns /\ dir \in [1..MaxRuns -> 1..MaxRuns]
  BY RunsAssumption DEF Init
<1>3. QED
  BY <1>1, <1>2 DEF Init, TypeOK

(* A name that is given to the next run changes none of those before.      *)
LEMMA RestartNames ==
  ASSUME TypeOK, Restart
  PROVE  /\ dir' \in [1..MaxRuns -> 1..MaxRuns]
         /\ \A n \in Nat : n <= run /\ n # 0 => dir'[n] = dir[n]
         /\ dir'[run + 1] \notin dirs => astray' = astray
         /\ dir'[run + 1] \in dirs => run + 1 \in astray'
         /\ astray \subseteq astray' /\ astray' \subseteq 1..MaxRuns
<1>1. PICK d \in 1..MaxRuns :
        /\ NameFree(d) \/ NameMissed(d)
        /\ dir' = [dir EXCEPT ![run + 1] = d]
  BY DEF Restart
<1>2. /\ run \in 1..MaxRuns /\ run < MaxRuns /\ MaxRuns \in Nat
      /\ dir \in [1..MaxRuns -> 1..MaxRuns] /\ astray \subseteq 1..MaxRuns
  BY RunsAssumption DEF Restart, TypeOK
<1>3. run + 1 \in 1..MaxRuns
  BY <1>2
<1>4. dir' \in [1..MaxRuns -> 1..MaxRuns] /\ dir'[run + 1] = d
  BY <1>1, <1>2, <1>3
<1>5. \A n \in Nat : n <= run /\ n # 0 => dir'[n] = dir[n]
  BY <1>1, <1>2, <1>3
<1>6. QED
  BY <1>1, <1>2, <1>3, <1>4, <1>5 DEF NameFree, NameMissed

(* Types are preserved by every step.  The counter needs the invariant:    *)
(* it is counted down by a goroutine that it counts.                       *)
LEMMA StepTypes ==
  ASSUME TypeOK, PhaseInv, KbenchInv, [Next]_vars
  PROVE  TypeOK'
<1> USE DEF TypeOK, Ended
<1> DEFINE Commands == [run : 1..MaxRuns, cmd : {"create", "delete", "kbench"},
                        cluster : Clusters]
<1>0. ASSUME NEW y, y \in Configs
      PROVE  /\ ClustersOf(y) \subseteq Clusters
             /\ y.configMaps \in Nat
             /\ y.clusterType = "virtual" => ClustersOf(y) \subseteq Virtual
  BY <1>0, ConfigFacts, ClustersOfConfig
<1>1. CASE UNCHANGED vars
  BY <1>1 DEF vars, process, world, history
<1>2. CASE PickConfig
  <2>1. /\ kpc' \in [Clusters -> {"idle", "start", "run", "close", "done"}]
        /\ collected' \in
             [{"host", "virtual"} -> (SUBSET Clusters) \union {None}]
    BY <1>2 DEF PickConfig, NothingMeasured, NothingCollected
  <2>2. todo' \subseteq batch' /\ current' \in Configs
    BY <1>2, BatchesAssumption DEF PickConfig, Main
  <2>3. QED
    BY <1>2, <2>1, <2>2 DEF PickConfig, Main, world
<1>3. CASE \/ AllDone \/ CreateReturns \/ ResourcesCreated \/ Prepare
           \/ AllSpawned \/ WaitReturns
  <2>1. CASE Prepare
    <3>1. dirs' \subseteq 1..MaxRuns
      BY <2>1 DEF Prepare
    <3>2. QED
      BY <2>1, <3>1 DEF Prepare, Main
  <2>2. CASE \/ AllDone \/ CreateReturns \/ ResourcesCreated
             \/ AllSpawned \/ WaitReturns
    <3>1. /\ UNCHANGED <<run, dir, batch, todo, current, m, wg, kpc>>
          /\ UNCHANGED <<collected, commands, exists, initial, dirs>>
          /\ UNCHANGED <<crashed, completed, astray, stale, disturbed>>
          /\ pc' \in {"ended", "resources", "prepare", "wait", "collectHost"}
          /\ k' \in Nat /\ served' \subseteq Clusters
      BY <2>2 DEF AllDone, CreateReturns, ResourcesCreated, AllSpawned,
           WaitReturns, Main, world, AfterCreate
    <3>2. QED
      BY <3>1
  <2>3. QED
    BY <1>3, <2>1, <2>2
<1>4. CASE DeleteReturns
  BY <1>4 DEF DeleteReturns, Main, Returns, world, PhaseInv, Active
<1>5. CASE CreateInitialNamespace \/ CreateConfigMap \/ DeleteInitialNamespace
  <2>1. initial' \in [Clusters -> Nat \union {None}]
    <3>1. CASE CreateInitialNamespace \/ DeleteInitialNamespace
      BY <1>5, <3>1 DEF CreateInitialNamespace, DeleteInitialNamespace
    <3>2. CASE CreateConfigMap
      <4> DEFINE here == Cluster
      <4>1. /\ initial[here] # None
            /\ initial' = [initial EXCEPT ![here] = initial[here] + 1]
        BY <3>2 DEF CreateConfigMap
      <4>2. here \in Clusters => initial[here] + 1 \in Nat
        BY <4>1
      <4> HIDE DEF here
      <4>3. QED
        BY <4>1, <4>2
    <3>3. QED
      BY <1>5, <3>1, <3>2
  <2>2. m' \in Nat /\ k' \in Nat
    BY <1>5 DEF CreateInitialNamespace, CreateConfigMap,
         DeleteInitialNamespace
  <2>3. QED
    BY <1>5, <2>1, <2>2 DEF CreateInitialNamespace, CreateConfigMap,
         DeleteInitialNamespace, Main
<1>6. CASE SpawnKbench
  <2>1. kpc' \in [Clusters -> {"idle", "start", "run", "close", "done"}]
    BY <1>6 DEF SpawnKbench
  <2>2. QED
    BY <1>6, <2>1 DEF SpawnKbench, Main, world
<1>7. CASE CollectHost \/ CollectVirtual
  <2>1. Measured \in SUBSET Clusters
    BY DEF Measured
  <2>2. collected' \in
          [{"host", "virtual"} -> (SUBSET Clusters) \union {None}]
    BY <1>7, <2>1 DEF CollectHost, CollectVirtual
  <2>3. QED
    BY <1>7, <2>2 DEF CollectHost, CollectVirtual, Main, world
<1>8. CASE Report \/ ResourcesDeleted
  <2>1. current \in Configs
    BY <1>8 DEF Report, ResourcesDeleted, Main, PhaseInv, Active
  <2>2. completed' \subseteq (1..MaxRuns) \X Configs
    BY <1>8, <2>1 DEF Report, ResourcesDeleted, Returns
  <2>3. current' \in Configs \union {None}
    BY <1>8, <2>1 DEF Report, ResourcesDeleted, Returns
  <2>4. /\ UNCHANGED <<run, dir, batch, todo, m, served, wg, kpc>>
        /\ UNCHANGED <<collected, commands, exists, initial, dirs>>
        /\ UNCHANGED <<crashed, astray, stale, disturbed>>
        /\ pc' \in {"cleanup", "delete", "next"} /\ k' \in Nat
    BY <1>8 DEF Report, ResourcesDeleted, Main, AfterTests, AfterCleanup,
         world
  <2>5. completed' \union crashed' \subseteq (1..MaxRuns) \X Configs
    BY <2>2, <2>4
  <2>6. QED
    BY <2>3, <2>4, <2>5
<1>9. CASE Die /\ commands' \subseteq commands
  <2>1. {run} \X ({current} \ {None}) \subseteq (1..MaxRuns) \X Configs
    OBVIOUS
  <2>2. QED
    BY <1>9, <2>1 DEF Die
<1>10. CASE Restart
  <2>1. /\ kpc' \in [Clusters -> {"idle", "start", "run", "close", "done"}]
        /\ collected' \in
             [{"host", "virtual"} -> (SUBSET Clusters) \union {None}]
    BY <1>10 DEF Restart, NothingMeasured, NothingCollected
  <2>2. run' \in 1..MaxRuns
    BY <1>10, RunsAssumption DEF Restart
  <2>3. /\ dir' \in [1..MaxRuns -> 1..MaxRuns]
        /\ astray' \subseteq 1..MaxRuns
    BY <1>10, RestartNames
  <2>4. QED
    BY <1>10, <2>1, <2>2, <2>3 DEF Restart, world
<1>11. ASSUME NEW c \in Clusters, ManagerCommand(c)
       PROVE  TypeOK'
  BY <1>11 DEF ManagerCommand, process, history
<1>12. ASSUME NEW c \in Clusters, StartKbench(c)
       PROVE  TypeOK'
  <2>1. kpc' \in [Clusters -> {"idle", "start", "run", "close", "done"}]
    BY <1>12 DEF StartKbench, Goroutine
  <2>2. QED
    BY <1>12, <2>1 DEF StartKbench, Goroutine, history
<1>13. ASSUME NEW c \in Clusters, KbenchDone(c)
       PROVE  TypeOK'
  <2>1. kpc' \in [Clusters -> {"idle", "start", "run", "close", "done"}]
    BY <1>13 DEF KbenchDone, Goroutine
  <2>2. c \in Unfinished /\ IsFiniteSet(Unfinished)
        /\ wg = Cardinality(Unfinished)
    BY <1>13 DEF KbenchDone, Goroutine, Unfinished, KbenchInv
  <2>3. wg # 0
    BY <2>2, FS_EmptySet
  <2>4. wg' \in Nat
    BY <1>13, <2>3 DEF KbenchDone
  <2>5. QED
    BY <1>13, <2>1, <2>4 DEF KbenchDone, Goroutine, history
<1>14. ASSUME NEW x \in commands, CommandSucceeds(x)
       PROVE  TypeOK'
  <2>0. /\ x.run \in 1..MaxRuns /\ x.cluster \in Clusters
        /\ x.cmd \in {"create", "delete", "kbench"}
    OBVIOUS
  <2>1. kpc' \in [Clusters -> {"idle", "start", "run", "close", "done"}]
    BY <1>14, <2>0 DEF CommandSucceeds
  <2>2. /\ exists' \subseteq Virtual
        /\ initial' \in [Clusters -> Nat \union {None}]
    BY <1>14, <2>0 DEF CommandSucceeds, Effect, PhaseInv
  <2>3. QED
    BY <1>14, <2>0, <2>1, <2>2 DEF CommandSucceeds
<1>15. ASSUME NEW x \in commands, CommandFails(x), ~Die
       PROVE  TypeOK'
  BY <1>15 DEF CommandFails, process, history
<1>16. Refused \/ Fatal \/ (\E x \in commands : CommandFails(x) /\ Die)
         => Die /\ commands' \subseteq commands
  BY DEF Refused, Fatal, CommandFails
<1>17. QED
  BY <1>1, <1>2, <1>3, <1>4, <1>5, <1>6, <1>7, <1>8, <1>9, <1>10, <1>11,
     <1>12, <1>13, <1>14, <1>15, <1>16
     DEF Next, Vbench, Goroutines, Command, Terminated

LEMMA InitPhase == Init => PhaseInv
BY DEF Init, PhaseInv, Ended, Active

(* The phases in their order, and what belongs to which run.               *)
LEMMA StepPhase ==
  ASSUME TypeOK, PhaseInv, [Next]_vars
  PROVE  PhaseInv'
<1> USE DEF PhaseInv, Active, Ended, TypeOK
<1>0. /\ run \in Nat /\ k \in Nat
      /\ Active => Len(current.clusters) \in Nat /\ Len(current.clusters) >= 1
  BY ConfigFacts
<1>1. CASE UNCHANGED vars
  BY <1>1 DEF vars, process, world, history, Last
<1>2. CASE PickConfig
  <2>1. current' \in Configs /\ todo \subseteq Configs
    BY <1>2, BatchesAssumption DEF PickConfig, Main
  <2>2. /\ pc' = "create" => current'.clusterType = "virtual"
        /\ pc' = "resources" => current'.configMaps # 0
    BY <1>2 DEF PickConfig, Main
  <2>3. pc' \in {"create", "prepare", "resources"} /\ k' = 1
    BY <1>2 DEF PickConfig, Main
  <2>4. QED
    BY <1>2, <2>1, <2>2, <2>3 DEF PickConfig, Main, world
<1>3. CASE \/ AllDone \/ CreateReturns \/ Prepare \/ ResourcesCreated
           \/ WaitReturns \/ CollectHost \/ CollectVirtual
  BY <1>0, <1>3 DEF AllDone, CreateReturns, Prepare, ResourcesCreated,
       WaitReturns, CollectHost, CollectVirtual, Main, world, AfterCreate, Last
<1>4. CASE SpawnKbench \/ AllSpawned
  BY <1>0, <1>4 DEF SpawnKbench, AllSpawned, Main, world, Last
<1>5. CASE DeleteReturns \/ ResourcesDeleted
  BY <1>5 DEF DeleteReturns, ResourcesDeleted, Returns, Main, AfterCleanup,
       world
<1>6. CASE CreateInitialNamespace \/ CreateConfigMap \/ DeleteInitialNamespace
  BY <1>0, <1>6 DEF CreateInitialNamespace, CreateConfigMap,
       DeleteInitialNamespace, Main
<1>7. CASE Report
  <2> DEFINE new == [run |-> run, config |-> current, collected |-> collected]
  <2>1. new.run \in 1..run /\ new.config \in Configs
    BY <1>7 DEF Report, Main
  <2>2. /\ reports' \subseteq reports \union {new} /\ run' = run
        /\ UNCHANGED <<k, crashed, commands>>
        /\ pc' \in {"cleanup", "delete", "next"}
        /\ pc' = "next" => current' = None
        /\ pc' # "next" => current' = current /\ current \in Configs
        /\ pc' = "delete" => current.clusterType = "virtual"
        /\ pc' = "cleanup" => current.configMaps # 0
    BY <1>7 DEF Report, Main, Returns, AfterTests, AfterCleanup
  <2>3. \A r \in reports' : r.run \in 1..run' /\ r.config \in Configs
    BY <2>1, <2>2
  <2>4. QED
    BY <2>2, <2>3
<1>8. CASE Die /\ commands' \subseteq commands
  BY <1>8 DEF Die
<1>9. CASE Restart
  BY <1>0, <1>9 DEF Restart, world
<1>10. ASSUME NEW c \in Clusters, ManagerCommand(c)
       PROVE  PhaseInv'
  <2>1. /\ current \in Configs /\ current.clusterType = "virtual"
        /\ c \in ClustersOf(current)
    BY <1>10 DEF ManagerCommand
  <2>2. c \in Virtual
    BY <2>1, ClustersOfConfig
  <2>3. \A y \in commands' :
          y.run <= run /\ (y.cmd # "kbench" => y.cluster \in Virtual)
    BY <1>10, <1>0, <2>2 DEF ManagerCommand
  <2>4. QED
    BY <1>10, <2>3 DEF ManagerCommand, process, history, Last
<1>11. ASSUME NEW c \in Clusters, StartKbench(c) \/ KbenchDone(c)
       PROVE  PhaseInv'
  <2>1. \A y \in commands' :
          y.run <= run /\ (y.cmd # "kbench" => y.cluster \in Virtual)
    BY <1>11, <1>0 DEF StartKbench, KbenchDone, Goroutine
  <2>2. QED
    BY <1>11, <2>1 DEF StartKbench, KbenchDone, Goroutine, history, Last
<1>12. ASSUME NEW x \in commands, CommandSucceeds(x)
       PROVE  PhaseInv'
  BY <1>12 DEF CommandSucceeds, Last
<1>13. ASSUME NEW x \in commands, CommandFails(x), ~Die
       PROVE  PhaseInv'
  BY <1>13 DEF CommandFails, process, history, Last
<1>14. Refused \/ Fatal \/ (\E x \in commands : CommandFails(x) /\ Die)
         => Die /\ commands' \subseteq commands
  BY DEF Refused, Fatal, CommandFails
<1>15. QED
  BY <1>1, <1>2, <1>3, <1>4, <1>5, <1>6, <1>7, <1>8, <1>9, <1>10, <1>11,
     <1>12, <1>13, <1>14
     DEF Next, Vbench, Goroutines, Command, Terminated

LEMMA InitKbench == Init => KbenchInv
<1> SUFFICES ASSUME Init PROVE KbenchInv
  OBVIOUS
<1>1. Unfinished = {}
  BY DEF Init, Unfinished, NothingMeasured
<1>2. IsFiniteSet(Unfinished) /\ Cardinality(Unfinished) = 0
  BY <1>1, FS_EmptySet
<1>3. QED
  BY <1>1, <1>2 DEF Init, KbenchInv, OwnKbench, Ended

(* The goroutines of runTests and their WaitGroup.                         *)
LEMMA StepKbench ==
  ASSUME TypeOK, PhaseInv, KbenchInv, [Next]_vars
  PROVE  KbenchInv'
<1> USE DEF KbenchInv, Ended, OwnKbench, Own
<1>0. /\ run \in Nat /\ k \in Nat /\ k >= 1
      /\ kpc \in [Clusters -> {"idle", "start", "run", "close", "done"}]
      /\ \A x \in commands : x.run \in Nat /\ x.run <= run
                             /\ x.cluster \in Clusters
      /\ pc \notin {"next"} \union Ended => current \in Configs
  BY DEF TypeOK, PhaseInv, Active
<1>1. CASE UNCHANGED vars
  <2>1. Unfinished' = Unfinished
    BY <1>1 DEF vars, process, Unfinished
  <2>2. QED
    BY <1>1, <2>1 DEF vars, process, world, Unfinished
<1>2. CASE PickConfig
  <2>1. /\ pc = "next" /\ pc' \in {"create", "prepare", "resources"}
        /\ kpc' = NothingMeasured /\ UNCHANGED <<wg, run, commands>>
    BY <1>2 DEF PickConfig, Main, world
  <2>2. Unfinished = {} /\ Unfinished' = {}
    BY <2>1 DEF Unfinished, NothingMeasured
  <2>3. \A c \in Clusters : kpc'[c] = "idle"
    BY <2>1 DEF NothingMeasured
  <2>4. \A x \in commands : ~(Own(x) /\ x.cmd = "kbench")
    BY <1>0, <2>1, <2>2 DEF Unfinished
  <2>5. QED
    BY <2>1, <2>2, <2>3, <2>4
<1>3. ASSUME UNCHANGED <<run, kpc, wg, commands>>, pc \notin Ended,
             \/ /\ pc' = pc /\ k' = k /\ current' = current
             \/ /\ pc' \in {"next", "prepare", "resources", "report", "delete",
                             "cleanup"} \union Ended
                /\ pc' \in {"prepare", "resources"}
                     => pc \in {"create", "resources"}
                /\ pc' \notin Ended => pc \notin {"spawn", "wait"}
             \/ /\ pc = "resources" /\ pc' = "resources"
             \/ /\ pc = "cleanup" /\ pc' = "cleanup"
      PROVE  KbenchInv'
  <2>1. Unfinished' = Unfinished
    BY <1>3 DEF Unfinished
  <2>2. QED
    BY <1>3, <2>1
<1>4. CASE \/ AllDone \/ CreateReturns \/ DeleteReturns
           \/ CreateInitialNamespace \/ CreateConfigMap \/ ResourcesCreated
           \/ Report \/ DeleteInitialNamespace \/ ResourcesDeleted
           \/ CollectVirtual
  BY <1>3, <1>4 DEF AllDone, CreateReturns, DeleteReturns,
       CreateInitialNamespace, CreateConfigMap, ResourcesCreated, Report,
       DeleteInitialNamespace, ResourcesDeleted, CollectVirtual, Main, world,
       AfterCreate, AfterTests, AfterCleanup, Returns
<1>5. CASE Prepare
  <2>1. /\ pc = "prepare" /\ pc' = "spawn" /\ k' = 1
        /\ UNCHANGED <<run, kpc, wg, commands, current>>
    BY <1>5 DEF Prepare, Main, world, PhaseInv
  <2>2. Unfinished' = Unfinished
    BY <2>1 DEF Unfinished
  <2>3. 1..(k' - 1) = {}
    BY <2>1
  <2>4. QED
    BY <2>1, <2>2, <2>3
<1>6. CASE SpawnKbench
  <2> DEFINE here == Cluster
  <2>1. /\ pc = "spawn" /\ pc' = "spawn" /\ k <= Len(current.clusters)
        /\ current \in Configs
        /\ wg' = wg + 1 /\ k' = k + 1 /\ kpc' = [kpc EXCEPT ![here] = "start"]
        /\ UNCHANGED <<run, current, commands>>
    BY <1>0, <1>6 DEF SpawnKbench, Main, world, Last
  <2>2. here = current.clusters[k] /\ here \in Clusters
    BY <1>0, <2>1, ConfigFacts DEF Cluster
  <2>3. \A n \in 1..(k - 1) : here # current.clusters[n]
    BY <1>0, <2>1, <2>2, ConfigFacts
  <2>4. kpc[here] = "idle"
    BY <2>1, <2>2, <2>3
  <2> HIDE DEF here
  <2>5. here \notin Unfinished /\ Unfinished' = Unfinished \union {here}
    BY <1>0, <2>1, <2>2, <2>4 DEF Unfinished
  <2>6. IsFiniteSet(Unfinished') /\ wg' = Cardinality(Unfinished')
    BY <2>1, <2>5, FS_AddElement
  <2>7. \A c \in Clusters :
          kpc'[c] # "idle" <=> \E n \in 1..(k' - 1) : c = current'.clusters[n]
    <3>1. 1..(k' - 1) = 1..(k - 1) \union {k}
      BY <1>0, <2>1
    <3>2. QED
      BY <1>0, <2>1, <2>2, <3>1
  <2>8. \A x \in OwnKbench : kpc'[x.cluster] = "run"
    BY <1>0, <2>1, <2>4
  <2>9. QED
    BY <2>1, <2>6, <2>7, <2>8
<1>7. CASE AllSpawned
  <2>1. /\ pc = "spawn" /\ pc' = "wait" /\ k = Len(current.clusters) + 1
        /\ current \in Configs
        /\ UNCHANGED <<run, kpc, wg, commands, current>>
    BY <1>0, <1>7, ConfigFacts DEF AllSpawned, Main, world, PhaseInv, Last
  <2>2. Unfinished' = Unfinished
    BY <2>1 DEF Unfinished
  <2>3. 1..(k - 1) = 1..Len(current.clusters)
    BY <2>1, ConfigFacts
  <2>4. ClustersOf(current) = {current.clusters[n] : n \in 1..(k - 1)}
    BY <2>1, <2>3, ClustersOfConfig
  <2>5. \A c \in Clusters : kpc[c] # "idle" <=> c \in ClustersOf(current)
    BY <2>1, <2>4
  <2>6. QED
    BY <2>1, <2>2, <2>5
<1>8. CASE WaitReturns \/ CollectHost
  <2>1. /\ pc \in {"wait", "collectHost"}
        /\ pc = "wait" => wg = 0 /\ pc' = "collectHost"
        /\ pc = "collectHost" => pc' \in {"collectVirtual", "report"}
        /\ UNCHANGED <<run, kpc, wg, commands, current>>
    BY <1>8 DEF WaitReturns, CollectHost, Main, world
  <2>2. Unfinished' = Unfinished
    BY <2>1 DEF Unfinished
  <2>3. Unfinished = {}
    BY <2>1, FS_EmptySet
  <2>4. QED
    BY <2>1, <2>2, <2>3
<1>9. CASE Die /\ commands' \subseteq commands
  BY <1>9 DEF Die
<1>10. CASE Restart
  <2>1. /\ run' = run + 1 /\ pc' = "next" /\ wg' = 0
        /\ kpc' = NothingMeasured /\ commands' = commands
    BY <1>10 DEF Restart, world
  <2>2. Unfinished' = {}
    BY <2>1 DEF Unfinished, NothingMeasured
  <2>3. IsFiniteSet(Unfinished') /\ Cardinality(Unfinished') = 0
    BY <2>2, FS_EmptySet
  <2>4. OwnKbench' = {}
    BY <1>0, <2>1
  <2>5. QED
    BY <2>1, <2>2, <2>3, <2>4
<1>11. ASSUME NEW c \in Clusters, ManagerCommand(c)
       PROVE  KbenchInv'
  <2>1. /\ UNCHANGED <<run, pc, kpc, wg, k, current>>
        /\ \A x \in commands' : x \in commands \/ x.cmd # "kbench"
    BY <1>11 DEF ManagerCommand, process
  <2>2. Unfinished' = Unfinished
    BY <2>1 DEF Unfinished
  <2>3. QED
    BY <2>1, <2>2
<1>12. ASSUME NEW c \in Clusters, StartKbench(c)
       PROVE  KbenchInv'
  <2>1. /\ UNCHANGED <<run, pc, wg, k, current>> /\ pc \notin Ended
        /\ kpc[c] = "start" /\ kpc' = [kpc EXCEPT ![c] = "run"]
        /\ \A x \in commands' : x \in commands \/ x.cluster = c
    BY <1>12 DEF StartKbench, Goroutine
  <2>2. Unfinished' = Unfinished
    BY <1>0, <2>1 DEF Unfinished
  <2>3. \A d \in Clusters : kpc'[d] # "idle" <=> kpc[d] # "idle"
    BY <1>0, <2>1
  <2>4. \A x \in OwnKbench' : kpc'[x.cluster] = "run"
    BY <1>0, <2>1
  <2>5. c \in Unfinished
    BY <2>1 DEF Unfinished
  <2>6. QED
    BY <2>1, <2>2, <2>3, <2>4, <2>5
<1>13. ASSUME NEW c \in Clusters, KbenchDone(c)
       PROVE  KbenchInv'
  <2>1. /\ UNCHANGED <<run, pc, k, current, commands>> /\ pc \notin Ended
        /\ wg' = wg - 1
        /\ kpc[c] = "close" /\ kpc' = [kpc EXCEPT ![c] = "done"]
    BY <1>13 DEF KbenchDone, Goroutine
  <2>2. Unfinished' = Unfinished \ {c} /\ c \in Unfinished
    BY <1>0, <2>1 DEF Unfinished
  <2>3. IsFiniteSet(Unfinished') /\ wg' = Cardinality(Unfinished')
    BY <2>1, <2>2, FS_RemoveElement
  <2>4. \A d \in Clusters : kpc'[d] # "idle" <=> kpc[d] # "idle"
    BY <1>0, <2>1
  <2>5. \A x \in OwnKbench' : kpc'[x.cluster] = "run"
    BY <1>0, <2>1
  <2>6. QED
    BY <2>1, <2>2, <2>3, <2>4, <2>5
<1>14. ASSUME NEW x \in commands, CommandSucceeds(x)
       PROVE  KbenchInv'
  <2>1. /\ UNCHANGED <<run, pc, wg, k, current>>
        /\ commands' = commands \ {x}
        /\ kpc' = IF Own(x) /\ x.cmd = "kbench"
                  THEN [kpc EXCEPT ![x.cluster] = "close"] ELSE kpc
    BY <1>14 DEF CommandSucceeds
  <2>2. CASE ~(Own(x) /\ x.cmd = "kbench")
    <3>1. Unfinished' = Unfinished
      BY <2>1, <2>2 DEF Unfinished
    <3>2. QED
      BY <2>1, <2>2, <3>1
  <2>3. CASE Own(x) /\ x.cmd = "kbench"
    <3>1. kpc[x.cluster] = "run" /\ x.cluster \in Clusters
      BY <1>0, <2>3
    <3>2. kpc' = [kpc EXCEPT ![x.cluster] = "close"]
      BY <2>1, <2>3
    <3>3. Unfinished' = Unfinished /\ x.cluster \in Unfinished
      BY <1>0, <3>1, <3>2 DEF Unfinished
    <3>4. \A d \in Clusters : kpc'[d] # "idle" <=> kpc[d] # "idle"
      BY <1>0, <3>1, <3>2
    <3>5. \A y \in OwnKbench' : kpc'[y.cluster] = "run"
      <4> SUFFICES ASSUME NEW y \in OwnKbench' PROVE kpc'[y.cluster] = "run"
        OBVIOUS
      <4>1. y \in OwnKbench /\ y # x
        BY <2>1
      <4>2. y.cluster # x.cluster
        BY <2>3, <4>1 DEF TypeOK
      <4>3. QED
        BY <1>0, <3>2, <4>1, <4>2
    <3>6. QED
      BY <2>1, <3>3, <3>4, <3>5
  <2>4. QED
    BY <2>2, <2>3
<1>15. ASSUME NEW x \in commands, CommandFails(x), ~Die
       PROVE  KbenchInv'
  <2>1. /\ UNCHANGED <<run, pc, kpc, wg, k, current>>
        /\ commands' \subseteq commands
    BY <1>15 DEF CommandFails, process
  <2>2. Unfinished' = Unfinished
    BY <2>1 DEF Unfinished
  <2>3. QED
    BY <2>1, <2>2
<1>16. Refused \/ Fatal \/ (\E x \in commands : CommandFails(x) /\ Die)
         => Die /\ commands' \subseteq commands
  BY DEF Refused, Fatal, CommandFails
<1>17. QED
  BY <1>1, <1>2, <1>4, <1>5, <1>6, <1>7, <1>8, <1>9, <1>10, <1>11, <1>12,
     <1>13, <1>14, <1>15, <1>16
     DEF Next, Vbench, Goroutines, Command, Terminated

LEMMA InitCollected == Init => CollectedInv
BY DEF Init, CollectedInv, Ended

(* Each context is collected when all goroutines are done, and the report  *)
(* keeps what was collected.                                               *)
LEMMA StepCollected ==
  ASSUME TypeOK, PhaseInv, KbenchInv, CollectedInv, [Next]_vars
  PROVE  CollectedInv'
<1> USE DEF CollectedInv, Ended
<1>0. /\ pc \notin {"next"} \union Ended => current \in Configs
      /\ pc \in {"create", "delete", "collectVirtual"} =>
           current.clusterType = "virtual"
      /\ collected \in [{"host", "virtual"} -> (SUBSET Clusters) \union {None}]
      /\ kpc \in [Clusters -> {"idle", "start", "run", "close", "done"}]
  BY DEF PhaseInv, Active, TypeOK
<1>1. ASSUME UNCHANGED <<current, collected, reports>>,
             \/ pc' = pc
             \/ pc' \in Ended \union {"next", "cleanup", "delete"}
             \/ /\ pc' \in {"resources", "prepare", "spawn", "wait",
                            "collectHost"}
                /\ pc \in {"create", "resources", "prepare", "spawn", "wait"}
      PROVE  CollectedInv'
  BY <1>1
<1>2. CASE UNCHANGED vars
  BY <1>1, <1>2 DEF vars, process, world
<1>3. CASE PickConfig
  BY <1>3 DEF PickConfig, Main, world
<1>4. CASE \/ CreateReturns \/ CreateInitialNamespace \/ CreateConfigMap
           \/ ResourcesCreated \/ Prepare \/ SpawnKbench \/ AllSpawned
           \/ WaitReturns \/ DeleteInitialNamespace \/ AllDone
  BY <1>1, <1>4 DEF CreateReturns, CreateInitialNamespace, CreateConfigMap,
       ResourcesCreated, Prepare, SpawnKbench, AllSpawned, WaitReturns,
       DeleteInitialNamespace, AllDone, Main, world, AfterCreate
<1>5. CASE DeleteReturns \/ ResourcesDeleted
  BY <1>5 DEF DeleteReturns, ResourcesDeleted, Main, world, AfterCleanup
<1>6. CASE CollectHost \/ CollectVirtual
  <2>1. /\ current \in Configs
        /\ \A c \in Clusters : kpc[c] # "idle" <=> c \in ClustersOf(current)
        /\ Unfinished = {}
    BY <1>0, <1>6 DEF CollectHost, CollectVirtual, Main, KbenchInv
  <2>2. ClustersOf(current) \subseteq Clusters
    BY <2>1, ClustersOfConfig
  <2>3. Measured = ClustersOf(current)
    BY <1>0, <2>1, <2>2 DEF Measured, Unfinished
  <2>4. CASE CollectHost
    <3>1. /\ collected'["host"] = ClustersOf(current)
          /\ collected'["virtual"] = collected["virtual"]
      BY <1>0, <2>3, <2>4 DEF CollectHost
    <3>2. collected["virtual"] = None
      BY <2>4 DEF CollectHost, Main, NothingCollected
    <3>3. /\ UNCHANGED <<current, reports>>
          /\ pc' = IF current.clusterType = "virtual"
                   THEN "collectVirtual" ELSE "report"
      BY <2>4 DEF CollectHost, Main, world
    <3>4. QED
      BY <3>1, <3>2, <3>3
  <2>5. CASE CollectVirtual
    <3>1. /\ collected'["virtual"] = ClustersOf(current)
          /\ collected'["host"] = collected["host"]
      BY <1>0, <2>3, <2>5 DEF CollectVirtual
    <3>2. /\ UNCHANGED <<current, reports>> /\ pc = "collectVirtual"
          /\ pc' = "report"
      BY <2>5 DEF CollectVirtual, Main, world
    <3>3. QED
      BY <1>0, <3>1, <3>2
  <2>6. QED
    BY <1>6, <2>4, <2>5
<1>7. CASE Report
  <2> DEFINE new == [run |-> run, config |-> current, collected |-> collected]
  <2>1. /\ pc = "report" /\ reports' \subseteq reports \union {new}
        /\ pc' \in {"cleanup", "delete", "next"}
    BY <1>7 DEF Report, Main, AfterTests, AfterCleanup
  <2>2. /\ new.collected["host"] = ClustersOf(new.config)
        /\ new.collected["virtual"] =
             IF new.config.clusterType = "virtual"
             THEN ClustersOf(new.config) ELSE None
    BY <2>1
  <2>3. QED
    BY <2>1, <2>2
<1>8. CASE Die /\ commands' \subseteq commands
  BY <1>1, <1>8 DEF Die
<1>9. CASE Restart
  BY <1>9 DEF Restart, world
<1>10. ASSUME NEW c \in Clusters,
              ManagerCommand(c) \/ StartKbench(c) \/ KbenchDone(c)
       PROVE  CollectedInv'
  BY <1>1, <1>10 DEF ManagerCommand, StartKbench, KbenchDone, Goroutine,
       process
<1>11. ASSUME NEW x \in commands, CommandSucceeds(x)
       PROVE  CollectedInv'
  BY <1>1, <1>11 DEF CommandSucceeds
<1>12. ASSUME NEW x \in commands, CommandFails(x), ~Die
       PROVE  CollectedInv'
  BY <1>1, <1>12 DEF CommandFails, process
<1>13. Refused \/ Fatal \/ (\E x \in commands : CommandFails(x) /\ Die)
         => Die /\ commands' \subseteq commands
  BY DEF Refused, Fatal, CommandFails
<1>14. QED
  BY <1>2, <1>3, <1>4, <1>5, <1>6, <1>7, <1>8, <1>9, <1>10, <1>11, <1>12,
     <1>13
     DEF Next, Vbench, Goroutines, Command, Terminated

LEMMA InitHost == Init => HostInv
BY DEF Init, HostInv, HostLeftoverStays

(* A namespace "initial" that was there when vbench started blocks every   *)
(* host configuration that wants one: nothing but the configuration itself *)
(* would remove it, and that comes too late.                               *)
LEMMA StepHost ==
  ASSUME TypeOK, PhaseInv, HostInv, [Next]_vars
  PROVE  HostInv'
<1> USE DEF HostInv, HostLeftoverStays, Ended, Active
<1>0. /\ pc \notin {"next"} \union Ended => current \in Configs
      /\ pc \in {"create", "delete", "collectVirtual"} =>
           current.clusterType = "virtual"
      /\ run \in Nat /\ initial \in [Clusters -> Nat \union {None}]
      /\ \A r \in reports : r.run \in Nat /\ r.run <= run
      /\ \A x \in commands : x.cmd # "kbench" => x.cluster \in Virtual
      /\ Host \in Clusters
  BY DEF PhaseInv, TypeOK, Clusters
<1>1. ASSUME UNCHANGED <<run, current, stale, reports>>,
             Host \in stale => initial'[Host] # None,
             \/ pc' = pc /\ m' = m /\ k' = k
             \/ pc' \in Ended \union {"next"}
             \/ ~(Host \in stale /\ current.clusterType = "host"
                  /\ current.configMaps # 0)
      PROVE  HostInv'
  BY <1>1
<1>2. CASE UNCHANGED vars
  BY <1>1, <1>2 DEF vars, process, world, history
<1>3. CASE PickConfig
  BY <1>3 DEF PickConfig, Main, world
<1>4. CASE \/ CreateReturns \/ ResourcesCreated \/ Prepare \/ SpawnKbench
           \/ AllSpawned \/ WaitReturns \/ CollectHost \/ CollectVirtual
           \/ AllDone
  <2>1. ResourcesCreated => /\ current \in Configs
                            /\ k > Len(current.clusters)
    BY <1>0 DEF ResourcesCreated, Main, Last
  <2>2. ResourcesCreated => k # 1
    BY <2>1, ConfigFacts
  <2>3. QED
    BY <1>0, <1>1, <1>4, <2>2 DEF CreateReturns, ResourcesCreated, Prepare,
       SpawnKbench, AllSpawned, WaitReturns, CollectHost, CollectVirtual,
       AllDone, Main, world
<1>5. CASE DeleteReturns \/ ResourcesDeleted
  BY <1>0, <1>5 DEF DeleteReturns, ResourcesDeleted, Main, world, Returns,
     AfterCleanup
<1>6. CASE CreateInitialNamespace \/ CreateConfigMap \/ DeleteInitialNamespace
  <2> DEFINE here == Cluster
  <2>1. /\ current \in Configs /\ k >= 1 /\ k <= Len(current.clusters)
        /\ UNCHANGED <<run, current, stale, reports>>
        /\ \E v : initial' = [initial EXCEPT ![here] = v]
    BY <1>0, <1>6 DEF CreateInitialNamespace, CreateConfigMap,
         DeleteInitialNamespace, Main, PhaseInv, Last
  <2>2. k \in 1..Len(current.clusters)
    BY <2>1, ConfigFacts DEF TypeOK
  <2>3. /\ current.clusterType = "host" => here = Host
        /\ current.clusterType = "virtual" => here \in Virtual
        /\ current.clusterType \in {"host", "virtual"}
    BY <2>1, <2>2, ConfigFacts DEF Cluster
  <2> HIDE DEF here
  <2>4. CASE current.clusterType = "virtual"
    <3>1. here # Host
      BY <2>3, <2>4, HostAssumption
    <3>2. initial'[Host] = initial[Host]
      BY <1>0, <2>1, <3>1
    <3>3. QED
      BY <1>1, <2>1, <2>4, <3>2
  <2>5. CASE current.clusterType = "host"
    <3>1. ~(Host \in stale /\ current.configMaps # 0)
      <4> SUFFICES ASSUME Host \in stale, current.configMaps # 0
                   PROVE  FALSE
        OBVIOUS
      <4>1. pc = "resources" /\ m = 0 /\ initial[here] # None
        BY <1>6, <2>3, <2>5 DEF CreateInitialNamespace, CreateConfigMap,
             DeleteInitialNamespace, Main
      <4>2. QED
        BY <1>6, <4>1 DEF CreateInitialNamespace, CreateConfigMap,
             DeleteInitialNamespace, Main, here
    <3>2. current.configMaps # 0
      BY <1>6 DEF CreateInitialNamespace, CreateConfigMap,
           DeleteInitialNamespace, Main, PhaseInv
    <3>3. QED
      BY <2>1, <3>1, <3>2
  <2>6. QED
    BY <2>3, <2>4, <2>5
<1>7. CASE Report
  <2> DEFINE new == [run |-> run, config |-> current, collected |-> collected]
  <2>1. /\ pc = "report" /\ reports' \subseteq reports \union {new}
        /\ UNCHANGED <<run, stale, initial>>
        /\ pc' \in {"cleanup", "delete", "next"}
        /\ pc' # "next" => current' = current
    BY <1>7 DEF Report, Main, Returns, AfterTests, AfterCleanup
  <2>2. ~(Host \in stale /\ current.clusterType = "host"
          /\ current.configMaps # 0)
    BY <2>1
  <2>3. QED
    BY <2>1, <2>2
<1>8. CASE Die /\ commands' \subseteq commands
  BY <1>1, <1>8 DEF Die
<1>9. CASE Restart
  <2>1. /\ run' = run + 1 /\ pc' = "next" /\ reports' = reports
        /\ initial' = initial
        /\ stale' = {c \in Clusters : initial[c] # None}
    BY <1>9 DEF Restart, world
  <2>2. \A r \in reports' : r.run # run'
    BY <1>0, <2>1
  <2>3. QED
    BY <2>1, <2>2
<1>10. ASSUME NEW c \in Clusters,
              ManagerCommand(c) \/ StartKbench(c) \/ KbenchDone(c)
       PROVE  HostInv'
  BY <1>1, <1>10 DEF ManagerCommand, StartKbench, KbenchDone, Goroutine,
       process, history
<1>11. ASSUME NEW x \in commands, CommandSucceeds(x)
       PROVE  HostInv'
  <2>1. UNCHANGED <<run, pc, current, stale, reports, m, k>>
    BY <1>11 DEF CommandSucceeds
  <2>2. \/ initial' = initial
        \/ x.cmd = "delete" /\ initial' = [initial EXCEPT ![x.cluster] = None]
        \/ x.cmd \notin {"create", "delete", "kbench"}
    BY <1>11 DEF CommandSucceeds, Effect
  <2>3. x.cmd \in {"create", "delete", "kbench"}
    BY DEF TypeOK
  <2>4. x.cmd = "delete" => x.cluster # Host
    BY <1>0, HostAssumption
  <2>5. initial'[Host] = initial[Host]
    BY <1>0, <2>2, <2>3, <2>4
  <2>6. QED
    BY <1>1, <2>1, <2>5
<1>12. ASSUME NEW x \in commands, CommandFails(x), ~Die
       PROVE  HostInv'
  BY <1>1, <1>12 DEF CommandFails, process, history
<1>13. Refused \/ Fatal \/ (\E x \in commands : CommandFails(x) /\ Die)
         => Die /\ commands' \subseteq commands
  BY DEF Refused, Fatal, CommandFails
<1>14. QED
  BY <1>2, <1>3, <1>4, <1>5, <1>6, <1>7, <1>8, <1>9, <1>10, <1>11, <1>12,
     <1>13
     DEF Next, Vbench, Goroutines, Command, Terminated

LEMMA InitDir == Init => DirInv
BY DEF Init, DirInv

(* A report lies in a directory, and a free name has none.                 *)
LEMMA StepDir ==
  ASSUME TypeOK, PhaseInv, DirInv, [Next]_vars
  PROVE  DirInv'
<1> USE DEF DirInv, Ended
<1>0. /\ run \in Nat /\ run # 0
      /\ \A r \in reports : r.run \in Nat /\ r.run # 0 /\ r.run <= run
  BY DEF TypeOK, PhaseInv
<1>1. ASSUME UNCHANGED <<run, dir, dirs, astray, reports>>,
             \/ pc' \notin {"spawn", "wait", "collectHost",
                            "collectVirtual", "report"}
             \/ pc \in {"spawn", "wait", "collectHost", "collectVirtual",
                        "report"}
      PROVE  DirInv'
  BY <1>1
<1>2. CASE UNCHANGED vars
  BY <1>1, <1>2 DEF vars, process, world, history
<1>3. CASE \/ AllDone \/ CreateReturns \/ DeleteReturns
           \/ CreateInitialNamespace \/ CreateConfigMap \/ ResourcesCreated
           \/ SpawnKbench \/ AllSpawned \/ WaitReturns \/ CollectHost
           \/ CollectVirtual \/ DeleteInitialNamespace \/ ResourcesDeleted
  BY <1>1, <1>3 DEF AllDone, CreateReturns, DeleteReturns,
       CreateInitialNamespace, CreateConfigMap, ResourcesCreated, SpawnKbench,
       AllSpawned, WaitReturns, CollectHost, CollectVirtual,
       DeleteInitialNamespace, ResourcesDeleted, Main, world, AfterCreate,
       AfterCleanup
<1>4. CASE PickConfig
  BY <1>1, <1>4 DEF PickConfig, Main, world
<1>5. CASE Prepare
  BY <1>5 DEF Prepare, Main
<1>6. CASE Report
  <2> DEFINE new == [run |-> run, config |-> current, collected |-> collected]
  <2>1. /\ pc = "report" /\ reports' \subseteq reports \union {new}
        /\ UNCHANGED <<run, dir, dirs, astray>>
        /\ pc' \in {"cleanup", "delete", "next"}
    BY <1>6 DEF Report, Main, AfterTests, AfterCleanup
  <2>2. new.run = run
    OBVIOUS
  <2>3. QED
    BY <2>1, <2>2
<1>7. CASE Die /\ commands' \subseteq commands
  BY <1>1, <1>7 DEF Die
<1>8. CASE Restart
  <2>1. run' = run + 1 /\ pc' = "next" /\ UNCHANGED <<dirs, reports>>
    BY <1>8 DEF Restart, world
  <2>2. ASSUME NEW r \in reports
        PROVE  /\ dir'[r.run] \in dirs
               /\ dir'[r.run] = dir'[run + 1] => run + 1 \in astray'
    BY <1>0, <1>8, RestartNames
  <2>3. QED
    BY <2>1, <2>2
<1>9. ASSUME NEW c \in Clusters,
             ManagerCommand(c) \/ StartKbench(c) \/ KbenchDone(c)
      PROVE  DirInv'
  BY <1>1, <1>9 DEF ManagerCommand, StartKbench, KbenchDone, Goroutine,
       process, history
<1>10. ASSUME NEW x \in commands, CommandSucceeds(x)
       PROVE  DirInv'
  BY <1>1, <1>10 DEF CommandSucceeds
<1>11. ASSUME NEW x \in commands, CommandFails(x), ~Die
       PROVE  DirInv'
  BY <1>1, <1>11 DEF CommandFails, process, history
<1>12. Refused \/ Fatal \/ (\E x \in commands : CommandFails(x) /\ Die)
         => Die /\ commands' \subseteq commands
  BY DEF Refused, Fatal, CommandFails
<1>13. QED
  BY <1>2, <1>3, <1>4, <1>5, <1>6, <1>7, <1>8, <1>9, <1>10, <1>11, <1>12
     DEF Next, Vbench, Goroutines, Command, Terminated

LEMMA InitReports == Init => ReportsInv
BY DEF Init, ReportsInv, ReportsOfCompleted

(* A configuration goes through only after its report, and what replaces   *)
(* the report has the same name, goes through or dies in its turn, and     *)
(* comes from the same run, or from one that was given a taken name.       *)
LEMMA StepReports ==
  ASSUME TypeOK, PhaseInv, DirInv, ReportsInv, [Next]_vars
  PROVE  ReportsInv'
<1> USE DEF ReportsInv, ReportsOfCompleted, Ended
<1>0. /\ pc \notin {"next"} \union Ended => current \in Configs
      /\ pc \in {"next", "ended"} => current = None
      /\ pc = "dead" /\ current # None => <<run, current>> \in crashed
      /\ \A r \in reports : r.config \in Configs
      /\ None \notin Configs /\ run \in Nat /\ batch \subseteq Configs
      /\ \A done \in completed : done[1] \in Nat /\ done[1] # 0
      /\ \A r \in reports : r.run \in Nat /\ r.run # 0 /\ r.run <= run
      /\ \A r \in reports :
           dir[r.run] = dir[run] => r.run = run \/ run \in astray
  BY NoneAssumption, BatchesAssumption DEF PhaseInv, Active, TypeOK, DirInv
<1>1. ASSUME UNCHANGED <<run, dir, batch, todo, current, completed>>,
             UNCHANGED <<astray, reports>>,
             crashed \subseteq crashed',
             pc' = pc \/ pc' \notin {"cleanup", "delete", "ended"},
             pc' = "dead" \/ pc # "dead"
      PROVE  ReportsInv'
  BY <1>1
<1>2. CASE UNCHANGED vars
  BY <1>2 DEF vars, process, world, history
<1>3. CASE PickConfig
  <2>1. /\ pc = "next" /\ current = None /\ pc' \notin {"cleanup", "delete"}
        /\ pc' # "ended" /\ todo = todo' \union {current'}
        /\ UNCHANGED <<run, dir, batch, completed, crashed, astray, reports>>
    BY <1>0, <1>3 DEF PickConfig, Main, world
  <2>2. QED
    BY <1>0, <2>1
<1>4. CASE AllDone
  <2>1. /\ pc = "next" /\ current = None /\ pc' = "ended" /\ todo = {}
        /\ UNCHANGED <<run, dir, batch, todo, current, completed, crashed>>
        /\ UNCHANGED <<astray, reports>>
    BY <1>0, <1>4 DEF AllDone, Main, world
  <2>2. \A x \in batch : <<run, x>> \in completed
    BY <1>0, <2>1
  <2>3. QED
    BY <2>1, <2>2
<1>5. CASE \/ CreateReturns \/ CreateInitialNamespace \/ CreateConfigMap
           \/ ResourcesCreated \/ Prepare \/ SpawnKbench \/ AllSpawned
           \/ WaitReturns \/ CollectHost \/ CollectVirtual
           \/ DeleteInitialNamespace
  BY <1>1, <1>5 DEF CreateReturns, CreateInitialNamespace, CreateConfigMap,
       ResourcesCreated, Prepare, SpawnKbench, AllSpawned, WaitReturns,
       CollectHost, CollectVirtual, DeleteInitialNamespace, Main, world,
       AfterCreate
<1>6. ASSUME UNCHANGED <<run, dir, batch, todo, crashed, astray>>,
             current \in Configs, pc \notin {"next"} \union Ended,
             pc' \in {"next", "cleanup", "delete"}, Returns(pc'),
             \E r \in reports' : r.run = run /\ r.config = current,
             \A r \in reports :
               \/ r \in reports'
               \/ dir[r.run] = dir[run] /\ r.config.name = current.name
      PROVE  ReportsInv'
  <2>1. PICK new \in reports' : new.run = run /\ new.config = current
    BY <1>6
  <2>2. /\ completed \subseteq completed'
        /\ completed' \subseteq completed \union {<<run, current>>}
        /\ \/ pc' # "next" /\ current' = current
           \/ /\ pc' = "next" /\ current' = None
              /\ <<run, current>> \in completed'
    BY <1>6 DEF Returns
  <2>3. ASSUME NEW done \in completed'
        PROVE  \E r \in reports' :
                 /\ dir'[r.run] = dir'[done[1]]
                 /\ r.config.name = done[2].name
                 /\ r.run = done[1] \/ (r.run > done[1] /\ r.run \in astray')
                 /\ <<r.run, r.config>> # done =>
                      \/ <<r.run, r.config>> \in completed' \union crashed'
                      \/ r.run = run' /\ r.config = current'
    <3>1. CASE done = <<run, current>>
      BY <1>6, <2>1, <3>1
    <3>2. CASE done \in completed
      <4>1. PICK r \in reports :
              /\ dir[r.run] = dir[done[1]] /\ r.config.name = done[2].name
              /\ r.run = done[1] \/ (r.run > done[1] /\ r.run \in astray)
              /\ <<r.run, r.config>> # done =>
                   \/ <<r.run, r.config>> \in completed \union crashed
                   \/ r.run = run /\ r.config = current
        BY <3>2
      <4>2. CASE r \in reports'
        BY <1>6, <2>2, <4>1, <4>2
      <4>3. CASE dir[r.run] = dir[run] /\ r.config.name = current.name
        <5>1. run = done[1] \/ (run > done[1] /\ run \in astray)
          BY <1>0, <3>2, <4>1, <4>3
        <5>2. \/ <<run, current>> \in completed'
              \/ current' = current
          BY <2>2
        <5>3. QED
          BY <1>6, <2>1, <4>1, <4>3, <5>1, <5>2
      <4>4. QED
        BY <1>6, <4>2, <4>3
    <3>3. QED
      BY <2>2, <2>3, <3>1, <3>2
  <2>4. \A done \in completed' : done[1] <= run'
    BY <1>0, <1>6, <2>2
  <2>5. \A x \in batch' :
          x \in todo' \/ x = current' \/ <<run', x>> \in completed'
    BY <1>6, <2>2
  <2>6. pc' \in {"cleanup", "delete"} =>
          \E r \in reports' : r.run = run' /\ r.config = current'
    BY <1>6, <2>2
  <2>7. QED
    BY <1>6, <2>3, <2>4, <2>5, <2>6
<1>7. CASE Report
  <2> DEFINE new == [run |-> run, config |-> current, collected |-> collected]
  <2>1. /\ new \in reports' /\ new.run = run /\ new.config = current
        /\ \A r \in reports :
             \/ r \in reports'
             \/ dir[r.run] = dir[run] /\ r.config.name = current.name
    BY <1>7 DEF Report
  <2>2. /\ UNCHANGED <<run, dir, batch, todo, crashed, astray>>
        /\ current \in Configs
        /\ pc = "report" /\ pc' \in {"next", "cleanup", "delete"}
        /\ Returns(pc')
    BY <1>0, <1>7 DEF Report, Main, AfterTests, AfterCleanup
  <2> HIDE DEF new
  <2>3. QED
    BY <1>6, <2>1, <2>2
<1>8. CASE DeleteReturns \/ ResourcesDeleted
  <2>1. /\ UNCHANGED <<run, dir, batch, todo, crashed, astray, reports>>
        /\ current \in Configs /\ pc \in {"cleanup", "delete"}
        /\ pc' \in {"next", "delete"} /\ Returns(pc')
    BY <1>0, <1>8 DEF DeleteReturns, ResourcesDeleted, Main, world,
         AfterCleanup
  <2>2. QED
    BY <1>6, <2>1
<1>9. CASE Die /\ commands' \subseteq commands
  BY <1>1, <1>9 DEF Die
<1>10. CASE Restart
  <2>1. /\ pc \in Ended /\ run' = run + 1 /\ pc' = "next" /\ todo' = batch'
        /\ UNCHANGED <<completed, crashed, reports>>
    BY <1>10 DEF Restart, world
  <2>2. /\ astray \subseteq astray'
        /\ \A n \in Nat : n <= run /\ n # 0 => dir'[n] = dir[n]
    BY <1>10, RestartNames
  <2>3. \A done \in completed' : done[1] <= run'
    BY <1>0, <2>1
  <2>4. \A r \in reports :
          r.run = run /\ r.config = current => <<r.run, r.config>> \in crashed
    BY <1>0, <2>1
  <2>5. ASSUME NEW done \in completed
        PROVE  \E r \in reports :
                 /\ dir'[r.run] = dir'[done[1]]
                 /\ r.config.name = done[2].name
                 /\ r.run = done[1] \/ (r.run > done[1] /\ r.run \in astray')
                 /\ <<r.run, r.config>> # done =>
                      <<r.run, r.config>> \in completed \union crashed
    BY <1>0, <2>2, <2>4
  <2>6. QED
    BY <2>1, <2>3, <2>5
<1>11. ASSUME NEW c \in Clusters,
              ManagerCommand(c) \/ StartKbench(c) \/ KbenchDone(c)
       PROVE  ReportsInv'
  BY <1>1, <1>11 DEF ManagerCommand, StartKbench, KbenchDone, Goroutine,
       process, history
<1>12. ASSUME NEW x \in commands, CommandSucceeds(x)
       PROVE  ReportsInv'
  BY <1>12 DEF CommandSucceeds
<1>13. ASSUME NEW x \in commands, CommandFails(x), ~Die
       PROVE  ReportsInv'
  BY <1>13 DEF CommandFails, process, history
<1>14. Refused \/ Fatal \/ (\E x \in commands : CommandFails(x) /\ Die)
         => Die /\ commands' \subseteq commands
  BY DEF Refused, Fatal, CommandFails
<1>15. QED
  BY <1>2, <1>3, <1>4, <1>5, <1>7, <1>8, <1>9, <1>10, <1>11, <1>12, <1>13,
     <1>14
     DEF Next, Vbench, Goroutines, Command, Terminated

LEMMA SuspectMember ==
  \A c : c \in Suspect <=> \E died \in crashed : c \in ClustersOf(died[2])
BY DEF Suspect

(* When no kbench of this process can be running any more.                 *)
LEMMA NoKbench ==
  ASSUME TypeOK, KbenchInv, pc \notin {"spawn", "wait"} \/ wg = 0
  PROVE  OwnKbench = {}
<1> SUFFICES ASSUME NEW x \in OwnKbench PROVE FALSE
  OBVIOUS
<1>1. kpc[x.cluster] = "run" /\ x.cluster \in Clusters /\ pc \notin Ended
  BY DEF KbenchInv, TypeOK, OwnKbench, Own
<1>2. x.cluster \in Unfinished
  BY <1>1 DEF Unfinished
<1>3. IsFiniteSet(Unfinished) /\ wg = Cardinality(Unfinished)
  BY <1>1 DEF KbenchInv
<1>4. wg # 0
  BY <1>2, <1>3, FS_EmptySet
<1>5. QED
  BY <1>1, <1>2, <1>4 DEF KbenchInv

LEMMA InitLeftover == Init => LeftoverInv
BY DEF Init, LeftoverInv, Suspect, Active, Made, Filled, Own, Ended

(* Whatever is left belongs to the current configuration or to one that a  *)
(* process has died on, and so does every command.                         *)
LEMMA StepLeftover ==
  ASSUME TypeOK, PhaseInv, KbenchInv, LeftoverInv, [Next]_vars
  PROVE  LeftoverInv'
<1> USE DEF Ended, Own, Active
<1> DEFINE Left == {c \in Clusters : initial[c] # None}
           Died(x) == \E died \in crashed :
                        died[1] = x.run /\ x.cluster \in ClustersOf(died[2])
<1>0. /\ run \in Nat /\ k \in Nat /\ k >= 1 /\ m \in Nat
      /\ initial \in [Clusters -> Nat \union {None}]
      /\ Active => current \in Configs
      /\ exists \subseteq Virtual
      /\ \A x \in commands : x.run \in Nat /\ x.run <= run
      /\ \A died \in crashed : died[1] \in Nat
  BY DEF PhaseInv, TypeOK
<1>a. /\ exists \subseteq Suspect \union Made
      /\ Left \subseteq Suspect \union Filled
      /\ \A x \in commands : ~Own(x) => Died(x)
      /\ \A x \in commands : Own(x) =>
           /\ Active /\ x.cluster \in ClustersOf(current)
           /\ x.cmd # "kbench" => x.cmd = pc /\ x.cluster \notin served
      /\ \A died \in crashed : died[1] < run \/ (died[1] = run /\ pc = "dead")
      /\ Active /\ pc \notin {"create", "delete"} => served = {}
      /\ disturbed \subseteq Suspect
  BY DEF LeftoverInv
<1>b. /\ Filled \subseteq ClustersOf(current)
      /\ Made \subseteq ClustersOf(current)
  BY <1>0, ClustersOfConfig DEF Filled, Made, Last
<1>c. \A x \in commands : x.cmd \in {"create", "delete", "kbench"}
  BY DEF TypeOK
<1>d. ASSUME pc \notin {"create", "delete"} \/ served = ClustersOf(current),
             pc \notin {"spawn", "wait"} \/ wg = 0
      PROVE  \A x \in commands : ~Own(x)
  <2>1. OwnKbench = {}
    BY <1>d, NoKbench
  <2>2. QED
    BY <1>a, <1>c, <1>d, <2>1 DEF OwnKbench
<1>1. ASSUME UNCHANGED <<run, crashed, disturbed, commands, exists>>,
             pc \notin Ended, \A x \in commands : ~Own(x),
             Made \intersect Virtual \subseteq Made',
             Left' \subseteq Suspect \union Filled',
             Active' /\ pc' \notin {"create", "delete"} => served' = {}
      PROVE  LeftoverInv'
  <2>1. Suspect' = Suspect
    BY <1>1 DEF Suspect
  <2>2. exists' \subseteq Suspect' \union Made'
    BY <1>0, <1>a, <1>1, <2>1
  <2>3. \A x \in commands' : ~Own(x)' /\ Died(x)'
    BY <1>a, <1>1
  <2>4. \A died \in crashed' : died[1] < run'
    BY <1>a, <1>1
  <2>5. QED
    BY <1>a, <1>1, <2>1, <2>2, <2>3, <2>4 DEF LeftoverInv
<1>2. CASE UNCHANGED vars
  <2>1. /\ UNCHANGED <<Suspect, Made, Filled, Left>>
        /\ UNCHANGED <<run, pc, commands, crashed, served, disturbed, exists>>
        /\ UNCHANGED current
    BY <1>2 DEF vars, process, world, history, Suspect, Made, Filled, Last,
         HasNamespace
  <2>2. QED
    BY <1>a, <2>1 DEF LeftoverInv
<1>3. CASE PickConfig
  <2>1. /\ pc = "next" /\ served' = {}
        /\ UNCHANGED <<run, crashed, disturbed, commands, exists, initial>>
    BY <1>3 DEF PickConfig, Main, world
  <2>2. Made = {} /\ Filled = {}
    BY <2>1 DEF Made, Filled
  <2>3. \A x \in commands : ~Own(x)
    BY <1>a, <2>1
  <2>4. QED
    BY <1>a, <1>1, <2>1, <2>2, <2>3
<1>4. CASE AllDone \/ DeleteReturns
  <2>1. /\ pc = "next" \/ (pc = "delete" /\ served = ClustersOf(current))
        /\ pc' \in {"next", "ended"}
        /\ UNCHANGED <<run, crashed, disturbed, commands, exists, initial>>
    BY <1>4 DEF AllDone, DeleteReturns, Main, world
  <2>2. Made = {} /\ Filled = {}
    BY <2>1 DEF Made, Filled, HasNamespace
  <2>3. \A x \in commands : ~Own(x)
    BY <1>d, <2>1
  <2>4. QED
    BY <1>a, <1>1, <2>1, <2>2, <2>3
<1>5. CASE \/ CreateReturns \/ ResourcesCreated \/ Prepare \/ WaitReturns
           \/ CollectHost \/ CollectVirtual
  <2>1. /\ Active /\ Active' /\ pc # "delete" /\ pc' # "delete"
        /\ UNCHANGED <<run, crashed, disturbed, commands, exists, initial>>
        /\ current' = current
        /\ pc # "create" => served' = served
        /\ pc = "create" => served = ClustersOf(current) /\ served' = {}
        /\ pc = "spawn" => FALSE
        /\ pc = "wait" => wg = 0
        /\ pc' \in {"cleanup", "create"} => FALSE
        /\ pc' = "resources" => pc = "create"
    BY <1>5 DEF CreateReturns, ResourcesCreated, Prepare, WaitReturns,
         CollectHost, CollectVirtual, Main, world, AfterCreate
  <2>2. Made' = Made
    BY <2>1 DEF Made
  <2>3. Filled \subseteq Filled'
    <3>1. \A n : HasNamespace(n) => HasNamespace(n)'
      BY <2>1 DEF HasNamespace
    <3>2. QED
      BY <2>1, <3>1 DEF Filled, Last
  <2>4. \A x \in commands : ~Own(x)
    BY <1>d, <2>1
  <2>5. QED
    BY <1>a, <1>1, <2>1, <2>2, <2>3, <2>4
<1>6. CASE SpawnKbench \/ AllSpawned
  <2>1. /\ pc = "spawn" /\ pc' \in {"spawn", "wait"}
        /\ UNCHANGED <<run, crashed, disturbed, commands, exists, initial>>
        /\ UNCHANGED <<current, served>>
    BY <1>6 DEF SpawnKbench, AllSpawned, Main, world
  <2>2. UNCHANGED <<Suspect, Made>>
    BY <2>1 DEF Suspect, Made
  <2>3. Filled' = Filled
    BY <2>1 DEF Filled, Last, HasNamespace
  <2>4. \A x \in commands : Own(x) => x.cmd = "kbench"
    BY <1>a, <1>c, <2>1
  <2>5. QED
    BY <1>a, <2>1, <2>2, <2>3, <2>4 DEF LeftoverInv
<1>7. CASE CreateInitialNamespace \/ CreateConfigMap \/ DeleteInitialNamespace
  <2> DEFINE here == Cluster
  <2>1. /\ pc \in {"resources", "cleanup"} /\ pc' = pc
        /\ UNCHANGED <<run, crashed, disturbed, commands, exists>>
        /\ UNCHANGED <<current, served>>
        /\ k <= Len(current.clusters) /\ current \in Configs
        /\ current.configMaps # 0
    BY <1>0, <1>7 DEF CreateInitialNamespace, CreateConfigMap,
         DeleteInitialNamespace, Main, Last, PhaseInv
  <2>2. k \in 1..Last /\ here = current.clusters[k] /\ here \in Clusters
    BY <1>0, <2>1, ConfigFacts DEF Last, Cluster
  <2>3. CreateInitialNamespace => /\ pc = "resources" /\ m' = 1 /\ k' = k
                                  /\ initial' = [initial EXCEPT ![here] = 0]
    BY DEF CreateInitialNamespace, Main
  <2>4. CreateConfigMap =>
          /\ pc = "resources" /\ initial[here] # None
          /\ (k' = k /\ m' = m + 1) \/ (k' = k + 1 /\ m' = 0)
          /\ initial' = [initial EXCEPT ![here] = initial[here] + 1]
    BY DEF CreateConfigMap, Main
  <2>5. DeleteInitialNamespace =>
          /\ pc = "cleanup" /\ k' = k + 1
          /\ initial' = [initial EXCEPT ![here] = None]
    BY DEF DeleteInitialNamespace, Main
  <2> HIDE DEF here
  <2>6. ASSUME NEW c \in Filled
        PROVE  c \in Filled' \/ (c = here /\ DeleteInitialNamespace)
    <3>1. PICK n \in 1..Last : HasNamespace(n) /\ c = current.clusters[n]
      BY DEF Filled
    <3>2. HasNamespace(n)' \/ (n = k /\ DeleteInitialNamespace)
      BY <1>0, <1>7, <2>1, <2>3, <2>4, <2>5, <3>1 DEF HasNamespace
    <3>3. QED
      BY <2>1, <2>2, <3>1, <3>2 DEF Filled, Last
  <2>7. ~DeleteInitialNamespace => here \in Filled'
    <3>1. PICK n \in 1..Last : n = k /\ here = current.clusters[n]
      BY <2>2
    <3>2. ~DeleteInitialNamespace => HasNamespace(n)'
      BY <1>0, <1>7, <2>1, <2>3, <2>4, <3>1 DEF HasNamespace
    <3>3. QED
      BY <2>1, <3>1, <3>2 DEF Filled, Last
  <2>8. /\ Left' \subseteq Left \union {here}
        /\ DeleteInitialNamespace => here \notin Left'
    BY <1>0, <1>7, <2>2, <2>3, <2>4, <2>5
  <2>9. Left' \subseteq Suspect \union Filled'
    BY <1>a, <2>6, <2>7, <2>8
  <2>10. Made' = Made
    BY <2>1 DEF Made
  <2>11. \A x \in commands : ~Own(x)
    BY <1>d, <2>1
  <2>12. QED
    BY <1>a, <1>1, <2>1, <2>9, <2>10, <2>11
<1>8. CASE Report \/ ResourcesDeleted
  <2>1. /\ pc \in {"report", "cleanup"}
        /\ pc' \in {"cleanup", "delete", "next"}
        /\ UNCHANGED <<run, crashed, disturbed, commands, exists, initial>>
        /\ served' = served /\ current \in Configs
        /\ pc' # "next" => current' = current
        /\ pc' = "next" => current.clusterType # "virtual"
        /\ Report /\ pc' # "cleanup" => current.configMaps = 0
        /\ Report => pc = "report" /\ k' = k
        /\ ResourcesDeleted =>
             pc = "cleanup" /\ k > Len(current.clusters) /\ pc' # "cleanup"
    BY <1>0, <1>8 DEF Report, ResourcesDeleted, Main, Returns, AfterTests,
         AfterCleanup, world, Last
  <2>2. served = {}
    BY <1>a, <2>1
  <2>3. Made \intersect Virtual \subseteq Made'
    <3>1. CASE pc' = "next"
      <4>1. \A n \in 1..Len(current.clusters) : current.clusters[n] = Host
        BY <2>1, <3>1, ConfigFacts
      <4>2. ClustersOf(current) \subseteq {Host}
        BY <2>1, <4>1, ClustersOfConfig
      <4>3. QED
        BY <1>b, <4>2, HostAssumption
    <3>2. CASE pc' # "next"
      BY <2>1, <2>2, <3>2 DEF Made
    <3>3. QED
      BY <3>1, <3>2
  <2>4. Filled \subseteq Filled'
    <3>1. CASE Report /\ pc' = "cleanup"
      <4>1. k = 1
        BY <2>1, <3>1 DEF PhaseInv
      <4>2. Len(current.clusters) \in Nat
        BY <2>1, ConfigFacts
      <4>3. \A n \in 1..Len(current.clusters) :
              HasNamespace(n) => HasNamespace(n)'
        BY <2>1, <3>1, <4>1, <4>2 DEF HasNamespace
      <4>4. QED
        BY <2>1, <3>1, <4>3 DEF Filled, Last
    <3>2. CASE Report /\ pc' # "cleanup"
      BY <2>1, <3>2 DEF Filled, HasNamespace
    <3>3. CASE ResourcesDeleted
      <4>1. \A n \in 1..Last : ~HasNamespace(n)
        BY <1>0, <2>1, <3>3, ConfigFacts DEF HasNamespace, Last
      <4>2. QED
        BY <4>1 DEF Filled
    <3>4. QED
      BY <1>8, <3>1, <3>2, <3>3
  <2>5. \A x \in commands : ~Own(x)
    BY <1>d, <2>1
  <2>6. QED
    BY <1>a, <1>1, <2>1, <2>2, <2>3, <2>4, <2>5
<1>9. CASE Die /\ commands' \subseteq commands
  <2>1. /\ pc' = "dead" /\ pc \notin Ended
        /\ UNCHANGED <<run, disturbed, exists, initial>>
        /\ crashed' = crashed \union ({run} \X ({current} \ {None}))
    BY <1>9 DEF Die
  <2>2. Active => /\ current # None /\ <<run, current>> \in crashed'
                  /\ ClustersOf(current) \subseteq Suspect'
    BY <1>0, <2>1, ConfigFacts DEF Suspect
  <2>3. Suspect \subseteq Suspect'
    BY <2>1 DEF Suspect
  <2>4. Made \union Filled \subseteq Suspect'
    BY <1>b, <2>2 DEF Made, Filled
  <2>5. \A x \in commands' : ~Own(x)' /\ Died(x)'
    BY <1>a, <1>9, <2>1, <2>2
  <2>6. \A died \in crashed' :
          died[1] < run' \/ (died[1] = run' /\ pc' = "dead")
    BY <1>a, <2>1
  <2>7. QED
    BY <1>a, <2>1, <2>3, <2>4, <2>5, <2>6 DEF LeftoverInv
<1>10. CASE Restart
  <2>1. /\ pc \in Ended /\ run' = run + 1 /\ served' = {}
        /\ UNCHANGED <<crashed, disturbed, commands, exists, initial>>
    BY <1>10 DEF Restart, world
  <2>2. Suspect' = Suspect /\ Made = {} /\ Filled = {}
    BY <2>1 DEF Suspect, Made, Filled
  <2>3. \A x \in commands' : ~Own(x)' /\ Died(x)'
    BY <1>0, <1>a, <2>1
  <2>4. \A died \in crashed' : died[1] < run'
    BY <1>0, <1>a, <2>1
  <2>5. QED
    BY <1>a, <2>1, <2>2, <2>3, <2>4 DEF LeftoverInv
<1>11. ASSUME UNCHANGED <<run, pc, current, k, m, crashed, served, disturbed>>,
              UNCHANGED <<exists, initial>>,
              \A x \in commands' : x \in commands \/
                /\ Own(x) /\ Active /\ x.cluster \in ClustersOf(current)
                /\ x.cmd # "kbench" => x.cmd = pc /\ x.cluster \notin served
       PROVE  LeftoverInv'
  <2>1. UNCHANGED <<Suspect, Made, Filled, Left>>
    BY <1>11 DEF Suspect, Made, Filled, Last, HasNamespace
  <2>2. QED
    BY <1>a, <1>11, <2>1 DEF LeftoverInv
<1>12. ASSUME NEW c \in Clusters, ManagerCommand(c)
       PROVE  LeftoverInv'
  BY <1>11, <1>12 DEF ManagerCommand, process, history
<1>13. ASSUME NEW c \in Clusters, StartKbench(c)
       PROVE  LeftoverInv'
  <2>1. kpc[c] = "start" /\ pc \notin Ended /\ c \in Unfinished
    BY <1>13 DEF StartKbench, Goroutine, Unfinished
  <2>2. pc \in {"spawn", "wait"} /\ current \in Configs
    BY <1>0, <2>1 DEF KbenchInv
  <2>3. c \in ClustersOf(current)
    <3>1. CASE pc = "wait"
      BY <2>1, <2>2, <3>1 DEF KbenchInv
    <3>2. CASE pc = "spawn"
      <4>1. PICK n \in 1..(k - 1) : c = current.clusters[n]
        BY <2>1, <3>2 DEF KbenchInv
      <4>2. n \in 1..Len(current.clusters)
        BY <1>0, <2>2, <3>2, <4>1, ConfigFacts DEF PhaseInv, Last
      <4>3. QED
        BY <2>2, <4>1, <4>2, ClustersOfConfig
    <3>3. QED
      BY <2>2, <3>1, <3>2
  <2>4. QED
    BY <1>11, <1>13, <2>1, <2>2, <2>3 DEF StartKbench, Goroutine, history
<1>14. ASSUME NEW c \in Clusters, KbenchDone(c)
       PROVE  LeftoverInv'
  BY <1>11, <1>14 DEF KbenchDone, Goroutine, history
<1>15. ASSUME NEW x \in commands, CommandSucceeds(x)
       PROVE  LeftoverInv'
  <2>1. /\ UNCHANGED <<run, pc, current, k, m, crashed>>
        /\ commands' = commands \ {x}
        /\ served' = IF Own(x) /\ x.cmd # "kbench"
                     THEN served \union {x.cluster} ELSE served
        /\ disturbed' = IF Own(x) THEN disturbed
                                  ELSE disturbed \union {x.cluster}
    BY <1>15 DEF CommandSucceeds
  <2>2. /\ \/ exists' = exists
           \/ x.cmd = "create" /\ exists' = exists \union {x.cluster}
           \/ x.cmd = "delete" /\ exists' = exists \ {x.cluster}
        /\ x.cmd = "delete" => exists' = exists \ {x.cluster}
        /\ \/ initial' = initial
           \/ initial' = [initial EXCEPT ![x.cluster] = None]
    BY <1>c, <1>15 DEF CommandSucceeds, Effect
  <2>3. UNCHANGED <<Suspect, Filled>>
    BY <2>1 DEF Suspect, Filled, Last, HasNamespace
  <2>4. Left' \subseteq Left
    BY <1>0, <2>2
  <2>5. ~Own(x) => x.cluster \in Suspect
    BY <1>a, SuspectMember
  <2>6. exists' \subseteq Suspect \union Made'
    <3>1. CASE Own(x)
      <4>1. x.cmd = "create" => pc = "create" /\ x.cluster \in Made'
        BY <1>a, <2>1, <3>1 DEF Made
      <4>2. x.cmd = "delete" => Made' = Made \ {x.cluster}
        BY <1>a, <2>1, <3>1 DEF Made
      <4>3. x.cmd # "delete" => Made' = Made
        BY <1>a, <1>c, <2>1, <3>1 DEF Made
      <4>4. QED
        BY <1>a, <2>2, <4>1, <4>2, <4>3
    <3>2. CASE ~Own(x)
      <4>1. Made' = Made
        BY <2>1, <3>2 DEF Made
      <4>2. QED
        BY <1>a, <2>2, <2>5, <3>2, <4>1
    <3>3. QED
      BY <3>1, <3>2
  <2>7. \A y \in commands' : ~Own(y)' => Died(y)'
    BY <1>a, <2>1
  <2>8. ASSUME NEW y \in commands', Own(y)'
        PROVE  /\ Active' /\ y.cluster \in ClustersOf(current')
               /\ y.cmd # "kbench" => y.cmd = pc' /\ y.cluster \notin served'
    <3>1. y \in commands /\ y # x /\ Own(y)
      BY <2>1, <2>8
    <3>2. ASSUME y.cmd # "kbench", Own(x), x.cmd # "kbench"
          PROVE  y.cluster # x.cluster
      <4>1. y.cmd = x.cmd /\ y.run = x.run
        BY <1>a, <3>1, <3>2
      <4>2. QED
        BY <3>1, <4>1 DEF TypeOK
    <3>3. QED
      BY <1>a, <2>1, <3>1, <3>2
  <2>9. disturbed' \subseteq Suspect
    BY <1>a, <2>1, <2>5
  <2>10. Active' /\ pc' \notin {"create", "delete"} => served' = {}
    BY <1>a, <1>c, <2>1
  <2>11. QED
    BY <1>a, <2>1, <2>3, <2>4, <2>6, <2>7, <2>8, <2>9, <2>10 DEF LeftoverInv
<1>16. ASSUME NEW x \in commands, CommandFails(x), ~Die
       PROVE  LeftoverInv'
  BY <1>11, <1>16 DEF CommandFails, process, history
<1>17. Refused \/ Fatal \/ (\E x \in commands : CommandFails(x) /\ Die)
         => Die /\ commands' \subseteq commands
  BY DEF Refused, Fatal, CommandFails
<1>18. QED
  BY <1>2, <1>3, <1>4, <1>5, <1>6, <1>7, <1>8, <1>9, <1>10, <1>12, <1>13,
     <1>14, <1>15, <1>16, <1>17
     DEF Next, Vbench, Goroutines, Command, Terminated

LEMMA InitLoad == Init => LoadInv
BY DEF Init, LoadInv, Active, Ended

(* What LoadInv says of one cluster.                                       *)
ClusterLoaded(n) ==
  current.clusters[n] \notin disturbed /\ pc # "delete" =>
    /\ /\ current.clusters[n] \in Virtual
       /\ pc = "create" => current.clusters[n] \in served
       => current.clusters[n] \in exists
    /\ HasNamespace(n) =>
         initial[current.clusters[n]] = IF pc = "resources" /\ n = k
                                        THEN m - 1 ELSE current.configMaps

(* The current configuration gets as many ConfigMaps as it asks for.  A    *)
(* command of another run may change that; its cluster is disturbed then.  *)
LEMMA StepLoad ==
  ASSUME TypeOK, PhaseInv, LeftoverInv, LoadInv, [Next]_vars
  PROVE  LoadInv'
<1> USE DEF Ended, Own, Active
<1>0. /\ run \in Nat /\ k \in Nat /\ k >= 1 /\ m \in Nat
      /\ initial \in [Clusters -> Nat \union {None}]
      /\ Active => /\ current \in Configs /\ current.configMaps \in Nat
                   /\ Last \in Nat /\ Last >= 1
                   /\ \A n \in 1..Last : current.clusters[n] \in Clusters
                   /\ \A i, j \in 1..Last :
                        current.clusters[i] = current.clusters[j] => i = j
  BY ConfigFacts DEF PhaseInv, TypeOK, Last
<1>a. Active => /\ pc = "create" => m = 0
                /\ pc = "resources" => m <= current.configMaps
                /\ \A n \in 1..Last : ClusterLoaded(n)
  BY DEF LoadInv, ClusterLoaded
<1>b. LoadInv' <=>
        (Active' => /\ pc' = "create" => m' = 0
                    /\ pc' = "resources" => m' <= current'.configMaps
                    /\ \A n \in 1..Last' : ClusterLoaded(n)')
  BY DEF LoadInv, ClusterLoaded
<1>1. ASSUME Active, UNCHANGED <<current, exists, initial, disturbed>>,
             pc' \notin {"create", "resources"},
             \/ pc \notin {"create", "resources", "cleanup", "delete"}
             \/ pc = "resources" /\ k > Last
             \/ pc = "cleanup" /\ pc' = "delete"
             \/ pc = "create" /\ served = ClustersOf(current)
                /\ current.configMaps = 0
      PROVE  LoadInv'
  <2> SUFFICES ASSUME NEW n \in 1..Last PROVE ClusterLoaded(n)'
    BY <1>1, <1>b DEF Last
  <2>1. ClusterLoaded(n)
    BY <1>a, <1>1
  <2>2. HasNamespace(n)' /\ pc' # "delete" =>
          HasNamespace(n) /\ ~(pc = "resources" /\ n = k)
    BY <1>0, <1>1 DEF HasNamespace
  <2>3. pc = "create" => current.clusters[n] \in served
    BY <1>0, <1>1, ClustersOfConfig DEF Last
  <2>4. QED
    BY <1>1, <2>1, <2>2, <2>3 DEF ClusterLoaded
<1>2. ASSUME UNCHANGED <<pc, current, k, m, served>>,
             UNCHANGED <<exists, initial, disturbed>>
      PROVE  LoadInv'
  BY <1>2 DEF LoadInv, Last, HasNamespace
<1>3. CASE UNCHANGED vars
  BY <1>2, <1>3 DEF vars, process, world, history
<1>4. CASE PickConfig
  <2>1. /\ current' \in Configs /\ k' = 1 /\ m' = 0 /\ served' = {}
        /\ \/ pc' = "create"
           \/ pc' = "prepare" /\ current'.configMaps = 0
              /\ current'.clusterType # "virtual"
           \/ pc' = "resources" /\ current'.clusterType # "virtual"
    BY <1>4, BatchesAssumption DEF PickConfig, Main, TypeOK
  <2>2. current'.configMaps \in Nat
    BY <2>1, ConfigFacts
  <2>3. ASSUME NEW n \in 1..Last'
        PROVE  ClusterLoaded(n)'
    <3>1. current'.clusterType # "virtual" => current'.clusters[n] = Host
      BY <2>1, ConfigFacts DEF Last
    <3>2. ~HasNamespace(n)'
      BY <2>1 DEF HasNamespace
    <3>3. QED
      BY <2>1, <3>1, <3>2, HostAssumption DEF ClusterLoaded
  <2>4. QED
    BY <1>b, <2>1, <2>2, <2>3
<1>5. CASE CreateReturns
  <2>1. /\ pc = "create" /\ served = ClustersOf(current) /\ m' = m /\ k' = k
        /\ UNCHANGED <<current, exists, initial, disturbed>>
        /\ \/ pc' = "prepare" /\ current.configMaps = 0
           \/ pc' = "resources"
    BY <1>5 DEF CreateReturns, Main, world, AfterCreate
  <2>2. ASSUME NEW n \in 1..Last
        PROVE  ClusterLoaded(n)'
    <3>1. ClusterLoaded(n) /\ k = 1 /\ m = 0
      BY <1>a, <2>1 DEF PhaseInv
    <3>2. current.clusters[n] \in served
      BY <1>0, <2>1, ClustersOfConfig DEF Last
    <3>3. ~HasNamespace(n)'
      BY <2>1, <3>1 DEF HasNamespace
    <3>4. QED
      BY <2>1, <3>1, <3>2, <3>3 DEF ClusterLoaded
  <2>3. m = 0 /\ Last' = Last
    BY <1>a, <2>1 DEF Last
  <2>4. QED
    BY <1>0, <1>b, <2>1, <2>2, <2>3
<1>6. CASE \/ Prepare \/ SpawnKbench \/ AllSpawned \/ WaitReturns
           \/ CollectHost \/ CollectVirtual \/ ResourcesCreated
  BY <1>1, <1>6 DEF Prepare, SpawnKbench, AllSpawned, WaitReturns,
     CollectHost, CollectVirtual, ResourcesCreated, Main, world
<1>7. CASE Report \/ ResourcesDeleted \/ AllDone \/ DeleteReturns
  <2>1. /\ UNCHANGED <<exists, initial, disturbed>>
        /\ \/ pc' \in {"next", "ended"}
           \/ /\ current' = current
              /\ \/ pc = "report" /\ pc' \in {"cleanup", "delete"}
                 \/ pc = "cleanup" /\ pc' = "delete"
    BY <1>7 DEF Report, ResourcesDeleted, AllDone, DeleteReturns, Main, world,
         Returns, AfterTests, AfterCleanup
  <2>2. QED
    BY <1>1, <1>b, <2>1
<1>8. CASE CreateInitialNamespace \/ CreateConfigMap \/ DeleteInitialNamespace
  <2> DEFINE here == Cluster
  <2>1. /\ pc \in {"resources", "cleanup"} /\ pc' = pc
        /\ UNCHANGED <<exists, disturbed, current>>
        /\ k \in 1..Last /\ here = current.clusters[k] /\ here \in Clusters
        /\ current.configMaps # 0
    BY <1>0, <1>8 DEF CreateInitialNamespace, CreateConfigMap,
         DeleteInitialNamespace, Main, PhaseInv, Cluster
  <2>2. CreateInitialNamespace => /\ pc = "resources" /\ m' = 1 /\ k' = k
                                  /\ initial' = [initial EXCEPT ![here] = 0]
    BY DEF CreateInitialNamespace, Main
  <2>3. CreateConfigMap =>
          /\ pc = "resources" /\ m > 0
          /\ \/ k' = k /\ m' = m + 1 /\ m < current.configMaps
             \/ k' = k + 1 /\ m' = 0 /\ ~(m < current.configMaps)
          /\ initial' = [initial EXCEPT ![here] = initial[here] + 1]
    BY DEF CreateConfigMap, Main
  <2>4. DeleteInitialNamespace =>
          /\ pc = "cleanup" /\ k' = k + 1
          /\ initial' = [initial EXCEPT ![here] = None]
    BY DEF DeleteInitialNamespace, Main
  <2> HIDE DEF here
  <2>5. Last' = Last
    BY <2>1 DEF Last
  <2>6. pc' = "resources" => m' <= current'.configMaps
    BY <1>0, <1>8, <2>1, <2>2, <2>3, <2>4
  <2>7. ASSUME NEW n \in 1..Last
        PROVE  ClusterLoaded(n)'
    <3>1. ClusterLoaded(n)
      BY <1>a, <2>1
    <3>2. CASE n # k
      <4>1. initial'[current.clusters[n]] = initial[current.clusters[n]]
        BY <1>0, <1>8, <2>1, <2>2, <2>3, <2>4, <3>2
      <4>2. HasNamespace(n)' => HasNamespace(n)
        BY <1>0, <1>8, <2>1, <2>2, <2>3, <2>4, <3>2 DEF HasNamespace
      <4>3. HasNamespace(n)' => ~(pc' = "resources" /\ n = k')
        BY <1>0, <1>8, <2>1, <2>2, <2>3, <2>4, <3>2 DEF HasNamespace
      <4>4. QED
        BY <2>1, <3>1, <3>2, <4>1, <4>2, <4>3 DEF ClusterLoaded
    <3>3. CASE n = k
      <4>0. current.clusters[n] = here
        BY <2>1, <3>3
      <4>1. CASE CreateInitialNamespace
        <5>1. initial'[here] = 0 /\ m' - 1 = 0
          BY <1>0, <2>1, <2>2, <4>1
        <5>2. QED
          BY <2>1, <2>2, <3>1, <3>3, <4>0, <4>1, <5>1 DEF ClusterLoaded
      <4>2. CASE CreateConfigMap
        <5>1. HasNamespace(n)
          BY <2>1, <2>3, <3>3, <4>2 DEF HasNamespace
        <5>2. here \notin disturbed => initial[here] = m - 1
          BY <2>1, <2>3, <3>1, <3>3, <4>0, <4>2, <5>1 DEF ClusterLoaded
        <5>3. here \notin disturbed => initial'[here] = m
          BY <1>0, <2>1, <2>3, <4>2, <5>2
        <5>4. m = IF n = k' THEN m' - 1 ELSE current.configMaps
          BY <1>0, <1>a, <2>1, <2>3, <3>3, <4>2
        <5>5. QED
          BY <2>1, <2>3, <3>1, <4>0, <4>2, <5>3, <5>4 DEF ClusterLoaded
      <4>3. CASE DeleteInitialNamespace
        <5>1. ~HasNamespace(n)'
          BY <1>0, <2>1, <2>4, <3>3, <4>3 DEF HasNamespace
        <5>2. QED
          BY <2>1, <2>4, <3>1, <4>3, <5>1 DEF ClusterLoaded
      <4>4. QED
        BY <1>8, <4>1, <4>2, <4>3
    <3>4. QED
      BY <3>2, <3>3
  <2>8. QED
    BY <1>b, <2>1, <2>5, <2>6, <2>7
<1>9. CASE (Die /\ commands' \subseteq commands) \/ Restart
  BY <1>b, <1>9 DEF Die, Restart
<1>10. ASSUME NEW c \in Clusters,
              ManagerCommand(c) \/ StartKbench(c) \/ KbenchDone(c)
       PROVE  LoadInv'
  BY <1>2, <1>10 DEF ManagerCommand, StartKbench, KbenchDone, Goroutine,
       process, history
<1>11. ASSUME NEW x \in commands, CommandSucceeds(x)
       PROVE  LoadInv'
  <2>0. x.cmd \in {"create", "delete", "kbench"}
    BY DEF TypeOK
  <2>1. /\ UNCHANGED <<pc, current, k, m>>
        /\ served' \subseteq served \union {x.cluster}
        /\ served' # served => x.cmd # "kbench"
        /\ Own(x) => disturbed' = disturbed
        /\ ~Own(x) => disturbed' = disturbed \union {x.cluster}
                      /\ served' = served
    BY <1>11 DEF CommandSucceeds
  <2>2. /\ x.cmd = "create" => exists' = exists \union {x.cluster}
                               /\ initial' = initial
        /\ x.cmd = "kbench" => exists' = exists /\ initial' = initial
        /\ x.cmd = "delete" =>
             /\ exists' = exists \ {x.cluster}
             /\ initial' = [initial EXCEPT ![x.cluster] = None]
    BY <1>11 DEF CommandSucceeds, Effect
  <2>3. Own(x) => x.cmd = "kbench" \/ x.cmd = pc
    BY DEF LeftoverInv
  <2>4. Last' = Last /\ \A n : HasNamespace(n)' <=> HasNamespace(n)
    BY <2>1 DEF Last, HasNamespace
  <2>5. ASSUME Active, NEW n \in 1..Last, pc # "delete",
               current.clusters[n] \notin disturbed'
        PROVE  ClusterLoaded(n)'
    <3> DEFINE c == current.clusters[n]
    <3>1. ClusterLoaded(n) /\ c \notin disturbed /\ c \in Clusters
      BY <1>0, <1>a, <2>1, <2>5
    <3>2. c \in exists => c \in exists'
      BY <2>0, <2>1, <2>2, <2>3, <2>5
    <3>3. initial'[c] = initial[c]
      BY <1>0, <2>0, <2>1, <2>2, <2>3, <2>5, <3>1
    <3>4. c \in served' => c \in served \/ c \in exists'
      BY <2>0, <2>1, <2>2, <2>3, <2>5
    <3>5. QED
      BY <2>1, <2>4, <3>1, <3>2, <3>3, <3>4 DEF ClusterLoaded
  <2>6. Active => \A n \in 1..Last : ClusterLoaded(n)'
    BY <2>1, <2>5 DEF ClusterLoaded
  <2>7. QED
    BY <1>a, <1>b, <2>1, <2>4, <2>6
<1>12. ASSUME NEW x \in commands, CommandFails(x), ~Die
       PROVE  LoadInv'
  BY <1>2, <1>12 DEF CommandFails, process, history
<1>13. Refused \/ Fatal \/ (\E x \in commands : CommandFails(x) /\ Die)
         => Die /\ commands' \subseteq commands
  BY DEF Refused, Fatal, CommandFails
<1>14. QED
  BY <1>3, <1>4, <1>5, <1>6, <1>7, <1>8, <1>9, <1>10, <1>11, <1>12, <1>13
     DEF Next, Vbench, Goroutines, Command, Terminated

-----------------------------------------------------------------------------
(* The inductive invariant of vbench: the phases of RunExperiment, the     *)
(* goroutines that wg counts, and what the collections, the directories,   *)
(* the reports and the host cluster have to do with them, for any          *)
(* configurations, batches and number of runs, and a process that dies at  *)
(* any point.                                                              *)
THEOREM Invariance == Spec => []IInv
<1>1. Init => IInv
  BY InitTypes, InitPhase, InitKbench, InitCollected, InitHost, InitDir,
     InitReports, InitLeftover, InitLoad DEF IInv
<1>2. IInv /\ [Next]_vars => IInv'
  BY StepTypes, StepPhase, StepKbench, StepCollected, StepHost, StepDir,
     StepReports, StepLeftover, StepLoad DEF IInv
<1>3. QED
  BY <1>1, <1>2, PTL DEF Spec

(* Both collections of a report come after the load of its configuration   *)
(* is over in all clusters: wg.Wait has counted every goroutine.           *)
THEOREM LoadIsCovered == Spec => []ReportCoversTheLoad
<1>1. IInv => ReportCoversTheLoad
  BY NoKbench DEF IInv, CollectedInv, ReportCoversTheLoad
<1>2. QED
  BY <1>1, Invariance, PTL

(* A configuration that went through has its report, which only another    *)
(* one of its name in the same run replaces, or a later run that was given *)
(* a name that was taken; and a process that ends passes over none.        *)
THEOREM ReportsStay == Spec => []ReportsOfCompleted
<1>1. IInv => ReportsOfCompleted
  BY DEF IInv, ReportsInv
<1>2. QED
  BY <1>1, Invariance, PTL

(* A namespace "initial" that a crash has left in the host cluster is      *)
(* never removed by a later run, which gets no report through there.       *)
THEOREM LeftoverStays == Spec => []HostLeftoverStays
<1>1. IInv => HostLeftoverStays
  BY DEF IInv, HostInv
<1>2. QED
  BY <1>1, Invariance, PTL

(* Nothing is left between two configurations, and no command is under way *)
(* that nobody waits for, but for what a dead process was working on.      *)
THEOREM NothingIsLeft == Spec => []CleanBetweenConfigs
<1>1. ASSUME IInv PROVE CleanBetweenConfigs
  <2> USE <1>1 DEF IInv, LeftoverInv
  <2>1. ASSUME pc \in {"next", "ended"}, NEW x \in commands
        PROVE  x.run < run
    <3>1. ~Own(x) /\ x.run \in Nat /\ x.run <= run /\ run \in Nat
      BY <2>1 DEF Own, Active, PhaseInv, TypeOK
    <3>2. pc = "next" => x.run # run
      BY <3>1 DEF Own, Ended
    <3>3. pc = "ended" => x.run # run
      <4>1. PICK died \in crashed : died[1] = x.run
        BY <3>1
      <4>2. died[1] < run \/ pc = "dead"
        OBVIOUS
      <4>3. QED
        BY <3>1, <4>1, <4>2
    <3>4. QED
      BY <2>1, <3>1, <3>2, <3>3
  <2>2. pc \in {"next", "ended"} => Made = {} /\ Filled = {}
    BY DEF Made, Filled, Active, Ended
  <2>3. QED
    BY <2>1, <2>2 DEF CleanBetweenConfigs
<1>2. QED
  BY <1>1, Invariance, PTL

(* kbench finds its cluster and exactly the ConfigMaps asked for, also     *)
(* after crashes, unless a command of another run has interfered.          *)
THEOREM LoadIsAsAskedFor == Spec => []LoadMeetsItsResources
<1>1. ASSUME IInv PROVE LoadMeetsItsResources
  <2> SUFFICES ASSUME NEW x \in OwnKbench, x.cluster \notin disturbed
               PROVE  /\ x.cluster \in Virtual => x.cluster \in exists
                      /\ current.configMaps > 0
                           => initial[x.cluster] = current.configMaps
                      /\ x.cluster \notin Suspect /\ current.configMaps = 0
                           => initial[x.cluster] = None
    BY DEF LoadMeetsItsResources
  <2>1. /\ Active /\ pc \in {"spawn", "wait"} /\ current \in Configs
        /\ x.cluster \in ClustersOf(current) /\ x.cluster \in Clusters
    BY <1>1, NoKbench DEF IInv, LeftoverInv, PhaseInv, TypeOK, OwnKbench,
         Own, Active, Ended
  <2>2. PICK n \in 1..Last : x.cluster = current.clusters[n]
    BY <2>1, ClustersOfConfig DEF Last
  <2>3. ClusterLoaded(n)
    BY <1>1, <2>1 DEF IInv, LoadInv, ClusterLoaded
  <2>4. current.configMaps > 0 => HasNamespace(n)
    BY <2>1, ConfigFacts DEF HasNamespace
  <2>5. current.configMaps = 0 => Filled = {}
    BY DEF Filled, HasNamespace
  <2>6. x.cluster \notin Suspect /\ current.configMaps = 0
          => initial[x.cluster] = None
    BY <1>1, <2>1, <2>5 DEF IInv, LeftoverInv
  <2>7. QED
    BY <2>1, <2>2, <2>3, <2>4, <2>6 DEF ClusterLoaded
<1>2. QED
  BY <1>1, Invariance, PTL
=============================================================================
