------------------------------ MODULE Experiment ------------------------------
(***************************************************************************)
(* vbench: main of cmd/vbench/vbench.go and RunExperiment, runTests and    *)
(* the initial resources of internal/cmd/utils.go.  The configurations are *)
(* taken one by one in any order.  Each one creates its virtual clusters,  *)
(* fills them with ConfigMaps, runs kbench in all of them at once, collects *)
(* the metrics, writes its report and removes what it has created.         *)
(*                                                                         *)
(* Any step may fail, and a failure ends the process at once (log.Fatal,   *)
(* or a panic): nothing is cleaned up, and the commands its goroutines     *)
(* have started go on without it.  A later run of vbench, over the same    *)
(* configurations or others, meets what is left.                           *)
(*                                                                         *)
(* Create and Delete of the VirtualClusterManager are what ClusterFleet    *)
(* says of them: one command for each cluster, in parallel, and a return   *)
(* when all have succeeded.  A namespace "initial" is represented by the   *)
(* number of its ConfigMaps.                                               *)
(*                                                                         *)
(* Each run has a name for its experiment directory, from                  *)
(* CreateExperimentDir (module ExperimentDir): a number stands for a name, *)
(* whatever its date.                                                      *)
(***************************************************************************)
EXTENDS Integers, Sequences, FiniteSets

CONSTANTS
  Host,      \* the host cluster
  Virtual,   \* the virtual clusters
  Configs,   \* the configurations
  Batches,   \* the sets of them that vbench is started with
  MaxRuns,   \* how often vbench is started
  None       \* no configuration, namespace, collection or directory

Clusters == Virtual \union {Host}

ClustersOf(x) == {x.clusters[n] : n \in DOMAIN x.clusters}

ASSUME ConfigsAssumption ==
  \A x \in Configs :
    /\ x.clusterType \in {"host", "virtual"}
    /\ x.clusters \in Seq(IF x.clusterType = "host" THEN {Host} ELSE Virtual)
    /\ x.clusters # <<>>
    /\ \A m, n \in DOMAIN x.clusters : x.clusters[m] = x.clusters[n] => m = n
    /\ x.configMaps \in Nat
ASSUME BatchesAssumption == Batches \subseteq SUBSET Configs
ASSUME NoneAssumption == None \notin Configs /\ None \notin Int
ASSUME HostAssumption == Host \notin Virtual
ASSUME RunsAssumption == MaxRuns \in Nat \ {0}

VARIABLES
  run,        \* the process under way, or the last one
  dir,        \* experimentDirName of each run (of no meaning before it)
  pc,         \* where its main goroutine is
  batch,      \* the configurations it was started with
  todo,       \* those that are still to come
  current,    \* the one under way
  k,          \* the cluster of the loop under way
  m,          \* the ConfigMap of the inner loop
  served,     \* the clusters for which Create, or Delete, has succeeded
  wg,         \* counter of the WaitGroup of runTests
  kpc,        \* next step of each cluster's goroutine in runTests
  collected,  \* who had been measured when each context was collected
  commands,   \* the commands that run in the operating system
  exists,     \* the virtual clusters that exist
  initial,    \* the ConfigMaps of each cluster's namespace "initial"
  dirs,       \* the experiment directories that exist
  reports,    \* the report files
  crashed,    \* <<run, configuration>> pairs that died (history)
  completed,  \* <<run, configuration>> pairs that went through (history)
  astray,     \* runs that were given a name that was taken (history)
  stale,      \* clusters with a namespace "initial" at the start (history)
  disturbed   \* those changed by a command of an earlier run (history)

process ==
  <<run, dir, pc, batch, todo, current, k, m, served, wg, kpc, collected>>
world == <<commands, exists, initial, dirs, reports>>
history == <<crashed, completed, astray, stale, disturbed>>
vars == <<process, world, history>>

Ended == {"ended", "dead"}

TypeOK ==
  /\ run \in 1..MaxRuns
  /\ dir \in [1..MaxRuns -> 1..MaxRuns]
  /\ pc \in {"next", "create", "resources", "prepare", "spawn", "wait",
             "collectHost", "collectVirtual", "report", "cleanup", "delete"}
            \union Ended
  /\ batch \in Batches /\ todo \subseteq batch
  /\ current \in Configs \union {None}
  /\ k \in Nat /\ m \in Nat /\ wg \in Nat
  /\ served \subseteq Clusters
  /\ kpc \in [Clusters -> {"idle", "start", "run", "close", "done"}]
  /\ collected \in [{"host", "virtual"} -> (SUBSET Clusters) \union {None}]
  /\ commands \subseteq
       [run : 1..MaxRuns, cmd : {"create", "delete", "kbench"},
        cluster : Clusters]
  /\ exists \subseteq Virtual
  /\ initial \in [Clusters -> Nat \union {None}]
  /\ dirs \subseteq 1..MaxRuns
  /\ crashed \union completed \subseteq (1..MaxRuns) \X Configs
  /\ astray \subseteq 1..MaxRuns
  /\ stale \subseteq Clusters /\ disturbed \subseteq Clusters

NothingMeasured == [c \in Clusters |-> "idle"]
NothingCollected == [context \in {"host", "virtual"} |-> None]

Init ==
  /\ run = 1
  /\ dir = [i \in 1..MaxRuns |-> 1]
  /\ pc = "next"
  /\ batch \in Batches /\ todo = batch
  /\ current = None
  /\ k = 1 /\ m = 0 /\ wg = 0 /\ served = {}
  /\ kpc = NothingMeasured /\ collected = NothingCollected
  /\ commands = {}
  /\ exists = {}
  /\ initial = [c \in Clusters |-> None]
  /\ dirs = {} /\ reports = {}
  /\ crashed = {} /\ completed = {} /\ astray = {} /\ stale = {}
  /\ disturbed = {}

-----------------------------------------------------------------------------
(* The main goroutine moves on.                                            *)
Main(from, to) ==
  /\ pc = from
  /\ pc' = to
  /\ UNCHANGED <<run, dir, batch, crashed, astray, stale, disturbed>>

Cluster == current.clusters[k]
Last == Len(current.clusters)
Own(x) == x.run = run /\ pc \notin Ended

(* Where RunExperiment goes from one phase to the next.                    *)
AfterCreate == IF current.configMaps = 0 THEN "prepare" ELSE "resources"
AfterCleanup == IF current.clusterType = "virtual" THEN "delete" ELSE "next"
(* (Faulty variant: the initial resources are not cleaned up.)             *)
AfterTestsNoCleanup == AfterCleanup
AfterTests == IF current.configMaps # 0 THEN "cleanup" ELSE AfterCleanup

(* RunExperiment returns when it goes to "next".                           *)
Returns(to) ==
  /\ current' = IF to = "next" THEN None ELSE current
  /\ completed' = IF to = "next" THEN completed \union {<<run, current>>}
                                 ELSE completed

-----------------------------------------------------------------------------
(* Faulty variants: "kubectl apply" of the namespace; wg.Add is forgotten, *)
(* or wg.Wait; nobody looks whether a directory exists; a failed command   *)
(* is only logged.                                                         *)
CreateInitialNamespaceApplied ==
  /\ Main("resources", "resources")
  /\ m = 0 /\ k <= Last
  /\ Cluster \in exists \union {Host}
  /\ initial' = [initial EXCEPT ![Cluster] = IF @ = None THEN 0 ELSE @]
  /\ m' = 1
  /\ UNCHANGED <<todo, current, k, served, wg, kpc, collected>>
  /\ UNCHANGED <<commands, exists, dirs, reports, completed>>

SpawnKbenchUncounted ==
  /\ Main("spawn", "spawn")
  /\ k <= Last
  /\ kpc' = [kpc EXCEPT ![Cluster] = "start"]
  /\ k' = k + 1
  /\ UNCHANGED <<todo, current, m, served, wg, collected, world, completed>>

WaitReturnsAtOnce ==
  /\ Main("wait", "collectHost")
  /\ UNCHANGED <<todo, current, k, m, served, wg, kpc, collected, world>>
  /\ UNCHANGED completed

NameUnchecked(d) == UNCHANGED astray

CommandFailsLogged(x) ==
  /\ commands' = commands \ {x}
  /\ UNCHANGED <<process, exists, initial, dirs, reports, history>>

(* vbench.go: for _, benchmarkConfig := range benchmarkConfigs (shuffled)  *)
PickConfig ==
  /\ \E x \in todo :
       /\ Main("next", IF x.clusterType = "virtual" THEN "create"
                       ELSE IF x.configMaps = 0 THEN "prepare"
                       ELSE "resources")
       /\ current' = x
       /\ todo' = todo \ {x}
  /\ k' = 1 /\ m' = 0 /\ served' = {}
  /\ kpc' = NothingMeasured /\ collected' = NothingCollected
  /\ UNCHANGED <<wg, world, completed>>

AllDone ==
  /\ Main("next", "ended")
  /\ todo = {}
  /\ UNCHANGED <<todo, current, k, m, served, wg, kpc, collected>>
  /\ UNCHANGED <<world, completed>>

(* vclusterManager.Create and Delete: a command for each cluster; each is  *)
(* run once, and has succeeded when its cluster is among the served.       *)
ManagerCommand(c) ==
  /\ pc \in {"create", "delete"}
  /\ c \in ClustersOf(current) \ served
  /\ ~\E x \in commands : x.run = run /\ x.cluster = c
  /\ commands' = commands \union {[run |-> run, cmd |-> pc, cluster |-> c]}
  /\ UNCHANGED <<process, exists, initial, dirs, reports, history>>

CreateReturns ==
  /\ Main("create", AfterCreate)
  /\ served = ClustersOf(current)
  /\ served' = {}
  /\ UNCHANGED <<todo, current, k, m, wg, kpc, collected, world, completed>>

DeleteReturns ==
  /\ Main("delete", "next")
  /\ served = ClustersOf(current)
  /\ Returns("next")
  /\ UNCHANGED <<todo, k, m, served, wg, kpc, collected, world>>

(* createInitialResources: "kubectl create namespace initial" fails when   *)
(* the namespace exists.                                                   *)
CreateInitialNamespace ==
  /\ Main("resources", "resources")
  /\ m = 0 /\ k <= Last
  /\ Cluster \in exists \union {Host}
  /\ initial[Cluster] = None
  /\ initial' = [initial EXCEPT ![Cluster] = 0]
  /\ m' = 1
  /\ UNCHANGED <<todo, current, k, served, wg, kpc, collected>>
  /\ UNCHANGED <<commands, exists, dirs, reports, completed>>

(* ApplyManifestFromString of the ConfigMap number m - 1, then the loops.  *)
CreateConfigMap ==
  /\ Main("resources", "resources")
  /\ m > 0 /\ k <= Last
  /\ initial[Cluster] # None
  /\ initial' = [initial EXCEPT ![Cluster] = @ + 1]
  /\ IF m < current.configMaps THEN m' = m + 1 /\ k' = k
                               ELSE m' = 0 /\ k' = k + 1
  /\ UNCHANGED <<todo, current, served, wg, kpc, collected>>
  /\ UNCHANGED <<commands, exists, dirs, reports, completed>>

ResourcesCreated ==
  /\ Main("resources", "prepare")
  /\ k > Last
  /\ k' = 1
  /\ UNCHANGED <<todo, current, m, served, wg, kpc, collected, world>>
  /\ UNCHANGED completed

(* runTests: the directory and the two copied files.  For os.MkdirAll it   *)
(* is no error that the directory exists.                                  *)
Prepare ==
  /\ Main("prepare", "spawn")
  /\ dirs' = dirs \union {dir[run]}
  /\ UNCHANGED <<todo, current, k, m, served, wg, kpc, collected>>
  /\ UNCHANGED <<commands, exists, initial, reports, completed>>

(* wg.Add(1); go func() { ... }()                                          *)
SpawnKbench ==
  /\ Main("spawn", "spawn")
  /\ k <= Last
  /\ wg' = wg + 1
  /\ kpc' = [kpc EXCEPT ![Cluster] = "start"]
  /\ k' = k + 1
  /\ UNCHANGED <<todo, current, m, served, collected, world, completed>>

AllSpawned ==
  /\ Main("spawn", "wait")
  /\ k > Last
  /\ k' = 1
  /\ UNCHANGED <<todo, current, m, served, wg, kpc, collected, world>>
  /\ UNCHANGED completed

WaitReturns ==
  /\ Main("wait", "collectHost")
  /\ wg = 0
  /\ UNCHANGED <<todo, current, k, m, served, wg, kpc, collected, world>>
  /\ UNCHANGED completed

(* The goroutine of c: the output file, the command, wg.Done().            *)
Goroutine(c, from, to) ==
  /\ pc \notin Ended
  /\ kpc[c] = from
  /\ kpc' = [kpc EXCEPT ![c] = to]
  /\ UNCHANGED <<run, dir, pc, batch, todo, current, k, m, served>>
  /\ UNCHANGED <<collected, exists, initial, dirs, reports, history>>

StartKbench(c) ==
  /\ Goroutine(c, "start", "run")
  /\ commands' = commands \union
                   {[run |-> run, cmd |-> "kbench", cluster |-> c]}
  /\ UNCHANGED wg

KbenchDone(c) ==
  /\ Goroutine(c, "close", "done")
  /\ wg' = wg - 1
  /\ UNCHANGED commands

(* CollectMetrics for each context: it covers the time up to now.          *)
Measured == {c \in Clusters : kpc[c] = "done"}

CollectHost ==
  /\ Main("collectHost", IF current.clusterType = "virtual"
                         THEN "collectVirtual" ELSE "report")
  /\ collected' = [collected EXCEPT !["host"] = Measured]
  /\ UNCHANGED <<todo, current, k, m, served, wg, kpc, world, completed>>

CollectVirtual ==
  /\ Main("collectVirtual", "report")
  /\ collected' = [collected EXCEPT !["virtual"] = Measured]
  /\ UNCHANGED <<todo, current, k, m, served, wg, kpc, world, completed>>

(* The report, in the directory of this run, under the Name of the         *)
(* configuration: os.WriteFile replaces another one that is there, from    *)
(* this run or an earlier one with the same directory.                     *)
Report ==
  /\ Main("report", AfterTests)
  /\ reports' =
       {r \in reports :
          ~(dir[r.run] = dir[run] /\ r.config.name = current.name)}
       \union {[run |-> run, config |-> current, collected |-> collected]}
  /\ Returns(AfterTests)
  /\ UNCHANGED <<todo, k, m, served, wg, kpc, collected>>
  /\ UNCHANGED <<commands, exists, initial, dirs>>

(* cleanupInitialResources: "kubectl delete namespace initial" fails when  *)
(* there is none.                                                          *)
DeleteInitialNamespace ==
  /\ Main("cleanup", "cleanup")
  /\ k <= Last
  /\ initial[Cluster] # None
  /\ initial' = [initial EXCEPT ![Cluster] = None]
  /\ k' = k + 1
  /\ UNCHANGED <<todo, current, m, served, wg, kpc, collected>>
  /\ UNCHANGED <<commands, exists, dirs, reports, completed>>

ResourcesDeleted ==
  /\ Main("cleanup", AfterCleanup)
  /\ k > Last
  /\ Returns(AfterCleanup)
  /\ k' = 1
  /\ UNCHANGED <<todo, m, served, wg, kpc, collected, world>>

-----------------------------------------------------------------------------
(* The commands.  One of an earlier run, or of a process that has died,    *)
(* has the same effect but is not waited for.                              *)

(* What the command does.  "vcluster create" of a cluster that exists may  *)
(* succeed, depending on its options; the cluster is left as it is.        *)
Effect(x) ==
  CASE x.cmd = "create" ->
         exists' = exists \union {x.cluster} /\ UNCHANGED initial
    [] x.cmd = "delete" ->
         /\ x.cluster \in exists
         /\ exists' = exists \ {x.cluster}
         /\ initial' = [initial EXCEPT ![x.cluster] = None]
    [] x.cmd = "kbench" -> UNCHANGED <<exists, initial>>

CommandSucceeds(x) ==
  /\ Effect(x)
  /\ commands' = commands \ {x}
  /\ served' = IF Own(x) /\ x.cmd # "kbench" THEN served \union {x.cluster}
                                             ELSE served
  /\ kpc' = IF Own(x) /\ x.cmd = "kbench"
            THEN [kpc EXCEPT ![x.cluster] = "close"] ELSE kpc
  /\ disturbed' = IF Own(x) THEN disturbed ELSE disturbed \union {x.cluster}
  /\ UNCHANGED <<run, dir, pc, batch, todo, current, k, m, wg, collected>>
  /\ UNCHANGED <<dirs, reports, crashed, completed, astray, stale>>

(* The process dies.  What it has made, and its commands, stay.            *)
Die ==
  /\ pc \notin Ended
  /\ pc' = "dead"
  /\ crashed' = crashed \union ({run} \X ({current} \ {None}))
  /\ UNCHANGED <<run, dir, batch, todo, current, k, m, served, wg, kpc>>
  /\ UNCHANGED <<collected, exists, initial, dirs, reports>>
  /\ UNCHANGED <<completed, astray, stale, disturbed>>

CommandFails(x) ==
  /\ commands' = commands \ {x}
  /\ IF Own(x) THEN Die
               ELSE /\ UNCHANGED <<process, exists, initial, dirs, reports>>
                    /\ UNCHANGED history

(* kubectl finds a namespace that should not be there, or misses one.      *)
Refused ==
  /\ \/ /\ pc = "resources" /\ k <= Last
        /\ \/ Cluster \notin exists \union {Host}
           \/ (m = 0) # (initial[Cluster] = None)
     \/ pc = "cleanup" /\ k <= Last /\ initial[Cluster] = None
  /\ Die
  /\ UNCHANGED commands

(* log.Fatal for any other reason, or a panic.                             *)
Fatal == Die /\ UNCHANGED commands

(* CreateExperimentDir gives a name that no directory has, or one that is  *)
(* taken: it looks in the wrong place when -out begins with "~", which     *)
(* vbench.go expands only for RunExperiment, and takes any failure of      *)
(* os.Stat for an answer.                                                  *)
NameFree(d) == d \notin dirs /\ UNCHANGED astray
NameMissed(d) == d \in dirs /\ astray' = astray \union {run + 1}

(* vbench is started again, with the same configurations or others.        *)
Restart ==
  /\ pc \in Ended
  /\ run < MaxRuns
  /\ run' = run + 1
  /\ \E d \in 1..MaxRuns :
       /\ NameFree(d) \/ NameMissed(d)
       /\ dir' = [dir EXCEPT ![run + 1] = d]
  /\ pc' = "next"
  /\ batch' \in Batches /\ todo' = batch'
  /\ current' = None
  /\ k' = 1 /\ m' = 0 /\ wg' = 0 /\ served' = {}
  /\ kpc' = NothingMeasured /\ collected' = NothingCollected
  /\ stale' = {c \in Clusters : initial[c] # None}
  /\ UNCHANGED <<world, crashed, completed, disturbed>>

Vbench ==
  \/ PickConfig \/ AllDone \/ CreateReturns \/ DeleteReturns
  \/ CreateInitialNamespace \/ CreateConfigMap \/ ResourcesCreated
  \/ Prepare \/ SpawnKbench \/ AllSpawned \/ WaitReturns
  \/ CollectHost \/ CollectVirtual \/ Report
  \/ DeleteInitialNamespace \/ ResourcesDeleted \/ Refused

Goroutines(c) == ManagerCommand(c) \/ StartKbench(c) \/ KbenchDone(c)
Command(x) == CommandSucceeds(x) \/ CommandFails(x)

Terminated == pc \in Ended /\ commands = {} /\ UNCHANGED vars

Next ==
  \/ Vbench \/ Fatal \/ Restart \/ Terminated
  \/ \E c \in Clusters : Goroutines(c)
  \/ \E x \in commands : Command(x)

Spec == Init /\ [][Next]_vars

AllCommands ==
  [run : 1..MaxRuns, cmd : {"create", "delete", "kbench"}, cluster : Clusters]

(* Goroutines that can run do run, and every command ends.  Nothing        *)
(* promises a failure, nor that vbench is started again.                   *)
FairSpec ==
  /\ Spec
  /\ WF_vars(Vbench)
  /\ \A c \in Clusters : WF_vars(Goroutines(c))
  /\ \A x \in AllCommands : WF_vars(x \in commands /\ Command(x))

-----------------------------------------------------------------------------
(* Properties.                                                             *)

(* The clusters that a dead process may have left in any state.            *)
Suspect == UNION {ClustersOf(x[2]) : x \in crashed}

OwnKbench == {x \in commands : Own(x) /\ x.cmd = "kbench"}

(* The load meets clusters that exist and hold the ConfigMaps asked for,   *)
(* all of them and no others, also after a crash that has left some: as    *)
(* long as no command of the dead process has changed the cluster since.   *)
LoadMeetsItsResources ==
  \A x \in OwnKbench :
    x.cluster \notin disturbed =>
      /\ x.cluster \in Virtual => x.cluster \in exists
      /\ current.configMaps > 0 => initial[x.cluster] = current.configMaps
      /\ x.cluster \notin Suspect /\ current.configMaps = 0
           => initial[x.cluster] = None

(* A report is written when the load of the configuration is over in each  *)
(* of its clusters, and both collections come after that, too: no kbench   *)
(* runs during a collection, other than those of a dead process.           *)
ReportCoversTheLoad ==
  /\ \A r \in reports :
       /\ r.collected["host"] = ClustersOf(r.config)
       /\ r.collected["virtual"] = IF r.config.clusterType = "virtual"
                                   THEN ClustersOf(r.config) ELSE None
  /\ pc \notin {"spawn", "wait"} => OwnKbench = {}

(* Between two configurations nothing of the ones before is left, unless a *)
(* process has died on it; and the only commands that nobody waits for,    *)
(* which may change a cluster under a later run, are those that a process  *)
(* was waiting for when it died.                                           *)
CleanBetweenConfigs ==
  /\ pc \in {"next", "ended"} =>
       /\ exists \union {c \in Clusters : initial[c] # None} \subseteq Suspect
       /\ \A x \in commands : x.run < run
  /\ \A x \in commands :
       ~Own(x) => \E died \in crashed :
                    died[1] = x.run /\ x.cluster \in ClustersOf(died[2])
  /\ disturbed \subseteq Suspect

(* Each configuration that went through has its report, and keeps it also  *)
(* when the process dies later.  Another configuration of the same Name    *)
(* may replace it, and a later run that was given a name that was taken;   *)
(* no other run does, also when runs share a name of which no directory    *)
(* was made.  A process that ends has been through all its configurations. *)
ReportsOfCompleted ==
  /\ \A done \in completed :
       \E r \in reports :
         /\ dir[r.run] = dir[done[1]] /\ r.config.name = done[2].name
         /\ r.run = done[1] \/ (r.run > done[1] /\ r.run \in astray)
         /\ <<r.run, r.config>> # done =>
              \/ <<r.run, r.config>> \in completed \union crashed
              \/ r.run = run /\ r.config = current
  /\ pc = "ended" => \A x \in batch : <<run, x>> \in completed

(* vbench does not recover from what a crash has left in the host cluster: *)
(* its namespace "initial" stays, and no host configuration that needs one *)
(* gets a report any more.                                                 *)
HostLeftoverStays ==
  Host \in stale =>
    /\ initial[Host] # None
    /\ \A r \in reports :
         r.run = run /\ r.config.clusterType = "host"
           => r.config.configMaps = 0

(* Every process ends, and the commands it has started end, too.           *)
RunsEnd == <>[](pc \in Ended /\ commands = {})

-----------------------------------------------------------------------------
(* Why they hold: an inductive invariant.                                  *)

(* RunExperiment is under way, for the current configuration.              *)
Active == pc \notin {"next"} \union Ended

PhaseInv ==
  /\ pc \in {"next", "ended"} => current = None
  /\ Active => current \in Configs
  /\ pc = "dead" /\ current # None => <<run, current>> \in crashed
  /\ pc \in {"create", "delete", "collectVirtual"} =>
       current.clusterType = "virtual"
  /\ pc \in {"resources", "cleanup"} => current.configMaps # 0
  /\ k >= 1
  /\ pc \in {"create", "prepare", "wait", "collectHost", "collectVirtual",
            "report"} => k = 1
  /\ pc = "spawn" => k <= Last + 1
  /\ \A r \in reports : r.run \in 1..run /\ r.config \in Configs
  /\ \A x \in commands :
       x.run <= run /\ (x.cmd # "kbench" => x.cluster \in Virtual)

(* The goroutines that wg counts, and how far each phase lets them get.    *)
Unfinished == {c \in Clusters : kpc[c] \in {"start", "run", "close"}}

KbenchInv ==
  /\ pc \notin Ended => IsFiniteSet(Unfinished) /\ wg = Cardinality(Unfinished)
  /\ pc \notin {"spawn", "wait"} \union Ended => Unfinished = {}
  /\ pc \in {"create", "resources", "prepare"} =>
       \A c \in Clusters : kpc[c] = "idle"
  /\ pc = "spawn" => \A c \in Clusters :
       kpc[c] # "idle" <=> \E n \in 1..(k - 1) : c = current.clusters[n]
  /\ pc \in {"wait", "collectHost", "collectVirtual"} =>
       \A c \in Clusters : kpc[c] # "idle" <=> c \in ClustersOf(current)
  /\ \A x \in OwnKbench : kpc[x.cluster] = "run"

CollectedInv ==
  /\ pc \in {"create", "resources", "prepare", "spawn", "wait", "collectHost"}
       => collected = NothingCollected
  /\ pc = "collectVirtual" => collected["host"] = ClustersOf(current)
  /\ pc = "report" =>
       /\ collected["host"] = ClustersOf(current)
       /\ collected["virtual"] = IF current.clusterType = "virtual"
                                 THEN ClustersOf(current) ELSE None
  /\ \A r \in reports :
       /\ r.collected["host"] = ClustersOf(r.config)
       /\ r.collected["virtual"] = IF r.config.clusterType = "virtual"
                                   THEN ClustersOf(r.config) ELSE None

(* A host configuration does not get past the namespace it cannot create.  *)
HostInv ==
  /\ /\ Host \in stale /\ Active
     /\ current.clusterType = "host" /\ current.configMaps # 0
     => pc = "resources" /\ m = 0 /\ k = 1
  /\ HostLeftoverStays

(* Reports lie in directories that exist, so that a run whose name was     *)
(* free, or was taken later, finds no reports of another one there.        *)
DirInv ==
  /\ pc \in {"spawn", "wait", "collectHost", "collectVirtual", "report"} =>
       dir[run] \in dirs
  /\ \A r \in reports :
       /\ dir[r.run] \in dirs
       /\ dir[r.run] = dir[run] => r.run = run \/ run \in astray

(* The report of the current configuration is there once it is written,    *)
(* and no configuration is passed over.                                    *)
ReportsInv ==
  /\ pc \in {"cleanup", "delete"} =>
       \E r \in reports : r.run = run /\ r.config = current
  /\ pc # "dead" => \A x \in batch :
       x \in todo \/ x = current \/ <<run, x>> \in completed
  /\ \A done \in completed : done[1] <= run
  /\ ReportsOfCompleted

(* The current configuration has made its n-th namespace, and not removed  *)
(* it yet.                                                                 *)
HasNamespace(n) ==
  /\ current.configMaps # 0 /\ pc \notin {"create", "delete"}
  /\ pc = "resources" => n < k \/ (n = k /\ m > 0)
  /\ pc = "cleanup" => n >= k

(* The clusters, and the namespaces in clusters, that are there because of *)
(* it.                                                                     *)
Made ==
  IF Active THEN ClustersOf(current) \ (IF pc = "delete" THEN served ELSE {})
            ELSE {}
Filled ==
  IF Active
  THEN {current.clusters[n] : n \in {i \in 1..Last : HasNamespace(i)}} ELSE {}

LeftoverInv ==
  /\ exists \subseteq Suspect \union Made
  /\ {c \in Clusters : initial[c] # None} \subseteq Suspect \union Filled
  /\ \A x \in commands :
       IF Own(x)
       THEN /\ Active /\ x.cluster \in ClustersOf(current)
            /\ x.cmd # "kbench" => x.cmd = pc /\ x.cluster \notin served
       ELSE \E died \in crashed :
              died[1] = x.run /\ x.cluster \in ClustersOf(died[2])
  /\ \A died \in crashed : died[1] < run \/ (died[1] = run /\ pc = "dead")
  /\ Active /\ pc \notin {"create", "delete"} => served = {}
  /\ disturbed \subseteq Suspect

(* How far the resources of the current configuration are.                 *)
LoadInv ==
  Active =>
    /\ pc = "create" => m = 0
    /\ pc = "resources" => m <= current.configMaps
    /\ \A n \in 1..Last :
         LET c == current.clusters[n] IN
         c \notin disturbed /\ pc # "delete" =>
           /\ c \in Virtual /\ (pc = "create" => c \in served) => c \in exists
           /\ HasNamespace(n) =>
                initial[c] = IF pc = "resources" /\ n = k
                             THEN m - 1 ELSE current.configMaps

IInv ==
  /\ TypeOK /\ PhaseInv /\ KbenchInv /\ CollectedInv /\ HostInv /\ ReportsInv
  /\ DirInv /\ LeftoverInv /\ LoadInv
=============================================================================
