----------------------------- MODULE Measurement -----------------------------
(***************************************************************************)
(* From the configuration files to what the reports measure: the main      *)
(* functions of vbench, vbench-lifecycle and collect_metrics read the      *)
(* configurations (internal/cmd/utils.go), and the first and the last of   *)
(* them collect the metrics of the host cluster and of the virtual ones,   *)
(* each over a range of time that begins with the run.                     *)
(*                                                                         *)
(* A collection is represented by what its queries select: the clusters    *)
(* whose series match, and the range.  How a run proceeds is the matter of *)
(* Experiment and LifecycleTest, how the queries fill the report that of   *)
(* MetricCollector.                                                        *)
(***************************************************************************)
EXTENDS TestConfig, PromTime, Sequences, FiniteSets

CONSTANTS
  Arguments,  \* what -config may name: a file, or a directory with its files
  Durations,  \* how long the load, or a collection, may take
  Null        \* a nil configuration, a collection that was not made

ASSUME DurationsAssumption == Durations \subseteq Nat

(* The files of a directory are finitely many and have names of their own, *)
(* and the clusters of a configuration have the fields that are read here. *)
IsCluster(cluster) ==
  cluster = [name       |-> cluster.name,
             namespace  |-> cluster.namespace,
             kubeconfig |-> cluster.kubeconfig]

ASSUME ArgumentsAssumption ==
  \A a \in Arguments :
    /\ IsFiniteSet(a.files)
    /\ \A file, other \in a.files : file.name = other.name => file = other
    /\ \A file \in a.files :
         LET object == file.content.object
         IN  "clusters" \in DOMAIN object =>
               \A c \in DOMAIN object.clusters : IsCluster(object.clusters[c])

VARIABLES
  tool,        \* the program that runs
  argument,    \* the value of its flag -config
  pc,          \* where it is
  paths,       \* benchmarkConfigPaths
  configs,     \* testConfigs
  testConfig,  \* the configuration that is being parsed
  n,           \* the path, or the configuration, of the loop under way
  elapsed,     \* the time since the StartTime of the contexts
  collected,   \* the collections into the two contexts
  reports      \* the reports written so far

reading == <<paths, configs, testConfig>>
vars == <<tool, argument, pc, reading, n, elapsed, collected, reports>>

Tools == {"vbench", "vbench-lifecycle", "collect_metrics"}
Contexts == {"host", "virtual"}
Nothing == [context \in Contexts |-> Null]
Ended == {"ended", "dead"}

TypeOK ==
  /\ tool \in Tools /\ argument \in Arguments
  /\ pc \in {"read", "open", "decode", "close", "next", "load",
             "collectHost", "collectVirtual", "report"} \union Ended
  /\ paths \in Seq({argument.root, "home"}
                   \X {file.name : file \in argument.files})
  /\ Len(configs) <= Len(paths)
  /\ n \in 1..(Len(paths) + 1)
  /\ elapsed \in Nat
  /\ \A context \in Contexts : collected[context] # Null =>
       /\ collected[context].range \in 0..collected[context].elapsed
       /\ collected[context].labels # {}

Init ==
  /\ tool \in Tools
  /\ argument \in Arguments
  /\ pc = "read"
  /\ paths = <<>> /\ configs = <<>> /\ testConfig = Null
  /\ n = 1 /\ elapsed = 0
  /\ collected = Nothing
  /\ reports = {}

-----------------------------------------------------------------------------
Main(from, to) ==
  /\ pc = from
  /\ pc' = to
  /\ UNCHANGED <<tool, argument>>

(* The files that are to be read, and the path of one of them: only        *)
(* vbench-lifecycle takes its flag as it is, and as one file.              *)
Json == {file \in argument.files : argument.isDir => file.ext = ".json"}
PathOf(file) ==
  IF tool = "vbench-lifecycle" THEN <<argument.root, file.name>>
                               ELSE ExpandPath(<<argument.root, file.name>>)
FileAt(path) == CHOOSE file \in argument.files : PathOf(file) = path
Content == FileAt(paths[n]).content

Default(path) ==
  IF tool = "vbench-lifecycle" THEN NewDefaultLifecycleTestConfig(path)
                               ELSE NewDefaultTestConfig(path)

(* ReadBenchmarkConfigPaths; Readdir has no order of its own, and vbench   *)
(* shuffles the configurations besides.                                    *)
ReadBenchmarkConfigPaths ==
  /\ Main("read", "open")
  /\ tool = "vbench-lifecycle" => ~argument.isDir
  /\ \E files \in [1..Cardinality(Json) -> Json] :
       /\ \A i, j \in DOMAIN files : files[i] = files[j] => i = j
       /\ paths' = [i \in DOMAIN files |-> PathOf(files[i])]
  /\ UNCHANGED <<configs, testConfig, n, elapsed, collected, reports>>

(* (Faulty variant: one default for all the files.)                        *)
OpenFileOneDefault ==
  /\ Main("open", "decode")
  /\ n <= Len(paths)
  /\ paths[n][1] # "~"
  /\ testConfig' = IF n = 1 \/ testConfig = Null THEN Default(paths[n])
                                              ELSE testConfig
  /\ UNCHANGED <<paths, configs, n, elapsed, collected, reports>>

(* os.OpenFile knows no "~".                                               *)
OpenFile ==
  /\ Main("open", "decode")
  /\ n <= Len(paths)
  /\ paths[n][1] # "~"
  /\ testConfig' = Default(paths[n])
  /\ UNCHANGED <<paths, configs, n, elapsed, collected, reports>>

(* decoder.Decode(&testConfig) of an object; "null" sets the pointer.      *)
DecodeObject ==
  /\ Main("decode", "close")
  /\ Content.kind = "object"
  /\ testConfig' = IF tool = "vbench-lifecycle"
                   THEN UnmarshalLifecycle(testConfig, Content.object)
                   ELSE Unmarshal(testConfig, Content.object)
  /\ UNCHANGED <<paths, configs, n, elapsed, collected, reports>>

DecodeNull ==
  /\ Main("decode", "close")
  /\ Content.kind = "null"
  /\ testConfig' = Null
  /\ UNCHANGED <<paths, configs, n, elapsed, collected, reports>>

CloseFile ==
  /\ Main("close", "open")
  /\ configs' = Append(configs, testConfig)
  /\ n' = n + 1
  /\ UNCHANGED <<paths, testConfig, elapsed, collected, reports>>

AllParsed ==
  /\ Main("open", "next")
  /\ n > Len(paths)
  /\ n' = 1
  /\ UNCHANGED <<reading, elapsed, collected, reports>>

-----------------------------------------------------------------------------
(* The two programs that measure.                                          *)

(* startTime := time.Now(), or five minutes before, and NewContext twice.  *)
StartRun ==
  /\ \/ tool = "vbench" /\ Main("next", "load") /\ elapsed' = 0
     \/ /\ tool = "collect_metrics" /\ n = 1
        /\ Main("next", "collectHost")
        /\ elapsed' = 5 * Minute
  /\ n <= Len(configs)
  /\ configs[n] # Null
  /\ collected' = Nothing
  /\ UNCHANGED <<reading, n, reports>>

(* benchmarkConfigs[0] of an empty slice, or a nil configuration is used.  *)
Panic ==
  /\ Main("next", "dead")
  /\ IF n <= Len(configs) THEN configs[n] = Null
                          ELSE tool # "vbench" /\ n = 1
  /\ UNCHANGED <<reading, n, elapsed, collected, reports>>

(* The kbench goroutines of vbench, from wg.Add to wg.Wait.                *)
RunLoad ==
  /\ Main("load", "collectHost")
  /\ elapsed' \in Durations
  /\ UNCHANGED <<reading, n, collected, reports>>

(* CollectMetrics at the time t of the run, when its ranges end.           *)
(* Prometheus refuses the range "0s": the context stays empty then.        *)
Collection(t, names) ==
  [labels  |-> MatchedLabels(names),
   range   |-> Window(t),
   elapsed |-> t]

(* The queries of a collection take their time.                            *)
Collect(context, names) ==
  /\ collected' = [collected EXCEPT ![context] = Collection(elapsed, names)]
  /\ \E d \in Durations : elapsed' = elapsed + d
  /\ UNCHANGED <<reading, n, reports>>

CollectHost ==
  /\ Main("collectHost", IF configs[n].cluster_type = "virtual"
                         THEN "collectVirtual" ELSE "report")
  /\ Collect("host", HostClusterNames)

CollectVirtual ==
  /\ Main("collectVirtual", "report")
  /\ Collect("virtual", VirtualClusterNames(configs[n]))

(* JsonReporter.Report                                                     *)
Report ==
  /\ Main("report", "next")
  /\ reports' = reports \union {[config    |-> configs[n],
                                 collected |-> collected]}
  /\ n' = n + 1
  /\ UNCHANGED <<reading, elapsed, collected>>

(* vbench has no configuration left; the others only take the first one.   *)
Finish ==
  /\ Main("next", "ended")
  /\ CASE tool = "vbench"           -> n > Len(configs)
       [] tool = "collect_metrics"  -> n > 1
       [] tool = "vbench-lifecycle" -> configs[1] # Null
  /\ UNCHANGED <<reading, n, elapsed, collected, reports>>

(* log.Fatal: os.Stat, OpenFile, Decode, Close and whatever comes later.   *)
Fatal ==
  /\ pc \notin Ended
  /\ Main(pc, "dead")
  /\ UNCHANGED <<reading, n, elapsed, collected, reports>>

Terminated == pc \in Ended /\ UNCHANGED vars

Next ==
  \/ ReadBenchmarkConfigPaths \/ OpenFile \/ DecodeObject \/ DecodeNull
  \/ CloseFile \/ AllParsed
  \/ StartRun \/ Panic \/ RunLoad \/ CollectHost \/ CollectVirtual \/ Report
  \/ Finish \/ Fatal \/ Terminated

Spec == Init /\ [][Next]_vars

-----------------------------------------------------------------------------
(* Properties.                                                             *)

Own(i) == FileAt(paths[i]).content.object
Given(i, f, otherwise) == IF f \in DOMAIN Own(i) THEN Own(i)[f] ELSE otherwise

(* The clusters of a configuration keep their names and kubeconfigs, and   *)
(* share a namespace only when their file asks for that.                   *)
ClustersAreOwn(i) ==
  LET given == Given(i, "clusters", <<>>)
      clusters == configs[i].clusters
  IN  /\ DOMAIN clusters = DOMAIN given
      /\ \A c \in DOMAIN given :
           /\ clusters[c].name = given[c].name
           /\ clusters[c].kubeconfig = given[c].kubeconfig
           /\ clusters[c].namespace # NoNamespace
      /\ \A c, d \in DOMAIN given :
           clusters[c].namespace = clusters[d].namespace =>
             \/ given[c].name = given[d].name
             \/ {given[c].namespace, given[d].namespace} # {NoNamespace}

(* Each JSON file gives one configuration, whatever the order of reading,  *)
(* and it depends on this file alone: what the file does not say is the    *)
(* default and nothing that stood in another file.  No path that is used   *)
(* on its own begins with "~" any more.                                    *)
OneConfigPerFile ==
  /\ pc \in {"next", "load", "report", "ended"} =>
       /\ Len(configs) = Cardinality(Json)
       /\ {FileAt(paths[i]) : i \in DOMAIN configs} = Json
  /\ \A i \in DOMAIN configs : configs[i] # Null =>
       /\ \A f \in {"name", "cluster_type", "prometheus_conn_type",
                    "should_provision_monitoring"}
                   \intersect DOMAIN configs[i] :
            configs[i][f] = Given(i, f, Default(NoPath)[f])
       /\ \A f \in ExpandedFields \intersect DOMAIN configs[i] :
            configs[i][f][1] # "~"
       /\ configs[i].config_path =
            ExpandPath(Given(i, "config_path", paths[i]))
       /\ tool # "vbench-lifecycle" => ClustersAreOwn(i)

(* The virtual clusters of a configuration that count as such.             *)
VirtualNames(config) ==
  {config.clusters[i].name : i \in DOMAIN config.clusters} \ {"host"}

ViewsApartIn(r) ==
  LET own == VirtualNames(r.config)
  IN  /\ r.collected["host"].labels = {""}
      /\ IF r.config.cluster_type # "virtual"
         THEN r.collected["virtual"] = Null
         ELSE IF own # {} /\ "" \notin own
              THEN r.collected["virtual"].labels = own
              ELSE "" \in r.collected["virtual"].labels

(* The host's part of a report is made of host series only, and the        *)
(* virtual part of the series of this benchmark's virtual clusters and no  *)
(* others; but a benchmark that names none of them, or leaves a name out,  *)
(* finds the host's series there, too.                                     *)
ViewsApart == \A r \in reports : ViewsApartIn(r)

Covered(c) ==
  /\ c.range <= c.elapsed
  /\ IF c.range = 0 THEN c.elapsed < Second ELSE 2 * c.range > c.elapsed

WindowsIn(r) ==
  /\ Covered(r.collected["host"])
  /\ r.collected["virtual"] # Null =>
       /\ Covered(r.collected["virtual"])
       /\ r.collected["host"].range <= r.collected["virtual"].range

(* A collection looks back to the start of its own run and no further, and *)
(* misses less than half of it, unless the run took less than a second:    *)
(* then its part of the report is empty.  The virtual clusters, which are  *)
(* collected later, are measured over at least the range of the host.      *)
WindowsCoverTheRun == \A r \in reports : WindowsIn(r)

-----------------------------------------------------------------------------
(* Why they hold: an inductive invariant.                                  *)

(* A context was collected at the time t of the run, or earlier.           *)
MadeBy(context, names, t) ==
  LET made == collected[context]
  IN  /\ made.elapsed \in Nat /\ made.elapsed <= t
      /\ made = Collection(made.elapsed, names)

(* The contexts follow the steps of the run, the host's comes first.       *)
ContextsFollow ==
  /\ DOMAIN collected = Contexts
  /\ pc \in {"load", "collectHost"} => collected = Nothing
  /\ pc = "collectVirtual" =>
       /\ configs[n].cluster_type = "virtual"
       /\ collected["virtual"] = Null
       /\ MadeBy("host", HostClusterNames, elapsed)
  /\ pc = "report" =>
       IF configs[n].cluster_type = "virtual"
       THEN /\ MadeBy("virtual", VirtualClusterNames(configs[n]), elapsed)
            /\ MadeBy("host", HostClusterNames, collected["virtual"].elapsed)
       ELSE /\ MadeBy("host", HostClusterNames, elapsed)
            /\ collected["virtual"] = Null

(* The paths are those of the files, each of them once.                    *)
PathsFollow ==
  /\ pc = "read" => paths = <<>>
  /\ pc \notin {"read", "dead"} => Len(paths) = Cardinality(Json)
  /\ \A i \in DOMAIN paths : \E file \in Json : paths[i] = PathOf(file)
  /\ \A i, j \in DOMAIN paths : paths[i] = paths[j] => i = j

(* The configuration in the file with this path.                           *)
IsJSON(path) == FileAt(path).content.kind \in {"object", "null"}
FromFile(path) ==
  IF FileAt(path).content.kind = "null" THEN Null
  ELSE IF tool = "vbench-lifecycle"
       THEN UnmarshalLifecycle(Default(path), FileAt(path).content.object)
       ELSE Unmarshal(Default(path), FileAt(path).content.object)

(* The files are parsed one after the other, each over its own default,    *)
(* and only the configurations that were parsed are run.                   *)
ConfigsFollow ==
  /\ Len(configs) \in Nat
  /\ configs = [i \in 1..Len(configs) |-> FromFile(paths[i])]
  /\ \A i \in DOMAIN configs : IsJSON(paths[i])
  /\ pc = "read" => Len(configs) = 0 /\ n = 1
  /\ pc \in {"open", "decode", "close"} => n = Len(configs) + 1
  /\ pc \in {"decode", "close"} => n <= Len(paths)
  /\ pc = "decode" => testConfig = Default(paths[n])
  /\ pc = "close" => IsJSON(paths[n]) /\ testConfig = FromFile(paths[n])
  /\ pc \notin {"read", "open", "decode", "close", "dead"} =>
       Len(configs) = Len(paths)
  /\ pc \in {"load", "collectHost", "collectVirtual", "report"} =>
       n <= Len(configs)

RunInv ==
  /\ elapsed \in Nat
  /\ ContextsFollow
  /\ ViewsApart
  /\ WindowsCoverTheRun

IInv == TypeOK /\ PathsFollow /\ ConfigsFollow /\ RunInv
=============================================================================
