-------------------------- MODULE MeasurementProofs --------------------------
(* Theorems about Measurement, for any files, durations and configurations. *)
EXTENDS Measurement, FiniteSetTheorems, TLAPS

(* ToPrometheusTime, for every duration: the range never reaches back      *)
(* beyond the start of the run, it covers more than half of a run of a     *)
(* second or longer, and it is zero for a shorter one only.                *)
LEMMA WindowBounds ==
  ASSUME NEW t \in Nat
  PROVE  /\ Window(t) \in Nat
         /\ Window(t) <= t
         /\ Window(t) = 0 => t < Second
         /\ Window(t) # 0 => 2 * Window(t) > t
<1>1. CASE t < Minute
  BY <1>1 DEF Window, ToPrometheusTime, Second, Minute
<1>2. CASE t >= Minute
  BY <1>2 DEF Window, ToPrometheusTime, Second, Minute
<1>3. QED
  BY <1>1, <1>2 DEF Second, Minute

(* Who is measured later is measured over at least the same range, also    *)
(* across the change from seconds to minutes.                              *)
THEOREM WindowIsMonotone ==
  ASSUME NEW t \in Nat, NEW u \in Nat, t <= u
  PROVE  Window(t) <= Window(u)
<1>1. CASE u < Minute
  BY <1>1 DEF Window, ToPrometheusTime, Second, Minute
<1>2. CASE t >= Minute
  BY <1>2 DEF Window, ToPrometheusTime, Second, Minute
<1>3. CASE t < Minute /\ u >= Minute
  <2>1. Window(t) <= 60000
    BY <1>3, WindowBounds DEF Minute, Second
  <2>2. Window(u) >= 60000
    BY <1>3 DEF Window, ToPrometheusTime, Minute, Second
  <2>3. QED
    BY <2>1, <2>2, WindowBounds
<1>4. QED
  BY <1>1, <1>2, <1>3 DEF Minute, Second

LEMMA CollectionFields ==
  ASSUME NEW t, NEW names
  PROVE  /\ Collection(t, names).labels = MatchedLabels(names)
         /\ Collection(t, names).range = Window(t)
         /\ Collection(t, names).elapsed = t
BY DEF Collection

LEMMA CollectionCovers ==
  ASSUME NEW t \in Nat, NEW names
  PROVE  Covered(Collection(t, names))
<1>1. /\ Collection(t, names).range = Window(t)
      /\ Collection(t, names).elapsed = t
  BY CollectionFields
<1>2. QED
  BY <1>1, WindowBounds DEF Covered

LEMMA HostLabels == MatchedLabels(HostClusterNames) = {""}
BY DEF MatchedLabels, HostClusterNames

(* The report that is about to be written.                                 *)
LEMMA ReportIsGood ==
  ASSUME RunInv, pc = "report",
         NEW r, r.config = configs[n], r.collected = collected
  PROVE  ViewsApartIn(r) /\ WindowsIn(r)
<1> DEFINE c == collected
           isVirtual == configs[n].cluster_type = "virtual"
           host == c["host"].elapsed
           time == c["virtual"].elapsed
           names == VirtualClusterNames(configs[n])
<1>1. host \in Nat /\ c["host"] = Collection(host, HostClusterNames)
  BY DEF RunInv, ContextsFollow, MadeBy
<1>2. c["host"].labels = {""} /\ Covered(c["host"])
  <2>1. c["host"].labels = MatchedLabels(HostClusterNames)
    BY <1>1, CollectionFields
  <2>2. Covered(c["host"])
    BY <1>1, CollectionCovers
  <2>3. QED
    BY <2>1, <2>2, HostLabels
<1>3. CASE isVirtual
  <2>1. time \in Nat /\ c["virtual"] = Collection(time, names) /\ host <= time
    BY <1>3 DEF RunInv, ContextsFollow, MadeBy
  <2>2. c["virtual"].labels = MatchedLabels(names) /\ Covered(c["virtual"])
    BY <2>1, CollectionFields, CollectionCovers
  <2>3. VirtualNames(r.config) = names
    BY DEF VirtualClusterNames, VirtualNames
  <2>4. ViewsApartIn(r)
    <3> HIDE DEF names
    <3>1. QED
      BY <1>2, <1>3, <2>2, <2>3 DEF ViewsApartIn, MatchedLabels
  <2>5. c["host"].range <= c["virtual"].range
    <3>1. Window(host) <= Window(time)
      BY <1>1, <2>1, WindowIsMonotone
    <3>2. c["host"].range = Window(host) /\ c["virtual"].range = Window(time)
      BY <1>1, <2>1, CollectionFields
    <3>3. QED
      BY <3>1, <3>2
  <2>6. QED
    BY <1>2, <2>2, <2>4, <2>5 DEF WindowsIn
<1>4. CASE ~isVirtual
  <2>1. c["virtual"] = Null
    BY <1>4 DEF RunInv, ContextsFollow
  <2>2. QED
    BY <1>2, <1>4, <2>1 DEF ViewsApartIn, WindowsIn
<1>5. QED
  BY <1>3, <1>4

LEMMA InitRunInv == Init => RunInv
BY DEF Init, RunInv, ContextsFollow, Nothing, ViewsApart, WindowsCoverTheRun

(* The contexts are made for a run, are collected one after the other, and *)
(* go into the report.                                                     *)
LEMMA StepContexts ==
  ASSUME elapsed \in Nat, ContextsFollow, [Next]_vars
  PROVE  elapsed' \in Nat /\ ContextsFollow'
<1> USE DurationsAssumption
<1>1. CASE UNCHANGED vars
  BY <1>1 DEF vars, reading, ContextsFollow, MadeBy
<1>2. CASE \/ ReadBenchmarkConfigPaths \/ OpenFile \/ DecodeObject
           \/ DecodeNull \/ CloseFile \/ AllParsed \/ Panic \/ Report
           \/ Finish \/ Fatal
  <2>1. /\ UNCHANGED <<elapsed, collected>>
        /\ pc' \notin {"load", "collectHost", "collectVirtual", "report"}
    BY <1>2 DEF ReadBenchmarkConfigPaths, OpenFile, DecodeObject, DecodeNull,
         CloseFile, AllParsed, Panic, Report, Finish, Fatal, Main, reading
  <2>2. QED
    BY <2>1 DEF ContextsFollow
<1>3. CASE StartRun
  <2>1. elapsed' \in Nat
    BY <1>3 DEF StartRun, Minute, Second
  <2>2. QED
    BY <1>3, <2>1 DEF StartRun, Main, ContextsFollow, Nothing
<1>4. CASE RunLoad
  BY <1>4 DEF RunLoad, Main, ContextsFollow, reading
<1>5. CASE CollectHost
  <2>0. pc = "collectHost" /\ \E d \in Durations : elapsed' = elapsed + d
    BY <1>5 DEF CollectHost, Collect, Main
  <2>1. /\ collected = Nothing /\ DOMAIN collected = Contexts
        /\ elapsed' \in Nat /\ elapsed <= elapsed'
    <3>1. collected = Nothing /\ DOMAIN collected = Contexts
      BY <2>0 DEF ContextsFollow
    <3>2. elapsed' \in Nat /\ elapsed <= elapsed'
      BY <2>0
    <3>3. QED
      BY <3>1, <3>2
  <2>2. /\ DOMAIN collected' = Contexts
        /\ collected'["host"] = Collection(elapsed, HostClusterNames)
        /\ collected'["virtual"] = Null
    BY <1>5, <2>1 DEF CollectHost, Collect, Contexts, Nothing
  <2>3. MadeBy("host", HostClusterNames, elapsed)'
    BY <2>1, <2>2, CollectionFields DEF MadeBy
  <2>4. /\ configs' = configs /\ n' = n
        /\ pc' = IF configs[n].cluster_type = "virtual"
                 THEN "collectVirtual" ELSE "report"
    BY <1>5 DEF CollectHost, Collect, Main, reading
  <2>5. QED
    BY <2>1, <2>2, <2>3, <2>4 DEF ContextsFollow
<1>6. CASE CollectVirtual
  <2> DEFINE names == VirtualClusterNames(configs[n])
  <2>1. /\ configs[n].cluster_type = "virtual" /\ DOMAIN collected = Contexts
        /\ collected["host"].elapsed \in Nat
        /\ collected["host"].elapsed <= elapsed
        /\ collected["host"] =
             Collection(collected["host"].elapsed, HostClusterNames)
        /\ elapsed' \in Nat /\ elapsed <= elapsed'
    <3>1. /\ pc = "collectVirtual"
          /\ \E d \in Durations : elapsed' = elapsed + d
      BY <1>6 DEF CollectVirtual, Collect, Main
    <3>2. elapsed' \in Nat /\ elapsed <= elapsed'
      BY <3>1
    <3>3. /\ configs[n].cluster_type = "virtual"
          /\ DOMAIN collected = Contexts
          /\ MadeBy("host", HostClusterNames, elapsed)
      BY <3>1 DEF ContextsFollow
    <3>4. QED
      BY <3>2, <3>3 DEF MadeBy
  <2>2. /\ DOMAIN collected' = Contexts
        /\ collected'["virtual"] = Collection(elapsed, names)
        /\ collected'["host"] = collected["host"]
    BY <1>6, <2>1 DEF CollectVirtual, Collect, Contexts
  <2>3. configs' = configs /\ n' = n /\ pc' = "report"
    BY <1>6 DEF CollectVirtual, Collect, Main, reading
  <2>4. collected'["virtual"].elapsed = elapsed
    BY <2>2, CollectionFields
  <2>5. VirtualClusterNames(configs[n])' = names
    BY <2>3 DEF VirtualClusterNames
  <2>6. MadeBy("virtual", VirtualClusterNames(configs[n]), elapsed)'
    BY <2>1, <2>2, <2>4, <2>5 DEF MadeBy
  <2>7. MadeBy("host", HostClusterNames, collected["virtual"].elapsed)'
    BY <2>1, <2>2, <2>4 DEF MadeBy
  <2>8. QED
    BY <2>1, <2>2, <2>3, <2>6, <2>7 DEF ContextsFollow
<1>7. CASE Terminated
  BY <1>7, <1>1 DEF Terminated
<1>8. QED
  BY <1>1, <1>2, <1>3, <1>4, <1>5, <1>6, <1>7 DEF Next

LEMMA StepRunInv == RunInv /\ [Next]_vars => RunInv'
<1> SUFFICES ASSUME RunInv, [Next]_vars PROVE RunInv'
  OBVIOUS
<1>1. elapsed' \in Nat /\ ContextsFollow'
  BY StepContexts DEF RunInv
<1>2. CASE UNCHANGED reports
  BY <1>1, <1>2 DEF RunInv, ViewsApart, WindowsCoverTheRun
<1>3. CASE Report
  <2> DEFINE new == [config |-> configs[n], collected |-> collected]
  <2>1. reports' = reports \union {new} /\ pc = "report"
    BY <1>3 DEF Report, Main
  <2>2. new.config = configs[n] /\ new.collected = collected
    OBVIOUS
  <2>3. ViewsApartIn(new) /\ WindowsIn(new)
    BY <2>1, <2>2, ReportIsGood
  <2>4. ViewsApart' /\ WindowsCoverTheRun'
    BY <2>1, <2>3 DEF RunInv, ViewsApart, WindowsCoverTheRun
  <2>5. QED
    BY <1>1, <2>4 DEF RunInv
<1>4. UNCHANGED reports \/ Report
  BY DEF Next, vars, ReadBenchmarkConfigPaths, OpenFile, DecodeObject,
    DecodeNull, CloseFile, AllParsed, StartRun, Panic, RunLoad, CollectHost,
    CollectVirtual, Collect, Finish, Fatal, Terminated
<1>5. QED
  BY <1>2, <1>3, <1>4

(***************************************************************************)
(* The operators of TestConfig, for every configuration and object.        *)
(***************************************************************************)

(* An expanded path does not begin with "~", and keeps what follows.       *)
LEMMA Expanded ==
  ASSUME NEW path
  PROVE  ExpandPath(path)[1] # "~" /\ ExpandPath(path)[2] = path[2]
BY DEF ExpandPath

(* A field is that of the object, or else of the default, with its path    *)
(* expanded; no other field comes in.                                      *)
LEMMA MergedField ==
  ASSUME NEW default, NEW object, NEW f \in DOMAIN default
  PROVE  expandPaths(Merged(default, object))[f] =
           LET value == IF f \in DOMAIN object THEN object[f]
                                               ELSE default[f]
           IN  IF f \in ExpandedFields THEN ExpandPath(value) ELSE value
BY DEF expandPaths, Merged

LEMMA MergedDomain ==
  ASSUME NEW default, NEW object
  PROVE  DOMAIN expandPaths(Merged(default, object)) = DOMAIN default
BY DEF expandPaths, Merged

(* The clusters with their namespaces: nothing else of them changes, and   *)
(* the default namespaces of different clusters are different.             *)
LEMMA ClustersWithNamespaces ==
  ASSUME NEW given, \A c \in DOMAIN given : IsCluster(given[c])
  PROVE  LET clusters == WithNamespaces(given)
         IN  /\ DOMAIN clusters = DOMAIN given
             /\ \A c \in DOMAIN given :
                  /\ clusters[c].name = given[c].name
                  /\ clusters[c].kubeconfig = given[c].kubeconfig
                  /\ clusters[c].namespace = Namespace(given[c])
BY DEF WithNamespaces, IsCluster

LEMMA NamespacesApart ==
  ASSUME NEW cluster, NEW other
  PROVE  /\ Namespace(cluster) # NoNamespace
         /\ Namespace(cluster) = Namespace(other) =>
              \/ cluster.name = other.name
              \/ {cluster.namespace, other.namespace} # {NoNamespace}
BY DEF Namespace, DefaultNamespace, NoNamespace

(***************************************************************************)
(* Reading the files.                                                      *)
(***************************************************************************)

LEMMA PathOfFile ==
  ASSUME NEW file \in argument.files
  PROVE  /\ PathOf(file)[2] = file.name
         /\ PathOf(file) \in {argument.root, "home"}
                             \X {f.name : f \in argument.files}
BY DEF PathOf, ExpandPath

(* A path stands for one file of the argument.                             *)
LEMMA FileAtPath ==
  ASSUME argument \in Arguments, NEW file \in argument.files
  PROVE  FileAt(PathOf(file)) = file
<1>1. \A other \in argument.files :
        PathOf(other) = PathOf(file) => other = file
  BY PathOfFile, ArgumentsAssumption
<1>2. QED
  BY <1>1 DEF FileAt

LEMMA JsonIsFinite ==
  ASSUME argument \in Arguments
  PROVE  IsFiniteSet(Json) /\ Cardinality(Json) \in Nat
<1>1. IsFiniteSet(argument.files)
  BY ArgumentsAssumption
<1>2. Json \in SUBSET argument.files
  BY DEF Json
<1>3. QED
  BY <1>1, <1>2, FS_Subset, FS_CardinalityType

(* What the file with a path holds depends on the program and its argument *)
(* alone.                                                                  *)
LEMMA SameFiles ==
  ASSUME UNCHANGED <<tool, argument>>
  PROVE  /\ Json' = Json
         /\ \A path : IsJSON(path)' <=> IsJSON(path)
         /\ \A path : FromFile(path)' = FromFile(path)
         /\ \A path : Default(path)' = Default(path)
         /\ \A file : PathOf(file)' = PathOf(file)
BY DEF Json, IsJSON, FromFile, Default, FileAt, PathOf

(* Append, for a sequence that is given by its elements.                   *)
LEMMA AppendedOne ==
  ASSUME NEW m \in Nat, NEW s, s = [i \in 1..m |-> s[i]], NEW e
  PROVE  /\ Len(Append(s, e)) = m + 1
         /\ Append(s, e) = [i \in 1..(m + 1) |-> IF i <= m THEN s[i] ELSE e]
<1> DEFINE S == {s[i] : i \in 1..m} \union {e}
<1>1. s \in Seq(S) /\ Len(s) = m
  <2>1. s \in [1..m -> S]
    OBVIOUS
  <2>2. QED
    BY <2>1
<1>2. e \in S
  OBVIOUS
<1> HIDE DEF S
<1>3. QED
  BY <1>1, <1>2

(* Which actions touch what, and where they lead.                          *)
LEMMA Frames ==
  ASSUME [Next]_vars
  PROVE  /\ UNCHANGED <<tool, argument>>
         /\ pc' # "read" \/ UNCHANGED vars
         /\ ReadBenchmarkConfigPaths \/ UNCHANGED paths
         /\ CloseFile \/ UNCHANGED configs
         /\ OpenFile \/ DecodeObject \/ DecodeNull \/ UNCHANGED testConfig
<1>1. CASE UNCHANGED vars
  BY <1>1 DEF vars, reading
<1>2. CASE ReadBenchmarkConfigPaths
  BY <1>2 DEF ReadBenchmarkConfigPaths, Main
<1>3. CASE OpenFile \/ DecodeObject \/ DecodeNull \/ CloseFile \/ AllParsed
  BY <1>3 DEF OpenFile, DecodeObject, DecodeNull, CloseFile, AllParsed, Main,
    reading
<1>4. CASE \/ StartRun \/ Panic \/ RunLoad \/ CollectHost \/ CollectVirtual
           \/ Report \/ Finish \/ Fatal
  BY <1>4 DEF StartRun, Panic, RunLoad, CollectHost, CollectVirtual, Collect,
    Report, Finish, Fatal, Main, reading
<1>5. CASE Terminated
  BY <1>1, <1>5 DEF Terminated
<1>6. QED
  BY <1>1, <1>2, <1>3, <1>4, <1>5 DEF Next

(* The paths are known before anything that uses them.                     *)
LEMMA StepPaths ==
  ASSUME argument \in Arguments, PathsFollow, [Next]_vars
  PROVE  PathsFollow'
<1>1. UNCHANGED <<tool, argument>>
  BY Frames
<1>2. Json' = Json /\ \A file : PathOf(file)' = PathOf(file)
  BY <1>1, SameFiles
<1>3. CASE ReadBenchmarkConfigPaths
  <2> DEFINE k == Cardinality(Json)
  <2>1. PICK files \in [1..k -> Json] :
          /\ \A i, j \in DOMAIN files : files[i] = files[j] => i = j
          /\ paths' = [i \in DOMAIN files |-> PathOf(files[i])]
    BY <1>3 DEF ReadBenchmarkConfigPaths
  <2>2. k \in Nat
    BY JsonIsFinite
  <2>3. DOMAIN paths' = 1..k /\ \A i \in 1..k : paths'[i] = PathOf(files[i])
    BY <2>1
  <2>4. \A i \in 1..k : files[i] \in Json /\ files[i] \in argument.files
    BY <2>1 DEF Json
  <2>5. Len(paths') = k
    <3>1. paths' \in Seq({PathOf(files[i]) : i \in 1..k})
      BY <2>1, <2>2, <2>3
    <3>2. QED
      BY <2>2, <2>3, <3>1
  <2>6. \A i, j \in 1..k : paths'[i] = paths'[j] => i = j
    <3>1. \A i, j \in 1..k : paths'[i] = paths'[j] => files[i] = files[j]
      BY <2>3, <2>4, FileAtPath
    <3>2. QED
      BY <2>1, <3>1
  <2>7. pc' = "open"
    BY <1>3 DEF ReadBenchmarkConfigPaths, Main
  <2>8. QED
    BY <1>2, <2>3, <2>4, <2>5, <2>6, <2>7 DEF PathsFollow
<1>4. CASE ~ReadBenchmarkConfigPaths
  <2>1. UNCHANGED paths
    BY <1>4, Frames
  <2>2. pc' = "read" => pc = "read"
    BY Frames DEF vars
  <2>3. pc' \notin {"read", "dead"} => pc \notin {"read", "dead"}
    BY <1>4 DEF Next, vars, OpenFile, DecodeObject, DecodeNull, CloseFile,
      AllParsed, StartRun, Panic, RunLoad, CollectHost, CollectVirtual,
      Report, Finish, Fatal, Terminated, Main, Ended
  <2>4. QED
    BY <1>2, <2>1, <2>2, <2>3 DEF PathsFollow
<1>5. QED
  BY <1>3, <1>4

(* The file that is open is decoded over its own default.                  *)
LEMMA StepConfigs ==
  ASSUME argument \in Arguments, PathsFollow, ConfigsFollow, TypeOK,
         [Next]_vars
  PROVE  ConfigsFollow'
<1> DEFINE m == Len(configs)
<1>0. /\ UNCHANGED <<tool, argument>>
      /\ \A path : IsJSON(path)' <=> IsJSON(path)
      /\ \A path : FromFile(path)' = FromFile(path)
      /\ \A path : Default(path)' = Default(path)
  <2>1. UNCHANGED <<tool, argument>>
    BY Frames
  <2>2. QED
    BY <2>1, SameFiles
<1>1. /\ m \in Nat /\ DOMAIN configs = 1..m
      /\ configs = [i \in 1..m |-> FromFile(paths[i])]
      /\ \A i \in 1..m : IsJSON(paths[i])
  BY DEF ConfigsFollow
<1>2. CASE UNCHANGED vars
  BY <1>0, <1>1, <1>2 DEF vars, reading, ConfigsFollow
<1>3. CASE ReadBenchmarkConfigPaths
  <2>1. /\ pc = "read" /\ pc' = "open"
        /\ UNCHANGED <<configs, n>>
    BY <1>3 DEF ReadBenchmarkConfigPaths, Main
  <2>2. m = 0 /\ n = 1
    BY <2>1 DEF ConfigsFollow
  <2>3. configs' = [i \in 1..Len(configs') |-> FromFile(paths[i])']
    BY <1>1, <2>1, <2>2
  <2>4. QED
    BY <1>1, <2>1, <2>2, <2>3 DEF ConfigsFollow
<1>4. CASE OpenFile
  <2>1. /\ pc = "open" /\ pc' = "decode" /\ n <= Len(paths)
        /\ testConfig' = Default(paths[n])
        /\ UNCHANGED <<paths, configs, n>>
    BY <1>4 DEF OpenFile, Main
  <2>2. QED
    BY <1>0, <1>1, <2>1 DEF ConfigsFollow
<1>5. CASE DecodeObject
  <2>1. /\ pc = "decode" /\ pc' = "close"
        /\ Content.kind = "object"
        /\ testConfig' = IF tool = "vbench-lifecycle"
                         THEN UnmarshalLifecycle(testConfig, Content.object)
                         ELSE Unmarshal(testConfig, Content.object)
        /\ UNCHANGED <<paths, configs, n>>
    BY <1>5 DEF DecodeObject, Main
  <2>2. testConfig = Default(paths[n])
    BY <2>1 DEF ConfigsFollow
  <2>3. IsJSON(paths[n]) /\ testConfig' = FromFile(paths[n])
    BY <2>1, <2>2 DEF Content, IsJSON, FromFile
  <2>4. QED
    BY <1>0, <1>1, <2>1, <2>3 DEF ConfigsFollow
<1>6. CASE DecodeNull
  <2>1. /\ pc = "decode" /\ pc' = "close"
        /\ Content.kind = "null" /\ testConfig' = Null
        /\ UNCHANGED <<paths, configs, n>>
    BY <1>6 DEF DecodeNull, Main
  <2>2. IsJSON(paths[n]) /\ testConfig' = FromFile(paths[n])
    BY <2>1 DEF Content, IsJSON, FromFile
  <2>3. QED
    BY <1>0, <1>1, <2>1, <2>2 DEF ConfigsFollow
<1>7. CASE CloseFile
  <2>1. /\ pc = "close" /\ pc' = "open"
        /\ configs' = Append(configs, testConfig) /\ n' = n + 1
        /\ UNCHANGED paths
    BY <1>7 DEF CloseFile, Main
  <2>2. n = m + 1 /\ IsJSON(paths[n]) /\ testConfig = FromFile(paths[n])
    BY <2>1 DEF ConfigsFollow
  <2>3. /\ Len(configs') = m + 1
        /\ configs' = [i \in 1..(m + 1) |-> IF i <= m THEN configs[i]
                                                      ELSE testConfig]
    <3>1. configs = [i \in 1..m |-> configs[i]]
      BY <1>1
    <3> HIDE DEF m
    <3>2. QED
      BY <1>1, <2>1, <3>1, AppendedOne
  <2>4. \A i \in 1..(m + 1) : (i <= m /\ i \in 1..m) \/ i = n
    BY <1>1, <2>2
  <2>5. configs' = [i \in 1..(m + 1) |-> FromFile(paths[i])]
    <3>1. \A i \in 1..(m + 1) : configs'[i] = FromFile(paths[i])
      BY <1>1, <2>2, <2>3, <2>4
    <3>2. QED
      BY <2>3, <3>1
  <2>6. \A i \in DOMAIN configs' : IsJSON(paths[i])
    BY <1>1, <2>2, <2>4, <2>5
  <2>7. QED
    BY <1>0, <1>1, <2>1, <2>2, <2>3, <2>5, <2>6 DEF ConfigsFollow
<1>8. CASE AllParsed
  <2>1. /\ pc = "open" /\ pc' = "next" /\ n > Len(paths)
        /\ UNCHANGED <<paths, configs>>
    BY <1>8 DEF AllParsed, Main, reading
  <2>2. Len(configs) = Len(paths)
    <3>1. Len(configs) <= Len(paths) /\ Len(paths) \in Nat /\ n = m + 1
      BY <2>1 DEF ConfigsFollow, TypeOK
    <3>2. QED
      BY <1>1, <2>1, <3>1
  <2>3. QED
    BY <1>0, <1>1, <2>1, <2>2 DEF ConfigsFollow
<1>9. CASE \/ StartRun \/ RunLoad \/ CollectHost \/ CollectVirtual \/ Report
           \/ Panic \/ Finish \/ Fatal
  <2>1. /\ UNCHANGED <<paths, configs, testConfig>>
        /\ pc' \notin {"read", "open", "decode", "close"}
        /\ \/ pc' = "dead"
           \/ pc \notin {"read", "open", "decode", "close", "dead"}
        /\ \/ pc' \notin {"load", "collectHost", "collectVirtual", "report"}
           \/ n' = n /\ n <= Len(configs)
           \/ /\ n' = n
              /\ pc \in {"load", "collectHost", "collectVirtual", "report"}
    BY <1>9 DEF StartRun, RunLoad, CollectHost, CollectVirtual, Collect,
      Report, Panic, Finish, Fatal, Main, reading
  <2>2. QED
    BY <1>0, <1>1, <2>1 DEF ConfigsFollow
<1>10. CASE Terminated
  BY <1>2, <1>10 DEF Terminated
<1>11. QED
  BY <1>2, <1>3, <1>4, <1>5, <1>6, <1>7, <1>8, <1>9, <1>10 DEF Next

LEMMA CollectionType ==
  ASSUME NEW t \in Nat, NEW names
  PROVE  /\ Collection(t, names).range \in 0..Collection(t, names).elapsed
         /\ Collection(t, names).labels # {}
<1>1. /\ Collection(t, names).labels = MatchedLabels(names)
      /\ Collection(t, names).range = Window(t)
      /\ Collection(t, names).elapsed = t
  BY CollectionFields
<1>2. MatchedLabels(names) # {}
  BY DEF MatchedLabels
<1>3. Window(t) \in 0..t
  BY WindowBounds
<1>4. QED
  BY <1>1, <1>2, <1>3

LEMMA StepType ==
  ASSUME IInv, [Next]_vars
  PROVE  TypeOK'
<1> DEFINE m == Len(configs)
           good(c, context) == c[context] # Null =>
                                 /\ c[context].range \in 0..c[context].elapsed
                                 /\ c[context].labels # {}
           names == {file.name : file \in argument.files}
           later == {"next", "load", "collectHost", "collectVirtual",
                     "report"} \union Ended
<1>0. /\ TypeOK /\ PathsFollow /\ ConfigsFollow /\ ContextsFollow
      /\ argument \in Arguments /\ elapsed \in Nat /\ m \in Nat
      /\ Len(paths) \in Nat
  BY DEF IInv, TypeOK, RunInv, ConfigsFollow
<1>1. UNCHANGED <<tool, argument>>
  BY Frames
<1>2. PathsFollow' /\ ConfigsFollow' /\ elapsed' \in Nat
  BY <1>0, StepPaths, StepConfigs, StepContexts
<1>3. paths' \in Seq({argument.root, "home"} \X names)
  <2>1. CASE UNCHANGED paths
    BY <1>0, <2>1 DEF TypeOK
  <2>2. CASE ReadBenchmarkConfigPaths
    <3> DEFINE k == Cardinality(Json)
               S == {argument.root, "home"} \X names
    <3>1. PICK files \in [1..k -> Json] :
            paths' = [i \in DOMAIN files |-> PathOf(files[i])]
      BY <2>2 DEF ReadBenchmarkConfigPaths
    <3>2. k \in Nat
      BY <1>0, JsonIsFinite
    <3>3. \A i \in 1..k : PathOf(files[i]) \in S
      BY PathOfFile DEF Json
    <3>4. paths' \in [1..k -> S]
      BY <3>1, <3>3
    <3> HIDE DEF S, k
    <3>5. QED
      BY <3>2, <3>4 DEF S
  <2>3. QED
    BY <2>1, <2>2, Frames
<1>4. \A context \in Contexts : good(collected', context)
  <2>0. \A context \in Contexts : good(collected, context)
    BY <1>0 DEF TypeOK
  <2>1. CASE UNCHANGED collected
    BY <2>0, <2>1
  <2>2. CASE collected' = Nothing
    BY <2>2 DEF Nothing
  <2>3. CASE \E context, which :
               /\ context \in Contexts
               /\ collected' = [collected EXCEPT ![context] =
                                  Collection(elapsed, which)]
    <3>1. PICK context, which :
            /\ context \in Contexts
            /\ collected' = [collected EXCEPT ![context] =
                               Collection(elapsed, which)]
      BY <2>3
    <3>2. DOMAIN collected = Contexts
      BY <1>0 DEF ContextsFollow
    <3>3. /\ collected'[context] = Collection(elapsed, which)
          /\ \A other \in Contexts \ {context} :
               collected'[other] = collected[other]
      BY <3>1, <3>2
    <3>4. good(collected', context)
      BY <1>0, <3>3, CollectionType
    <3>5. QED
      BY <2>0, <3>3, <3>4
  <2>4. CASE CollectHost \/ CollectVirtual
    BY <2>3, <2>4 DEF CollectHost, CollectVirtual, Collect, Contexts
  <2>5. QED
    BY <2>1, <2>2, <2>4 DEF Next, vars, ReadBenchmarkConfigPaths, OpenFile,
      DecodeObject, DecodeNull, CloseFile, AllParsed, StartRun, Panic,
      RunLoad, Report, Finish, Fatal, Terminated
<1>5. /\ pc' \in {"read", "open", "decode", "close"} \union later
      /\ Len(configs') <= Len(paths') /\ n' \in 1..(Len(paths') + 1)
  <2>0. /\ m <= Len(paths) /\ n \in 1..(Len(paths) + 1)
        /\ pc \in {"read", "open", "decode", "close"} \union later
    BY <1>0 DEF TypeOK
  <2>1. CASE ReadBenchmarkConfigPaths
    <3>1. /\ pc = "read" /\ pc' = "open" /\ UNCHANGED <<configs, n>>
      BY <2>1 DEF ReadBenchmarkConfigPaths, Main
    <3>2. m = 0 /\ n = 1 /\ Len(paths') \in Nat
      BY <1>0, <1>3, <3>1 DEF ConfigsFollow
    <3>3. QED
      BY <3>1, <3>2
  <2>2. CASE CloseFile
    <3>1. /\ pc = "close" /\ pc' = "open" /\ n' = n + 1 /\ UNCHANGED paths
      BY <2>2 DEF CloseFile, Main
    <3>2. n = m + 1 /\ n <= Len(paths) /\ n' = Len(configs') + 1
      BY <1>0, <1>2, <3>1 DEF ConfigsFollow
    <3>3. Len(configs') \in Nat
      BY <1>2 DEF ConfigsFollow
    <3>4. QED
      BY <1>0, <3>1, <3>2, <3>3
  <2>3. CASE AllParsed
    BY <1>0, <2>0, <2>3 DEF AllParsed, Main, reading
  <2>4. CASE Report
    <3>1. /\ pc = "report" /\ pc' = "next" /\ n' = n + 1
          /\ UNCHANGED <<paths, configs>>
      BY <2>4 DEF Report, Main, reading
    <3>2. n <= m
      BY <1>0, <3>1 DEF ConfigsFollow
    <3>3. QED
      BY <1>0, <2>0, <3>1, <3>2
  <2>5. CASE OpenFile \/ DecodeObject \/ DecodeNull
    BY <2>0, <2>5 DEF OpenFile, DecodeObject, DecodeNull, Main
  <2>6. CASE \/ StartRun \/ Panic \/ RunLoad \/ CollectHost \/ CollectVirtual
             \/ Finish \/ Fatal
    BY <2>0, <2>6 DEF StartRun, Panic, RunLoad, CollectHost, CollectVirtual,
      Collect, Finish, Fatal, Main, reading, Ended
  <2>7. CASE UNCHANGED vars
    BY <2>0, <2>7 DEF vars, reading
  <2>8. QED
    BY <2>1, <2>2, <2>3, <2>4, <2>5, <2>6, <2>7 DEF Next, Terminated
<1>6. QED
  BY <1>0, <1>1, <1>2, <1>3, <1>4, <1>5 DEF TypeOK

LEMMA InitIInv == Init => IInv
<1> SUFFICES ASSUME Init PROVE IInv
  OBVIOUS
<1>1. paths = <<>> /\ configs = <<>> /\ collected = Nothing
  BY DEF Init
<1>2. TypeOK
  BY <1>1 DEF Init, TypeOK, Nothing
<1>3. PathsFollow
  BY <1>1 DEF Init, PathsFollow
<1>4. ConfigsFollow
  BY <1>1 DEF Init, ConfigsFollow
<1>5. QED
  BY <1>2, <1>3, <1>4, InitRunInv DEF IInv

(* The inductive invariant, for every run of every program.                *)
THEOREM Invariance == Spec => []IInv
<1>1. IInv /\ [Next]_vars => IInv'
  <2> SUFFICES ASSUME IInv, [Next]_vars PROVE IInv'
    OBVIOUS
  <2>1. /\ argument \in Arguments /\ TypeOK /\ PathsFollow /\ ConfigsFollow
        /\ RunInv
    BY DEF IInv, TypeOK
  <2>2. TypeOK' /\ PathsFollow' /\ ConfigsFollow' /\ RunInv'
    BY <2>1, StepType, StepPaths, StepConfigs, StepRunInv
  <2>3. QED
    BY <2>2 DEF IInv
<1>2. QED
  BY InitIInv, <1>1, PTL DEF Spec

(* Every variable keeps its type, whatever the files hold.                 *)
THEOREM TypeCorrect == Spec => []TypeOK
<1>1. IInv => TypeOK
  BY DEF IInv
<1>2. QED
  BY Invariance, <1>1, PTL

(* Every JSON file stands at one of the paths.                             *)
LEMMA EveryFileHasAPath ==
  ASSUME argument \in Arguments, PathsFollow,
         pc \notin {"read", "dead"}, DOMAIN paths = 1..Len(paths)
  PROVE  {FileAt(paths[i]) : i \in DOMAIN paths} = Json
<1> DEFINE k == Cardinality(Json)
           fileAt == [i \in 1..k |-> FileAt(paths[i])]
<1>1. k \in Nat /\ IsFiniteSet(Json) /\ DOMAIN paths = 1..k
  BY JsonIsFinite DEF PathsFollow
<1>2. \A i \in 1..k : /\ FileAt(paths[i]) \in Json
                      /\ PathOf(FileAt(paths[i])) = paths[i]
  <2>1. TAKE i \in 1..k
  <2>2. PICK file \in Json : paths[i] = PathOf(file)
    BY <1>1 DEF PathsFollow
  <2>3. FileAt(PathOf(file)) = file
    BY FileAtPath DEF Json
  <2>4. QED
    BY <2>2, <2>3
<1>3. \A i, j \in 1..k : FileAt(paths[i]) = FileAt(paths[j]) => i = j
  <2>1. \A i, j \in 1..k : FileAt(paths[i]) = FileAt(paths[j]) =>
                             paths[i] = paths[j]
    BY <1>2
  <2>2. QED
    BY <1>1, <2>1 DEF PathsFollow
<1>4. fileAt \in Injection(1..k, Json)
  BY <1>2, <1>3 DEF Injection, IsInjective
<1>5. Cardinality(1..k) = k
  BY <1>1, FS_Interval
<1>6. fileAt \in Surjection(1..k, Json)
  <2> HIDE DEF fileAt
  <2>1. QED
    BY <1>1, <1>4, <1>5, FS_Injection
<1>7. \A file \in Json : \E i \in 1..k : fileAt[i] = file
  BY <1>6 DEF Surjection
<1>8. QED
  BY <1>1, <1>2, <1>7

(* A configuration that was read is that of its file.                      *)
LEMMA ConfigIsOwn ==
  ASSUME IInv, NEW i \in DOMAIN configs, configs[i] # Null
  PROVE  configs[i] = IF tool = "vbench-lifecycle"
                      THEN UnmarshalLifecycle(Default(paths[i]), Own(i))
                      ELSE Unmarshal(Default(paths[i]), Own(i))
<1>1. configs[i] = FromFile(paths[i])
  BY DEF IInv, ConfigsFollow
<1>2. QED
  BY <1>1 DEF FromFile, Own

(* The defaults that do not depend on the path.                            *)
LEMMA DefaultTestFields ==
  ASSUME NEW path
  PROVE  LET default == NewDefaultTestConfig(path)
         IN  /\ "clusters" \in DOMAIN default
             /\ default["clusters"] = <<>>
             /\ default["name"] = ""
             /\ default["cluster_type"] = ""
             /\ default["prometheus_conn_type"] = "proxy"
             /\ default["should_provision_monitoring"] = TRUE
BY DEF NewDefaultTestConfig

LEMMA DefaultLifecycleFields ==
  ASSUME NEW path
  PROVE  LET default == NewDefaultLifecycleTestConfig(path)
         IN  /\ default["name"] = ""
             /\ DOMAIN default =
                  {"config_path", "name", "root_kubeconfig_path",
                   "meta_info_path"}
BY DEF NewDefaultLifecycleTestConfig

LEMMA SameDefault ==
  ASSUME NEW path, NEW other,
         NEW f \in {"name", "cluster_type", "prometheus_conn_type",
                    "should_provision_monitoring"},
         f \in DOMAIN Default(path)
  PROVE  Default(path)[f] = Default(other)[f]
<1>1. CASE tool = "vbench-lifecycle"
  <2>1. f = "name"
    BY <1>1, DefaultLifecycleFields DEF Default
  <2>2. QED
    BY <1>1, <2>1, DefaultLifecycleFields DEF Default
<1>2. CASE tool # "vbench-lifecycle"
  BY <1>2, DefaultTestFields DEF Default
<1>3. QED
  BY <1>1, <1>2

(* The fields of a configuration, all but the clusters.                    *)
LEMMA FieldIsOwn ==
  ASSUME IInv, NEW i \in DOMAIN configs, configs[i] # Null,
         NEW f \in DOMAIN configs[i], f # "clusters"
  PROVE  /\ f \in DOMAIN Default(paths[i])
         /\ configs[i][f] =
              LET value == Given(i, f, Default(paths[i])[f])
              IN  IF f \in ExpandedFields THEN ExpandPath(value) ELSE value
<1> DEFINE default == Default(paths[i])
           own == Own(i)
<1>1. CASE tool = "vbench-lifecycle"
  <2>1. configs[i] = expandPaths(Merged(default, own))
    BY <1>1, ConfigIsOwn DEF UnmarshalLifecycle
  <2>2. f \in DOMAIN default
    BY <2>1, MergedDomain
  <2>3. QED
    BY <2>1, <2>2, MergedField DEF Given
<1>2. CASE tool # "vbench-lifecycle"
  <2> DEFINE merged == expandPaths(Merged(default, own))
  <2>1. configs[i] = [merged EXCEPT !.clusters = WithNamespaces(@)]
    BY <1>2, ConfigIsOwn DEF Unmarshal
  <2>2. DOMAIN configs[i] = DOMAIN merged /\ configs[i][f] = merged[f]
    <3> HIDE DEF merged
    <3>1. QED
      BY <2>1
  <2>3. f \in DOMAIN default
    BY <2>2, MergedDomain
  <2>4. QED
    BY <2>2, <2>3, MergedField DEF Given
<1>3. QED
  BY <1>1, <1>2

(* The clusters of a configuration.                                        *)
LEMMA ClustersOfConfig ==
  ASSUME IInv, NEW i \in DOMAIN configs, configs[i] # Null,
         tool # "vbench-lifecycle"
  PROVE  ClustersAreOwn(i)
<1> DEFINE default == Default(paths[i])
           own == Own(i)
           given == Given(i, "clusters", <<>>)
           merged == expandPaths(Merged(default, own))
<1>1. default = NewDefaultTestConfig(paths[i])
  BY DEF Default
<1>2. "clusters" \in DOMAIN default /\ default["clusters"] = <<>>
  BY <1>1, DefaultTestFields
<1>3. "clusters" \in DOMAIN merged /\ merged["clusters"] = given
  <2>1. "clusters" \notin ExpandedFields
    BY DEF ExpandedFields
  <2>2. "clusters" \in DOMAIN merged
    BY <1>2, MergedDomain
  <2>3. merged["clusters"] = given
    BY <1>2, <2>1, MergedField DEF Given
  <2>4. QED
    BY <2>2, <2>3
<1>4. configs[i].clusters = WithNamespaces(given)
  <2>1. configs[i] = [merged EXCEPT !.clusters = WithNamespaces(@)]
    BY ConfigIsOwn DEF Unmarshal
  <2> HIDE DEF merged, given
  <2>2. QED
    BY <1>3, <2>1
<1>5. \A c \in DOMAIN given : IsCluster(given[c])
  <2>1. CASE "clusters" \notin DOMAIN own
    BY <2>1 DEF Given
  <2>2. CASE "clusters" \in DOMAIN own
    <3>1. argument \in Arguments /\ \E file \in Json : paths[i] = PathOf(file)
      <4>1. argument \in Arguments /\ Len(configs) <= Len(paths)
            /\ DOMAIN configs = 1..Len(configs)
            /\ DOMAIN paths = 1..Len(paths)
            /\ Len(paths) \in Nat
        BY DEF IInv, TypeOK, ConfigsFollow
      <4>2. i \in DOMAIN paths
        BY <4>1
      <4>3. QED
        BY <4>1, <4>2 DEF IInv, PathsFollow
    <3>2. FileAt(paths[i]) \in argument.files
      BY <3>1, FileAtPath DEF Json
    <3>3. QED
      BY <2>2, <3>1, <3>2, ArgumentsAssumption DEF Given, Own
  <2>3. QED
    BY <2>1, <2>2
<1>6. QED
  <2> DEFINE clusters == configs[i].clusters
  <2> HIDE DEF given
  <2>1. /\ DOMAIN clusters = DOMAIN given
        /\ \A c \in DOMAIN given :
             /\ clusters[c].name = given[c].name
             /\ clusters[c].kubeconfig = given[c].kubeconfig
             /\ clusters[c].namespace = Namespace(given[c])
    BY <1>4, <1>5, ClustersWithNamespaces
  <2> HIDE DEF clusters
  <2>2. \A c \in DOMAIN given : clusters[c].namespace # NoNamespace
    BY <2>1, NamespacesApart
  <2>3. \A c, d \in DOMAIN given :
          clusters[c].namespace = clusters[d].namespace =>
            \/ given[c].name = given[d].name
            \/ {given[c].namespace, given[d].namespace} # {NoNamespace}
    BY <2>1, NamespacesApart
  <2>4. QED
    BY <2>1, <2>2, <2>3 DEF ClustersAreOwn, clusters, given

(* Whatever the files and the order they are read in, each of them gives   *)
(* its own configuration, over its own default and nothing of another.     *)
THEOREM EachFileItsOwnConfig == Spec => []OneConfigPerFile
<1>1. IInv => OneConfigPerFile
  <2> SUFFICES ASSUME IInv PROVE OneConfigPerFile
    OBVIOUS
  <2>0. /\ argument \in Arguments /\ PathsFollow /\ ConfigsFollow
        /\ DOMAIN paths = 1..Len(paths)
    BY DEF IInv, TypeOK
  <2>1. ASSUME pc \in {"next", "load", "report", "ended"}
        PROVE  /\ Len(configs) = Cardinality(Json)
               /\ {FileAt(paths[i]) : i \in DOMAIN configs} = Json
    <3>1. Len(configs) = Len(paths) /\ Len(paths) = Cardinality(Json)
      BY <2>0, <2>1 DEF ConfigsFollow, PathsFollow
    <3>2. DOMAIN configs = DOMAIN paths
      BY <2>0, <3>1 DEF ConfigsFollow
    <3>3. {FileAt(paths[i]) : i \in DOMAIN paths} = Json
      BY <2>0, <2>1, EveryFileHasAPath
    <3>4. QED
      BY <3>1, <3>2, <3>3
  <2>2. ASSUME NEW i \in DOMAIN configs, configs[i] # Null,
               NEW f \in {"name", "cluster_type", "prometheus_conn_type",
                          "should_provision_monitoring"}
                            \intersect DOMAIN configs[i]
        PROVE  configs[i][f] = Given(i, f, Default(NoPath)[f])
    <3>1. f \notin ExpandedFields /\ f # "clusters"
      BY DEF ExpandedFields
    <3>2. /\ f \in DOMAIN Default(paths[i])
          /\ configs[i][f] = Given(i, f, Default(paths[i])[f])
      BY <2>2, <3>1, FieldIsOwn
    <3>3. Default(paths[i])[f] = Default(NoPath)[f]
      BY <2>2, <3>2, SameDefault
    <3>4. QED
      BY <3>2, <3>3
  <2>3. ASSUME NEW i \in DOMAIN configs, configs[i] # Null,
               NEW f \in ExpandedFields \intersect DOMAIN configs[i]
        PROVE  configs[i][f][1] # "~"
    <3>1. f # "clusters"
      BY DEF ExpandedFields
    <3>2. configs[i][f] = ExpandPath(Given(i, f, Default(paths[i])[f]))
      BY <2>3, <3>1, FieldIsOwn
    <3>3. QED
      BY <3>2, Expanded
  <2>4. ASSUME NEW i \in DOMAIN configs, configs[i] # Null
        PROVE  configs[i].config_path =
                 ExpandPath(Given(i, "config_path", paths[i]))
    <3> DEFINE f == "config_path"
    <3>1. f \in ExpandedFields /\ f # "clusters"
      BY DEF ExpandedFields
    <3>2. f \in DOMAIN Default(paths[i]) /\ Default(paths[i])[f] = paths[i]
      BY DEF Default, NewDefaultTestConfig, NewDefaultLifecycleTestConfig
    <3>3. f \in DOMAIN configs[i]
      <4> DEFINE merged == expandPaths(Merged(Default(paths[i]), Own(i)))
      <4>1. f \in DOMAIN merged
        BY <3>2, MergedDomain
      <4> HIDE DEF f
      <4>2. QED
        BY <2>4, <4>1, ConfigIsOwn DEF Unmarshal, UnmarshalLifecycle
    <3>4. configs[i][f] = ExpandPath(Given(i, f, Default(paths[i])[f]))
      BY <2>4, <3>1, <3>3, FieldIsOwn
    <3>5. QED
      BY <3>2, <3>4
  <2>5. QED
    BY <2>1, <2>2, <2>3, <2>4, ClustersOfConfig DEF OneConfigPerFile
<1>2. QED
  BY Invariance, <1>1, PTL

(* The parts of a report are made of the series they stand for.            *)
THEOREM PartsAreApart == Spec => []ViewsApart
<1>1. IInv => ViewsApart
  BY DEF IInv, RunInv
<1>2. QED
  BY Invariance, <1>1, PTL

(* However long the load and the collections take, the ranges stay within  *)
(* the run and cover more than half of it.                                 *)
THEOREM RangesCoverTheRun == Spec => []WindowsCoverTheRun
<1>1. IInv => WindowsCoverTheRun
  BY DEF IInv, RunInv
<1>2. QED
  BY Invariance, <1>1, PTL
=============================================================================
