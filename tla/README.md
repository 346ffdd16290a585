# Formal models of v-bench

v-bench measures Kubernetes control planes. For each benchmark configuration it
creates virtual clusters (vcluster) in a host cluster, runs a load generator
(kbench) in all of them, asks Prometheus for metrics of the control planes,
writes a report, and deletes the clusters. A second program, vbench-lifecycle,
measures how long creating and deleting a virtual cluster takes. This directory
holds TLA+ models of the parts of both programs where something can go wrong
that a test would hardly reach, the configurations that check them with TLC, and
theorems that TLAPS proves about them.

    tlc -config vcm_safety.cfg MCVirtualClusterManager.tla
    tlapm VirtualClusterManagerProofs.tla

`PROJECT.json` lists every run with its module, and maps each definition to
the source lines it stands for. Paths below are relative to `src/`.

## Inventory

| Component | Source | State | Operations | Hard behaviour |
|---|---|---|---|---|
| VirtualClusterManager | `virtual_cluster/vanilla_vcluster_manager.go` | wait group, the shared `ClusterCreateOptions`, temporary files, clusters and namespaces in the host | Create, Delete, CreateSingle, DeleteSingle | a goroutine per cluster, a data race on the option slice, `log.Fatal` in any goroutine, deferred removal of files |
| PrometheusProvisioner | `virtual_cluster/monitoring/prometheus_provisioner.go` | two nested polls and their timers | Provision | timeouts within timeouts, failing requests, targets that come and go |
| Query executor | `measurement/prometheus_query_executor.go` | none | Query, Targets | Targets polls, Query gives up at once |
| MetricCollector | `measurement/metrics_collector.go`, `measurement/context.go`, `measurement/metric/` | sample lists, the report of two contexts | CollectMetrics | partial failure, which list feeds which field |
| Lifecycle benchmark | `cmd/vbench-lifecycle/vbench-lifecycle.go` | two shared lists with mutexes, wait group | runTests | parallel appends, completeness of the report |
| Experiment driver | `internal/cmd/utils.go`, `cmd/vbench/vbench.go` | phase of the experiment, wait group of the kbench goroutines, namespaces "initial", directories and reports | RunExperiment, initial resources, runTests | death at any point, commands that outlive the process, what a later run meets |
| Experiment directory | `internal/cmd/utils.go:123` | names in the output directory | CreateExperimentDir | check-then-act between processes, last name of the day, "~" |
| collect_metrics | `cmd/collect_metrics` | as the collector | one collection | as the collector |
| Configuration | `config/`, `internal/util/fliesystem.go` | TestConfig, LifecycleTestConfig | UnmarshalJSON, expandPaths | defaults, a file that says `null`, paths expanded on a copy, shared namespaces |
| Manifest applier | `k8s/manifest_applier.go` | none | ApplyManifest... | ends the process when kubectl fails |
| Client sets | `k8s/multiclient.go`, `k8s/framework.go` | index of a round robin | GetClient | none: only one client is asked for |
| Prometheus client | `prometheus/in_cluster_client.go` | none | Query, Targets | HTTP status is not looked at |
| Durations, answers | `measurement/util/prometheus.go` | none | ToPrometheusTime, Extract... | truncation, range of zero |
| Reporting | `reporting/` | the report files | Report | overwritten when two configurations have one name, or two runs one directory |
| Flags, collections | `cli/`, `internal/util/` | none | pure helpers | none |

How they interact: vbench builds one query executor per configuration and gives
it to a VirtualClusterManager and, in runTests, to a MetricCollector. The manager
is called synchronously (Create, then after the tests Delete); inside a call it
runs one goroutine per cluster, each of which runs external commands (vcluster,
kubectl) and, at the end, a PrometheusProvisioner. Errors are not handed upwards:
nearly all of them end the process with `log.Fatal`, which runs no deferred call
and deletes nothing. vbench-lifecycle calls CreateSingle and DeleteSingle from
its own goroutines.

What makes each component correct is in `PROJECT.json` under "hazards", each at
its line with the properties that watch it.

## Modules

| Module | What it is |
|---|---|
| `ClusterFleet` | abstract: what the interface VirtualClusterManager promises its caller |
| `VirtualClusterManager` | detailed: every goroutine, command, file and failure of Create and Delete |
| `MCVirtualClusterManager` | its TLC instance, with symmetry over the clusters |
| `VirtualClusterManagerProofs` | theorems: types, the inductive invariant, safety, refinement of ClusterFleet, whose values a cluster gets |
| `PrometheusProvisioner` | Provision for one cluster, the poll within the poll and the clock |
| `PrometheusProvisionerProofs` | theorems: the invariant of the timers, the bound on the wait, what a healthy verdict means |
| `MetricCollector` | CollectMetrics for the host and then the virtual clusters |
| `MetricCollectorProofs` | theorems: the programs are made of blocks that keep apart, and so do their fields in every run; what is never reported |
| `LifecycleTest`, `MCLifecycleTest` | runTests of vbench-lifecycle, and its configurations for TLC |
| `LifecycleTestProofs` | theorems: mutexes, lists, wait group, completeness of the report |
| `Experiment`, `MCExperiment` | vbench over several configurations and several runs, with the world it leaves behind |
| `ExperimentProofs` | theorems: the inductive invariant and all safety properties of Experiment |
| `ExperimentDir` | CreateExperimentDir of several processes on one output directory |
| `ExperimentDirProofs` | theorems: who may share a directory, which names are given |
| `TestConfig` | operators: both kinds of configuration, from the JSON object to the names of the clusters |
| `PromTime` | operators: the range of a query |
| `Measurement`, `MCMeasurement` | the three programs from their configuration files to the collections in the report |
| `MeasurementProofs` | theorems: what the files give, the two parts of a report and their ranges, for all files, configurations and durations |

VirtualClusterManager treats Provision as one step that succeeds or ends the
process; PrometheusProvisioner is what happens inside that step. LifecycleTest
calls the manager's CreateSingle and DeleteSingle, which are its actions
CreateSingle, DeleteCluster and DeleteNamespace. Experiment takes the manager at
its word: what ClusterFleet promises, and the manager is proved to keep, is its
action ManagerCommand with CreateReturns and DeleteReturns. In the same way the
collection of Experiment is one step, which Measurement divides into what is
selected and over which range, and MetricCollector into its queries.

Each module has a few definitions headed "faulty variants". They are not part of
the specification: each is the code with one slip (a forgotten `wg.Add`, a lock
left out, a swapped label), and with the slip put in its place a property named
in `PROJECT.json` under "mutants" fails. They show that the properties can fail.

### VirtualClusterManager

State and code:

- `main` and `alive`: where RunExperiment is, and whether the process goes on.
  After its end nothing happens any more, which is why every action has the guard
  `alive`.
- `wg`, `pc`, `dpc`: the wait group of the call in progress and the goroutines of
  Create and of Delete. They are apart because a goroutine of Create is still
  removing its temporary file (after `wg.Done()`, line 106) when Create has
  returned and Delete is at work.
- `option`: `ClusterCreateOptions[indexOfValuesFlag+1]`, two words, as a Go string
  is a pointer and a length. StoreLen and StorePtr are the two halves of line 73.
  A reader whose two loads see different stores gets the pointer's string or
  `Torn`, no file's name: the race is a choice over what the build can produce.
- `path`, `file`, `values`: the path each goroutine holds, whose data each
  temporary file was rendered with (a cluster also names the file its goroutine
  creates), and what each cluster has been created with. Rendering a file that
  is rendered already copies it, for no placeholder is left in it.
- `config`: no `-f`, `-f` with a path, `-f` at the end (which is fatal); direct or
  ingress connection; monitoring or not. All twelve are initial states.

Every command may fail (CreateFatal, DeleteFatal), at any point of every
interleaving, and the process may end outside the two calls (ProcessEnds): by
`log.Fatal` in the tests, or after Delete, when `main` of vbench returns or dies over a
later configuration. A goroutine of Create that has counted down but not come to its
`os.Remove` ends with it, and its file stays; TempFilesRemoved is about processes that
go on.

### PrometheusProvisioner

`wait.PollImmediate` is from a library and marked external: it evaluates its
condition at once, then starts a timer and evaluates it at each tick, and once
more when the timer ends. `outer` and `inner` are the times at which the two
timers end, `last` the polls that are in their last evaluation. Time counts in
intervals of the polls (30 s for both); commands and requests take no time. A
request may fail (RequestFails), give a body that is no list of targets
(BodyUnusable), or the targets of that moment (Ready, NotReady). Prometheus
changes the targets as it likes.

### MetricCollector

CollectMetrics is a straight line of some 60 queries and assignments. `Program`
is that line: a sequence of entries, each a query that appends to a list, an
assignment of a field from a list, the calls of a component, or the first sample
of an answer. Each function of the source is one definition that builds its part,
with the lists and fields the source names. A value is represented by its origin
(context, metric, quantile, call), so that a property can say "this field holds the
answer to this query". Of an answer only the set of series is modelled: all, some
or none. An error has the same effect as an empty answer, except where the first
sample is read (FirstAnswered, FirstFails, FirstPanics). The scheduler's own
throughput and latency do not occur: their queries are commented out.

### LifecycleTest

`seen` is the list as `append` has read it: a lock and a read (LockCreateTimes),
then a write and an unlock (StoreCreateTimes), so that the mutex has something to
protect. A duration is represented by the cluster it was measured on.

### Experiment

The variables are in three groups. `process` is the memory of vbench and is lost
when it dies: the phase of RunExperiment (`pc`), the configurations still to come,
the indices of the loops, the wait group and the goroutines of runTests. `world` is
what survives: the commands that run in the operating system, the virtual
clusters, the ConfigMaps of each namespace "initial", the experiment directories
(`dirs`) and the report files. `history` only serves the properties.

A report lies in the experiment directory of its run, under the Name of its
configuration, and `os.WriteFile` replaces one that is there. `dir` is the name that each run
was given by CreateExperimentDir, and Restart has both cases of it: a name of which
no directory exists (NameFree), or one that is taken (NameMissed; the run is in
`astray` from then on). The latter is a run of vbench with "~" in `-out`, which looks at the
unexpanded path (`vbench.go:40`) and writes at the expanded one (line 52), or one
whose `os.Stat` has failed. Module ExperimentDir is this look-up in detail, and its
UnexpandedIsAlwaysFirst the reason why with "~" all runs of a day are astray. Since
the directory is made much later (Prepare), a run may also be given the name of an
earlier one that died before it made its own.

Die is `log.Fatal` or a panic, and may happen at any point; nothing is cleaned up.
A command that the dead process has started goes on, and succeeds or fails later
(CommandSucceeds, CommandFails), possibly in the middle of the next run. Restart
begins that run, with the same batch of configurations or another one. "kubectl
create namespace initial" refuses to work when the namespace exists, and so does
its deletion when there is none (Refused): this is what makes the difference
between a leftover that is repaired and one that is not. A cluster named in two
configurations is one cluster. The model has the configurations that the code
accepts without a panic, with a number of ConfigMaps that is not negative and
clusters with different names.

### ExperimentDir

CreateExperimentDir only looks for a free name; the directory is made much later,
by `os.MkdirAll` of runTests. `dirs` is the file system, `date` and `i` are the local
variables of the look-up, one step for each `os.Stat`. The output path of the
command line may begin with "~", which vbench expands in one of the two places
and vbench-lifecycle in none: the two `Roots` are the places it can mean. `earlier`
remembers who had a directory when a process settled on its name, and `misled`
for whom `os.Stat` failed, whose error the code drops.

### TestConfig, PromTime and Measurement

A path is a pair of its root ("~", "home", ".") and the rest, a namespace a pair of a
prefix and a name, so that a file can ask for a namespace that is the default of
another cluster. Unmarshal sets the fields that the object has, expands the
paths and fills in the namespaces, in the order of the code. `json.Decoder` is
external: an object is merged, `null` sets the pointer to nil (DecodeNull), anything
else is an error (Fatal). A nil configuration ends the process only when its turn
comes (Panic).

A collection is the pair of the values of the label "cluster" that its queries match
and the range of time they look back. The values of the samples are the matter
of MetricCollector. Times are in milliseconds.

## Runs

| Run | Instance | Shows |
|---|---|---|
| `vcm_safety` | 3 clusters, symmetric, 12 configurations; 540 thousand states | the inductive invariant IInv, ReadyWhenCreateReturns, DeleteLeavesNothing, NeverRawTemplate, OwnIngressValues |
| `vcm_promise` | 2 clusters, fair; 16 thousand states | FleetSpec (refinement), CallsReturn, TempFilesRemoved |
| `vcm_own_values` | 2 clusters | **violated**: OwnValues |
| `provisioner` | 6 manifests, 3 pools, timeouts of 2 and 3 intervals, at most 2 targets a pool, fair; 12 thousand states | WaitInv, WaitIsBounded, TimeoutsAreHonest, HealthyUnlessCountedTwice, ProvisionEnds |
| `provisioner_pools` | the same, without fairness | **violated**: HealthyMeansEveryPool |
| `collector` | 2 kinds of calls, 1 faulty query anywhere; 30 thousand states | IInv, StatisticsAreOwn, ApiServerCallsAreOwn, ClientThroughputIsOwn |
| `collector_every_field` | no fault | **violated**: EveryFieldIsReported |
| `collector_client_calls` | no fault | **violated**: ClientCallsAreOwn |
| `lifecycle` | 7 configurations with up to 3 goroutines or 3 iterations, fair; 12 thousand states | IInv, ReportIsComplete, OneClusterPerWorker, ListsAgree, PairedWhenSerial, NoDurationLost, RunEnds |
| `experiment` | 2 virtual clusters and the host, 4 configurations in 4 batches, 2 runs, fair; 376 thousand states | IInv, LoadMeetsItsResources, ReportCoversTheLoad, CleanBetweenConfigs, ReportsOfCompleted, HostLeftoverStays, RunsEnd |
| `experiment_dir` | 2 processes of either program, 3 names, 2 days, fair; 198 thousand states | IInv, LaterRunsApart, UnexpandedIsAlwaysFirst, SmallestFree, ScanEnds |
| `measurement` | 8 sets of files, 5 durations, 3 programs; 566 thousand states | IInv, OneConfigPerFile, ViewsApart, WindowsCoverTheRun |

Bounds, and why they are enough:

- Clusters: the race needs a writer and a reader, and a third goroutine that
  overwrites what both have written; with three every pair of positions in the
  code occurs with a bystander at any other. Liveness and refinement are checked
  with two, without symmetry, because symmetry is unsound for liveness. The
  theorems lift the safety properties and the refinement to any finite number.
- Timeouts: 2 and 3 instead of 10 and 30 intervals. What matters is that the inner
  one is longer than the outer one and both are longer than one tick; the bound
  of WaitIsBounded is reached with these values, and its theorem holds for all.
- `MaxTargets`: one is the usual deployment, two (a second API server, or an old
  endpoint next to a new one) is what the count cannot tell apart.
- `MaxFaults = 1`: a fault costs the samples of one query. With two the run takes
  several minutes and finds the same; faults in different lists do not meet, and
  two faults in one list only make its set smaller.
- Lifecycle configurations: one goroutine alone, two with two iterations, three
  at once, nothing to do in three ways, and a negative count, which `wg.Add`
  rejects with a panic.
- Experiment: one run to crash and one to meet what is left; a virtual benchmark
  of two clusters with a ConfigMap, one of a single shared cluster without, and two
  host benchmarks of one Name, with two ConfigMaps and with none. There are as many
  names for directories as runs, so that all can be apart, and any two can share.
  The batches pair the configurations so that a cluster, the host or a Name is shared.
  The theorems hold for any number of runs, clusters and configurations.
- ExperimentDir: a look-up and a creation of another process in between are two
  processes; three names have a first, a middle and the last one, which is never
  given; the second day is there because the date is read only once.
- Measurement: files with every field set or missing, `null`, malformed or with
  another extension; clusters called "host" or without a name; durations on both
  sides of a second, of a minute and of two.

Deadlock is checked in every run: each module has an action Terminated for the
states in which the program really has ended, and in any other state something
must be able to happen.

### What the violated runs say of the code

1. `vcm_own_values`: with `-f` and two clusters, a cluster can be created from the
   values rendered for another one (`vanilla_vcluster_manager.go:73`). It needs no torn
   string: the second goroutine reads the path after the first has stored its
   own, and renders a file that has no placeholders left. What the race cannot do
   is create a cluster from the unrendered template (NeverRawTemplate, proved); the values
   that the manager renders itself for ingress are not affected (OwnIngressValues), and
   without "-f" or with a single cluster there is nothing to share (OwnValuesUnlessShared,
   proved).
2. `collector_every_field`: the work duration of the controller manager's queue is
   appended to the wrong list (`metrics_collector.go:254`), and the proposals of etcd
   are set on a copy (`metrics_collector.go:486`): neither reaches the report, in any run
   (SomeFieldsAreLost, proved).
3. `collector_client_calls`: latencies of calls by the controller manager and
   scheduler are grouped by `verb` but looked up by `method`
   (`metrics_collector.go:567`), so all of them land under one empty key, wherever there
   are any (ClientLatenciesMissTheirCalls, proved).
4. `provisioner_pools`: isPrometheusReady counts targets, not pools
   (`prometheus_provisioner.go:124`). A missing pool can only be made up for by one
   that is scraped twice (HealthyUnlessCountedTwice, proved). It does not look at the health of a target
   either; the model has no health, since nothing in the code would read it.

### What passing runs say of the code

Some invariants state a behaviour that a reader of the code may not expect:

- HostLeftoverStays: after a crash with a namespace "initial" in the host cluster no
  later run gets a host benchmark with initial resources through, and no run
  repairs it. For virtual clusters a later Create and Delete do repair it.
- ReportsOfCompleted: the report of a configuration lasts until another one of the
  same Name comes in the same run, or until a later run that was given the same
  directory although it existed has a configuration of that Name. With "~" in `-out` this
  is every later run of the day, which replaces the reports of the runs before. No
  other run loses a report.
- UnexpandedIsAlwaysFirst: with an output path that the shell has not expanded
  ("-o=~/..."), all runs of vbench on one day write into one directory.
- SmallestFree: the last name of the day is never given to anybody.
- ViewsApart: a virtual benchmark that lists no cluster with a name of its own has
  the host's series in its virtual part, as the pattern of no names matches series
  without the label.
- WindowsCoverTheRun: up to half of a run is not covered by its ranges (a run of
  119 s is measured over its last minute), and a run of less than a second by
  nothing at all.

## Fairness

Safety runs use none. Liveness needs these, and no more:

- Every goroutine that can take a step takes one in the end (WF per goroutine and
  for the main one): Go's scheduler is preemptive.
- Every external command and request returns. The code waits for them without any
  limit, so without this assumption nothing would ever return; it is built in by
  making the completion of a command an action of its goroutine.
- In PrometheusProvisioner time passes (WF of Provision, to which the ticks
  belong). Nothing is assumed of the targets, which may flap forever.
- In Experiment the main goroutine, each goroutine and each command go on (WF);
  commands do so also when their process is dead. That vbench is started again is
  not assumed: RunsEnd says that whatever is started ends.
- In ExperimentDir each process goes on (WF); the calendar need not. Measurement
  claims no liveness: what it does is covered by Experiment and LifecycleTest.
- In LifecycleTest weak fairness is enough for the mutexes too: each is taken
  finitely often by the other goroutines.

A failure is never forced: the fair disjunctions contain the success and the
failure of a command together.

## Proofs

Every safety property of the passing runs is a theorem of TLAPS, for all values of the
constants that these assumptions admit:

| Assumption | Says |
|---|---|
| `ClustersAssumption`, `PathsAssumption` | finitely many clusters, whose names are no other kind of path |
| `ManifestsAssumption`, `PoolsAssumption`, `TimeoutsAssumption` | any number of manifests, any finite set of pools, any positive timeouts |
| `BlankAssumption`, `FaultsAssumption` | any set of calls without the empty label, any number of faulty queries |
| `DurationsAssumption`, `ArgumentsAssumption` | durations are natural numbers; a directory has finitely many files with different names, and a cluster has a name, a namespace and a kubeconfig |

The remaining ones, of LifecycleTest, Experiment and ExperimentDir, are the ranges of
the configurations, batches, processes and names. No theorem
narrows them further.

**The manager.** ReadyWhenCreateReturns is not inductive: it says nothing of the
states before the return. `IInv` adds what it rests on:

- WgCountsWorking: `wg` is the number of goroutines between their spawn and their
  `wg.Done()`, of either call. The proof is about Cardinality: spawning adds one
  element to a finite set, counting down removes one.
- CallsDoNotOverlap: Delete starts no goroutine while one of Create is before its
  `wg.Done()`; this makes one counter enough for both.
- StepsDone: the place of a goroutine tells which commands have succeeded.
- SlotIsRendered: with `-f`, once a goroutine has stored, the shared pointer is that
  of some rendered file, whoever wrote it last; this gives NeverRawTemplate.

From `wg = 0` and everything spawned it follows that every goroutine is past
`wg.Done()`, hence every cluster is ready. ManagerImplementsFleet maps the phases
and the state of each cluster to ClusterFleet and shows, with IInv, that each
step of the manager is a step of ClusterFleet or a stutter; among them that no
step leaves "creating" early and that a failing goroutine is the abstract Abort.

**The provisioner.** `WaitInv` relates the clock to both timers. An evaluation of the
outer condition that starts at time s ends by s + InnerTimeout, because the inner
timer is started after its first request, at time s. The first evaluation starts
no outer timer, so that timer ends by InnerTimeout + OuterTimeout. An evaluation
that begins at a tick begins before that end and is over one InnerTimeout after
it; then comes the last one, which takes one more. Hence WaitBound:
`now <= OuterTimeout + 3 * InnerTimeout`. With the constants of the code that is 300 s
and three times 15 minutes, against the 300 s in the name of the constant.

NoEarlyTimeout is the other direction: TimersInv says that no timer ends before
its timeout has passed since the first evaluation, and that `last` implies that the
timer has ended.

HealthyUnlessCountedTwice needs the link between a count and the pools it counts.
HealthyInv says that where Provision has returned healthy, the targets counted
are as many as the pools. `PrometheusReady` counts pairs of a pool and a number, so that with
at most one target in each pool the count is the cardinality of the set of pools that
are scraped (CountedPools); a subset of the pools as large as all of them is all of
them. So a verdict that is wrong needs a pool with two targets at that moment
(HealthyOrCountedTwice), which is what `provisioner_pools` shows.

**The manager, continued.** IngressValuesAreOwn is about the second place where values
are rendered: the goroutine keeps the path in a variable of its own there, so the
invariant (OwnFile) is that its own file was rendered with its own data. Without
"-f" and without ingress there is no values file at all (NoValues). Together with
NeverRawTemplate this is OwnValuesUnlessShared, the exact limit of the first violated
run: a cluster gets values of another one only with "-f" and two clusters.

**The collector.** The two programs are fixed sequences of some 130 entries, but the
proof is not a case for each. An operator or a component gives a *block*: a sequence
whose lists and fields are names of its own, in which an entry that reads a list
comes after all queries that append to it, and no list is used twice. LoopReads, SetWrites and CallsWrites show
this for the smallest blocks, Concatenation and BlockConcat for two blocks with
disjoint names, and the lemmas StatisticIsBlock to EtcdIsBlock follow the functions of the source
up to ProgramsAreGood. From there on only EntryFacts and EntriesAreOrdinary are used
about the programs. The invariant of the run is

- ListsFollow: a list that is yet to be used holds the answers to its own queries in
  the context under way. The queries of the host are not mixed with those of the
  virtual clusters because the lists are new in each function: this is the conjunct
  that the step from the one collection to the other (StepCollected) rests on.
- ReportFollows: an entry that is behind has written what its lists held, and nothing
  overwrites it.
- FirstsFollow, LostFields: the first sample of the leader elections is the only one
  that arrives; the fields of finding 2 stay empty.

StatisticsKeepApart, ApiServerCallsKeepApart and ClientThroughputKeepsApart follow for
any set of calls and any number of faulty queries. SomeFieldsAreLost and
ClientLatenciesMissTheirCalls turn findings 2 and 3 around: what TLC finds in one run is
so in all of them.

**The lifecycle benchmark.** `IInv` of LifecycleTest has the mutexes (a goroutine
between lock and unlock is the one holder, and what it has read is still the
list), the lists (no duration twice, and each one belongs to an iteration that
has got that far), and the wait group (the cardinality of the iterations that
remain). OrderInv and SerialInv order the two lists. AppendsAreKept is an action
property: the list of the mutex's holder is the one it appends to.

**The experiment driver.** `IInv` of Experiment is a conjunction with one part for each
question, and one lemma for each part shows that every step preserves it:

- PhaseInv: what the phases exclude (a host benchmark is never in "create").
- KbenchInv: `wg` is the number of unfinished goroutines; after "wait" there are none.
- CollectedInv: the clusters measured at each collection are those of the current
  configuration; reports keep that.
- LeftoverInv: each cluster, namespace and command belongs to the configuration under
  way (`Made`, `Filled`) or to one that a process has died on (`Suspect`).
- LoadInv: how many ConfigMaps each cluster has by now, as long as no command of
  another run has touched it.
- HostInv: a host benchmark stops before the namespace that it finds.
- DirInv: reports lie in directories that exist, so that a report of another run in the
  directory of the current one means that this run is astray.
- ReportsInv: no configuration is passed over; a replaced report has a successor, from
  the same run or, by DirInv, from one that is astray.

All five safety properties of the run follow from it, for any configurations, batches and
number of runs.

**The experiment directory.** Names below the one under test have been seen, and as
nobody removes directories they stay (SeenStays); who has made a directory keeps
its name (MadeExists). So a name that was free when a process settled is not that
of anybody who had made its own. UnexpandedIsAlwaysFirst needs no invariant but
the types and SeenStays.

**Measurement.** `IInv` has a part for the files and a part for the run.

- PathsFollow: the paths are those of the files of the directory, each once. There are
  as many of them as files, so none is missing; that is a step about cardinalities.
- ConfigsFollow: the configurations parsed so far are those of the paths so far, each
  a function of its own file (FromFile). This says that no default and no field of
  an earlier file is left in a later one.
- RunInv: each context of a report is tied to the time it was collected at.

EachFileItsOwnConfig follows with lemmas about the operators of TestConfig: a field
that the object does not have is that of the default, a path is expanded once, and
two clusters share a namespace only when one was given or when they share a name.
PartsAreApart and RangesCoverTheRun are the part about the run, the latter with
WindowBounds: the range is at most the time, and more than half of it, as integer
division says.

**Only model-checked** is liveness: CallsReturn, TempFilesRemoved, ProvisionEnds, RunEnds,
RunsEnd and ScanEnds. The prover has no rules for ENABLED, which fairness is made of.

## Not modelled, and why

- Rendering of names, manifests and JSON, and logging: wording and layout.
- The load generator kbench: a command that ends, with or without an error.
- `k8s/multiclient.go` and the construction of clients: the only caller asks for one
  client, from one goroutine, so that the round robin and its mutex have nothing
  to do in these programs.
- The URL of a Prometheus request and the JSON of an answer: the model has the
  request that fails, the body that is no answer and the answer.
- A configuration with a negative number of ConfigMaps: the namespace is made and
  removed without any; and a name that occurs twice in one configuration, whose
  two goroutines would run vcluster for one cluster at the same time.
- What else shares the host cluster: other programs that create or delete
  namespaces, or a second vbench at the same time. ExperimentDir has concurrent
  processes, which share a directory when their look-ups overlap; Experiment has one
  after the other, with the commands of the first still at work.
- A temporary file that cannot be removed is logged and stays; the model lets every
  removal succeed, so TempFilesRemoved is about removals that are never tried.
- Equal names or namespaces of two clusters: the model has one namespace per
  cluster, as the default of the configuration gives (`config/config.go:83`).
- Values of metrics and their units: the properties ask where a value comes from.
- Flags, construction of library clients: no state of interest.

## State and plan

Every component that has state or an order of steps has its module, and every safety
property of the passing runs is a theorem. What could come next:

- MultiClientSet, once a program asks for more than one client: each client in
  turn, also with concurrent callers.
- A composition of VirtualClusterManager and PrometheusProvisioner in one state space, with
  the time that Create may take; now the bound is proved for one cluster, and
  Create waits for the slowest.
