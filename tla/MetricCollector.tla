--------------------------- MODULE MetricCollector ---------------------------
(***************************************************************************)
(* MetricCollector.CollectMetrics of measurement/metrics_collector.go, as  *)
(* runTests of internal/cmd/utils.go calls it: once for the host cluster,  *)
(* and once more for the virtual clusters of a virtual benchmark, before   *)
(* the report is written.                                                  *)
(*                                                                         *)
(* The collector is a straight line of queries.  The samples of a query    *)
(* are appended to a list, and a field of the report is set from one list  *)
(* (or two); Program below is that line, entry by entry.  A query that     *)
(* fails is logged and skipped.                                            *)
(*                                                                         *)
(* Values are represented by where they come from: a sample is the query   *)
(* and the series it answers, and a quantile of the report is the set of   *)
(* the samples written to it, of which the last one stays.  The empty set  *)
(* is the zero of a field that nothing has been written to.                *)
(***************************************************************************)
EXTENDS Integers, Sequences, FiniteSets

CONSTANTS
  Calls,     \* the series of a grouped query, one for each kind of API call
  Blank,     \* the one series of any other query; a missing label
  MaxFaults  \* how many queries of a run may fail or miss series

ASSUME BlankAssumption == Blank \notin Calls
ASSUME FaultsAssumption == MaxFaults \in Nat

VARIABLES
  clusterType,  \* benchmarkConfig.ClusterType
  phase,        \* the collection under way, or how it has ended
  at,           \* the entry of Program that comes next
  lists,        \* the sample lists of the functions
  report,       \* the Metrics of the two contexts
  answered,     \* every sample that Prometheus has returned (history)
  faults        \* queries that have failed or missed series so far

vars == <<clusterType, phase, at, lists, report, answered, faults>>

Contexts == {"host", "virtual"}
Quantiles == {"p50", "p90", "p99"}

-----------------------------------------------------------------------------
(* The line of queries and assignments.                                    *)

Query(metric, into, q) ==
  [op |-> "query", metric |-> metric, into |-> into, q |-> q]

(* for _, q := range quantiles { ... into = append(into, samples...) }     *)
Loop(metric, into) ==
  <<Query(metric, into, "p50"), Query(metric, into, "p90"),
    Query(metric, into, "p99")>>

(* field = *metricStatisticsFromSamples(from)                              *)
Set(field, from) == <<[op |-> "set", field |-> field, from |-> from]>>

Statistic(field) == Loop(field, field) \o Set(field, field)

(* The loops of both lists, then apiServerCall...MetricsFromSamples.       *)
ApiCalls(component) ==
  Loop(<<component, "Throughput">>, <<component, "Throughput">>)
  \o Loop(<<component, "Latency">>, <<component, "Latency">>)
  \o <<[op |-> "calls", component |-> component]>>

(* queryForResourceUsage: three loops, then resourceUsageMetricsFromSamples *)
ResourceUsage(component) ==
  LET cpu == <<component, "CpuUsage">>
      memory == <<component, "MemoryUsage">>
      threads == <<component, "ThreadUsage">>
  IN  Loop(cpu, cpu) \o Loop(memory, memory) \o Loop(threads, threads)
      \o Set(cpu, cpu) \o Set(memory, memory) \o Set(threads, threads)

(* samples[0] is read as soon as the query has succeeded.                  *)
First(field, kept) == <<[op |-> "first", field |-> field, kept |-> kept]>>

CM(name) == <<"ControllerManager", name>>
Etcd(name) == <<"Etcd", name>>

ApiServerProgram == ApiCalls("ApiServer") \o ResourceUsage("ApiServer")

(* The samples of the work durations go to the list of the queue           *)
(* durations, which has been used already; their own list stays empty.     *)
WorkDuration ==
  Loop(CM("WorkQueueWorkDuration"), CM("WorkQueueQueueDuration"))
  \o Set(CM("WorkQueueWorkDuration"), CM("WorkQueueWorkDuration"))

ControllerManagerProgram ==
  Statistic(CM("WorkQueueDepth")) \o Statistic(CM("WorkQueueAdds"))
  \o Statistic(CM("WorkQueueQueueDuration")) \o WorkDuration
  \o ApiCalls("ControllerManager") \o ResourceUsage("ControllerManager")

SchedulerProgram == ApiCalls("Scheduler") \o ResourceUsage("Scheduler")

(* proposalsMetrics is a copy of the field, and is dropped at the end.     *)
Proposals ==
  First(Etcd("Committed"), FALSE) \o First(Etcd("Applied"), FALSE)
  \o First(Etcd("Pending"), FALSE) \o First(Etcd("Failed"), FALSE)

EtcdProgram ==
  First(Etcd("LeaderElections"), TRUE)
  \o Statistic(Etcd("DbSize")) \o Statistic(Etcd("DbSizeUsed"))
  \o Statistic(Etcd("WalSyncDuration"))
  \o Statistic(Etcd("BackendCommitSyncDuration"))
  \o Proposals \o ResourceUsage("Etcd")

(* ShouldCollectScheduler is set for the host only.                        *)
HostProgram ==
  ApiServerProgram \o ControllerManagerProgram
  \o SchedulerProgram \o EtcdProgram
VirtualProgram == ApiServerProgram \o ControllerManagerProgram \o EtcdProgram

Program(context) == IF context = "host" THEN HostProgram ELSE VirtualProgram

-----------------------------------------------------------------------------
(* Samples and fields.                                                     *)

Entries(context) == {Program(context)[n] : n \in DOMAIN Program(context)}
OfKind(context, op) == {e \in Entries(context) : e.op = op}

Metrics == {e.metric : e \in OfKind("host", "query")}
Statistics(context) == {e.field : e \in OfKind(context, "set")}
Firsts(context) == {e.field : e \in OfKind(context, "first")}
Components(context) == {e.component : e \in OfKind(context, "calls")}
Lists == {e.into : e \in OfKind("host", "query")} \union Statistics("host")

Samples ==
  [context : Contexts, metric : Metrics \union Firsts("host"),
   q : Quantiles \union {Blank}, call : Calls \union {Blank}]

Series(metric) ==
  IF metric[2] \in {"Throughput", "Latency"} THEN Calls ELSE {Blank}

(* Faulty variants, as in the other modules: the API server's latencies    *)
(* grouped by another label than its calls, and client calls keyed by the  *)
(* label of their latencies.                                               *)
GroupedByVerb(metric) == IF metric[2] = "Latency" THEN "verb" ELSE "resource"
KeyedByVerb(component) ==
  IF component = "ApiServer" THEN "resource" ELSE "verb"

(* The label that a query groups its series by ("resource" stands for the  *)
(* four of the API server), and the one that the key of a call is built    *)
(* from.  Only where they agree does a sample keep its call.               *)
GroupedBy(metric) ==
  CASE metric[1] = "ApiServer"                            -> "resource"
    [] metric[1] # "ApiServer" /\ metric[2] = "Throughput" -> "method"
    [] metric[1] # "ApiServer" /\ metric[2] = "Latency"    -> "verb"

KeyedBy(component) == IF component = "ApiServer" THEN "resource" ELSE "method"

Key(s) == IF GroupedBy(s.metric) = KeyedBy(s.metric[1]) THEN s.call ELSE Blank

(* Statistics.SetQuantile for every sample of a list.                      *)
ByQuantile(list) == [q \in Quantiles |-> {s \in list : s.q = q}]

(* SetThroughput and SetLatency: one entry of MetricByKey for each key.    *)
ByKey(throughput, latency) ==
  [key \in {Key(s) : s \in throughput \union latency} |->
     [throughput |-> ByQuantile({s \in throughput : Key(s) = key}),
      latency    |-> ByQuantile({s \in latency : Key(s) = key})]]

NoCalls == [key \in {} |-> {}]

EmptyMetrics ==
  [statistics |-> [f \in Statistics("host") |-> ByQuantile({})],
   calls      |-> [c \in Components("host") |-> NoCalls],
   firsts     |-> [f \in Firsts("host") |-> {}]]

TypeOK ==
  /\ clusterType \in {"host", "virtual"}
  /\ phase \in Contexts \union {"reported", "panicked"}
  /\ at \in 1..(Len(Program("host")) + 1)
  /\ lists \in [Lists -> SUBSET Samples]
  /\ answered \subseteq Samples
  /\ faults \in 0..MaxFaults

Init ==
  /\ clusterType \in {"host", "virtual"}
  /\ phase = "host"
  /\ at = 1
  /\ lists = [l \in Lists |-> {}]
  /\ report = [c \in Contexts |-> EmptyMetrics]
  /\ answered = {}
  /\ faults = 0

-----------------------------------------------------------------------------
(* The entry that is executed next, when it has the given kind.            *)
Step(op) ==
  /\ phase \in Contexts
  /\ at <= Len(Program(phase))
  /\ Program(phase)[at].op = op
  /\ at' = at + 1
  /\ UNCHANGED clusterType

Entry == Program(phase)[at]

(* Faulty variants: the "quantile" label is not set on the samples; the    *)
(* second collection goes on with the lists of the first.                  *)
AnswersUnlabelled(metric, q, series) ==
  {[context |-> phase, metric |-> metric, q |-> "none", call |-> c] :
     c \in series}

CollectedTwice ==
  /\ phase \in Contexts
  /\ at > Len(Program(phase))
  /\ IF phase = "host" /\ clusterType = "virtual"
     THEN phase' = "virtual" /\ at' = 1
     ELSE phase' = "reported" /\ UNCHANGED at
  /\ UNCHANGED <<clusterType, lists, report, answered, faults>>

(* The samples of a query in the context under way.                        *)
Answers(metric, q, series) ==
  {[context |-> phase, metric |-> metric, q |-> q, call |-> c] : c \in series}

(* A query has a sample for each series, or for fewer of them: none at all *)
(* also stands for an error, after which the loop goes on.                 *)
RunQuery ==
  /\ Step("query")
  /\ \E series \in SUBSET Series(Entry.metric) :
       LET samples == Answers(Entry.metric, Entry.q, series)
       IN  /\ series # Series(Entry.metric) => faults < MaxFaults
           /\ faults' = IF series = Series(Entry.metric) THEN faults
                                                         ELSE faults + 1
           /\ answered' = answered \union samples
           /\ lists' = [lists EXCEPT ![Entry.into] = @ \union samples]
  /\ UNCHANGED <<phase, report>>

SetStatistics ==
  /\ Step("set")
  /\ report' = [report EXCEPT ![phase].statistics[Entry.field] =
                  ByQuantile(lists[Entry.from])]
  /\ UNCHANGED <<phase, lists, answered, faults>>

SetCalls ==
  /\ Step("calls")
  /\ report' = [report EXCEPT ![phase].calls[Entry.component] =
                  ByKey(lists[<<Entry.component, "Throughput">>],
                        lists[<<Entry.component, "Latency">>])]
  /\ UNCHANGED <<phase, lists, answered, faults>>

FirstAnswered ==
  /\ Step("first")
  /\ LET samples == Answers(Entry.field, Blank, {Blank})
     IN  /\ answered' = answered \union samples
         /\ report' = IF Entry.kept
                      THEN [report EXCEPT ![phase].firsts[Entry.field] =
                              samples]
                      ELSE report
  /\ UNCHANGED <<phase, lists, faults>>

FirstFails ==
  /\ Step("first")
  /\ faults < MaxFaults
  /\ faults' = faults + 1
  /\ UNCHANGED <<phase, lists, report, answered>>

(* The query succeeds with no sample: samples[0] is out of range.          *)
FirstPanics ==
  /\ Step("first")
  /\ faults < MaxFaults
  /\ faults' = faults + 1
  /\ phase' = "panicked"
  /\ UNCHANGED <<lists, report, answered>>

(* CollectMetrics returns.  The lists were local to its functions.         *)
Collected ==
  /\ phase \in Contexts
  /\ at > Len(Program(phase))
  /\ IF phase = "host" /\ clusterType = "virtual"
     THEN phase' = "virtual" /\ at' = 1 /\ lists' = [l \in Lists |-> {}]
     ELSE phase' = "reported" /\ UNCHANGED <<at, lists>>
  /\ UNCHANGED <<clusterType, report, answered, faults>>

Terminated == phase \in {"reported", "panicked"} /\ UNCHANGED vars

Next ==
  \/ RunQuery \/ SetStatistics \/ SetCalls
  \/ FirstAnswered \/ FirstFails \/ FirstPanics
  \/ Collected \/ Terminated

Spec == Init /\ [][Next]_vars

-----------------------------------------------------------------------------
(* Properties.                                                             *)

Reported == IF phase = "reported" THEN {"host", clusterType} ELSE {}

Answered(context, metric) ==
  {s \in answered : s.context = context /\ s.metric = metric}

OwnStatistic(context, f) ==
  report[context].statistics[f] = ByQuantile(Answered(context, f))

(* A failed query costs its own quantile and nothing else: every other one *)
(* holds what Prometheus answered to its own query for its own cluster.    *)
(* So does the one field that is set from a first sample.  The work        *)
(* duration of the controller manager's queue and the proposals of etcd    *)
(* are left out here.                                                      *)
StatisticsAreOwn ==
  \A context \in Reported :
    /\ \A f \in Statistics(context) \ {CM("WorkQueueWorkDuration")} :
         OwnStatistic(context, f)
    /\ report[context].firsts[Etcd("LeaderElections")] =
         Answered(context, Etcd("LeaderElections"))

OwnCall(context, component, call) ==
  LET of(name) == ByQuantile({s \in Answered(context, <<component, name>>) :
                                s.call = call})
      calls == report[context].calls[component]
  IN  IF call \in DOMAIN calls
      THEN calls[call] = [throughput |-> of("Throughput"),
                          latency    |-> of("Latency")]
      ELSE \A name \in {"Throughput", "Latency"} : of(name) = ByQuantile({})

(* For the API server, throughput and latency of a call come together, and *)
(* no call takes over a quantile that was missed for another.              *)
ApiServerCallsAreOwn ==
  \A context \in Reported, call \in Calls : OwnCall(context, "ApiServer", call)

(* The same for the components that call the API server.                   *)
ClientCallsAreOwn ==
  \A context \in Reported, call \in Calls :
    \A component \in Components(context) : OwnCall(context, component, call)

(* The throughput of their calls is right, whatever their latency is.      *)
ClientThroughputIsOwn ==
  \A context \in Reported, call \in Calls :
    \A component \in Components(context) :
      LET own == {s \in Answered(context, <<component, "Throughput">>) :
                    s.call = call}
      IN  own # {} =>
            report[context].calls[component][call].throughput = ByQuantile(own)

(* Each field of measurement.Context holds what Prometheus has answered to *)
(* the queries made for it: the work durations of the queue ("json:        *)
(* work_queue_work_duration") and the rates of the consensus proposals     *)
(* have fields, too.                                                       *)
EveryFieldIsReported ==
  \A context \in Reported :
    /\ \A f \in Statistics(context) : OwnStatistic(context, f)
    /\ \A f \in Firsts(context) :
         report[context].firsts[f] = Answered(context, f)
-----------------------------------------------------------------------------
(* Why they hold: an inductive invariant.                                  *)

(* The entries that set their field from the samples of its own queries,   *)
(* and the lists that hold them.                                           *)
IsExact(e) ==
  \/ e.op = "calls"
  \/ e.op = "set" /\ e.field # CM("WorkQueueWorkDuration")

Sources(e) ==
  IF e.op = "set" THEN {e.from}
  ELSE {<<e.component, "Throughput">>, <<e.component, "Latency">>}

(* What such an entry has written, once it is behind the collection.       *)
Holds(context, e) ==
  IF e.op = "set"
  THEN OwnStatistic(context, e.field)
  ELSE report[context].calls[e.component] =
         ByKey(Answered(context, <<e.component, "Throughput">>),
               Answered(context, <<e.component, "Latency">>))

Done(context, i) ==
  \/ phase = context /\ i < at
  \/ phase = "virtual" /\ context = "host"
  \/ context \in Reported

Shape ==
  /\ phase = "virtual" => clusterType = "virtual"
  /\ DOMAIN report = Contexts
  /\ \A context \in Contexts :
       /\ DOMAIN report[context] = {"statistics", "calls", "firsts"}
       /\ DOMAIN report[context].statistics = Statistics("host")
       /\ DOMAIN report[context].calls = Components("host")

(* A list that is yet to be used holds the answers to its own queries for  *)
(* the context under way, and those of the host come first.                *)
ListsFollow ==
  /\ phase = "host" => \A s \in answered : s.context = "host"
  /\ phase \in Contexts =>
       \A i \in at..Len(Program(phase)) :
         IsExact(Program(phase)[i]) =>
           \A l \in Sources(Program(phase)[i]) : lists[l] = Answered(phase, l)

ReportFollows ==
  \A context \in Contexts : \A i \in DOMAIN Program(context) :
    Done(context, i) /\ IsExact(Program(context)[i]) =>
      Holds(context, Program(context)[i])

(* Only a first sample is an answer about the leader elections, and there  *)
(* is one at most in each context.                                         *)
FirstsFollow ==
  /\ \A context \in Contexts :
       /\ DOMAIN report[context].firsts = Firsts("host")
       /\ report[context].firsts[Etcd("LeaderElections")] =
            Answered(context, Etcd("LeaderElections"))
  /\ \A s \in answered :
       s.metric = Etcd("LeaderElections") => s.q = Blank /\ s.call = Blank

(* Whatever is answered, these fields stay as they are in an empty report. *)
LostFields ==
  /\ lists[CM("WorkQueueWorkDuration")] = {}
  /\ \A context \in Contexts :
       /\ report[context].statistics[CM("WorkQueueWorkDuration")] =
            ByQuantile({})
       /\ \A f \in Firsts("host") \ {Etcd("LeaderElections")} :
            report[context].firsts[f] = {}

LinesInv == TypeOK /\ Shape /\ ListsFollow /\ ReportFollows
IInv == LinesInv /\ FirstsFollow /\ LostFields
=============================================================================
