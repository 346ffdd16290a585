------------------------ MODULE VirtualClusterManager ------------------------
(***************************************************************************)
(* StandardVirtualClusterManager of virtual_cluster/                       *)
(* vanilla_vcluster_manager.go: Create and Delete, as RunExperiment calls  *)
(* them one after the other on one benchmark configuration.                *)
(*                                                                         *)
(* Each call starts one goroutine per cluster and waits for all of them.   *)
(* The goroutines of Create share the slice                                *)
(* benchmarkConfig.ClusterCreateOptions: when it has a "-f" flag, each one *)
(* reads the values path that follows the flag, renders that template for  *)
(* its cluster into a temporary file, and writes the file's name back into *)
(* the slice, without a lock.  A goroutine that meets an error calls       *)
(* log.Fatal, which ends the whole process and runs no deferred call.      *)
(***************************************************************************)
EXTENDS Integers, FiniteSets

CONSTANTS
  Clusters,   \* benchmarkConfig.ClusterConfigs; a cluster also names the
              \* temporary file that its goroutine creates
  UserValues, \* the path, and the content, of the user's values template
  Torn,       \* a string mixed from two others: it names no file
  None        \* no file

ASSUME ClustersAssumption == IsFiniteSet(Clusters)
ASSUME PathsAssumption ==
  /\ {UserValues, Torn, None} \cap Clusters = {}
  /\ UserValues # Torn /\ UserValues # None /\ Torn # None

VARIABLES
  config,     \* the parts of benchmarkConfig that decide what Create does
  main,       \* where the caller of Create and Delete is
  alive,      \* FALSE once the process has ended
  wg,         \* counter of the WaitGroup of the call in progress
  pc,         \* next step of each cluster's goroutine in Create
  dpc,        \* next step of each cluster's goroutine in Delete
  option,     \* the two words of ClusterCreateOptions[indexOfValuesFlag+1]
  path,       \* the values path that each Create goroutine holds
  file,       \* whose data each temporary file was rendered with
  vclusters,  \* virtual clusters that exist
  values,     \* content of the values file each cluster was created with
  namespaces, \* cluster namespaces that exist in the host cluster
  connected,  \* clusters whose kubeconfig has been written
  monitored   \* clusters that Prometheus has been set up to scrape

hostVars == <<vclusters, values, namespaces, connected, monitored>>
vars == <<config, main, alive, wg, pc, dpc, option, path, file, hostVars>>

Configs ==
  [valuesFlag : {"absent", "present", "illegal"},
   connType   : {"direct", "ingress"},
   provision  : BOOLEAN]

CreateSteps ==
  {"idle", "start", "render", "storeLen", "storePtr", "namespace", "ingress",
   "own", "args", "create", "connect", "unlinkOwn", "provision", "finish",
   "unlink", "done"}

DeleteSteps == {"idle", "cluster", "namespace", "finish", "done"}

TypeOK ==
  /\ config \in Configs
  /\ main \in {"creating", "running", "deleting", "deleted"}
  /\ alive \in BOOLEAN
  /\ wg \in Int
  /\ pc \in [Clusters -> CreateSteps]
  /\ dpc \in [Clusters -> DeleteSteps]
  /\ option \in [ptr : Clusters \union {UserValues},
                 len : Clusters \union {UserValues}]
  /\ path \in [Clusters -> Clusters \union {UserValues, Torn, None}]
  /\ file \in [Clusters -> Clusters \union {None}]
  /\ vclusters \subseteq Clusters
  /\ values \in [Clusters -> Clusters \union {UserValues, None}]
  /\ namespaces \subseteq Clusters
  /\ connected \subseteq Clusters
  /\ monitored \subseteq Clusters

Init ==
  /\ config \in Configs
  /\ main = "creating"
  /\ alive = TRUE
  /\ wg = 0
  /\ pc = [c \in Clusters |-> "idle"]
  /\ dpc = [c \in Clusters |-> "idle"]
  /\ option = [ptr |-> UserValues, len |-> UserValues]
  /\ path = [c \in Clusters |-> None]
  /\ file = [c \in Clusters |-> None]
  /\ vclusters = {}
  /\ values = [c \in Clusters |-> None]
  /\ namespaces = {}
  /\ connected = {}
  /\ monitored = {}

-----------------------------------------------------------------------------
(* The goroutine of c moves on in Create, or in Delete; the process lives. *)
Step(c, from, to) ==
  /\ alive
  /\ pc[c] = from
  /\ pc' = [pc EXCEPT ![c] = to]
  /\ UNCHANGED <<config, main, alive, dpc>>

DeleteStep(c, from, to) ==
  /\ alive
  /\ dpc[c] = from
  /\ dpc' = [dpc EXCEPT ![c] = to]
  /\ UNCHANGED <<config, main, alive, pc>>

CustomValues == config.valuesFlag = "present"
Ingress == config.connType = "ingress"

Exists(p) == p = UserValues \/ (p \in Clusters /\ file[p] # None)

(* A values file holds the user's template, or the data of the cluster it  *)
(* was rendered for.                                                       *)
Content(p) == IF p = UserValues THEN UserValues ELSE file[p]

(* Rendering for c fills the placeholders; a rendered file has none left.  *)
Rendered(p, c) == IF Content(p) = UserValues THEN c ELSE Content(p)

(* What a goroutine may get when it reads the shared string, in two loads: *)
(* its words can come from different stores, or a store can come between   *)
(* the loads; then the result is the string of the pointer (when the       *)
(* lengths agree) or no file's name.                                       *)
Storing == \E c \in Clusters : pc[c] \in {"storeLen", "storePtr"}

ReadOption ==
  IF option.ptr = option.len /\ ~Storing THEN {option.ptr}
                                         ELSE {option.ptr, Torn}

ConnStep == IF Ingress THEN "namespace" ELSE "args"

-----------------------------------------------------------------------------
(* Faulty variants: slips that would be easy to make in the code.  Each    *)
(* stands in for the action its name begins with, and breaks a property.   *)

(* wg.Add(1) is left to the goroutine, or forgotten.                       *)
SpawnUncounted(c) ==
  /\ main = "creating"
  /\ Step(c, "idle", "start")
  /\ UNCHANGED <<wg, option, path, file, hostVars>>

(* The rendered file's name is not written back.                           *)
StorePtrDropped(c) ==
  /\ Step(c, "storePtr", ConnStep)
  /\ UNCHANGED <<wg, option, path, file, hostVars>>

(* All goroutines render the embedded template to one file name.           *)
RenderOwnValuesShared(c) ==
  /\ Step(c, "own", "args")
  /\ file' = [d \in Clusters |-> c]
  /\ UNCHANGED <<wg, option, path, hostVars>>

(* A failed connect starts over with the create command, without limit.    *)
VclusterConnectRetries(c) ==
  \/ /\ Step(c, "connect", "create")
     /\ UNCHANGED <<wg, option, path, file, hostVars>>
  \/ /\ Step(c, "connect", IF Ingress /\ ~CustomValues THEN "unlinkOwn"
                                                       ELSE "provision")
     /\ connected' = connected \union {c}
     /\ UNCHANGED <<wg, option, path, file>>
     /\ UNCHANGED <<vclusters, values, namespaces, monitored>>

(* wg.Done() is forgotten.                                                 *)
CreateDoneUncounted(c) ==
  /\ Step(c, "finish", IF CustomValues THEN "unlink" ELSE "done")
  /\ UNCHANGED <<wg, option, path, file, hostVars>>

(* The deferred os.Remove is forgotten.                                    *)
RemoveValuesForgotten(c) ==
  /\ Step(c, "unlink", "done")
  /\ UNCHANGED <<wg, option, path, file, hostVars>>

(* Create does not wait for the goroutines it has started.                 *)
CreateReturnsEarly ==
  /\ alive
  /\ main = "creating"
  /\ \A c \in Clusters : pc[c] # "idle"
  /\ main' = "running"
  /\ UNCHANGED <<config, alive, wg, pc, dpc, option, path, file, hostVars>>

(* The namespace is left where it is.                                      *)
VclusterDeleteOnly(c) ==
  /\ c \in vclusters
  /\ DeleteStep(c, "cluster", "finish")
  /\ vclusters' = vclusters \ {c}
  /\ UNCHANGED <<wg, option, path, file>>
  /\ UNCHANGED <<values, namespaces, connected, monitored>>

-----------------------------------------------------------------------------
(* Create.                                                                 *)

(* wg.Add(1); go func() { ... }()                                          *)
Spawn(c) ==
  /\ main = "creating"
  /\ Step(c, "idle", "start")
  /\ wg' = wg + 1
  /\ UNCHANGED <<option, path, file, hostVars>>

SkipValues(c) ==
  /\ config.valuesFlag = "absent"
  /\ Step(c, "start", ConnStep)
  /\ UNCHANGED <<wg, option, path, file, hostVars>>

(* valuesInputPath := benchmarkConfig.ClusterCreateOptions[index + 1]      *)
ReadValuesPath(c) ==
  /\ CustomValues
  /\ Step(c, "start", "render")
  /\ \E p \in ReadOption : path' = [path EXCEPT ![c] = p]
  /\ UNCHANGED <<wg, option, file, hostVars>>

(* ParseFiles and executeTemplateToTempFile.  No other goroutine can name  *)
(* the new file before its name is stored, so the two are one step.        *)
RenderValues(c) ==
  /\ Exists(path[c])
  /\ Step(c, "render", "storeLen")
  /\ file' = [file EXCEPT ![c] = Rendered(path[c], c)]
  /\ UNCHANGED <<wg, option, path, hostVars>>

(* ClusterCreateOptions[index + 1] = valuesOutputFile.Name(), word by word *)
StoreLen(c) ==
  /\ Step(c, "storeLen", "storePtr")
  /\ option' = [option EXCEPT !.len = c]
  /\ UNCHANGED <<wg, path, file, hostVars>>

StorePtr(c) ==
  /\ Step(c, "storePtr", ConnStep)
  /\ option' = [option EXCEPT !.ptr = c]
  /\ UNCHANGED <<wg, path, file, hostVars>>

(* createWithIngressConnection: kubectl apply of the namespace, then of    *)
(* the ingress, which lives in the namespace.                              *)
CreateNamespace(c) ==
  /\ Step(c, "namespace", "ingress")
  /\ namespaces' = namespaces \union {c}
  /\ UNCHANGED <<wg, option, path, file>>
  /\ UNCHANGED <<vclusters, values, connected, monitored>>

CreateIngress(c) ==
  /\ Step(c, "ingress", IF CustomValues THEN "args" ELSE "own")
  /\ UNCHANGED <<wg, option, path, file, hostVars>>

(* Without custom values the embedded template is rendered to a file that  *)
(* only this goroutine knows.                                              *)
RenderOwnValues(c) ==
  /\ Step(c, "own", "args")
  /\ file' = [file EXCEPT ![c] = c]
  /\ UNCHANGED <<wg, option, path, hostVars>>

(* append(createCmdArgs, benchmarkConfig.ClusterCreateOptions...) reads    *)
(* the shared slice again.                                                 *)
BuildCreateArgs(c) ==
  /\ Step(c, "args", "create")
  /\ \E p \in CASE CustomValues             -> ReadOption
                [] ~CustomValues /\ Ingress  -> {c}
                [] ~CustomValues /\ ~Ingress -> {None} :
       path' = [path EXCEPT ![c] = p]
  /\ UNCHANGED <<wg, option, file, hostVars>>

(* The command "vcluster create" succeeds: it reads its values file when   *)
(* it runs, and creates the namespace when it has to.                      *)
VclusterCreate(c) ==
  /\ path[c] = None \/ Exists(path[c])
  /\ Step(c, "create", "connect")
  /\ vclusters' = vclusters \union {c}
  /\ namespaces' = namespaces \union {c}
  /\ values' = [values EXCEPT ![c] = IF path[c] = None THEN None
                                                       ELSE Content(path[c])]
  /\ UNCHANGED <<wg, option, path, file, connected, monitored>>

(* "vcluster connect" writes the kubeconfig; createWithIngressConnection   *)
(* then returns and its deferred call removes its own values file.         *)
VclusterConnect(c) ==
  /\ Step(c, "connect", IF Ingress /\ ~CustomValues THEN "unlinkOwn"
                                                    ELSE "provision")
  /\ connected' = connected \union {c}
  /\ UNCHANGED <<wg, option, path, file>>
  /\ UNCHANGED <<vclusters, values, namespaces, monitored>>

RemoveOwnValues(c) ==
  /\ Step(c, "unlinkOwn", "provision")
  /\ file' = [file EXCEPT ![c] = None]
  /\ UNCHANGED <<wg, option, path, hostVars>>

(* PrometheusProvisioner.Provision, when the configuration asks for it.    *)
Provision(c) ==
  /\ Step(c, "provision", "finish")
  /\ monitored' = IF config.provision THEN monitored \union {c} ELSE monitored
  /\ UNCHANGED <<wg, option, path, file>>
  /\ UNCHANGED <<vclusters, values, namespaces, connected>>

(* wg.Done() comes before the deferred os.Remove of the rendered values.   *)
CreateDone(c) ==
  /\ Step(c, "finish", IF CustomValues THEN "unlink" ELSE "done")
  /\ wg' = wg - 1
  /\ UNCHANGED <<option, path, file, hostVars>>

RemoveValues(c) ==
  /\ Step(c, "unlink", "done")
  /\ file' = [file EXCEPT ![c] = None]
  /\ UNCHANGED <<wg, option, path, hostVars>>

(* wg.Wait() lets Create return once every goroutine has been started.     *)
CreateReturns ==
  /\ alive
  /\ main = "creating"
  /\ \A c \in Clusters : pc[c] # "idle"
  /\ wg = 0
  /\ main' = "running"
  /\ UNCHANGED <<config, alive, wg, pc, dpc, option, path, file, hostVars>>

(* log.Fatal: a "-f" with no path after it, or a file operation or command *)
(* that fails; one whose values file is missing can do nothing else.       *)
CreateFatal(c) ==
  /\ alive
  /\ \/ pc[c] = "start" /\ config.valuesFlag = "illegal"
     \/ pc[c] \in {"render", "namespace", "ingress", "own", "create",
                   "connect"}
     \/ pc[c] = "provision" /\ config.provision
  /\ alive' = FALSE
  /\ UNCHANGED <<config, main, wg, pc, dpc, option, path, file, hostVars>>

-----------------------------------------------------------------------------
(* Delete.                                                                 *)

(* RunExperiment has run its tests and calls Delete.                       *)
CallDelete ==
  /\ alive
  /\ main = "running"
  /\ main' = "deleting"
  /\ UNCHANGED <<config, alive, wg, pc, dpc, option, path, file, hostVars>>

SpawnDelete(c) ==
  /\ main = "deleting"
  /\ DeleteStep(c, "idle", "cluster")
  /\ wg' = wg + 1
  /\ UNCHANGED <<option, path, file, hostVars>>

VclusterDelete(c) ==
  /\ c \in vclusters
  /\ DeleteStep(c, "cluster", "namespace")
  /\ vclusters' = vclusters \ {c}
  /\ UNCHANGED <<wg, option, path, file>>
  /\ UNCHANGED <<values, namespaces, connected, monitored>>

(* "kubectl delete namespace" also takes what was provisioned there.       *)
NamespaceDelete(c) ==
  /\ c \in namespaces
  /\ DeleteStep(c, "namespace", "finish")
  /\ namespaces' = namespaces \ {c}
  /\ monitored' = monitored \ {c}
  /\ UNCHANGED <<wg, option, path, file, vclusters, values, connected>>

DeleteDone(c) ==
  /\ DeleteStep(c, "finish", "done")
  /\ wg' = wg - 1
  /\ UNCHANGED <<option, path, file, hostVars>>

DeleteReturns ==
  /\ alive
  /\ main = "deleting"
  /\ \A c \in Clusters : dpc[c] # "idle"
  /\ wg = 0
  /\ main' = "deleted"
  /\ UNCHANGED <<config, alive, wg, pc, dpc, option, path, file, hostVars>>

DeleteFatal(c) ==
  /\ alive
  /\ dpc[c] \in {"cluster", "namespace"}
  /\ alive' = FALSE
  /\ UNCHANGED <<config, main, wg, pc, dpc, option, path, file, hostVars>>

(* Outside the two calls: log.Fatal during the tests; or, after Delete,     *)
(* main of vbench returns or dies later on.  The goroutines of Create that *)
(* have not come to their os.Remove end with the process: nobody waits for *)
(* them.                                                                   *)
ProcessEnds ==
  /\ alive
  /\ main \in {"running", "deleted"}
  /\ alive' = FALSE
  /\ UNCHANGED <<config, main, wg, pc, dpc, option, path, file, hostVars>>

-----------------------------------------------------------------------------
CreateGoroutine(c) ==
  \/ SkipValues(c) \/ ReadValuesPath(c) \/ RenderValues(c)
  \/ StoreLen(c) \/ StorePtr(c)
  \/ CreateNamespace(c) \/ CreateIngress(c) \/ RenderOwnValues(c)
  \/ BuildCreateArgs(c) \/ VclusterCreate(c) \/ VclusterConnect(c)
  \/ RemoveOwnValues(c) \/ Provision(c) \/ CreateDone(c) \/ RemoveValues(c)
  \/ CreateFatal(c)

DeleteGoroutine(c) ==
  VclusterDelete(c) \/ NamespaceDelete(c) \/ DeleteDone(c) \/ DeleteFatal(c)

Main ==
  \/ CreateReturns \/ CallDelete \/ DeleteReturns
  \/ \E c \in Clusters : Spawn(c) \/ SpawnDelete(c)

(* The process has ended, or it goes on with what is not modelled here     *)
(* after Delete has returned and the last goroutine of Create is gone.     *)
Terminated ==
  /\ ~alive \/ (main = "deleted" /\ \A c \in Clusters : pc[c] = "done")
  /\ UNCHANGED vars

Next ==
  \/ Main \/ ProcessEnds \/ Terminated
  \/ \E c \in Clusters : CreateGoroutine(c) \/ DeleteGoroutine(c)

Spec == Init /\ [][Next]_vars

(* The Go scheduler runs every goroutine that is ready, and every command  *)
(* is assumed to return in the end: the code waits for it without limit.   *)
(* Nothing promises that the process ends, nor that it goes on.            *)
FairSpec ==
  /\ Spec
  /\ WF_vars(Main)
  /\ \A c \in Clusters :
       WF_vars(CreateGoroutine(c)) /\ WF_vars(DeleteGoroutine(c))

-----------------------------------------------------------------------------
(* Properties.                                                             *)

(* A cluster is what RunExperiment expects of Create: it exists, there is  *)
(* a kubeconfig to reach it, and Prometheus scrapes it if so configured.   *)
Ready(c) ==
  /\ c \in vclusters /\ c \in namespaces /\ c \in connected
  /\ config.provision => c \in monitored

(* The tests start only when every cluster is ready, not merely when wg is *)
(* zero: vbench calls createInitialResources and runTests right after      *)
(* Create returns.                                                         *)
ReadyWhenCreateReturns == main = "running" => \A c \in Clusters : Ready(c)

(* When Delete returns the host cluster holds nothing of the experiment.   *)
DeleteLeavesNothing == main = "deleted" => vclusters = {} /\ namespaces = {}

(* With "-f", no interleaving of the goroutines creates a cluster from the *)
(* unrendered template or without values: it gets some cluster's data.     *)
NeverRawTemplate ==
  CustomValues => \A c \in vclusters : values[c] \in Clusters

(* Each cluster is created from the values rendered for it, as the fields  *)
(* of TemplateDto, passed to the template of that cluster, say.            *)
OwnValues ==
  \A c \in vclusters : values[c] # None => values[c] = c

(* The same where it does hold: the ingress values that the manager itself *)
(* renders never travel through the shared slice.                          *)
OwnIngressValues ==
  Ingress /\ ~CustomValues => \A c \in vclusters : values[c] = c

(* Create and Delete return, or the process ends: no wait group is left    *)
(* waiting, whatever fails.                                                *)
CallsReturn == <>(main = "deleted" \/ ~alive)

(* A process that lives long enough leaves no temporary values file; one   *)
(* that ends before, as vbench may right after its last Delete, leaves     *)
(* those of the goroutines that had not come to their os.Remove.           *)
TempFilesRemoved == <>[](~alive \/ \A c \in Clusters : file[c] = None)

-----------------------------------------------------------------------------
(* The manager implements what ClusterFleet promises.                      *)

(* Once Delete has returned, the end of the process breaks no promise.     *)
PhaseMap == IF alive \/ main = "deleted" THEN main ELSE "aborted"

FleetMap ==
  [c \in Clusters |->
     IF main = "creating" THEN (IF Ready(c) THEN "ready" ELSE "absent")
     ELSE IF c \in vclusters \union namespaces THEN "ready" ELSE "removed"]

Fleet == INSTANCE ClusterFleet WITH phase <- PhaseMap, fleet <- FleetMap

(* Every step of the manager is a step of ClusterFleet, or none.           *)
FleetSpec == Fleet!Spec
-----------------------------------------------------------------------------
(* Why the properties hold: an inductive invariant.                        *)

(* The goroutines that wg still counts.                                    *)
Working ==
  {c \in Clusters : \/ pc[c] \notin {"idle", "unlink", "done"}
                    \/ dpc[c] \in {"cluster", "namespace", "finish"}}

WgCountsWorking == wg = Cardinality(Working)

(* Delete starts no goroutine while one of Create is at work, and a call   *)
(* returns with all of its goroutines started and past wg.Done().          *)
CallsDoNotOverlap ==
  \A c \in Clusters :
    /\ main \in {"creating", "running"} => dpc[c] = "idle"
    /\ main # "creating" => pc[c] \in {"unlink", "done"}
    /\ main = "deleted" => dpc[c] = "done"

Connected == {"unlinkOwn", "provision", "finish", "unlink", "done"}

(* Where a goroutine is tells what it has done to the host cluster.        *)
StepsDone ==
  \A c \in Clusters :
    /\ pc[c] \in Connected \union {"connect"} /\ dpc[c] \in {"idle", "cluster"}
         => c \in vclusters /\ c \in namespaces
    /\ pc[c] \in Connected => c \in connected
    /\ pc[c] \in {"finish", "unlink", "done"} /\ config.provision
         /\ dpc[c] \in {"idle", "cluster", "namespace"} => c \in monitored
    /\ dpc[c] = "namespace" => c \in namespaces
    /\ dpc[c] \in {"namespace", "finish", "done"} => c \notin vclusters
    /\ dpc[c] \in {"finish", "done"} => c \notin namespaces

(* With "-f" the shared slot holds a pointer to a rendered file's name     *)
(* from the first store on, and every goroutine reads it after its own.    *)
SlotIsRendered ==
  CustomValues => \A c \in Clusters :
    /\ pc[c] \in {"namespace", "ingress", "args"} => option.ptr \in Clusters
    /\ pc[c] = "create" => path[c] \in Clusters \union {Torn}
    /\ pc[c] \notin {"own", "unlinkOwn"}
    /\ c \in vclusters => values[c] \in Clusters

IInv ==
  /\ TypeOK
  /\ WgCountsWorking
  /\ CallsDoNotOverlap
  /\ StepsDone
  /\ SlotIsRendered

(* With ingress and without "-f" a goroutine passes the name of the file   *)
(* that it has rendered itself.                                            *)
OwnFile ==
  Ingress /\ ~CustomValues => \A c \in Clusters :
    /\ pc[c] \notin {"render", "storeLen", "storePtr", "unlink"}
    /\ pc[c] \in {"args", "create"} => file[c] = c
    /\ pc[c] = "create" => path[c] = c
    /\ c \in vclusters => values[c] = c
=============================================================================
