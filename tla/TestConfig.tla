------------------------------ MODULE TestConfig ------------------------------
(***************************************************************************)
(* The configurations of config/config.go and lifecycle_test_config.go:    *)
(* the defaults, UnmarshalJSON with the expansion of the paths and the     *)
(* default namespaces, and what vbench makes of the names of the clusters  *)
(* when it measures them.                                                  *)
(*                                                                         *)
(* A path is a pair: "~", "home" or "." and what follows.  A namespace is  *)
(* a pair, too, of a prefix and a name, so that a file may ask for a name  *)
(* that begins like the default.  The fields that the code only carries    *)
(* from the file to its users are left out, but for the name.              *)
(***************************************************************************)

NoPath == <<".", "">>
NoNamespace == <<"", "">>

NewDefaultTestConfig(configPath) ==
  [config_path                 |-> configPath,
   name                        |-> "",
   cluster_type                |-> "",
   root_kubeconfig_path        |-> <<"~", ".kube/config">>,
   kubeconfig_base_path        |-> NoPath,
   clusters                    |-> <<>>,
   meta_info_path              |-> NoPath,
   should_provision_monitoring |-> TRUE,
   prometheus_conn_type        |-> "proxy",
   vcluster_conn_type          |-> "direct"]

NewDefaultLifecycleTestConfig(configPath) ==
  [config_path          |-> configPath,
   name                 |-> "",
   root_kubeconfig_path |-> <<"~", ".kube/config">>,
   meta_info_path       |-> NoPath]

(* StandardPathExpander.ExpandPath                                         *)
ExpandPath(path) == IF path[1] = "~" THEN <<"home", path[2]>> ELSE path

(* json.Unmarshal sets the fields that the object has and knows.           *)
Merged(testConfig, object) ==
  [f \in DOMAIN testConfig |->
     IF f \in DOMAIN object THEN object[f] ELSE testConfig[f]]

(* The fields that expandPaths sets.  The kubeconfig path of a cluster is  *)
(* set in the copy that the loop variable holds, and stays as it is.       *)
ExpandedFields ==
  {"config_path", "root_kubeconfig_path", "kubeconfig_base_path",
   "meta_info_path"}

expandPaths(testConfig) ==
  [f \in DOMAIN testConfig |->
     IF f \in ExpandedFields THEN ExpandPath(testConfig[f])
                             ELSE testConfig[f]]

DefaultNamespace(name) == <<"vcluster-", name>>

Namespace(clusterConfig) ==
  IF clusterConfig.namespace = NoNamespace
  THEN DefaultNamespace(clusterConfig.name) ELSE clusterConfig.namespace

WithNamespaces(clusters) ==
  [i \in DOMAIN clusters |->
     [clusters[i] EXCEPT !.namespace = Namespace(clusters[i])]]

(* UnmarshalJSON of the two kinds of configuration.                        *)
UnmarshalLifecycle(testConfig, object) ==
  expandPaths(Merged(testConfig, object))

Unmarshal(testConfig, object) ==
  [expandPaths(Merged(testConfig, object)) EXCEPT !.clusters =
     WithNamespaces(@)]

-----------------------------------------------------------------------------
(* The clusters of a measurement.Context, without their order.             *)

HostClusterNames == {""}

(* (Faulty variant: the condition of the filter is inverted.)              *)
VirtualClusterNamesInverted(testConfig) ==
  {testConfig.clusters[i].name : i \in DOMAIN testConfig.clusters}
  \intersect {"host"}

VirtualClusterNames(testConfig) ==
  {testConfig.clusters[i].name : i \in DOMAIN testConfig.clusters} \ {"host"}

(* The values of the label "cluster" that match =~"name|name|...".  The    *)
(* series of the host cluster have no such label: to Prometheus its value  *)
(* is "", which the pattern of no names matches as well.                   *)
MatchedLabels(names) == IF names = {} THEN {""} ELSE names
=============================================================================
