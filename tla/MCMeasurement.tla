---------------------------- MODULE MCMeasurement ----------------------------
(* An instance of Measurement for TLC.                                     *)
EXTENDS Measurement

File(name, ext, kind, object) ==
  [name |-> name, ext |-> ext, content |-> [kind |-> kind, object |-> object]]
Object(name, object) == File(name, ".json", "object", object)

Cluster(name, namespace) ==
  [name |-> name, namespace |-> namespace, kubeconfig |-> <<"~", name>>]

NoFields == [f \in {} |-> ""]

(* Two clusters, one of them in a namespace that is the other's default.   *)
Virtual ==
  Object("virtual",
    [name |-> "v", cluster_type |-> "virtual",
     clusters |-> <<Cluster("c1", NoNamespace),
                    Cluster("c2", DefaultNamespace("c1"))>>,
     meta_info_path |-> <<"~", "info">>,
     should_provision_monitoring |-> FALSE])

OnHost ==
  Object("host",
    [cluster_type |-> "host", clusters |-> <<Cluster("host", NoNamespace)>>,
     config_path |-> <<"~", "other">>, prometheus_conn_type |-> "direct"])

(* A virtual benchmark of clusters that are called "host", or have no name, *)
(* or of none.                                                             *)
CalledHost ==
  Object("called",
    [cluster_type |-> "virtual",
     clusters |-> <<Cluster("host", NoNamespace)>>])
Unnamed ==
  Object("unnamed",
    [cluster_type |-> "virtual",
     clusters |-> <<Cluster("", NoNamespace), Cluster("c1", NoNamespace)>>])
Empty == Object("empty", [cluster_type |-> "virtual"])

NullFile == File("null", ".json", "null", NoFields)
Malformed == File("malformed", ".json", "malformed", NoFields)
Notes == File("notes", ".txt", "malformed", NoFields)

Argument(root, isDir, files) ==
  [root |-> root, isDir |-> isDir, files |-> files]

SmallArguments ==
  {Argument("~", TRUE, {Virtual, OnHost, Empty}),
   Argument(".", TRUE, {Virtual, OnHost, Notes}),
   Argument(".", TRUE, {Unnamed, NullFile}),
   Argument(".", TRUE, {CalledHost, Malformed}),
   Argument(".", TRUE, {Notes}),
   Argument("~", FALSE, {Virtual}),
   Argument(".", FALSE, {OnHost}),
   Argument(".", FALSE, {NullFile})}

(* Half a second, and less or more than a second, a minute and two.        *)
SmallDurations == {500, 1500, 59600, 119999, 120000}
=============================================================================
