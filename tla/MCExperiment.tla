----------------------------- MODULE MCExperiment -----------------------------
(* An instance of Experiment for TLC.                                      *)
EXTENDS Experiment

CONSTANTS c1, c2

C(name, type, clusters, configMaps) ==
  [name |-> name, clusterType |-> type, clusters |-> clusters,
   configMaps |-> configMaps]

(* Two virtual clusters or one, the host cluster with resources or without *)
(* them, and two configurations of one Name.                               *)
Both == C("first", "virtual", <<c1, c2>>, 1)
One == C("second", "virtual", <<c2>>, 0)
OnHost == C("third", "host", <<Host>>, 2)
Bare == C("third", "host", <<Host>>, 0)

SmallConfigs == {Both, One, OnHost, Bare}
SmallBatches == {{Both, OnHost}, {One, Bare}, {OnHost, Bare},
                 {Both, One}}
TwoVirtual == {c1, c2}
=============================================================================
