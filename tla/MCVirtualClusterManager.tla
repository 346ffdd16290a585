----------------------- MODULE MCVirtualClusterManager -----------------------
(* Instances of VirtualClusterManager for TLC.                             *)
EXTENDS VirtualClusterManager, TLC

(* The clusters are interchangeable: nothing in the manager orders them.   *)
Symmetry == Permutations(Clusters)
=============================================================================
