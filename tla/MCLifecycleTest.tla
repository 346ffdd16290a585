--------------------------- MODULE MCLifecycleTest ---------------------------
(* Instances of LifecycleTest for TLC.                                     *)
EXTENDS LifecycleTest

C(parallelism, count) == [parallelism |-> parallelism, count |-> count]

(* Nothing to do in three ways, a count that wg.Add rejects, one goroutine *)
(* alone, and two or three that share the lists.                           *)
SmallConfigs ==
  {C(-1, 2), C(0, 2), C(2, 0), C(2, -1), C(1, 3), C(2, 2), C(3, 1)}
=============================================================================
