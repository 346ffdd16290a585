---------------------------- MODULE ClusterFleet ----------------------------
(***************************************************************************)
(* What the VirtualClusterManager interface promises to RunExperiment:     *)
(* Create returns only when every configured cluster is ready, Delete      *)
(* returns only when every one of them is removed, and the only other way  *)
(* out of either call is the end of the process (log.Fatal), which may     *)
(* also come between the two.                                              *)
(*                                                                         *)
(* It says nothing of goroutines, wait groups, temporary files or          *)
(* commands; module VirtualClusterManager implements it.                   *)
(***************************************************************************)

CONSTANT Clusters  \* the virtual clusters of the benchmark configuration

VARIABLES
  phase,  \* where the caller of the manager is
  fleet   \* what has become of each cluster

vars == <<phase, fleet>>

TypeOK ==
  /\ phase \in {"creating", "running", "deleting", "deleted", "aborted"}
  /\ fleet \in [Clusters -> {"absent", "ready", "removed"}]

Init ==
  /\ phase = "creating"
  /\ fleet = [c \in Clusters |-> "absent"]

BecomeReady(c) ==
  /\ phase = "creating"
  /\ fleet[c] = "absent"
  /\ fleet' = [fleet EXCEPT ![c] = "ready"]
  /\ UNCHANGED phase

Create ==
  /\ phase = "creating"
  /\ \A c \in Clusters : fleet[c] = "ready"
  /\ phase' = "running"
  /\ UNCHANGED fleet

StartDelete ==
  /\ phase = "running"
  /\ phase' = "deleting"
  /\ UNCHANGED fleet

BecomeRemoved(c) ==
  /\ phase = "deleting"
  /\ fleet[c] = "ready"
  /\ fleet' = [fleet EXCEPT ![c] = "removed"]
  /\ UNCHANGED phase

Delete ==
  /\ phase = "deleting"
  /\ \A c \in Clusters : fleet[c] = "removed"
  /\ phase' = "deleted"
  /\ UNCHANGED fleet

(* log.Fatal, in some goroutine or during the tests: no destructor runs,   *)
(* the clusters stay.                                                      *)
Abort ==
  /\ phase \in {"creating", "running", "deleting"}
  /\ phase' = "aborted"
  /\ UNCHANGED fleet

Next ==
  \/ Create \/ StartDelete \/ Delete \/ Abort
  \/ \E c \in Clusters : BecomeReady(c) \/ BecomeRemoved(c)

Spec == Init /\ [][Next]_vars

=============================================================================
