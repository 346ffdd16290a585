------------------------ MODULE PrometheusProvisioner ------------------------
(***************************************************************************)
(* PrometheusProvisioner.Provision, for one virtual cluster: it applies    *)
(* the manifests, patches the etcd service, and waits until Prometheus     *)
(* scrapes the control plane of the cluster.                               *)
(*                                                                         *)
(* The wait is a poll within a poll, both wait.PollImmediate with the same *)
(* interval: the condition of the outer one, isPrometheusReady, asks for   *)
(* the active targets through PrometheusQueryExecutor.Targets, which polls *)
(* the Prometheus client until a request succeeds.  One unit of time is    *)
(* one interval (30 s); requests and commands take none.                   *)
(***************************************************************************)
EXTENDS Integers, FiniteSets

CONSTANTS
  Manifests,     \* number of manifests to apply
  Pools,         \* expectedScrapePools
  MaxTargets,    \* bound on the targets of one pool
  OuterTimeout,  \* checkPrometheusReadyTimeoutInSeconds, in intervals (10)
  InnerTimeout,  \* queryTimeout, in intervals (30)
  Stopped        \* a timer that has not been started

ASSUME ManifestsAssumption == Manifests \in Nat
ASSUME PoolsAssumption == IsFiniteSet(Pools)
ASSUME TimeoutsAssumption ==
  /\ OuterTimeout \in Nat \ {0} /\ InnerTimeout \in Nat \ {0}
  /\ MaxTargets \in Nat
  /\ Stopped \notin Nat

VARIABLES
  pc,       \* where Provision is
  applied,  \* how many manifests have been applied
  now,      \* intervals since the wait began
  outer,    \* the time at which the outer poll closes, or Stopped
  inner,    \* the time at which the inner poll closes, or Stopped
  last,     \* the polls whose condition is evaluated for the last time
  targets   \* active targets of Prometheus in each pool

timers == <<now, outer, inner, last>>
vars == <<pc, applied, timers, targets>>

TypeOK ==
  /\ pc \in {"apply", "patch", "ask", "innerSleep", "outerSleep",
             "healthy", "timeout", "unreachable", "unusable", "fatal"}
  /\ applied \in 0..Manifests
  /\ now \in Nat
  /\ outer \in Nat \union {Stopped}
  /\ inner \in Nat \union {Stopped}
  /\ last \subseteq {"outer", "inner"}
  /\ targets \in [Pools -> 0..MaxTargets]

Init ==
  /\ pc = "apply"
  /\ applied = 0
  /\ now = 0
  /\ outer = Stopped
  /\ inner = Stopped
  /\ last = {}
  /\ targets = [p \in Pools |-> 0]

(* How Provision ends: it returns nil, one of three errors, or not at all. *)
Ended == {"healthy", "timeout", "unreachable", "unusable", "fatal"}

-----------------------------------------------------------------------------
(* Manifests and patch.                                                    *)

ApplyManifest ==
  /\ pc = "apply"
  /\ applied < Manifests
  /\ applied' = applied + 1
  /\ UNCHANGED <<pc, timers, targets>>

AllApplied ==
  /\ pc = "apply"
  /\ applied = Manifests
  /\ pc' = "patch"
  /\ UNCHANGED <<applied, timers, targets>>

ApplyEtcdServicePatch ==
  /\ pc = "patch"
  /\ pc' = "ask"
  /\ UNCHANGED <<applied, timers, targets>>

(* A kubectl command fails: log.Fatalf.                                    *)
CommandFails ==
  /\ pc \in {"apply", "patch"}
  /\ pc = "apply" => applied < Manifests
  /\ pc' = "fatal"
  /\ UNCHANGED <<applied, timers, targets>>

-----------------------------------------------------------------------------
(* wait.PollImmediate evaluates its condition at once; then it starts a    *)
(* timer and evaluates it at each tick, and one last time when the timer   *)
(* closes the channel.  A tick that nobody waits for is dropped, and when  *)
(* a tick and the end fall together either may come first.                 *)

SetTimer(timer, timeout) == IF timer = Stopped THEN now + timeout ELSE timer

(* What wakes a sleeper: a tick, or the end of its poll.                   *)
TickOrEnd(timer, poll) ==
  \/ now < timer /\ now' = now + 1 /\ UNCHANGED last
  \/ now + 1 = timer /\ now' = timer /\ last' = last \union {poll}
  \/ now >= timer /\ now' = now /\ last' = last \union {poll}

(* Prometheus discovers and loses targets as it likes.                     *)
TargetsChange ==
  /\ pc \notin Ended
  /\ \E p \in Pools, n \in 0..MaxTargets : targets' = [targets EXCEPT ![p] = n]
  /\ UNCHANGED <<pc, applied, timers>>

-----------------------------------------------------------------------------
(* The inner poll, PrometheusQueryExecutor.Targets.                        *)

(* Faulty variants: the error of a request ends the poll, as it does in    *)
(* PrometheusQueryExecutor.Query; the last evaluation may be repeated, too. *)
RequestFailsAtOnce ==
  /\ pc = "ask"
  /\ pc' = "unreachable"
  /\ UNCHANGED <<applied, timers, targets>>

RequestFailsRetries ==
  /\ pc = "ask"
  /\ pc' = "innerSleep"
  /\ inner' = SetTimer(inner, InnerTimeout)
  /\ UNCHANGED <<applied, now, outer, last, targets>>

(* The request fails: (false, nil), so the poll goes on unless this was    *)
(* the last evaluation.                                                    *)
RequestFails ==
  /\ pc = "ask"
  /\ IF "inner" \in last
     THEN pc' = "unreachable" /\ UNCHANGED inner
     ELSE pc' = "innerSleep" /\ inner' = SetTimer(inner, InnerTimeout)
  /\ UNCHANGED <<applied, now, outer, last, targets>>

InnerWakes ==
  /\ pc = "innerSleep"
  /\ TickOrEnd(inner, "inner")
  /\ pc' = "ask"
  /\ UNCHANGED <<applied, outer, inner, targets>>

(* There is a body, but no targets in it: a direct request does not look   *)
(* at the HTTP status.  The error ends both polls.                         *)
BodyUnusable ==
  /\ pc = "ask"
  /\ pc' = "unusable"
  /\ UNCHANGED <<applied, timers, targets>>

-----------------------------------------------------------------------------
(* The outer poll, waitForPrometheusToBeHealthy.                           *)

(* The active targets of the expected pools, each by its pool and a number *)
ReadyTargets == {t \in Pools \X (1..MaxTargets) : t[2] <= targets[t[1]]}

(* A faulty variant: any target at all will do.                            *)
AnyTargetReady == ReadyTargets # {}

(* readyTargetsCount counts the targets of the expected pools, all in one. *)
PrometheusReady == Cardinality(ReadyTargets) = Cardinality(Pools)

(* Targets returns, and with it the inner poll.                            *)
TargetsReturned ==
  /\ pc = "ask"
  /\ inner' = Stopped
  /\ last' = last \ {"inner"}
  /\ UNCHANGED <<applied, now, targets>>

Ready ==
  /\ TargetsReturned
  /\ PrometheusReady
  /\ pc' = "healthy"
  /\ UNCHANGED outer

(* A faulty variant: each evaluation starts the outer timer again.         *)
NotReadyRestarts ==
  /\ TargetsReturned
  /\ ~PrometheusReady
  /\ IF "outer" \in last
     THEN pc' = "timeout" /\ UNCHANGED outer
     ELSE pc' = "outerSleep" /\ outer' = now + OuterTimeout

NotReady ==
  /\ TargetsReturned
  /\ ~PrometheusReady
  /\ IF "outer" \in last
     THEN pc' = "timeout" /\ UNCHANGED outer
     ELSE pc' = "outerSleep" /\ outer' = SetTimer(outer, OuterTimeout)

OuterWakes ==
  /\ pc = "outerSleep"
  /\ TickOrEnd(outer, "outer")
  /\ pc' = "ask"
  /\ UNCHANGED <<applied, outer, inner, targets>>

-----------------------------------------------------------------------------
Provision ==
  \/ ApplyManifest \/ AllApplied \/ ApplyEtcdServicePatch \/ CommandFails
  \/ RequestFails \/ InnerWakes \/ BodyUnusable
  \/ Ready \/ NotReady \/ OuterWakes

Terminated == pc \in Ended /\ UNCHANGED vars

Next == Provision \/ TargetsChange \/ Terminated

Spec == Init /\ [][Next]_vars

(* Time passes, and every command and request is assumed to return: the    *)
(* code sets no limit of its own on either.                                *)
FairSpec == Spec /\ WF_vars(Provision)

-----------------------------------------------------------------------------
(* Properties.                                                             *)

(* waitForPrometheusToBeHealthy is over in bounded time, but not within    *)
(* checkPrometheusReadyTimeoutInSeconds: each condition of the outer poll  *)
(* may poll for InnerTimeout itself.  The first one starts no timer, one   *)
(* may begin just before the outer timer ends, and one more is evaluated   *)
(* after that: hence three.                                                *)
WaitIsBounded == now <= OuterTimeout + 3 * InnerTimeout

(* Nobody gives up early: the error of a timeout means that the poll has   *)
(* lasted that long since its first evaluation.                            *)
TimeoutsAreHonest ==
  /\ pc = "timeout" => now >= OuterTimeout
  /\ pc = "unreachable" => now >= InnerTimeout

(* isPrometheusReady "Checks that targets for control plane are ready":    *)
(* each of the three components is scraped when Provision returns.         *)
HealthyMeansEveryPool == pc = "healthy" => \A p \in Pools : targets[p] > 0

(* That is not so, but the only way for Provision to return without a pool *)
(* is that another one is scraped more than once.                          *)
HealthyUnlessCountedTwice ==
  HealthyMeansEveryPool \/ \E p \in Pools : targets[p] > 1

(* Provision returns, or ends the process, however the targets flap.       *)
ProvisionEnds == <>(pc \in Ended)
-----------------------------------------------------------------------------
(* Why the wait is bounded: an inductive invariant.                        *)

(* The first evaluation of the outer poll: its timer has not been started. *)
FirstEvaluation ==
  outer = Stopped =>
    /\ "outer" \notin last /\ pc # "outerSleep"
    /\ now <= InnerTimeout
    /\ inner = Stopped /\ pc \notin Ended => now = 0
    /\ inner # Stopped => now <= inner /\ inner <= InnerTimeout

(* An evaluation at a tick begins before the outer timer ends, the last    *)
(* one when the evaluation before it is over.                              *)
LaterEvaluations ==
  outer # Stopped =>
    /\ outer <= OuterTimeout + InnerTimeout
    /\ now <= outer + 2 * InnerTimeout
    /\ inner # Stopped => now <= inner /\ inner <= outer + 2 * InnerTimeout
    /\ inner = Stopped /\ pc \notin Ended => now <= outer + InnerTimeout
    /\ "outer" \notin last =>
         /\ pc # "timeout"
         /\ now <= outer + InnerTimeout
         /\ inner # Stopped => inner <= outer + InnerTimeout
         /\ pc = "ask" /\ inner = Stopped => now <= outer

WaitInv ==
  /\ TypeOK
  /\ pc \in {"apply", "patch"} => outer = Stopped /\ inner = Stopped
  /\ pc = "innerSleep" => inner # Stopped
  /\ pc = "outerSleep" => inner = Stopped
  /\ FirstEvaluation
  /\ LaterEvaluations

(* A timer ends no earlier than it would if it had been started at once,   *)
(* and an evaluation is the last one only when its timer has ended.        *)
TimersInv ==
  /\ outer # Stopped => outer >= OuterTimeout
  /\ inner # Stopped => inner >= InnerTimeout
  /\ "outer" \in last => outer # Stopped /\ now >= outer
  /\ "inner" \in last => inner # Stopped /\ now >= inner
  /\ TimeoutsAreHonest

(* Nothing is looked at after Provision has ended: what was counted stands. *)
HealthyInv ==
  /\ targets \in [Pools -> 0..MaxTargets]
  /\ pc = "healthy" => PrometheusReady
=============================================================================
