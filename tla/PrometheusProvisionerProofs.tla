--------------------- MODULE PrometheusProvisionerProofs ---------------------
(***************************************************************************)
(* Theorems about PrometheusProvisioner, for every number of manifests and *)
(* targets and every pair of timeouts.                                     *)
(***************************************************************************)
EXTENDS PrometheusProvisioner, FiniteSetTheorems, TLAPS

LEMMA WaitInit == Init => WaitInv
  BY ManifestsAssumption, TimeoutsAssumption
  DEF Init, WaitInv, TypeOK, FirstEvaluation, LaterEvaluations, Ended

LEMMA WaitTypes == TypeOK /\ [Next]_vars => TypeOK'
  <1> SUFFICES ASSUME TypeOK, [Next]_vars PROVE TypeOK'
    OBVIOUS
  <1> USE DEF TypeOK, timers
  <1>1. CASE ApplyManifest
    <2>1. applied' \in 0..Manifests
      BY <1>1, ManifestsAssumption DEF ApplyManifest
    <2> QED
      BY <1>1, <2>1 DEF ApplyManifest
  <1>2. CASE AllApplied \/ ApplyEtcdServicePatch \/ CommandFails
    BY <1>2 DEF AllApplied, ApplyEtcdServicePatch, CommandFails
  <1>3. CASE RequestFails
    <2>1. inner' \in Nat \union {Stopped}
      BY <1>3, TimeoutsAssumption DEF RequestFails, SetTimer
    <2> QED
      BY <1>3, <2>1 DEF RequestFails
  <1>4. CASE BodyUnusable
    BY <1>4 DEF BodyUnusable
  <1>5. ASSUME NEW timer \in {inner, outer}, NEW poll \in {"inner", "outer"},
               TickOrEnd(timer, poll)
        PROVE  now' \in Nat /\ last' \subseteq {"outer", "inner"}
    <2>1. now' \in {now, now + 1} /\ last' \in {last, last \union {poll}}
      BY <1>5 DEF TickOrEnd
    <2> QED
      BY <1>5, <2>1
  <1>6. CASE InnerWakes \/ OuterWakes
    BY <1>5, <1>6 DEF InnerWakes, OuterWakes
  <1>7. CASE Ready \/ NotReady
    <2>1. outer' \in Nat \union {Stopped}
      BY <1>7, TimeoutsAssumption DEF Ready, NotReady, SetTimer
    <2> QED
      BY <1>7, <2>1 DEF Ready, NotReady, TargetsReturned
  <1>8. CASE TargetsChange
    BY <1>8 DEF TargetsChange
  <1>9. CASE UNCHANGED vars
    BY <1>9 DEF vars
  <1> QED
    BY <1>1, <1>2, <1>3, <1>4, <1>6, <1>7, <1>8, <1>9
    DEF Next, Provision, Terminated

LEMMA WaitStep == WaitInv /\ [Next]_vars => WaitInv'
  <1> SUFFICES ASSUME WaitInv, [Next]_vars PROVE WaitInv'
    OBVIOUS
  <1>0. TypeOK /\ TypeOK'
    BY WaitTypes DEF WaitInv
  <1> USE <1>0, TimeoutsAssumption
      DEF TypeOK, WaitInv, FirstEvaluation, LaterEvaluations, timers, SetTimer,
          Ended
  <1>1. CASE \/ ApplyManifest \/ AllApplied \/ ApplyEtcdServicePatch
             \/ CommandFails
    BY <1>1 DEF ApplyManifest, AllApplied, ApplyEtcdServicePatch, CommandFails
  <1>2. CASE RequestFails
    BY <1>2 DEF RequestFails
  <1>3. CASE BodyUnusable
    BY <1>3 DEF BodyUnusable
  <1>4. CASE InnerWakes
    BY <1>4 DEF InnerWakes, TickOrEnd
  <1>5. CASE OuterWakes
    BY <1>5 DEF OuterWakes, TickOrEnd
  <1>6. CASE Ready
    BY <1>6 DEF Ready, TargetsReturned
  <1>7. CASE NotReady
    <2> USE <1>7 DEF NotReady, TargetsReturned
    <2>1. CASE "outer" \in last
      <3>1. outer # Stopped /\ outer' = outer /\ pc' = "timeout"
        BY <2>1
      <3>2. now' <= outer + 2 * InnerTimeout
        BY <3>1
      <3> QED
        BY <2>1, <3>1, <3>2
    <2>2. CASE "outer" \notin last /\ outer = Stopped
      <3>1. /\ outer' = now + OuterTimeout /\ outer' \in Nat
            /\ now <= InnerTimeout
        BY <2>2
      <3> QED
        BY <2>2, <3>1
    <2>3. CASE "outer" \notin last /\ outer # Stopped
      <3>1. outer' = outer /\ now <= outer + InnerTimeout /\ outer \in Nat
        BY <2>3
      <3> QED
        BY <2>3, <3>1
    <2> QED
      BY <2>1, <2>2, <2>3
  <1>8. CASE TargetsChange \/ UNCHANGED vars
    BY <1>8 DEF TargetsChange, vars
  <1> QED
    BY <1>1, <1>2, <1>3, <1>4, <1>5, <1>6, <1>7, <1>8
    DEF Next, Provision, Terminated

(* The timers of the two polls stand to each other and to the clock as     *)
(* WaitInv says.                                                           *)
THEOREM WaitInvariance == Spec => []WaitInv
  BY WaitInit, WaitStep, PTL DEF Spec

(* Whatever the two timeouts are, Provision never waits longer than the    *)
(* outer one and three times the inner one.                                *)
THEOREM WaitBound == Spec => []WaitIsBounded
  <1>1. WaitInv => WaitIsBounded
    BY TimeoutsAssumption
    DEF WaitInv, TypeOK, FirstEvaluation, LaterEvaluations, Ended,
        WaitIsBounded
  <1> QED
    BY <1>1, WaitInvariance, PTL

(* Every variable keeps its type, whatever Prometheus answers.             *)
THEOREM TypeCorrect == Spec => []TypeOK
  <1>1. WaitInv => TypeOK
    BY DEF WaitInv
  <1> QED
    BY <1>1, WaitInvariance, PTL

LEMMA TimersStep == WaitInv /\ TimersInv /\ [Next]_vars => TimersInv'
  <1> SUFFICES ASSUME WaitInv, TimersInv, [Next]_vars PROVE TimersInv'
    OBVIOUS
  <1>0. /\ now \in Nat /\ outer \in Nat \union {Stopped}
        /\ inner \in Nat \union {Stopped}
        /\ pc = "innerSleep" => inner # Stopped
        /\ pc = "outerSleep" => outer # Stopped /\ inner = Stopped
    BY DEF WaitInv, TypeOK, FirstEvaluation
  <1> USE <1>0, TimeoutsAssumption
      DEF TimersInv, TimeoutsAreHonest, timers, SetTimer
  <1>1. CASE \/ ApplyManifest \/ AllApplied \/ ApplyEtcdServicePatch
             \/ CommandFails \/ BodyUnusable
    BY <1>1 DEF ApplyManifest, AllApplied, ApplyEtcdServicePatch,
      CommandFails, BodyUnusable
  <1>2. CASE RequestFails
    BY <1>2 DEF RequestFails
  <1>3. CASE InnerWakes
    BY <1>3 DEF InnerWakes, TickOrEnd
  <1>4. CASE OuterWakes
    BY <1>4 DEF OuterWakes, TickOrEnd
  <1>5. CASE Ready \/ NotReady
    BY <1>5 DEF Ready, NotReady, TargetsReturned
  <1>6. CASE TargetsChange \/ UNCHANGED vars
    BY <1>6 DEF TargetsChange, vars
  <1> QED
    BY <1>1, <1>2, <1>3, <1>4, <1>5, <1>6 DEF Next, Provision, Terminated

(* Neither poll gives up before it has lasted for its timeout.             *)
THEOREM NoEarlyTimeout == Spec => []TimeoutsAreHonest
  <1>1. Init => TimersInv
    BY DEF Init, TimersInv, TimeoutsAreHonest
  <1>2. TimersInv => TimeoutsAreHonest
    BY DEF TimersInv
  <1> QED
    BY <1>1, <1>2, TimersStep, WaitInvariance, PTL DEF Spec

(* With at most one target in each pool, the targets that are counted are  *)
(* as many as the pools only when no pool is without one.                  *)
LEMMA CountedPools ==
  ASSUME targets \in [Pools -> 0..MaxTargets], PrometheusReady,
         \A p \in Pools : targets[p] <= 1
  PROVE  \A p \in Pools : targets[p] > 0
  <1> DEFINE scraped == {p \in Pools : targets[p] > 0}
             first == [p \in scraped |-> <<p, 1>>]
  <1>1. IsFiniteSet(scraped) /\ Cardinality(scraped) <= Cardinality(Pools)
    BY PoolsAssumption, FS_Subset
  <1>2. ReadyTargets = {<<p, 1>> : p \in scraped}
    <2>1. ASSUME NEW t \in ReadyTargets
          PROVE  t[1] \in scraped /\ t = <<t[1], 1>>
      <3>1. /\ t[1] \in Pools /\ t[2] \in 1..MaxTargets
            /\ t = <<t[1], t[2]>> /\ t[2] <= targets[t[1]]
        BY <2>1 DEF ReadyTargets
      <3>2. targets[t[1]] <= 1 /\ targets[t[1]] \in Nat
        BY <3>1
      <3>3. t[2] = 1
        BY <3>1, <3>2, TimeoutsAssumption
      <3> QED
        BY <3>1, <3>2, <3>3
    <2>2. ASSUME NEW p \in scraped
          PROVE  <<p, 1>> \in ReadyTargets
      <3>1. p \in Pools /\ targets[p] \in 0..MaxTargets /\ targets[p] > 0
        BY <2>2
      <3>2. 1 \in 1..MaxTargets /\ 1 <= targets[p]
        BY <3>1, TimeoutsAssumption
      <3> QED
        BY <3>1, <3>2 DEF ReadyTargets
    <2> QED
      BY <2>1, <2>2
  <1>3. first \in Bijection(scraped, ReadyTargets)
    <2>1. first \in Injection(scraped, ReadyTargets)
      BY <1>2 DEF Injection, IsInjective
    <2>2. first \in Surjection(scraped, ReadyTargets)
      BY <1>2 DEF Surjection
    <2> QED
      BY <2>1, <2>2 DEF Bijection
  <1>4. Cardinality(scraped) = Cardinality(ReadyTargets)
    <2> HIDE DEF scraped, first
    <2> QED
      BY <1>1, <1>3, FS_Bijection DEF ExistsBijection
  <1>5. scraped = Pools
    <2> HIDE DEF first
    <2>1. Cardinality(scraped) = Cardinality(Pools) /\ scraped \subseteq Pools
      BY <1>4 DEF PrometheusReady
    <2> HIDE DEF scraped
    <2> QED
      BY <2>1, PoolsAssumption, FS_Subset
  <1> QED
    BY <1>5

LEMMA HealthyStep == HealthyInv /\ [Next]_vars => HealthyInv'
  <1> SUFFICES ASSUME HealthyInv, [Next]_vars PROVE HealthyInv'
    OBVIOUS
  <1> USE DEF HealthyInv
  <1>1. CASE UNCHANGED vars
    BY <1>1 DEF vars, PrometheusReady, ReadyTargets
  <1>2. CASE TargetsChange
    BY <1>2 DEF TargetsChange, Ended
  <1>3. CASE Ready
    BY <1>3 DEF Ready, TargetsReturned, PrometheusReady, ReadyTargets
  <1>4. CASE \/ ApplyManifest \/ AllApplied \/ ApplyEtcdServicePatch
             \/ CommandFails \/ RequestFails \/ InnerWakes \/ BodyUnusable
             \/ NotReady \/ OuterWakes
    <2>1. UNCHANGED targets /\ pc' # "healthy"
      BY <1>4 DEF ApplyManifest, AllApplied, ApplyEtcdServicePatch,
        CommandFails, RequestFails, InnerWakes, BodyUnusable, NotReady,
        TargetsReturned, OuterWakes
    <2> QED
      BY <2>1
  <1> QED
    BY <1>1, <1>2, <1>3, <1>4 DEF Next, Provision, Terminated

LEMMA HealthyInvariance == Spec => []HealthyInv
  <1>1. Init => HealthyInv
    BY TimeoutsAssumption DEF Init, HealthyInv
  <1> QED
    BY <1>1, HealthyStep, PTL DEF Spec

(* When Provision returns nil, each of the pools is scraped, unless one of *)
(* them has a second target: the count of all of them in one cannot tell   *)
(* that from a target of the pool that has none.                           *)
THEOREM HealthyOrCountedTwice == Spec => []HealthyUnlessCountedTwice
  <1>1. HealthyInv => HealthyUnlessCountedTwice
    <2> SUFFICES ASSUME HealthyInv, pc = "healthy",
                        ~ \E p \in Pools : targets[p] > 1
                 PROVE  \A p \in Pools : targets[p] > 0
      BY DEF HealthyUnlessCountedTwice, HealthyMeansEveryPool
    <2>1. \A p \in Pools : targets[p] <= 1
      BY TimeoutsAssumption DEF HealthyInv
    <2> QED
      BY <2>1, CountedPools DEF HealthyInv
  <1> QED
    BY <1>1, HealthyInvariance, PTL
=============================================================================
