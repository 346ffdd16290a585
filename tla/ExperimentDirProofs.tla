------------------------- MODULE ExperimentDirProofs -------------------------
(* Theorems about ExperimentDir, for any number of processes and names.    *)
EXTENDS ExperimentDir, TLAPS

(* The initial states satisfy the invariant.                               *)
LEMMA InitIInv == Init => IInv
<1> SUFFICES ASSUME Init PROVE IInv
  OBVIOUS
<1>1. TypeOK
  <2>1. today \in Days /\ date \in [Processes -> Days]
    BY DayAssumption DEF Init, Days
  <2>2. i \in [Processes -> Numbers]
    BY MaxAssumption DEF Init, Numbers
  <2>3. dirs \subseteq Roots \X Days \X Numbers
    BY DayAssumption DEF Init, Roots, Days, LookupRoot
  <2>4. QED
    BY <2>1, <2>2, <2>3 DEF Init, TypeOK
<1>2. SeenStays
  BY DEF Init, SeenStays
<1>3. MadeExists /\ LaterRunsApart /\ SmallestFree
  BY DEF Init, MadeExists, LaterRunsApart, SmallestFree, Settled
<1>4. QED
  BY <1>1, <1>2, <1>3 DEF IInv

(* Types are preserved by every step.                                      *)
LEMMA StepTypes == TypeOK /\ [Next]_vars => TypeOK'
<1> SUFFICES ASSUME TypeOK, [Next]_vars PROVE TypeOK'
  OBVIOUS
<1> USE DEF TypeOK
<1>1. CASE UNCHANGED vars
  BY <1>1 DEF vars, history, Roots, Days, Numbers
<1>2. CASE NextDay
  BY <1>2, DayAssumption DEF NextDay, history, Days
<1>3. CASE Terminated
  BY <1>3 DEF Terminated, vars, history
<1>4. ASSUME NEW p \in Processes, Process(p) \/ Failure(p)
      PROVE  TypeOK'
  <2>1. CASE Start(p)
    <3>1. i' \in [Processes -> Numbers]
      BY <2>1, MaxAssumption DEF Start, Numbers
    <3>2. QED
      BY <2>1, <3>1 DEF Start, Step, history
  <2>2. CASE Found(p)
    <3>1. i[p] + 1 \in Numbers
      BY <2>2, MaxAssumption DEF Found, Numbers
    <3>2. QED
      BY <2>2, <3>1 DEF Found, Step, history
  <2>3. CASE Free(p)
    BY <2>3 DEF Free, Step
  <2>4. CASE StatFails(p)
    BY <2>4 DEF StatFails, Step
  <2>5. CASE Full(p)
    BY <2>5 DEF Full, Step, history
  <2>6. CASE MkdirAll(p)
    <3>1. Place(p) \in Roots \X Days \X Numbers
      BY DEF Place, CreateRoot, LookupRoot, Roots
    <3>2. QED
      BY <2>6, <3>1 DEF MkdirAll, Step
  <2>7. CASE Finish(p)
    BY <2>7 DEF Finish, Step, history
  <2>8. CASE Fail(p)
    BY <2>8 DEF Fail, Step, history
  <2>9. QED
    BY <1>4, <2>1, <2>2, <2>3, <2>4, <2>5, <2>6, <2>7, <2>8
    DEF Process, Failure
<1>5. QED
  BY <1>1, <1>2, <1>3, <1>4 DEF Next

(* What every step leaves as it is: the roots, the directories that exist, *)
(* and the name of each process that is past its look-up.                  *)
NamesStay ==
  /\ tilde' = tilde /\ tool' = tool
  /\ dirs \subseteq dirs' /\ made \subseteq made'
  /\ \A q \in Processes : pc[q] \notin {"idle", "scan"} =>
       /\ pc'[q] \notin {"idle", "scan"}
       /\ date'[q] = date[q] /\ i'[q] = i[q]

LEMMA StepNamesStay == TypeOK /\ [Next]_vars => NamesStay
<1> SUFFICES ASSUME TypeOK, [Next]_vars PROVE NamesStay
  OBVIOUS
<1> USE DEF TypeOK, NamesStay
<1>1. CASE UNCHANGED vars \/ NextDay \/ Terminated
  BY <1>1 DEF vars, history, NextDay, Terminated
<1>2. ASSUME NEW p \in Processes, Process(p) \/ Failure(p)
      PROVE  NamesStay
  <2>1. CASE Start(p) \/ Found(p)
    BY <2>1 DEF Start, Found, Step, history
  <2>2. CASE Free(p) \/ StatFails(p) \/ Full(p) \/ Finish(p)
    BY <2>2 DEF Free, StatFails, Full, Finish, Step, history
  <2>3. CASE MkdirAll(p)
    BY <2>3 DEF MkdirAll, Step
  <2>4. CASE Fail(p)
    BY <2>4 DEF Fail, Step, history
  <2>5. QED
    BY <1>2, <2>1, <2>2, <2>3, <2>4 DEF Process, Failure
<1>3. QED
  BY <1>1, <1>2 DEF Next

(* What has been seen stays seen: only the next number of a scan is new.   *)
LEMMA StepSeenStays == TypeOK /\ SeenStays /\ [Next]_vars => SeenStays'
<1> SUFFICES ASSUME TypeOK, SeenStays, [Next]_vars PROVE SeenStays'
  OBVIOUS
<1>0. NamesStay /\ LookupRoot' = LookupRoot
  BY StepNamesStay DEF NamesStay, LookupRoot
<1> SUFFICES ASSUME NEW p \in Processes, NEW n \in 1..(i'[p] - 1)
             PROVE  <<LookupRoot, date'[p], n>> \in dirs'
  BY <1>0 DEF SeenStays
<1>1. CASE date'[p] = date[p] /\ i'[p] = i[p]
  BY <1>0, <1>1 DEF SeenStays, NamesStay
<1>2. CASE Start(p)
  BY <1>2 DEF Start, TypeOK
<1>3. CASE Found(p)
  <2>1. date'[p] = date[p] /\ i'[p] = i[p] + 1 /\ i[p] \in Int
    BY <1>3 DEF Found, TypeOK, Numbers
  <2>2. CASE n = i[p]
    BY <1>0, <1>3, <2>1, <2>2 DEF Found, Exists, NamesStay
  <2>3. CASE n # i[p]
    <3>1. n \in 1..(i[p] - 1)
      BY <2>1, <2>3
    <3>2. QED
      BY <1>0, <2>1, <3>1 DEF SeenStays, NamesStay
  <2>4. QED
    BY <2>2, <2>3
<1>4. Start(p) \/ Found(p) \/ (date'[p] = date[p] /\ i'[p] = i[p])
  <2>1. CASE UNCHANGED vars \/ NextDay \/ Terminated
    BY <2>1 DEF vars, NextDay, Terminated
  <2>2. ASSUME NEW q \in Processes, Process(q) \/ Failure(q)
        PROVE  Start(p) \/ Found(p) \/ (date'[p] = date[p] /\ i'[p] = i[p])
    <3>1. CASE Start(q) \/ Found(q)
      BY <3>1 DEF Start, Found, TypeOK
    <3>2. CASE ~(Start(q) \/ Found(q))
      BY <2>2, <3>2 DEF Process, Failure, Free, StatFails, Full, MkdirAll,
        Finish, Fail
    <3>3. QED
      BY <3>1, <3>2
  <2>3. QED
    BY <2>1, <2>2 DEF Next
<1>5. QED
  BY <1>1, <1>2, <1>3, <1>4

(* A directory that has been made stays with the process that made it.     *)
LEMMA StepMadeExists == TypeOK /\ MadeExists /\ [Next]_vars => MadeExists'
<1> SUFFICES ASSUME TypeOK, MadeExists, [Next]_vars PROVE MadeExists'
  OBVIOUS
<1>0. NamesStay
  BY StepNamesStay
<1>1. ASSUME NEW q \in Processes, q \in made
      PROVE  Place(q)' = Place(q) /\ Place(q)' \in dirs'
  BY <1>0, <1>1 DEF NamesStay, MadeExists, Place, CreateRoot, LookupRoot
<1> USE DEF TypeOK, MadeExists
<1>2. CASE UNCHANGED vars \/ NextDay \/ Terminated
  BY <1>1, <1>2 DEF vars, history, NextDay, Terminated
<1>3. ASSUME NEW p \in Processes, Process(p) \/ Failure(p)
      PROVE  MadeExists'
  <2>1. CASE Start(p) \/ Found(p) \/ Full(p) \/ Finish(p)
    BY <1>1, <2>1 DEF Start, Found, Full, Finish, Step, history
  <2>2. CASE Free(p) \/ StatFails(p)
    BY <1>1, <2>2 DEF Free, StatFails, Step
  <2>3. CASE MkdirAll(p)
    <3>1. Place(p)' = Place(p) /\ Place(p) \in dirs'
      BY <2>3 DEF MkdirAll, Step, Place, CreateRoot, LookupRoot
    <3>2. QED
      BY <1>1, <2>3, <3>1 DEF MkdirAll, Step
  <2>4. CASE Fail(p)
    BY <1>1, <2>4 DEF Fail, Step, history
  <2>5. QED
    BY <1>3, <2>1, <2>2, <2>3, <2>4 DEF Process, Failure
<1>4. QED
  BY <1>2, <1>3 DEF Next

(* Who settles on a name that is free has a name of its own: all those in  *)
(* "made" hold directories that exist.                                     *)
LEMMA StepRunsApart ==
  TypeOK /\ MadeExists /\ LaterRunsApart /\ [Next]_vars => LaterRunsApart'
<1> SUFFICES ASSUME TypeOK, MadeExists, LaterRunsApart, [Next]_vars,
                    NEW p \in Processes, Settled(p)', p \notin misled',
                    tilde' => tool'[p] # "vbench", NEW q \in earlier'[p]
             PROVE  Place(q)' # Place(p)'
  BY DEF LaterRunsApart
<1>0. /\ NamesStay /\ LookupRoot' = LookupRoot
      /\ CreateRoot(p)' = CreateRoot(p) /\ CreateRoot(p) = LookupRoot
      /\ tilde => tool[p] # "vbench"
  BY StepNamesStay DEF NamesStay, LookupRoot, CreateRoot
<1> USE DEF TypeOK
<1>1. ASSUME NEW r \in made
      PROVE  Place(r)' = Place(r) /\ Place(r) \in dirs
  BY <1>0, <1>1 DEF NamesStay, MadeExists, Place, CreateRoot, LookupRoot
<1>2. CASE Settled(p) /\ earlier'[p] = earlier[p] /\ p \notin misled
  <2>1. q \in made /\ Place(q) # Place(p)
    BY <1>0, <1>2 DEF LaterRunsApart, MadeExists
  <2>2. Place(p)' = Place(p)
    BY <1>0, <1>2 DEF NamesStay, Settled, Place, CreateRoot, LookupRoot
  <2>3. QED
    BY <1>1, <2>1, <2>2
<1>3. CASE Free(p)
  <2>1. q \in made /\ Place(p) \notin dirs
    BY <1>0, <1>3 DEF Free, Exists, Place
  <2>2. Place(p)' = Place(p)
    BY <1>0, <1>3 DEF Free, Step, Place, NamesStay
  <2>3. QED
    BY <1>1, <2>1, <2>2
<1>4. Free(p) \/ (Settled(p) /\ earlier'[p] = earlier[p] /\ p \notin misled)
  <2>1. CASE UNCHANGED vars \/ NextDay \/ Terminated
    BY <2>1 DEF vars, history, NextDay, Terminated, Settled
  <2>2. ASSUME NEW r \in Processes, Process(r) \/ Failure(r)
        PROVE  \/ Free(p)
               \/ Settled(p) /\ earlier'[p] = earlier[p] /\ p \notin misled
    <3>1. CASE Start(r) \/ Found(r) \/ Full(r) \/ Finish(r)
      BY <3>1 DEF Start, Found, Full, Finish, Step, history, Settled
    <3>2. CASE Free(r) \/ StatFails(r)
      BY <3>2 DEF Free, StatFails, Step, Settled
    <3>3. CASE MkdirAll(r)
      BY <3>3 DEF MkdirAll, Step, Settled
    <3>4. CASE Fail(r)
      BY <3>4 DEF Fail, Step, history, Settled
    <3>5. QED
      BY <2>2, <3>1, <3>2, <3>3, <3>4 DEF Process, Failure
  <2>3. QED
    BY <2>1, <2>2 DEF Next
<1>5. QED
  BY <1>2, <1>3, <1>4

(* The number a process settles on, or is refused at.                      *)
LEMMA StepSmallestFree ==
  TypeOK /\ SeenStays /\ SmallestFree /\ [Next]_vars => SmallestFree'
<1> SUFFICES ASSUME TypeOK, SeenStays, SmallestFree, [Next]_vars
             PROVE  SmallestFree'
  OBVIOUS
<1>0. SeenStays'
  BY StepSeenStays
<1>1. ASSUME NEW p \in Processes
      PROVE  /\ Settled(p)' => i'[p] < maxExperimentsPerDay
             /\ pc'[p] = "refused" => i'[p] = maxExperimentsPerDay
  <2> USE DEF TypeOK, SmallestFree, Settled
  <2>1. CASE UNCHANGED vars \/ NextDay \/ Terminated
    BY <2>1 DEF vars, history, NextDay, Terminated
  <2>2. ASSUME NEW q \in Processes, Process(q) \/ Failure(q)
        PROVE  /\ Settled(p)' => i'[p] < maxExperimentsPerDay
               /\ pc'[p] = "refused" => i'[p] = maxExperimentsPerDay
    <3>1. CASE Start(q) \/ Found(q)
      BY <3>1 DEF Start, Found, Step
    <3>2. CASE Free(q) \/ StatFails(q)
      BY <3>2 DEF Free, StatFails, Step
    <3>3. CASE Full(q) \/ MkdirAll(q) \/ Finish(q)
      BY <3>3 DEF Full, MkdirAll, Finish, Step
    <3>4. CASE Fail(q)
      BY <3>4 DEF Fail, Step
    <3>5. QED
      BY <2>2, <3>1, <3>2, <3>3, <3>4 DEF Process, Failure
  <2>3. QED
    BY <2>1, <2>2 DEF Next
<1>2. QED
  BY <1>0, <1>1 DEF SmallestFree, SeenStays

(* The invariant holds in every state of every behaviour.                  *)
THEOREM Invariance == Spec => []IInv
<1>1. IInv /\ [Next]_vars => IInv'
  BY StepTypes, StepSeenStays, StepMadeExists, StepRunsApart,
     StepSmallestFree DEF IInv
<1>2. QED
  BY InitIInv, <1>1, PTL DEF Spec

(* A run never gets the directory of one that had made its own before the  *)
(* look-up was over, for any number of processes and names.                *)
THEOREM RunsApart == Spec => []LaterRunsApart
<1>1. IInv => LaterRunsApart
  BY DEF IInv
<1>2. QED
  BY Invariance, <1>1, PTL

(* Names are given in order, and are refused only when all but the last    *)
(* are taken.                                                              *)
THEOREM NamesInOrder == Spec => []SmallestFree
<1>1. IInv => SmallestFree
  BY DEF IInv
<1>2. QED
  BY Invariance, <1>1, PTL

(* With "~" in the path vbench stays at the first name of the day.         *)
THEOREM TildeIsAlwaysFirst == Spec => []UnexpandedIsAlwaysFirst
<1>1. IInv => UnexpandedIsAlwaysFirst
  <2> SUFFICES ASSUME IInv, tilde, NEW p \in Processes,
                 \A n \in Numbers : <<"unexpanded", date[p], n>> \notin dirs
               PROVE  i[p] = 1
    BY DEF UnexpandedIsAlwaysFirst
  <2>1. i[p] \in Numbers /\ LookupRoot = "unexpanded" /\ 1 \in Numbers
    BY MaxAssumption DEF IInv, TypeOK, LookupRoot, Numbers
  <2>2. i[p] > 1 => <<"unexpanded", date[p], 1>> \in dirs
    BY <2>1 DEF IInv, SeenStays, Numbers
  <2>3. QED
    BY <2>1, <2>2 DEF Numbers
<1>2. QED
  BY Invariance, <1>1, PTL
=============================================================================
