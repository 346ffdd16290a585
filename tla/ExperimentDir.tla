---------------------------- MODULE ExperimentDir ----------------------------
(***************************************************************************)
(* The directory of an experiment, CreateExperimentDir of                  *)
(* internal/cmd/utils.go as vbench and vbench-lifecycle call it, and the   *)
(* os.MkdirAll of their runTests that creates it later on.                 *)
(*                                                                         *)
(* In spite of its name CreateExperimentDir creates nothing: it looks for  *)
(* a name of today that is free.  Several processes may work on one output *)
(* directory, one after the other or at the same time.                     *)
(*                                                                         *)
(* A name date_003 is the pair of its date and its number.  The output     *)
(* path may begin with "~", which only vbench expands, and only when it    *)
(* creates the directory: Roots are the two places this path may mean.     *)
(* Nobody removes directories; other programs may have made some before.   *)
(***************************************************************************)
EXTENDS Integers

CONSTANTS
  Processes,             \* the processes, of either program
  maxExperimentsPerDay,
  LastDay                \* the day on which the calendar stops

ASSUME MaxAssumption == maxExperimentsPerDay \in Nat \ {0}
ASSUME DayAssumption == LastDay \in Nat \ {0}

VARIABLES
  tilde,    \* whether the output path begins with "~"
  tool,     \* the program that each process runs
  today,
  dirs,     \* the experiment directories that exist
  pc,       \* where each process is
  date,     \* currentDate, read once
  i,        \* the number under test, then the one that is returned
  made,     \* the processes that have created their directory (history)
  misled,   \* those for which os.Stat failed on a directory (history)
  earlier   \* made, when a process settled on its name (history)

history == <<made, misled, earlier>>
vars == <<tilde, tool, today, dirs, pc, date, i, history>>

Roots == {"unexpanded", "expanded"}
Days == 1..LastDay
Numbers == 1..maxExperimentsPerDay

(* CreateExperimentDir is given the path as it is on the command line.     *)
(* (Faulty variants: it is given the expanded one, or another directory.)  *)
LookupRootExpanded == "expanded"
LookupRootElsewhere == "unexpanded"

LookupRoot == IF tilde THEN "unexpanded" ELSE "expanded"

(* runTests of vbench gets the expanded path, that of vbench-lifecycle not. *)
CreateRoot(p) == IF tool[p] = "vbench" THEN "expanded" ELSE LookupRoot

(* isFileOrDirExisting of the name under test; what p creates in the end.  *)
Exists(p) == <<LookupRoot, date[p], i[p]>> \in dirs
Place(p) == <<CreateRoot(p), date[p], i[p]>>

(* Those that have left CreateExperimentDir with a name.                   *)
Settled(p) == pc[p] \in {"settled", "writing", "done"}

TypeOK ==
  /\ tilde \in BOOLEAN
  /\ tool \in [Processes -> {"vbench", "vbench-lifecycle"}]
  /\ today \in Days
  /\ dirs \subseteq Roots \X Days \X Numbers
  /\ pc \in [Processes ->
               {"idle", "scan", "settled", "writing", "done", "refused",
                "dead"}]
  /\ date \in [Processes -> Days]
  /\ i \in [Processes -> Numbers]
  /\ made \subseteq Processes
  /\ misled \subseteq Processes
  /\ earlier \in [Processes -> SUBSET Processes]

Init ==
  /\ tilde \in BOOLEAN
  /\ tool \in [Processes -> {"vbench", "vbench-lifecycle"}]
  /\ today = 1
  /\ dirs \in SUBSET ({LookupRoot, "expanded"} \X {1} \X Numbers)
  /\ pc = [p \in Processes |-> "idle"]
  /\ date = [p \in Processes |-> 1]
  /\ i = [p \in Processes |-> 1]
  /\ made = {}
  /\ misled = {}
  /\ earlier = [p \in Processes |-> {}]

-----------------------------------------------------------------------------
Step(p, from, to) ==
  /\ pc[p] = from
  /\ pc' = [pc EXCEPT ![p] = to]
  /\ UNCHANGED <<tilde, tool, today>>

(* Faulty variants: the bound of the loop, or i++, is forgotten; the last  *)
(* but one name is refused as well.                                        *)
FoundUnbounded(p) ==
  /\ Exists(p)
  /\ Step(p, "scan", "scan")
  /\ i' = [i EXCEPT ![p] = @ + 1]
  /\ UNCHANGED <<dirs, date, history>>

FoundAgain(p) ==
  /\ Exists(p) /\ i[p] < maxExperimentsPerDay
  /\ Step(p, "scan", "scan")
  /\ UNCHANGED <<dirs, date, i, history>>

FullEarly(p) ==
  /\ i[p] >= maxExperimentsPerDay - 1
  /\ Step(p, "scan", "refused")
  /\ UNCHANGED <<dirs, date, i, history>>

(* currentDate := time.Now()...; i := 1                                    *)
Start(p) ==
  /\ Step(p, "idle", "scan")
  /\ date' = [date EXCEPT ![p] = today]
  /\ i' = [i EXCEPT ![p] = 1]
  /\ UNCHANGED <<dirs, history>>

(* for exists && i < maxExperimentsPerDay { i++; ... }                     *)
Found(p) ==
  /\ Exists(p) /\ i[p] < maxExperimentsPerDay
  /\ Step(p, "scan", "scan")
  /\ i' = [i EXCEPT ![p] = @ + 1]
  /\ UNCHANGED <<dirs, date, history>>

Free(p) ==
  /\ ~Exists(p) /\ i[p] < maxExperimentsPerDay
  /\ Step(p, "scan", "settled")
  /\ earlier' = [earlier EXCEPT ![p] = made]
  /\ UNCHANGED <<dirs, date, i, made, misled>>

(* exists, _ = ...: when os.Stat fails, whatever the reason, the name      *)
(* counts as free.                                                         *)
StatFails(p) ==
  /\ Exists(p) /\ i[p] < maxExperimentsPerDay
  /\ Step(p, "scan", "settled")
  /\ earlier' = [earlier EXCEPT ![p] = made]
  /\ misled' = misled \union {p}
  /\ UNCHANGED <<dirs, date, i, made>>

(* if i == maxExperimentsPerDay, free or not; log.Fatal in main.           *)
Full(p) ==
  /\ i[p] = maxExperimentsPerDay
  /\ Step(p, "scan", "refused")
  /\ UNCHANGED <<dirs, date, i, history>>

(* os.MkdirAll of runTests.  In vbench the clusters have been created      *)
(* meanwhile.  It is no error that the directory exists.                   *)
MkdirAll(p) ==
  /\ Step(p, "settled", "writing")
  /\ dirs' = dirs \union {Place(p)}
  /\ made' = made \union {p}
  /\ UNCHANGED <<date, i, misled, earlier>>

Finish(p) ==
  /\ Step(p, "writing", "done")
  /\ UNCHANGED <<dirs, date, i, history>>

(* log.Fatal anywhere on the way; the directory stays, if there is one.    *)
Fail(p) ==
  /\ \E at \in {"scan", "settled", "writing"} : Step(p, at, "dead")
  /\ UNCHANGED <<dirs, date, i, history>>

NextDay ==
  /\ today < LastDay
  /\ today' = today + 1
  /\ UNCHANGED <<tilde, tool, dirs, pc, date, i, history>>

Process(p) ==
  \/ Start(p) \/ Found(p) \/ Free(p) \/ Full(p)
  \/ MkdirAll(p) \/ Finish(p)

Failure(p) == StatFails(p) \/ Fail(p)

Terminated ==
  /\ \A p \in Processes : pc[p] \in {"done", "refused", "dead"}
  /\ UNCHANGED vars

Next ==
  NextDay \/ Terminated \/ \E p \in Processes : Process(p) \/ Failure(p)

Spec == Init /\ [][Next]_vars

(* Every process that can run does run; nothing promises a failure.        *)
FairSpec == Spec /\ \A p \in Processes : WF_vars(Process(p))

-----------------------------------------------------------------------------
(* Properties.                                                             *)

(* A process never writes into the directory of one that had created its   *)
(* own before the look-up was over, whatever the days, the number of       *)
(* processes and the gaps between the names.  Nothing is said of processes *)
(* that were still without a directory then, nor of a failed os.Stat, nor  *)
(* of vbench with "~", which looks in one place and creates in another.    *)
LaterRunsApart ==
  \A p \in Processes :
    Settled(p) /\ p \notin misled /\ (tilde => tool[p] # "vbench") =>
      \A q \in earlier[p] : Place(q) # Place(p)

(* vbench with "~" is given the first name of the day each time, as long   *)
(* as nothing is at the unexpanded path: all its runs of a day share one   *)
(* directory, also when they follow each other.                            *)
UnexpandedIsAlwaysFirst ==
  tilde => \A p \in Processes :
    Settled(p) /\ (\A n \in Numbers : <<"unexpanded", date[p], n>> \notin dirs)
      => i[p] = 1

(* A process passes over a name only when it is taken, and is refused one  *)
(* only when all names but the last are.  The last name is never given to  *)
(* anybody, although it may be free.                                       *)
SmallestFree ==
  \A p \in Processes :
    /\ Settled(p) => i[p] < maxExperimentsPerDay
    /\ Settled(p) \/ pc[p] = "refused" =>
         \A n \in 1..(i[p] - 1) : <<LookupRoot, date[p], n>> \in dirs
    /\ pc[p] = "refused" => i[p] = maxExperimentsPerDay

(* The look-up comes to an end, also when others create directories ahead  *)
(* of it all the time.                                                     *)
ScanEnds == \A p \in Processes : pc[p] = "scan" ~> pc[p] # "scan"

-----------------------------------------------------------------------------
(* Why they hold: an inductive invariant.                                  *)

(* Everything below the number under test has been seen, and stays.        *)
SeenStays ==
  \A p \in Processes :
    \A n \in 1..(i[p] - 1) : <<LookupRoot, date[p], n>> \in dirs

(* A process that has made its directory keeps its name, and the directory *)
(* exists; so it was seen by whoever settled later.                        *)
MadeExists ==
  \A p \in Processes :
    /\ p \in made => Place(p) \in dirs /\ pc[p] \in {"writing", "done", "dead"}
    /\ earlier[p] \subseteq made
    /\ pc[p] \in {"writing", "done"} => p \in made

IInv ==
  /\ TypeOK
  /\ SeenStays
  /\ MadeExists
  /\ LaterRunsApart
  /\ SmallestFree
=============================================================================
