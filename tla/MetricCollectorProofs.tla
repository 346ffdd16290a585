------------------------ MODULE MetricCollectorProofs ------------------------
(***************************************************************************)
(* Theorems about MetricCollector, for any calls and any number of faults. *)
(*                                                                         *)
(* The first half is about the programs, the sequences of queries and      *)
(* assignments: they are put together from blocks that have no metric in   *)
(* common, so that what is true of each block is true of the whole.  The   *)
(* second half is the induction over the steps of a run.                   *)
(***************************************************************************)
EXTENDS MetricCollector, SequenceTheorems, TLAPS

(* A name is the name of a component and that of a field.                  *)
Parts == {"ApiServer", "ControllerManager", "Scheduler", "Etcd"}
Fields ==
  {"Throughput", "Latency", "CpuUsage", "MemoryUsage", "ThreadUsage",
   "WorkQueueDepth", "WorkQueueAdds", "WorkQueueQueueDuration",
   "WorkQueueWorkDuration", "LeaderElections", "DbSize", "DbSizeUsed",
   "WalSyncDuration", "BackendCommitSyncDuration",
   "Committed", "Applied", "Pending", "Failed"}
Names == Parts \X Fields

EntryType ==
  [op : {"query"}, metric : Names, into : Names, q : Quantiles]
  \union [op : {"set"}, field : Names, from : Names]
  \union [op : {"first"}, field : Names, kept : BOOLEAN]
  \union [op : {"calls"}, component : Parts]

Programs == Seq(EntryType)

NamesOf(e) ==
  CASE e.op = "query" -> {e.metric, e.into}
    [] e.op = "set"   -> {e.field, e.from}
    [] e.op = "first" -> {e.field}
    [] e.op = "calls" -> Sources(e)

(* The list l is there for the i-th entry of p alone: it has the samples   *)
(* of its own metric when that entry is reached, and gets none later.      *)
Undisturbed(p, i, l) ==
  \A j \in DOMAIN p :
    /\ p[j].op = "query" /\ j < i => (p[j].into = l <=> p[j].metric = l)
    /\ p[j].op = "query" /\ j > i => p[j].metric # l
    /\ p[j].op = "first" => p[j].field # l
    /\ IsExact(p[j]) /\ l \in Sources(p[j]) => j = i

Filled(p, l) == \E j \in DOMAIN p : p[j].op = "query" /\ p[j].into = l

Good(p) ==
  \A i \in DOMAIN p :
    IsExact(p[i]) =>
      /\ p[i].op = "set" => p[i].from = p[i].field
      /\ \A l \in Sources(p[i]) : Undisturbed(p, i, l) /\ Filled(p, l)

(* A part of a program that is about the given names.                      *)
IsBlock(p, names) ==
  /\ p \in Programs
  /\ Good(p)
  /\ \A i \in DOMAIN p : NamesOf(p[i]) \subseteq names

-----------------------------------------------------------------------------
(* Concatenation.                                                          *)

LEMMA Concatenation ==
  ASSUME NEW p \in Programs, NEW r \in Programs
  PROVE  /\ p \o r \in Programs
         /\ Len(p) \in Nat /\ DOMAIN p = 1..Len(p)
         /\ Len(r) \in Nat /\ DOMAIN r = 1..Len(r)
         /\ Len(p \o r) = Len(p) + Len(r)
         /\ DOMAIN (p \o r) = 1..(Len(p) + Len(r))
         /\ \A i \in DOMAIN p : i \in DOMAIN (p \o r) /\ (p \o r)[i] = p[i]
         /\ \A i \in DOMAIN r :
              /\ Len(p) + i \in DOMAIN (p \o r)
              /\ (p \o r)[Len(p) + i] = r[i]
         /\ \A k \in DOMAIN (p \o r) :
              \/ k \in DOMAIN p
              \/ k > Len(p) /\ k - Len(p) \in DOMAIN r
                 /\ (p \o r)[k] = r[k - Len(p)]
  <1>1. /\ p \o r \in Programs /\ Len(p \o r) = Len(p) + Len(r)
        /\ \A i \in 1..(Len(p) + Len(r)) :
             (p \o r)[i] = IF i <= Len(p) THEN p[i] ELSE r[i - Len(p)]
    BY ConcatProperties DEF Programs
  <1>2. /\ Len(p) \in Nat /\ DOMAIN p = 1..Len(p)
        /\ Len(r) \in Nat /\ DOMAIN r = 1..Len(r)
        /\ DOMAIN (p \o r) = 1..Len(p \o r)
    BY <1>1, LenProperties DEF Programs
  <1> HIDE DEF Programs
  <1> DEFINE s == p \o r
  <1> HIDE DEF s
  <1>3. /\ \A i \in 1..(Len(p) + Len(r)) :
             s[i] = IF i <= Len(p) THEN p[i] ELSE r[i - Len(p)]
        /\ DOMAIN s = 1..(Len(p) + Len(r))
    BY <1>1, <1>2 DEF s
  <1>4. /\ \A i \in DOMAIN p : i \in DOMAIN s /\ s[i] = p[i]
        /\ \A i \in DOMAIN r :
             Len(p) + i \in DOMAIN s /\ s[Len(p) + i] = r[i]
        /\ \A k \in DOMAIN s :
             \/ k \in DOMAIN p
             \/ k > Len(p) /\ k - Len(p) \in DOMAIN r /\ s[k] = r[k - Len(p)]
    BY <1>2, <1>3
  <1> QED
    BY <1>1, <1>2, <1>4 DEF s

(* Two good programs one after the other: the queries of either leave the  *)
(* lists of the other alone.                                               *)
LEMMA GoodConcat ==
  ASSUME NEW p \in Programs, NEW r \in Programs, Good(p), Good(r),
         \A i \in DOMAIN p : IsExact(p[i]) => \A l \in Sources(p[i]) :
           \A j \in DOMAIN r :
             /\ r[j].op = "query" => r[j].metric # l
             /\ r[j].op = "first" => r[j].field # l
             /\ IsExact(r[j]) => l \notin Sources(r[j]),
         \A i \in DOMAIN r : IsExact(r[i]) => \A l \in Sources(r[i]) :
           \A j \in DOMAIN p :
             /\ p[j].op = "query" => (p[j].into = l <=> p[j].metric = l)
             /\ p[j].op = "first" => p[j].field # l
  PROVE  Good(p \o r)
  <1> DEFINE s == p \o r
             n == Len(p)
  <1>1. /\ n \in Nat /\ DOMAIN p = 1..n
        /\ Len(r) \in Nat /\ DOMAIN r = 1..Len(r)
        /\ DOMAIN s = 1..(n + Len(r))
        /\ \A i \in DOMAIN p : i \in DOMAIN s /\ s[i] = p[i]
        /\ \A i \in DOMAIN r : n + i \in DOMAIN s /\ s[n + i] = r[i]
        /\ \A k \in DOMAIN s :
             \/ k \in DOMAIN p
             \/ k > n /\ k - n \in DOMAIN r /\ s[k] = r[k - n]
    BY Concatenation
  <1> HIDE DEF s, n
  <1>2. ASSUME NEW k \in DOMAIN p, IsExact(s[k])
        PROVE  /\ s[k].op = "set" => s[k].from = s[k].field
               /\ \A l \in Sources(s[k]) : Undisturbed(s, k, l) /\ Filled(s, l)
    <2>1. s[k] = p[k] /\ IsExact(p[k])
      BY <1>1, <1>2
    <2>2. ASSUME NEW l \in Sources(p[k])
          PROVE  Undisturbed(s, k, l)
      <3>1. Undisturbed(p, k, l)
        BY <2>1, <2>2 DEF Good
      <3>2. ASSUME NEW j \in DOMAIN s
            PROVE /\ s[j].op = "query" /\ j < k =>
                       (s[j].into = l <=> s[j].metric = l)
                  /\ s[j].op = "query" /\ j > k => s[j].metric # l
                  /\ s[j].op = "first" => s[j].field # l
                  /\ IsExact(s[j]) /\ l \in Sources(s[j]) => j = k
        <4>1. CASE j \in DOMAIN p
          BY <1>1, <3>1, <4>1 DEF Undisturbed
        <4>2. CASE j > n /\ j - n \in DOMAIN r /\ s[j] = r[j - n]
          <5>1. j > k /\ ~(j < k)
            BY <1>1, <4>2
          <5> QED
            BY <2>1, <2>2, <4>2, <5>1
        <4> QED
          BY <1>1, <4>1, <4>2
      <3> QED
        BY <3>2 DEF Undisturbed
    <2>3. ASSUME NEW l \in Sources(p[k])
          PROVE  Filled(s, l)
      <3>1. Filled(p, l)
        BY <2>1, <2>3 DEF Good
      <3> QED
        BY <1>1, <3>1 DEF Filled
    <2>4. p[k].op = "set" => p[k].from = p[k].field
      BY <2>1 DEF Good
    <2> QED
      BY <2>1, <2>2, <2>3, <2>4
  <1>3. ASSUME NEW i \in DOMAIN r, NEW k \in DOMAIN s, k = n + i,
               IsExact(s[k])
        PROVE  /\ s[k].op = "set" => s[k].from = s[k].field
               /\ \A l \in Sources(s[k]) : Undisturbed(s, k, l) /\ Filled(s, l)
    <2>1. s[k] = r[i] /\ IsExact(r[i])
      BY <1>1, <1>3
    <2>2. ASSUME NEW l \in Sources(r[i])
          PROVE  Undisturbed(s, k, l)
      <3>1. Undisturbed(r, i, l)
        BY <2>1, <2>2 DEF Good
      <3>2. ASSUME NEW j \in DOMAIN s
            PROVE /\ s[j].op = "query" /\ j < k =>
                       (s[j].into = l <=> s[j].metric = l)
                  /\ s[j].op = "query" /\ j > k => s[j].metric # l
                  /\ s[j].op = "first" => s[j].field # l
                  /\ IsExact(s[j]) /\ l \in Sources(s[j]) => j = k
        <4>1. CASE j \in DOMAIN p
          <5>1. s[j] = p[j] /\ j < k /\ ~(j > k) /\ j # k
            BY <1>1, <1>3, <4>1
          <5>2. IsExact(p[j]) => l \notin Sources(p[j])
            BY <2>1, <2>2, <4>1
          <5> QED
            BY <2>1, <2>2, <4>1, <5>1, <5>2
        <4>2. CASE j > n /\ j - n \in DOMAIN r /\ s[j] = r[j - n]
          <5>1. /\ j < k <=> j - n < i
                /\ j > k <=> j - n > i
                /\ j = k <=> j - n = i
            BY <1>1, <1>3, <4>2
          <5> QED
            BY <3>1, <4>2, <5>1 DEF Undisturbed
        <4> QED
          BY <1>1, <4>1, <4>2
      <3> QED
        BY <3>2 DEF Undisturbed
    <2>3. ASSUME NEW l \in Sources(r[i])
          PROVE  Filled(s, l)
      <3>1. Filled(r, l)
        BY <2>1, <2>3 DEF Good
      <3> QED
        BY <1>1, <3>1 DEF Filled
    <2>4. r[i].op = "set" => r[i].from = r[i].field
      BY <2>1 DEF Good
    <2> QED
      BY <2>1, <2>2, <2>3, <2>4
  <1>4. ASSUME NEW k \in DOMAIN s
        PROVE  k \in DOMAIN p \/ \E i \in DOMAIN r : k = n + i
    <2>1. CASE k > n /\ k - n \in DOMAIN r
      <3>1. k = n + (k - n)
        BY <1>1
      <3> QED
        BY <2>1, <3>1
    <2> QED
      BY <1>1, <2>1
  <1>5. Good(s)
    BY <1>2, <1>3, <1>4 DEF Good
  <1> QED
    BY <1>5 DEF s

LEMMA SourcesAreNames ==
  ASSUME NEW e \in EntryType, IsExact(e), e.op = "set" => e.from = e.field
  PROVE  Sources(e) \subseteq NamesOf(e)
  BY DEF EntryType, IsExact, Sources, NamesOf

(* Blocks that have no name in common.                                     *)
LEMMA BlockConcat ==
  ASSUME NEW p, NEW r, NEW M, NEW N,
         IsBlock(p, M), IsBlock(r, N), M \intersect N = {}
  PROVE  IsBlock(p \o r, M \union N)
  <1>1. /\ p \in Programs /\ Good(p) /\ r \in Programs /\ Good(r)
        /\ \A i \in DOMAIN p : p[i] \in EntryType /\ NamesOf(p[i]) \subseteq M
        /\ \A i \in DOMAIN r : r[i] \in EntryType /\ NamesOf(r[i]) \subseteq N
    BY ElementOfSeq, LenProperties DEF IsBlock, Programs
  <1>2. ASSUME NEW i \in DOMAIN p, IsExact(p[i]), NEW l \in Sources(p[i]),
               NEW j \in DOMAIN r
        PROVE  /\ r[j].op = "query" => r[j].metric # l
               /\ r[j].op = "first" => r[j].field # l
               /\ IsExact(r[j]) => l \notin Sources(r[j])
    <2>1. l \in M /\ l \notin N
      BY <1>1, <1>2, SourcesAreNames DEF Good
    <2>2. IsExact(r[j]) => Sources(r[j]) \subseteq N
      BY <1>1, SourcesAreNames DEF Good
    <2>3. NamesOf(r[j]) \subseteq N
      BY <1>1
    <2> QED
      BY <2>1, <2>2, <2>3 DEF NamesOf
  <1>3. ASSUME NEW i \in DOMAIN r, IsExact(r[i]), NEW l \in Sources(r[i]),
               NEW j \in DOMAIN p
        PROVE  /\ p[j].op = "query" => (p[j].into = l <=> p[j].metric = l)
               /\ p[j].op = "first" => p[j].field # l
    <2>1. l \in N /\ l \notin M
      BY <1>1, <1>3, SourcesAreNames DEF Good
    <2>2. NamesOf(p[j]) \subseteq M
      BY <1>1
    <2> QED
      BY <2>1, <2>2 DEF NamesOf
  <1>4. Good(p \o r)
    BY <1>1, <1>2, <1>3, GoodConcat
  <1>5. ASSUME NEW k \in DOMAIN (p \o r)
        PROVE  NamesOf((p \o r)[k]) \subseteq M \union N
    <2>1. \/ k \in DOMAIN p /\ (p \o r)[k] = p[k]
          \/ k - Len(p) \in DOMAIN r /\ (p \o r)[k] = r[k - Len(p)]
      <3>1. \A i \in DOMAIN p : i \in DOMAIN (p \o r) /\ (p \o r)[i] = p[i]
        BY <1>1, Concatenation
      <3>2. \A i \in DOMAIN (p \o r) :
              \/ i \in DOMAIN p
              \/ i > Len(p) /\ i - Len(p) \in DOMAIN r
                 /\ (p \o r)[i] = r[i - Len(p)]
        BY <1>1, Concatenation
      <3> QED
        BY <3>1, <3>2
    <2> QED
      BY <1>1, <2>1
  <1>6. p \o r \in Programs
    BY <1>1, Concatenation
  <1> QED
    BY <1>4, <1>5, <1>6 DEF IsBlock

-----------------------------------------------------------------------------
(* Reading first, writing next: the samples of each name go to the list of *)
(* that name, and each list is used once.                                  *)
Reading(p, names) ==
  /\ p \in Programs
  /\ \A i \in DOMAIN p :
       /\ p[i].op = "query"
       /\ p[i].into = p[i].metric /\ p[i].metric \in names
  /\ \A l \in names : \E i \in DOMAIN p : p[i].into = l

Writing(p, names) ==
  /\ p \in Programs
  /\ \A i \in DOMAIN p :
       /\ p[i].op \in {"set", "calls"}
       /\ IsExact(p[i])
       /\ p[i].op = "set" => p[i].from = p[i].field
       /\ Sources(p[i]) \subseteq names
  /\ \A i, j \in DOMAIN p : i # j =>
       Sources(p[i]) \intersect Sources(p[j]) = {}

LEMMA ReadingConcat ==
  ASSUME NEW p, NEW r, NEW M, NEW N, Reading(p, M), Reading(r, N)
  PROVE  Reading(p \o r, M \union N)
  <1> DEFINE s == p \o r
  <1>1. p \in Programs /\ r \in Programs
    BY DEF Reading
  <1>2. /\ s \in Programs
        /\ \A i \in DOMAIN p : i \in DOMAIN s /\ s[i] = p[i]
        /\ \A i \in DOMAIN r : Len(p) + i \in DOMAIN s /\ s[Len(p) + i] = r[i]
        /\ \A k \in DOMAIN s :
             \/ k \in DOMAIN p
             \/ k > Len(p) /\ k - Len(p) \in DOMAIN r
                /\ s[k] = r[k - Len(p)]
    BY <1>1, Concatenation
  <1> HIDE DEF s
  <1>3. ASSUME NEW k \in DOMAIN s
        PROVE  /\ s[k].op = "query"
               /\ s[k].into = s[k].metric /\ s[k].metric \in M \union N
    BY <1>2 DEF Reading
  <1>4. ASSUME NEW l \in M \union N
        PROVE  \E i \in DOMAIN s : s[i].into = l
    BY <1>2 DEF Reading
  <1> QED
    BY <1>2, <1>3, <1>4 DEF Reading, s

LEMMA WritingConcat ==
  ASSUME NEW p, NEW r, NEW M, NEW N, Writing(p, M), Writing(r, N),
         M \intersect N = {}
  PROVE  Writing(p \o r, M \union N)
  <1> DEFINE s == p \o r
  <1>1. p \in Programs /\ r \in Programs
    BY DEF Writing
  <1>2. /\ s \in Programs
        /\ Len(p) \in Nat /\ DOMAIN p = 1..Len(p)
        /\ DOMAIN s = 1..(Len(p) + Len(r)) /\ Len(r) \in Nat
        /\ \A i \in DOMAIN p : i \in DOMAIN s /\ s[i] = p[i]
        /\ \A k \in DOMAIN s :
             \/ k \in DOMAIN p
             \/ k - Len(p) \in DOMAIN r /\ s[k] = r[k - Len(p)]
    BY <1>1, Concatenation
  <1> HIDE DEF s
  <1>3. ASSUME NEW k \in DOMAIN s
        PROVE  /\ s[k].op \in {"set", "calls"}
               /\ IsExact(s[k])
               /\ s[k].op = "set" => s[k].from = s[k].field
               /\ Sources(s[k]) \subseteq M \union N
    BY <1>2 DEF Writing
  <1>4. ASSUME NEW i \in DOMAIN s, NEW j \in DOMAIN s, i # j
        PROVE  Sources(s[i]) \intersect Sources(s[j]) = {}
    <2>1. ASSUME NEW a \in DOMAIN s
          PROVE  \/ a \in DOMAIN p /\ Sources(s[a]) \subseteq M
                 \/ /\ a - Len(p) \in DOMAIN r /\ s[a] = r[a - Len(p)]
                    /\ Sources(s[a]) \subseteq N
      BY <1>2 DEF Writing
    <2>2. CASE i \in DOMAIN p /\ j \in DOMAIN p
      BY <1>2, <1>4, <2>2 DEF Writing
    <2>3. CASE /\ i - Len(p) \in DOMAIN r /\ s[i] = r[i - Len(p)]
               /\ j - Len(p) \in DOMAIN r /\ s[j] = r[j - Len(p)]
      <3>1. i - Len(p) # j - Len(p)
        BY <1>2, <1>4
      <3> QED
        BY <2>3, <3>1 DEF Writing
    <2> QED
      BY <2>1, <2>2, <2>3
  <1> QED
    BY <1>2, <1>3, <1>4 DEF Writing, s

LEMMA ReadThenWrite ==
  ASSUME NEW p, NEW r, NEW M, NEW N, Reading(p, M), Writing(r, N),
         N \subseteq M
  PROVE  IsBlock(p \o r, M)
  <1> DEFINE s == p \o r
             n == Len(p)
  <1>1. p \in Programs /\ r \in Programs
    BY DEF Reading, Writing
  <1>2. /\ s \in Programs
        /\ n \in Nat /\ DOMAIN p = 1..n
        /\ DOMAIN s = 1..(n + Len(r)) /\ Len(r) \in Nat
        /\ \A i \in DOMAIN p : i \in DOMAIN s /\ s[i] = p[i]
        /\ \A k \in DOMAIN s :
             \/ k \in DOMAIN p
             \/ k > n /\ k - n \in DOMAIN r /\ s[k] = r[k - n]
    BY <1>1, Concatenation
  <1> HIDE DEF s, n
  <1>3. ASSUME NEW k \in DOMAIN s
        PROVE  \/ /\ k <= n /\ s[k].op = "query"
                  /\ s[k].into = s[k].metric /\ s[k].metric \in M
               \/ /\ k > n /\ s[k].op \in {"set", "calls"} /\ IsExact(s[k])
                  /\ s[k].op = "set" => s[k].from = s[k].field
                  /\ Sources(s[k]) \subseteq N
                  /\ k - n \in DOMAIN r /\ s[k] = r[k - n]
    <2>1. CASE k \in DOMAIN p
      BY <1>2, <2>1 DEF Reading
    <2>2. CASE k > n /\ k - n \in DOMAIN r /\ s[k] = r[k - n]
      BY <1>2, <2>2 DEF Writing
    <2> QED
      BY <1>2, <2>1, <2>2
  <1>4. ASSUME NEW k \in DOMAIN s, IsExact(s[k])
        PROVE  /\ s[k].op = "set" => s[k].from = s[k].field
               /\ \A l \in Sources(s[k]) : Undisturbed(s, k, l) /\ Filled(s, l)
    <2>1. /\ k > n /\ Sources(s[k]) \subseteq N
          /\ s[k].op = "set" => s[k].from = s[k].field
          /\ k - n \in DOMAIN r /\ s[k] = r[k - n]
      BY <1>3, <1>4 DEF IsExact
    <2>2. ASSUME NEW l \in Sources(s[k]), NEW j \in DOMAIN s
          PROVE  /\ s[j].op = "query" /\ j < k =>
                      (s[j].into = l <=> s[j].metric = l)
                 /\ s[j].op = "query" /\ j > k => s[j].metric # l
                 /\ s[j].op = "first" => s[j].field # l
                 /\ IsExact(s[j]) /\ l \in Sources(s[j]) => j = k
      <3>1. CASE j <= n /\ s[j].op = "query" /\ s[j].into = s[j].metric
        <4>1. ~(j > k) /\ ~IsExact(s[j])
          BY <1>2, <2>1, <3>1 DEF IsExact
        <4> QED
          BY <3>1, <4>1
      <3>2. CASE /\ s[j].op \in {"set", "calls"}
                 /\ j - n \in DOMAIN r /\ s[j] = r[j - n]
        <4>1. j # k => j - n # k - n
          BY <1>2
        <4>2. l \in Sources(s[j]) => j = k
          BY <2>1, <2>2, <3>2, <4>1 DEF Writing
        <4> QED
          BY <3>2, <4>2
      <3> QED
        BY <1>3, <3>1, <3>2
    <2>3. ASSUME NEW l \in Sources(s[k])
          PROVE  Filled(s, l)
      <3>1. PICK i \in DOMAIN p : p[i].into = l
        BY <2>1 DEF Reading
      <3> QED
        BY <1>2, <3>1 DEF Reading, Filled
    <2> QED
      BY <2>1, <2>2, <2>3 DEF Undisturbed
  <1>5. ASSUME NEW k \in DOMAIN s
        PROVE  NamesOf(s[k]) \subseteq M
    BY <1>3 DEF NamesOf, Sources
  <1> QED
    BY <1>2, <1>4, <1>5 DEF IsBlock, Good, s

(* The smallest programs.                                                  *)
LEMMA LoopReads ==
  ASSUME NEW m \in Names
  PROVE  Reading(Loop(m, m), {m})
  <1>1. \A q \in Quantiles : Query(m, m, q) \in EntryType
    BY DEF Query, EntryType
  <1>2. Loop(m, m) \in Programs
    BY <1>1 DEF Loop, Programs, Quantiles
  <1>3. /\ DOMAIN Loop(m, m) = 1..3
        /\ \A i \in 1..3 : \E q \in Quantiles : Loop(m, m)[i] = Query(m, m, q)
    BY DEF Loop, Quantiles
  <1>4. \A q \in Quantiles :
          /\ Query(m, m, q).op = "query"
          /\ Query(m, m, q).metric = m /\ Query(m, m, q).into = m
    BY DEF Query
  <1> HIDE DEF Loop, Query
  <1>5. 1 \in DOMAIN Loop(m, m)
    BY <1>3
  <1> QED
    BY <1>2, <1>3, <1>4, <1>5 DEF Reading

LEMMA SetWrites ==
  ASSUME NEW f \in Names, f # CM("WorkQueueWorkDuration")
  PROVE  Writing(Set(f, f), {f})
  <1> DEFINE e == [op |-> "set", field |-> f, from |-> f]
  <1>1. e \in EntryType /\ IsExact(e) /\ Sources(e) = {f}
    BY DEF EntryType, IsExact, Sources
  <1>2. /\ Set(f, f) \in Programs
        /\ DOMAIN Set(f, f) = 1..1 /\ Set(f, f)[1] = e
    BY <1>1 DEF Set, Programs
  <1> QED
    BY <1>1, <1>2 DEF Writing

LEMMA CallsWrites ==
  ASSUME NEW c \in Parts
  PROVE  Writing(<<[op |-> "calls", component |-> c]>>,
                 {<<c, "Throughput">>, <<c, "Latency">>})
  <1> DEFINE e == [op |-> "calls", component |-> c]
             N == {<<c, "Throughput">>, <<c, "Latency">>}
  <1>1. e \in EntryType /\ IsExact(e) /\ Sources(e) = N
    BY DEF EntryType, IsExact, Sources
  <1>2. <<e>> \in Programs /\ DOMAIN <<e>> = 1..1 /\ <<e>>[1] = e
    BY <1>1 DEF Programs
  <1>3. Writing(<<e>>, N)
    BY <1>1, <1>2 DEF Writing
  <1> QED
    BY <1>3

LEMMA FirstIsBlock ==
  ASSUME NEW f \in Names, NEW k \in BOOLEAN
  PROVE  IsBlock(First(f, k), {f})
  <1> DEFINE e == [op |-> "first", field |-> f, kept |-> k]
  <1>1. e \in EntryType /\ ~IsExact(e) /\ NamesOf(e) = {f}
    BY DEF EntryType, IsExact, NamesOf
  <1>2. /\ First(f, k) \in Programs
        /\ DOMAIN First(f, k) = 1..1 /\ First(f, k)[1] = e
    BY <1>1 DEF First, Programs
  <1> QED
    BY <1>1, <1>2 DEF IsBlock, Good

LEMMA BlockWithin ==
  ASSUME NEW p, NEW M, NEW N, IsBlock(p, M), M \subseteq N
  PROVE  IsBlock(p, N)
  BY DEF IsBlock

-----------------------------------------------------------------------------
(* The parts of the programs.                                              *)

LEMMA StatisticIsBlock ==
  ASSUME NEW f \in Names, f # CM("WorkQueueWorkDuration")
  PROVE  IsBlock(Statistic(f), {f})
  <1>1. Reading(Loop(f, f), {f}) /\ Writing(Set(f, f), {f})
    BY LoopReads, SetWrites
  <1> QED
    BY <1>1, ReadThenWrite DEF Statistic

CallNames(c) == {<<c, "Throughput">>, <<c, "Latency">>}

LEMMA ApiCallsIsBlock ==
  ASSUME NEW c \in Parts
  PROVE  IsBlock(ApiCalls(c), CallNames(c))
  <1> DEFINE t == <<c, "Throughput">>
             l == <<c, "Latency">>
             write == <<[op |-> "calls", component |-> c]>>
  <1>1. t \in Names /\ l \in Names /\ CallNames(c) = {t} \union {l}
    BY DEF Names, Fields, CallNames
  <1>2. Writing(write, CallNames(c))
    BY CallsWrites DEF CallNames
  <1>3. ApiCalls(c) = (Loop(t, t) \o Loop(l, l)) \o write
    BY DEF ApiCalls
  <1> HIDE DEF t, l, write
  <1>4. Reading(Loop(t, t) \o Loop(l, l), CallNames(c))
    <2>1. Reading(Loop(t, t), {t}) /\ Reading(Loop(l, l), {l})
      BY <1>1, LoopReads
    <2>2. Reading(Loop(t, t) \o Loop(l, l), {t} \union {l})
      BY <2>1, ReadingConcat
    <2> QED
      BY <1>1, <2>2
  <1> QED
    BY <1>2, <1>3, <1>4, ReadThenWrite

UsageNames(c) ==
  {<<c, "CpuUsage">>, <<c, "MemoryUsage">>, <<c, "ThreadUsage">>}

LEMMA ResourceUsageIsBlock ==
  ASSUME NEW c \in Parts
  PROVE  IsBlock(ResourceUsage(c), UsageNames(c))
  <1> DEFINE cpu == <<c, "CpuUsage">>
             mem == <<c, "MemoryUsage">>
             thr == <<c, "ThreadUsage">>
             reads == (Loop(cpu, cpu) \o Loop(mem, mem)) \o Loop(thr, thr)
             writes == (Set(cpu, cpu) \o Set(mem, mem)) \o Set(thr, thr)
  <1>1. /\ cpu \in Names /\ mem \in Names /\ thr \in Names
        /\ cpu # mem /\ cpu # thr /\ mem # thr
        /\ \A f \in {cpu, mem, thr} : f # CM("WorkQueueWorkDuration")
        /\ UsageNames(c) = ({cpu} \union {mem}) \union {thr}
    BY DEF Names, Fields, CM, UsageNames
  <1>2. ResourceUsage(c) =
          ((reads \o Set(cpu, cpu)) \o Set(mem, mem)) \o Set(thr, thr)
    BY DEF ResourceUsage
  <1> HIDE DEF cpu, mem, thr
  <1>3. Reading(reads, UsageNames(c))
    <2>0. Reading(Loop(cpu, cpu), {cpu}) /\ Reading(Loop(mem, mem), {mem})
      BY <1>1, LoopReads
    <2>1. Reading(Loop(cpu, cpu) \o Loop(mem, mem), {cpu} \union {mem})
      BY <2>0, ReadingConcat
    <2>2. Reading(Loop(thr, thr), {thr})
      BY <1>1, LoopReads
    <2>3. Reading(reads, ({cpu} \union {mem}) \union {thr})
      BY <2>1, <2>2, ReadingConcat
    <2> QED
      BY <1>1, <2>3
  <1>4. Writing(writes, UsageNames(c))
    <2>1. Writing(Set(cpu, cpu) \o Set(mem, mem), {cpu} \union {mem})
      BY <1>1, SetWrites, WritingConcat
    <2>2. Writing(Set(thr, thr), {thr})
      BY <1>1, SetWrites
    <2>3. ({cpu} \union {mem}) \intersect {thr} = {}
      BY <1>1
    <2> QED
      BY <1>1, <2>1, <2>2, <2>3, WritingConcat
  <1>5. reads \o writes = ResourceUsage(c)
    <2> DEFINE a == Set(cpu, cpu)
               b == Set(mem, mem)
               d == Set(thr, thr)
    <2>1. /\ reads \in Programs /\ a \in Programs
          /\ b \in Programs /\ d \in Programs
      BY <1>1, <1>3, SetWrites DEF Reading, Writing
    <2>2. ResourceUsage(c) = ((reads \o a) \o b) \o d
      BY <1>2
    <2>3. writes = (a \o b) \o d
      OBVIOUS
    <2> HIDE DEF reads, writes, a, b, d
    <2>4. (reads \o a) \o b = reads \o (a \o b)
      BY <2>1, ConcatAssociative DEF Programs
    <2>5. a \o b \in Programs
      BY <2>1, Concatenation
    <2>6. (reads \o (a \o b)) \o d = reads \o ((a \o b) \o d)
      BY <2>1, <2>5, ConcatAssociative DEF Programs
    <2> QED
      BY <2>2, <2>3, <2>4, <2>6
  <1> HIDE DEF reads, writes
  <1> QED
    BY <1>3, <1>4, <1>5, ReadThenWrite

(* The names of a component.                                               *)
Of(c) == {name \in Names : name[1] = c}

LEMMA CallsAndUsage ==
  ASSUME NEW c \in Parts
  PROVE  /\ IsBlock(ApiCalls(c) \o ResourceUsage(c),
                    CallNames(c) \union UsageNames(c))
         /\ CallNames(c) \union UsageNames(c) \subseteq Of(c)
  <1>1. CallNames(c) \intersect UsageNames(c) = {}
    BY DEF CallNames, UsageNames
  <1>2. CallNames(c) \union UsageNames(c) \subseteq Of(c)
    BY DEF CallNames, UsageNames, Of, Names, Fields
  <1> QED
    BY <1>1, <1>2, ApiCallsIsBlock, ResourceUsageIsBlock, BlockConcat

LEMMA ApiServerIsBlock ==
  /\ IsBlock(ApiServerProgram, Of("ApiServer"))
  /\ IsBlock(SchedulerProgram, Of("Scheduler"))
  BY CallsAndUsage, BlockWithin DEF ApiServerProgram, SchedulerProgram, Parts

(* The list of the queue durations has been used when the samples of the   *)
(* work durations come to it.                                              *)
LEMMA QueuesAreBlock ==
  IsBlock(Statistic(CM("WorkQueueDepth")) \o Statistic(CM("WorkQueueAdds"))
            \o Statistic(CM("WorkQueueQueueDuration")) \o WorkDuration,
          {CM("WorkQueueDepth"), CM("WorkQueueAdds"),
           CM("WorkQueueQueueDuration"), CM("WorkQueueWorkDuration")})
  <1> DEFINE depth == CM("WorkQueueDepth")
             adds == CM("WorkQueueAdds")
             queue == CM("WorkQueueQueueDuration")
             work == CM("WorkQueueWorkDuration")
             before == {depth} \union {adds} \union {queue}
             p == Statistic(depth) \o Statistic(adds) \o Statistic(queue)
             r == Loop(work, queue) \o Set(work, work)
  <1>1. /\ {depth, adds, queue, work} \subseteq Names
        /\ depth # adds /\ depth # queue /\ adds # queue
        /\ work \notin {depth, adds, queue}
    BY DEF CM, Names, Parts, Fields
  <1>2. WorkDuration = r
    BY DEF WorkDuration
  <1>3. work = CM("WorkQueueWorkDuration")
    OBVIOUS
  <1> HIDE DEF depth, adds, queue, work
  <1>4. IsBlock(p, before)
    <2>1. /\ IsBlock(Statistic(depth), {depth})
          /\ IsBlock(Statistic(adds), {adds})
          /\ IsBlock(Statistic(queue), {queue})
      BY <1>1, <1>3, StatisticIsBlock
    <2>2. IsBlock(Statistic(depth) \o Statistic(adds), {depth} \union {adds})
      <3>1. {depth} \intersect {adds} = {}
        BY <1>1
      <3> QED
        BY <2>1, <3>1, BlockConcat
    <2>3. ({depth} \union {adds}) \intersect {queue} = {}
      BY <1>1
    <2> QED
      BY <2>1, <2>2, <2>3, BlockConcat
  <1>5. /\ r \in Programs
        /\ \A i \in DOMAIN r :
             /\ ~IsExact(r[i])
             /\ NamesOf(r[i]) \subseteq {queue, work}
             /\ r[i].op = "query" => r[i].metric = work
             /\ r[i].op # "first"
    <2> DEFINE a == Loop(work, queue)
               b == Set(work, work)
               e == [op |-> "set", field |-> work, from |-> work]
    <2>1. \A q \in Quantiles :
            /\ Query(work, queue, q) \in EntryType
            /\ Query(work, queue, q).op = "query"
            /\ Query(work, queue, q).metric = work
            /\ Query(work, queue, q).into = queue
      BY <1>1 DEF Query, EntryType
    <2>2. /\ a \in Programs /\ DOMAIN a = 1..3
          /\ \A i \in 1..3 : \E q \in Quantiles : a[i] = Query(work, queue, q)
      <3>1. a \in Programs
        BY <2>1 DEF Loop, Programs, Quantiles
      <3>2. /\ DOMAIN a = 1..3
            /\ \A i \in 1..3 :
                 \E q \in Quantiles : a[i] = Query(work, queue, q)
        BY DEF Loop, Quantiles
      <3> QED
        BY <3>1, <3>2
    <2>3. /\ e \in EntryType /\ ~IsExact(e) /\ NamesOf(e) = {work}
          /\ e.op = "set"
      BY <1>1, <1>3 DEF EntryType, IsExact, NamesOf
    <2>4. b \in Programs /\ DOMAIN b = 1..1 /\ b[1] = e
      BY <2>3 DEF Set, Programs
    <2> HIDE DEF a, b, e
    <2>5. /\ a \o b \in Programs
          /\ \A k \in DOMAIN (a \o b) :
               \/ k \in DOMAIN a /\ (a \o b)[k] = a[k]
               \/ k - Len(a) \in DOMAIN b /\ (a \o b)[k] = b[k - Len(a)]
      <3>1. \A i \in DOMAIN a : (a \o b)[i] = a[i]
        BY <2>2, <2>4, Concatenation
      <3>2. /\ a \o b \in Programs
            /\ \A k \in DOMAIN (a \o b) :
                 \/ k \in DOMAIN a
                 \/ k > Len(a) /\ k - Len(a) \in DOMAIN b
                    /\ (a \o b)[k] = b[k - Len(a)]
        BY <2>2, <2>4, Concatenation
      <3> QED
        BY <3>1, <3>2
    <2>6. \A q \in Quantiles :
            /\ ~IsExact(Query(work, queue, q))
            /\ NamesOf(Query(work, queue, q)) = {work, queue}
      BY <2>1 DEF IsExact, NamesOf
    <2>7. /\ a \o b \in Programs
          /\ \A k \in DOMAIN (a \o b) :
               \/ \E q \in Quantiles : (a \o b)[k] = Query(work, queue, q)
               \/ (a \o b)[k] = e
      BY <2>2, <2>4, <2>5
    <2>8. r = a \o b
      BY DEF a, b
    <2> QED
      BY <2>1, <2>3, <2>6, <2>7, <2>8
  <1> HIDE DEF p, r
  <1>6. /\ p \in Programs /\ Good(p) /\ Good(r)
        /\ \A i \in DOMAIN p : IsExact(p[i]) => Sources(p[i]) \subseteq before
    <2>1. \A i \in DOMAIN p : p[i] \in EntryType
      BY <1>4, ElementOfSeq, LenProperties DEF IsBlock, Programs
    <2> QED
      BY <1>4, <1>5, <2>1, SourcesAreNames DEF IsBlock, Good
  <1>7. work \notin before
    BY <1>1
  <1>8. Good(p \o r) /\ p \o r \in Programs
    <2>1. ASSUME NEW i \in DOMAIN p, IsExact(p[i]), NEW l \in Sources(p[i]),
                 NEW j \in DOMAIN r
          PROVE  /\ r[j].op = "query" => r[j].metric # l
                 /\ r[j].op = "first" => r[j].field # l
                 /\ IsExact(r[j]) => l \notin Sources(r[j])
      BY <1>5, <1>6, <1>7, <2>1
    <2>2. \A i \in DOMAIN r : ~IsExact(r[i])
      BY <1>5
    <2>3. Good(p \o r)
      BY <1>5, <1>6, <2>1, <2>2, GoodConcat
    <2> QED
      BY <1>5, <1>6, <2>3, Concatenation
  <1>9. ASSUME NEW k \in DOMAIN (p \o r)
        PROVE  NamesOf((p \o r)[k]) \subseteq {depth, adds, queue, work}
    <2>1. \A i \in DOMAIN p : (p \o r)[i] = p[i]
      BY <1>5, <1>6, Concatenation
    <2>2. \/ k \in DOMAIN p
          \/ k > Len(p) /\ k - Len(p) \in DOMAIN r
             /\ (p \o r)[k] = r[k - Len(p)]
      BY <1>5, <1>6, Concatenation
    <2>3. \A i \in DOMAIN p : NamesOf(p[i]) \subseteq before
      BY <1>4 DEF IsBlock
    <2> QED
      BY <1>5, <2>1, <2>2, <2>3
  <1>10. IsBlock(p \o r, {depth, adds, queue, work})
    BY <1>8, <1>9 DEF IsBlock
  <1> QED
    BY <1>2, <1>10 DEF p, depth, adds, queue, work

LEMMA ControllerManagerIsBlock ==
  IsBlock(ControllerManagerProgram, Of("ControllerManager"))
  <1> DEFINE c == "ControllerManager"
             queues == {CM("WorkQueueDepth"), CM("WorkQueueAdds"),
                        CM("WorkQueueQueueDuration"),
                        CM("WorkQueueWorkDuration")}
             p == Statistic(CM("WorkQueueDepth"))
                    \o Statistic(CM("WorkQueueAdds"))
                    \o Statistic(CM("WorkQueueQueueDuration")) \o WorkDuration
  <1>1. /\ queues \intersect CallNames(c) = {}
        /\ (queues \union CallNames(c)) \intersect UsageNames(c) = {}
    BY DEF CM, CallNames, UsageNames
  <1>2. queues \union CallNames(c) \union UsageNames(c) \subseteq Of(c)
    BY DEF CM, CallNames, UsageNames, Of, Names, Fields, Parts
  <1>3. ControllerManagerProgram = (p \o ApiCalls(c)) \o ResourceUsage(c)
    BY DEF ControllerManagerProgram
  <1>4. IsBlock(p, queues)
    BY QueuesAreBlock
  <1>5. /\ IsBlock(ApiCalls(c), CallNames(c))
        /\ IsBlock(ResourceUsage(c), UsageNames(c))
    BY ApiCallsIsBlock, ResourceUsageIsBlock DEF Parts
  <1> HIDE DEF c, queues, p
  <1>6. IsBlock(p \o ApiCalls(c), queues \union CallNames(c))
    BY <1>1, <1>4, <1>5, BlockConcat
  <1>7. IsBlock((p \o ApiCalls(c)) \o ResourceUsage(c),
                queues \union CallNames(c) \union UsageNames(c))
    BY <1>1, <1>5, <1>6, BlockConcat
  <1>8. IsBlock((p \o ApiCalls(c)) \o ResourceUsage(c), Of(c))
    BY <1>2, <1>7, BlockWithin
  <1> QED
    BY <1>3, <1>8 DEF c

LEMMA ProposalsAreBlock ==
  IsBlock(Proposals,
          {Etcd("Committed")} \union {Etcd("Applied")}
            \union {Etcd("Pending")} \union {Etcd("Failed")})
  <1> DEFINE a == Etcd("Committed")
             b == Etcd("Applied")
             d == Etcd("Pending")
             e == Etcd("Failed")
  <1>1. /\ {a, b, d, e} \subseteq Names
        /\ {a} \intersect {b} = {} /\ ({a} \union {b}) \intersect {d} = {}
        /\ ({a} \union {b} \union {d}) \intersect {e} = {}
    BY DEF Etcd, Names, Parts, Fields
  <1>2. Proposals = ((First(a, FALSE) \o First(b, FALSE)) \o First(d, FALSE))
                    \o First(e, FALSE)
    BY DEF Proposals
  <1> HIDE DEF a, b, d, e
  <1>3. /\ IsBlock(First(a, FALSE), {a}) /\ IsBlock(First(b, FALSE), {b})
        /\ IsBlock(First(d, FALSE), {d}) /\ IsBlock(First(e, FALSE), {e})
    BY <1>1, FirstIsBlock
  <1>4. IsBlock(First(a, FALSE) \o First(b, FALSE), {a} \union {b})
    BY <1>1, <1>3, BlockConcat
  <1>5. IsBlock((First(a, FALSE) \o First(b, FALSE)) \o First(d, FALSE),
                {a} \union {b} \union {d})
    BY <1>1, <1>3, <1>4, BlockConcat
  <1>6. IsBlock(Proposals, {a} \union {b} \union {d} \union {e})
    BY <1>1, <1>2, <1>3, <1>5, BlockConcat
  <1> QED
    BY <1>6 DEF a, b, d, e

LEMMA EtcdIsBlock == IsBlock(EtcdProgram, Of("Etcd"))
  <1> DEFINE c == "Etcd"
             e0 == Etcd("LeaderElections")
             e1 == Etcd("DbSize")
             e2 == Etcd("DbSizeUsed")
             e3 == Etcd("WalSyncDuration")
             e4 == Etcd("BackendCommitSyncDuration")
             n1 == {e0} \union {e1}
             n2 == n1 \union {e2}
             n3 == n2 \union {e3}
             n4 == n3 \union {e4}
             last == {Etcd("Committed")} \union {Etcd("Applied")}
                       \union {Etcd("Pending")} \union {Etcd("Failed")}
             p0 == First(e0, TRUE)
             p1 == p0 \o Statistic(e1)
             p2 == p1 \o Statistic(e2)
             p3 == p2 \o Statistic(e3)
             p4 == p3 \o Statistic(e4)
             p5 == p4 \o Proposals
  <1>1. EtcdProgram = p5 \o ResourceUsage(c)
    BY DEF EtcdProgram
  <1>2. /\ {e0, e1, e2, e3, e4} \subseteq Names
        /\ \A f \in {e1, e2, e3, e4} : f # CM("WorkQueueWorkDuration")
    BY DEF Etcd, CM, Names, Parts, Fields
  <1>3. /\ {e0} \intersect {e1} = {}
        /\ n1 \intersect {e2} = {}
        /\ n2 \intersect {e3} = {}
        /\ n3 \intersect {e4} = {}
        /\ n4 \intersect last = {}
        /\ (n4 \union last) \intersect UsageNames(c) = {}
    BY DEF Etcd, UsageNames
  <1>4. n4 \union last \union UsageNames(c) \subseteq Of(c)
    BY DEF Etcd, UsageNames, Of, Names, Fields, Parts
  <1>5. IsBlock(Proposals, last)
    BY ProposalsAreBlock
  <1>6. IsBlock(ResourceUsage(c), UsageNames(c))
    BY ResourceUsageIsBlock DEF Parts
  <1> HIDE DEF c, e0, e1, e2, e3, e4, last
  <1>7. /\ IsBlock(p0, {e0})
        /\ IsBlock(Statistic(e1), {e1}) /\ IsBlock(Statistic(e2), {e2})
        /\ IsBlock(Statistic(e3), {e3}) /\ IsBlock(Statistic(e4), {e4})
    BY <1>2, FirstIsBlock, StatisticIsBlock
  <1> HIDE DEF p0, p1, p2, p3, p4, p5, n1, n2, n3, n4
  <1>8. IsBlock(p1, n1)
    BY <1>3, <1>7, BlockConcat DEF p1, n1
  <1>9. IsBlock(p2, n2)
    BY <1>3, <1>7, <1>8, BlockConcat DEF p2, n2
  <1>10. IsBlock(p3, n3)
    BY <1>3, <1>7, <1>9, BlockConcat DEF p3, n3
  <1>11. IsBlock(p4, n4)
    BY <1>3, <1>7, <1>10, BlockConcat DEF p4, n4
  <1>12. IsBlock(p5, n4 \union last)
    BY <1>3, <1>5, <1>11, BlockConcat DEF p5
  <1>13. IsBlock(p5 \o ResourceUsage(c), n4 \union last \union UsageNames(c))
    BY <1>3, <1>6, <1>12, BlockConcat
  <1>14. IsBlock(p5 \o ResourceUsage(c), Of(c))
    BY <1>4, <1>13, BlockWithin
  <1>15. c = "Etcd"
    BY DEF c
  <1> QED
    BY <1>1, <1>14, <1>15

-----------------------------------------------------------------------------
(* The two programs.                                                       *)

LEMMA ProgramsAreGood ==
  ASSUME NEW context \in Contexts
  PROVE  Program(context) \in Programs /\ Good(Program(context))
  <1> DEFINE a == Of("ApiServer")
             m == Of("ControllerManager")
             s == Of("Scheduler")
             e == Of("Etcd")
  <1>1. /\ a \intersect m = {} /\ (a \union m) \intersect s = {}
        /\ (a \union m \union s) \intersect e = {}
        /\ (a \union m) \intersect e = {}
    BY DEF Of
  <1>2. /\ IsBlock(ApiServerProgram, a) /\ IsBlock(SchedulerProgram, s)
        /\ IsBlock(ControllerManagerProgram, m) /\ IsBlock(EtcdProgram, e)
    BY ApiServerIsBlock, ControllerManagerIsBlock, EtcdIsBlock
  <1> HIDE DEF a, m, s, e
  <1>3. IsBlock(ApiServerProgram \o ControllerManagerProgram, a \union m)
    BY <1>1, <1>2, BlockConcat
  <1>4. IsBlock((ApiServerProgram \o ControllerManagerProgram)
                  \o SchedulerProgram, a \union m \union s)
    BY <1>1, <1>2, <1>3, BlockConcat
  <1>5. IsBlock(HostProgram, a \union m \union s \union e)
    BY <1>1, <1>2, <1>4, BlockConcat DEF HostProgram
  <1>6. IsBlock(VirtualProgram, a \union m \union e)
    BY <1>1, <1>2, <1>3, BlockConcat DEF VirtualProgram
  <1> QED
    BY <1>5, <1>6 DEF IsBlock, Program

(* What a program consists of.                                             *)
EntriesOf(p) == {p[i] : i \in DOMAIN p}

LEMMA EntriesConcat ==
  ASSUME NEW p \in Programs, NEW r \in Programs
  PROVE  EntriesOf(p \o r) = EntriesOf(p) \union EntriesOf(r)
  <1> DEFINE s == p \o r
  <1>1. /\ \A i \in DOMAIN p : i \in DOMAIN s /\ s[i] = p[i]
        /\ \A i \in DOMAIN r : Len(p) + i \in DOMAIN s /\ s[Len(p) + i] = r[i]
    BY Concatenation
  <1>2. \A k \in DOMAIN s :
          \/ k \in DOMAIN p
          \/ k > Len(p) /\ k - Len(p) \in DOMAIN r /\ s[k] = r[k - Len(p)]
    BY Concatenation
  <1> HIDE DEF s
  <1>3. EntriesOf(s) = EntriesOf(p) \union EntriesOf(r)
    <2>1. \A k \in DOMAIN s : s[k] \in EntriesOf(p) \union EntriesOf(r)
      BY <1>1, <1>2 DEF EntriesOf
    <2>2. \A i \in DOMAIN p : p[i] \in EntriesOf(s)
      BY <1>1 DEF EntriesOf
    <2>3. \A i \in DOMAIN r : r[i] \in EntriesOf(s)
      BY <1>1 DEF EntriesOf
    <2> QED
      BY <2>1, <2>2, <2>3 DEF EntriesOf
  <1> QED
    BY <1>3 DEF s

LEMMA VirtualWithinHost ==
  /\ Entries("virtual") \subseteq Entries("host")
  /\ Len(VirtualProgram) <= Len(HostProgram)
  <1> DEFINE a == ApiServerProgram
             m == ControllerManagerProgram
             s == SchedulerProgram
             e == EtcdProgram
  <1>1. a \in Programs /\ m \in Programs /\ s \in Programs /\ e \in Programs
    BY ApiServerIsBlock, ControllerManagerIsBlock, EtcdIsBlock DEF IsBlock
  <1>2. HostProgram = ((a \o m) \o s) \o e /\ VirtualProgram = (a \o m) \o e
    BY DEF HostProgram, VirtualProgram
  <1> HIDE DEF a, m, s, e
  <1>3. a \o m \in Programs
    BY <1>1, Concatenation
  <1>4. (a \o m) \o s \in Programs
    BY <1>1, <1>3, Concatenation
  <1>5. EntriesOf(VirtualProgram) = EntriesOf(a \o m) \union EntriesOf(e)
    BY <1>1, <1>2, <1>3, EntriesConcat
  <1>6. EntriesOf(HostProgram) =
          EntriesOf(a \o m) \union EntriesOf(s) \union EntriesOf(e)
    BY <1>1, <1>2, <1>3, <1>4, EntriesConcat
  <1>7. /\ Len(VirtualProgram) = Len(a \o m) + Len(e)
        /\ Len(a \o m) \in Nat /\ Len(e) \in Nat
    BY <1>1, <1>2, <1>3, Concatenation
  <1>8. Len((a \o m) \o s) = Len(a \o m) + Len(s) /\ Len(s) \in Nat
    BY <1>1, <1>3, Concatenation
  <1>9. Len(HostProgram) = Len((a \o m) \o s) + Len(e)
    BY <1>1, <1>2, <1>4, Concatenation
  <1>10. Len(VirtualProgram) <= Len(HostProgram)
    BY <1>7, <1>8, <1>9
  <1>11. Entries("virtual") \subseteq Entries("host")
    BY <1>5, <1>6 DEF Entries, EntriesOf, Program
  <1> QED
    BY <1>10, <1>11

LEMMA ApiServerIsCollected ==
  ASSUME NEW context \in Contexts
  PROVE  "ApiServer" \in Components(context)
  <1> DEFINE c == "ApiServer"
             t == Loop(<<c, "Throughput">>, <<c, "Throughput">>)
             l == Loop(<<c, "Latency">>, <<c, "Latency">>)
             e == [op |-> "calls", component |-> c]
             a == ApiServerProgram
             m == ControllerManagerProgram
             s == SchedulerProgram
             d == EtcdProgram
  <1>1. t \in Programs /\ l \in Programs
    BY LoopReads DEF Reading, Names, Parts, Fields
  <1>2. /\ <<e>> \in Programs
        /\ ResourceUsage(c) \in Programs
        /\ ApiCalls(c) \in Programs
    BY CallsWrites, ResourceUsageIsBlock, ApiCallsIsBlock
    DEF Writing, IsBlock, Parts
  <1>3. e \in EntriesOf(<<e>>)
    <2>1. DOMAIN <<e>> = 1..1 /\ <<e>>[1] = e
      OBVIOUS
    <2> QED
      BY <2>1 DEF EntriesOf
  <1>4. ApiCalls(c) = (t \o l) \o <<e>> /\ a = ApiCalls(c) \o ResourceUsage(c)
    BY DEF ApiCalls, ApiServerProgram
  <1>5. a \in Programs /\ m \in Programs /\ s \in Programs /\ d \in Programs
    BY ApiServerIsBlock, ControllerManagerIsBlock, EtcdIsBlock DEF IsBlock
  <1>6. HostProgram = ((a \o m) \o s) \o d /\ VirtualProgram = (a \o m) \o d
    BY DEF HostProgram, VirtualProgram
  <1>7. e.op = "calls" /\ e.component = c
    OBVIOUS
  <1> HIDE DEF t, l, e, a, m, s, d
  <1>8. e \in EntriesOf(ApiCalls(c))
    <2>1. t \o l \in Programs
      BY <1>1, Concatenation
    <2> QED
      BY <1>2, <1>3, <1>4, <2>1, EntriesConcat
  <1>9. e \in EntriesOf(a)
    BY <1>2, <1>4, <1>8, EntriesConcat
  <1>10. a \o m \in Programs /\ e \in EntriesOf(a \o m)
    BY <1>5, <1>9, Concatenation, EntriesConcat
  <1>11. (a \o m) \o s \in Programs /\ e \in EntriesOf((a \o m) \o s)
    BY <1>5, <1>10, Concatenation, EntriesConcat
  <1>12. e \in EntriesOf(HostProgram) /\ e \in EntriesOf(VirtualProgram)
    BY <1>5, <1>6, <1>10, <1>11, EntriesConcat
  <1>13. e \in Entries(context)
    BY <1>12 DEF Entries, EntriesOf, Program
  <1>14. e \in OfKind(context, "calls")
    BY <1>7, <1>13 DEF OfKind
  <1> QED
    BY <1>7, <1>14 DEF Components

(* Where an entry of a program reads and writes.                           *)
LEMMA EntryFacts ==
  ASSUME NEW context \in Contexts, NEW i \in DOMAIN Program(context)
  PROVE  LET e == Program(context)[i]
         IN  /\ e \in EntryType
             /\ e.op = "query" => e.metric \in Metrics /\ e.into \in Lists
             /\ e.op = "set" => e.field \in Statistics("host")
             /\ e.op = "calls" => e.component \in Components("host")
             /\ e.op = "first" => e.field \in Firsts("host")
             /\ IsExact(e) => Sources(e) \subseteq Lists
  <1> DEFINE p == Program(context)
             e == p[i]
  <1>1. p \in Programs /\ Good(p)
    BY ProgramsAreGood
  <1>2. e \in EntryType
    BY <1>1, ElementOfSeq, LenProperties DEF Programs
  <1>3. \A j \in DOMAIN p : p[j] \in Entries("host")
    <2>1. \A j \in DOMAIN p : p[j] \in Entries(context)
      BY DEF Entries
    <2>2. context = "host" \/ context = "virtual"
      BY DEF Contexts
    <2> QED
      BY <2>1, <2>2, VirtualWithinHost
  <1> HIDE DEF p
  <1>4. \A j \in DOMAIN p : p[j].op = "query" => p[j].into \in Lists
    BY <1>3 DEF Lists, OfKind
  <1>5. ASSUME IsExact(p[i]), NEW l \in Sources(p[i])
        PROVE  l \in Lists
    <2>1. i \in DOMAIN p
      BY DEF p
    <2>2. Filled(p, l)
      BY <1>1, <1>5, <2>1 DEF Good
    <2> QED
      BY <1>4, <2>2 DEF Filled
  <1>6. /\ e.op = "query" => e.metric \in Metrics
        /\ e.op = "set" => e.field \in Statistics("host")
        /\ e.op = "calls" => e.component \in Components("host")
        /\ e.op = "first" => e.field \in Firsts("host")
    <2> DEFINE x == p[i]
    <2>1. x \in Entries("host")
      BY <1>3 DEF p
    <2> HIDE DEF x
    <2>2. x.op = "query" => x.metric \in Metrics
      BY <2>1 DEF Metrics, OfKind
    <2>3. x.op = "set" => x.field \in Statistics("host")
      BY <2>1 DEF Statistics, OfKind
    <2>4. x.op = "calls" => x.component \in Components("host")
      BY <2>1 DEF Components, OfKind
    <2>5. x.op = "first" => x.field \in Firsts("host")
      BY <2>1 DEF Firsts, OfKind
    <2> QED
      BY <2>2, <2>3, <2>4, <2>5 DEF x
  <1>7. e.op = "query" => e.into \in Lists
    BY <1>4 DEF p
  <1>8. IsExact(e) => Sources(e) \subseteq Lists
    BY <1>5
  <1> QED
    BY <1>2, <1>6, <1>7, <1>8 DEF p

LEMMA ProgramLength ==
  ASSUME NEW context \in Contexts
  PROVE  /\ Len(Program(context)) \in Nat
         /\ DOMAIN Program(context) = 1..Len(Program(context))
         /\ Len(Program(context)) <= Len(Program("host"))
  <1>1. Program(context) \in Programs
    BY ProgramsAreGood
  <1>2. Len(Program(context)) \in Nat
        /\ DOMAIN Program(context) = 1..Len(Program(context))
    BY <1>1, LenProperties DEF Programs
  <1>3. Len(Program(context)) <= Len(Program("host"))
    <2>1. CASE context = "host"
      BY <1>2, <2>1
    <2>2. CASE context = "virtual"
      BY <2>2, VirtualWithinHost DEF Program
    <2> QED
      BY <2>1, <2>2 DEF Contexts
  <1> QED
    BY <1>2, <1>3

-----------------------------------------------------------------------------
(* The fields that are not set from the samples of a list of their own.    *)

LE == Etcd("LeaderElections")
WD == CM("WorkQueueWorkDuration")

(* Nothing is appended to the list of the work durations, and only the     *)
(* leader elections are kept of the first samples.                         *)
Ordinary ==
  {e \in EntryType :
     /\ e.op = "query" => e.metric # LE /\ e.into # WD
     /\ e.op = "set" /\ e.field = WD => e.from = WD
     /\ e.op = "first" => (e.kept <=> e.field = LE)}

LEMMA OrdinaryConcat ==
  ASSUME NEW p \in Seq(Ordinary), NEW r \in Seq(Ordinary)
  PROVE  /\ p \o r \in Seq(Ordinary)
         /\ EntriesOf(p \o r) = EntriesOf(p) \union EntriesOf(r)
  <1>1. p \in Programs /\ r \in Programs
    <2>1. Ordinary \subseteq EntryType
      BY DEF Ordinary
    <2> HIDE DEF Ordinary
    <2>2. Seq(Ordinary) \subseteq Seq(EntryType)
      BY <2>1
    <2> QED
      BY <2>2 DEF Programs
  <1>2. p \o r \in Seq(Ordinary)
    BY ConcatProperties
  <1> QED
    BY <1>1, <1>2, EntriesConcat

LEMMA LoopIsOrdinary ==
  ASSUME NEW m \in Names, NEW l \in Names, m # LE, l # WD
  PROVE  Loop(m, l) \in Seq(Ordinary)
  <1>1. \A q \in Quantiles : Query(m, l, q) \in Ordinary
    BY DEF Query, EntryType, Ordinary
  <1> QED
    BY <1>1 DEF Loop, Quantiles

LEMMA SetIsOrdinary ==
  ASSUME NEW f \in Names
  PROVE  Set(f, f) \in Seq(Ordinary)
  <1>1. [op |-> "set", field |-> f, from |-> f] \in Ordinary
    BY DEF EntryType, Ordinary
  <1> QED
    BY <1>1 DEF Set

LEMMA FirstIsOrdinary ==
  ASSUME NEW f \in Names, NEW k \in BOOLEAN, k <=> f = LE
  PROVE  /\ First(f, k) \in Seq(Ordinary)
         /\ [op |-> "first", field |-> f, kept |-> k]
              \in EntriesOf(First(f, k))
  <1> DEFINE e == [op |-> "first", field |-> f, kept |-> k]
  <1>1. e \in Ordinary
    BY DEF EntryType, Ordinary
  <1>2. First(f, k) = <<e>>
    BY DEF First
  <1> HIDE DEF e
  <1>3. First(f, k) \in Seq(Ordinary) /\ e \in EntriesOf(First(f, k))
    <2>1. DOMAIN <<e>> = 1..1 /\ <<e>>[1] = e
      OBVIOUS
    <2> QED
      BY <1>1, <1>2, <2>1 DEF EntriesOf
  <1> QED
    BY <1>3 DEF e

LEMMA StatisticIsOrdinary ==
  ASSUME NEW f \in Names, f # LE, f # WD
  PROVE  Statistic(f) \in Seq(Ordinary)
  BY LoopIsOrdinary, SetIsOrdinary, OrdinaryConcat DEF Statistic

LEMMA ApiCallsIsOrdinary ==
  ASSUME NEW c \in Parts
  PROVE  ApiCalls(c) \in Seq(Ordinary)
  <1> DEFINE t == <<c, "Throughput">>
             l == <<c, "Latency">>
             e == [op |-> "calls", component |-> c]
  <1>1. \A name \in {t, l} : name \in Names /\ name # LE /\ name # WD
    BY DEF Names, Fields, LE, WD, Etcd, CM
  <1>2. e \in Ordinary
    BY DEF EntryType, Ordinary
  <1>3. ApiCalls(c) = (Loop(t, t) \o Loop(l, l)) \o <<e>>
    BY DEF ApiCalls
  <1> HIDE DEF t, l, e
  <1>4. /\ Loop(t, t) \in Seq(Ordinary) /\ Loop(l, l) \in Seq(Ordinary)
        /\ <<e>> \in Seq(Ordinary)
    BY <1>1, <1>2, LoopIsOrdinary
  <1>5. Loop(t, t) \o Loop(l, l) \in Seq(Ordinary)
    BY <1>4, OrdinaryConcat
  <1> QED
    BY <1>3, <1>4, <1>5, OrdinaryConcat

LEMMA ResourceUsageIsOrdinary ==
  ASSUME NEW c \in Parts
  PROVE  ResourceUsage(c) \in Seq(Ordinary)
  <1> DEFINE cpu == <<c, "CpuUsage">>
             mem == <<c, "MemoryUsage">>
             thr == <<c, "ThreadUsage">>
  <1>1. \A name \in {cpu, mem, thr} : name \in Names /\ name # LE /\ name # WD
    BY DEF Names, Fields, LE, WD, Etcd, CM
  <1>2. ResourceUsage(c) =
          ((((Loop(cpu, cpu) \o Loop(mem, mem)) \o Loop(thr, thr))
             \o Set(cpu, cpu)) \o Set(mem, mem)) \o Set(thr, thr)
    BY DEF ResourceUsage
  <1> HIDE DEF cpu, mem, thr
  <1>3. \A name \in {cpu, mem, thr} : /\ Loop(name, name) \in Seq(Ordinary)
                                      /\ Set(name, name) \in Seq(Ordinary)
    BY <1>1, LoopIsOrdinary, SetIsOrdinary
  <1> DEFINE p1 == Loop(cpu, cpu) \o Loop(mem, mem)
             p2 == p1 \o Loop(thr, thr)
             p3 == p2 \o Set(cpu, cpu)
             p4 == p3 \o Set(mem, mem)
  <1>4. p1 \in Seq(Ordinary)
    BY <1>3, OrdinaryConcat
  <1> HIDE DEF p1
  <1>5. p2 \in Seq(Ordinary)
    BY <1>3, <1>4, OrdinaryConcat
  <1> HIDE DEF p2
  <1>6. p3 \in Seq(Ordinary)
    BY <1>3, <1>5, OrdinaryConcat
  <1> HIDE DEF p3
  <1>7. p4 \in Seq(Ordinary)
    BY <1>3, <1>6, OrdinaryConcat
  <1> HIDE DEF p4
  <1>8. p4 \o Set(thr, thr) \in Seq(Ordinary)
    BY <1>3, <1>7, OrdinaryConcat
  <1> QED
    BY <1>2, <1>8 DEF p1, p2, p3, p4

LEMMA ControllerManagerIsOrdinary ==
  /\ ControllerManagerProgram \in Seq(Ordinary)
  /\ [op |-> "set", field |-> WD, from |-> WD]
       \in EntriesOf(ControllerManagerProgram)
  <1> DEFINE c == "ControllerManager"
             depth == CM("WorkQueueDepth")
             adds == CM("WorkQueueAdds")
             queue == CM("WorkQueueQueueDuration")
             e == [op |-> "set", field |-> WD, from |-> WD]
  <1>1. /\ \A f \in {depth, adds, queue} : f \in Names /\ f # LE /\ f # WD
        /\ WD \in Names /\ WD # LE
    BY DEF CM, Etcd, LE, WD, Names, Parts, Fields
  <1>2. /\ ControllerManagerProgram =
             ((((Statistic(depth) \o Statistic(adds)) \o Statistic(queue))
                \o WorkDuration) \o ApiCalls(c)) \o ResourceUsage(c)
        /\ WorkDuration = Loop(WD, queue) \o Set(WD, WD)
    BY DEF ControllerManagerProgram, WorkDuration, WD
  <1>3. ApiCalls(c) \in Seq(Ordinary) /\ ResourceUsage(c) \in Seq(Ordinary)
    BY ApiCallsIsOrdinary, ResourceUsageIsOrdinary DEF Parts
  <1>4. e \in EntriesOf(Set(WD, WD))
    <2>1. DOMAIN Set(WD, WD) = 1..1 /\ Set(WD, WD)[1] = e
      BY DEF Set
    <2> QED
      BY <2>1 DEF EntriesOf
  <1> HIDE DEF c, depth, adds, queue, e
  <1>5. \A f \in {depth, adds, queue} : Statistic(f) \in Seq(Ordinary)
    BY <1>1, StatisticIsOrdinary
  <1>6. WorkDuration \in Seq(Ordinary) /\ e \in EntriesOf(WorkDuration)
    <2>1. Loop(WD, queue) \in Seq(Ordinary) /\ Set(WD, WD) \in Seq(Ordinary)
      BY <1>1, LoopIsOrdinary, SetIsOrdinary
    <2> QED
      BY <1>2, <1>4, <2>1, OrdinaryConcat
  <1> DEFINE p1 == Statistic(depth) \o Statistic(adds)
             p2 == p1 \o Statistic(queue)
             p3 == p2 \o WorkDuration
             p4 == p3 \o ApiCalls(c)
             p5 == p4 \o ResourceUsage(c)
  <1>7. p1 \in Seq(Ordinary)
    BY <1>5, OrdinaryConcat
  <1> HIDE DEF p1
  <1>8. p2 \in Seq(Ordinary)
    BY <1>5, <1>7, OrdinaryConcat
  <1> HIDE DEF p2
  <1>9. p3 \in Seq(Ordinary) /\ e \in EntriesOf(p3)
    BY <1>6, <1>8, OrdinaryConcat
  <1> HIDE DEF p3
  <1>10. p4 \in Seq(Ordinary) /\ e \in EntriesOf(p4)
    BY <1>3, <1>9, OrdinaryConcat
  <1> HIDE DEF p4
  <1>11. p5 \in Seq(Ordinary) /\ e \in EntriesOf(p5)
    BY <1>3, <1>10, OrdinaryConcat
  <1>12. ControllerManagerProgram = p5
    BY <1>2 DEF p1, p2, p3, p4
  <1> QED
    BY <1>11, <1>12 DEF e

LEMMA EtcdIsOrdinary ==
  /\ EtcdProgram \in Seq(Ordinary)
  /\ [op |-> "first", field |-> LE, kept |-> TRUE] \in EntriesOf(EtcdProgram)
  <1> DEFINE e1 == Etcd("DbSize")
             e2 == Etcd("DbSizeUsed")
             e3 == Etcd("WalSyncDuration")
             e4 == Etcd("BackendCommitSyncDuration")
             a == Etcd("Committed")
             b == Etcd("Applied")
             d == Etcd("Pending")
             f == Etcd("Failed")
             e == [op |-> "first", field |-> LE, kept |-> TRUE]
             usage == ResourceUsage("Etcd")
  <1>1. /\ \A m \in {e1, e2, e3, e4, a, b, d, f} :
             m \in Names /\ m # LE /\ m # WD
        /\ LE \in Names
    BY DEF CM, Etcd, LE, WD, Names, Parts, Fields
  <1>2. /\ EtcdProgram =
             (((((First(LE, TRUE) \o Statistic(e1)) \o Statistic(e2))
                 \o Statistic(e3)) \o Statistic(e4)) \o Proposals) \o usage
        /\ Proposals = ((First(a, FALSE) \o First(b, FALSE))
                        \o First(d, FALSE)) \o First(f, FALSE)
    BY DEF EtcdProgram, Proposals, LE
  <1>3. usage \in Seq(Ordinary)
    BY ResourceUsageIsOrdinary DEF Parts
  <1>4. First(LE, TRUE) \in Seq(Ordinary) /\ e \in EntriesOf(First(LE, TRUE))
    BY <1>1, FirstIsOrdinary
  <1> HIDE DEF e1, e2, e3, e4, a, b, d, f, e, usage
  <1>5. /\ \A m \in {e1, e2, e3, e4} : Statistic(m) \in Seq(Ordinary)
        /\ \A m \in {a, b, d, f} : First(m, FALSE) \in Seq(Ordinary)
    BY <1>1, StatisticIsOrdinary, FirstIsOrdinary
  <1>6. Proposals \in Seq(Ordinary)
    <2> DEFINE q1 == First(a, FALSE) \o First(b, FALSE)
               q2 == q1 \o First(d, FALSE)
    <2>1. q1 \in Seq(Ordinary)
      BY <1>5, OrdinaryConcat
    <2> HIDE DEF q1
    <2>2. q2 \in Seq(Ordinary)
      BY <1>5, <2>1, OrdinaryConcat
    <2> HIDE DEF q2
    <2>3. q2 \o First(f, FALSE) \in Seq(Ordinary)
      BY <1>5, <2>2, OrdinaryConcat
    <2> QED
      BY <1>2, <2>3 DEF q1, q2
  <1> DEFINE p1 == First(LE, TRUE) \o Statistic(e1)
             p2 == p1 \o Statistic(e2)
             p3 == p2 \o Statistic(e3)
             p4 == p3 \o Statistic(e4)
             p5 == p4 \o Proposals
             p6 == p5 \o usage
  <1>7. p1 \in Seq(Ordinary) /\ e \in EntriesOf(p1)
    BY <1>4, <1>5, OrdinaryConcat
  <1> HIDE DEF p1
  <1>8. p2 \in Seq(Ordinary) /\ e \in EntriesOf(p2)
    BY <1>5, <1>7, OrdinaryConcat
  <1> HIDE DEF p2
  <1>9. p3 \in Seq(Ordinary) /\ e \in EntriesOf(p3)
    BY <1>5, <1>8, OrdinaryConcat
  <1> HIDE DEF p3
  <1>10. p4 \in Seq(Ordinary) /\ e \in EntriesOf(p4)
    BY <1>5, <1>9, OrdinaryConcat
  <1> HIDE DEF p4
  <1>11. p5 \in Seq(Ordinary) /\ e \in EntriesOf(p5)
    BY <1>6, <1>10, OrdinaryConcat
  <1> HIDE DEF p5
  <1>12. p6 \in Seq(Ordinary) /\ e \in EntriesOf(p6)
    BY <1>3, <1>11, OrdinaryConcat
  <1>13. EtcdProgram = p6
    BY <1>2 DEF p1, p2, p3, p4, p5
  <1> QED
    BY <1>12, <1>13 DEF e

LEMMA EntriesAreOrdinary ==
  /\ \A context \in Contexts : \A i \in DOMAIN Program(context) :
       Program(context)[i] \in Ordinary
  /\ WD \in Statistics("host") /\ WD \in Lists
  /\ LE \in Firsts("host")
  <1> DEFINE a == ApiServerProgram
             m == ControllerManagerProgram
             s == SchedulerProgram
             d == EtcdProgram
             w == [op |-> "set", field |-> WD, from |-> WD]
             l == [op |-> "first", field |-> LE, kept |-> TRUE]
  <1>1. a \in Seq(Ordinary) /\ s \in Seq(Ordinary)
    BY ApiCallsIsOrdinary, ResourceUsageIsOrdinary, OrdinaryConcat
    DEF ApiServerProgram, SchedulerProgram, Parts
  <1>2. /\ m \in Seq(Ordinary) /\ w \in EntriesOf(m)
        /\ d \in Seq(Ordinary) /\ l \in EntriesOf(d)
    BY ControllerManagerIsOrdinary, EtcdIsOrdinary
  <1>3. HostProgram = ((a \o m) \o s) \o d /\ VirtualProgram = (a \o m) \o d
    BY DEF HostProgram, VirtualProgram
  <1>4. /\ w.op = "set" /\ w.field = WD
        /\ l.op = "first" /\ l.field = LE
    OBVIOUS
  <1> HIDE DEF a, m, s, d, w, l
  <1>5. a \o m \in Seq(Ordinary) /\ w \in EntriesOf(a \o m)
    BY <1>1, <1>2, OrdinaryConcat
  <1>6. /\ (a \o m) \o s \in Seq(Ordinary)
        /\ w \in EntriesOf((a \o m) \o s)
    BY <1>1, <1>5, OrdinaryConcat
  <1>7. /\ HostProgram \in Seq(Ordinary) /\ VirtualProgram \in Seq(Ordinary)
        /\ w \in EntriesOf(HostProgram) /\ l \in EntriesOf(HostProgram)
    <2> DEFINE virtual == a \o m
               host == virtual \o s
    <2>1. /\ virtual \in Seq(Ordinary)
          /\ host \in Seq(Ordinary) /\ w \in EntriesOf(host)
          /\ HostProgram = host \o d /\ VirtualProgram = virtual \o d
      BY <1>3, <1>5, <1>6
    <2> HIDE DEF virtual, host
    <2>2. VirtualProgram \in Seq(Ordinary)
      BY <1>2, <2>1, OrdinaryConcat
    <2>3. /\ HostProgram \in Seq(Ordinary)
          /\ EntriesOf(HostProgram) = EntriesOf(host) \union EntriesOf(d)
      BY <1>2, <2>1, OrdinaryConcat
    <2> QED
      BY <1>2, <2>1, <2>2, <2>3
  <1>8. w \in OfKind("host", "set") /\ l \in OfKind("host", "first")
    BY <1>4, <1>7 DEF OfKind, Entries, EntriesOf, Program
  <1>9. WD \in Statistics("host") /\ LE \in Firsts("host")
    BY <1>4, <1>8 DEF Statistics, Firsts
  <1>10. ASSUME NEW context \in Contexts, NEW i \in DOMAIN Program(context)
         PROVE  Program(context)[i] \in Ordinary
    <2>1. Program(context) \in Seq(Ordinary)
      BY <1>7 DEF Program
    <2> HIDE DEF Program
    <2> QED
      BY <1>10, <2>1, ElementOfSeq, LenProperties
  <1> QED
    BY <1>9, <1>10 DEF Lists

-----------------------------------------------------------------------------
(* The invariant at the start.                                             *)

LEMMA InitLinesInv == Init => LinesInv
  <1> SUFFICES ASSUME Init PROVE LinesInv
    OBVIOUS
  <1>1. TypeOK
    <2>1. /\ Len(Program("host")) \in Nat
      BY ProgramLength DEF Contexts
    <2> QED
      BY <2>1, FaultsAssumption DEF Init, TypeOK, Contexts
  <1>2. Shape
    <2>1. /\ DOMAIN EmptyMetrics = {"statistics", "calls", "firsts"}
          /\ DOMAIN EmptyMetrics.statistics = Statistics("host")
          /\ DOMAIN EmptyMetrics.calls = Components("host")
      BY DEF EmptyMetrics
    <2> HIDE DEF EmptyMetrics
    <2> QED
      BY <2>1 DEF Init, Shape
  <1>3. ListsFollow
    <2>1. phase = "host" /\ at = 1 /\ answered = {}
          /\ lists = [l \in Lists |-> {}]
      BY DEF Init
    <2>2. ASSUME NEW i \in at..Len(Program("host")),
                 IsExact(Program("host")[i]),
                 NEW l \in Sources(Program("host")[i])
          PROVE  lists[l] = Answered("host", l)
      <3>1. i \in DOMAIN Program("host")
        BY <2>1, ProgramLength DEF Contexts
      <3>2. l \in Lists
        BY <2>2, <3>1, EntryFacts DEF Contexts
      <3> QED
        BY <2>1, <3>2 DEF Answered
    <2> QED
      BY <2>1, <2>2 DEF ListsFollow
  <1>4. ReportFollows
    <2>1. \A c \in Contexts : \A i \in DOMAIN Program(c) : ~Done(c, i)
      <3>1. \A c \in Contexts :
              DOMAIN Program(c) = 1..Len(Program(c))
        BY ProgramLength
      <3>2. phase = "host" /\ at = 1
        BY DEF Init
      <3>3. \A c \in Contexts :
              \A i \in DOMAIN Program(c) : i \in Nat /\ i >= 1
        BY <3>1, ProgramLength
      <3> QED
        BY <3>2, <3>3 DEF Done, Reported
    <2> QED
      BY <2>1 DEF ReportFollows
  <1> QED
    BY <1>1, <1>2, <1>3, <1>4 DEF LinesInv

-----------------------------------------------------------------------------
(* The steps that read: a query, and a first sample.                       *)

LEMMA HoldsStays ==
  ASSUME NEW c \in Contexts, NEW e \in EntryType, IsExact(e), Holds(c, e),
         e.op = "set" => e.from = e.field,
         e.op = "set" =>
           report'[c].statistics[e.field] = report[c].statistics[e.field],
         e.op = "calls" =>
           report'[c].calls[e.component] = report[c].calls[e.component],
         \A l \in Sources(e) :
           {s \in answered' : s.context = c /\ s.metric = l}
                               = Answered(c, l)
  PROVE  Holds(c, e)'
  <1>1. \A l \in Sources(e) : Answered(c, l)' = Answered(c, l)
    BY DEF Answered
  <1>2. CASE e.op = "set"
    <2>1. Answered(c, e.field)' = Answered(c, e.field)
      BY <1>1, <1>2 DEF Sources
    <2>2. report'[c].statistics[e.field] = ByQuantile(Answered(c, e.field))
      BY <1>2 DEF Holds, OwnStatistic
    <2> QED
      BY <1>2, <2>1, <2>2 DEF Holds, OwnStatistic
  <1>3. CASE e.op = "calls"
    <2> DEFINE t == <<e.component, "Throughput">>
               l == <<e.component, "Latency">>
    <2>1. t \in Sources(e) /\ l \in Sources(e)
      BY <1>3 DEF Sources
    <2>2. Answered(c, t)' = Answered(c, t) /\ Answered(c, l)' = Answered(c, l)
      BY <1>1, <2>1
    <2>3. report'[c].calls[e.component] = ByKey(Answered(c, t), Answered(c, l))
      BY <1>3 DEF Holds
    <2> QED
      BY <1>3, <2>2, <2>3 DEF Holds
  <1> QED
    BY <1>2, <1>3 DEF IsExact

LEMMA ReadingStep ==
  ASSUME NEW c \in Contexts, NEW k \in DOMAIN Program(c), NEW samples, NEW m,
         LinesInv, phase = c, at = k, phase' = c, at' = k + 1,
         answered' = answered \union samples,
         \A s \in samples : s.context = c /\ s.metric = m,
         \/ /\ Program(c)[k].op = "query" /\ Program(c)[k].metric = m
            /\ lists' = [lists EXCEPT ![Program(c)[k].into] = @ \union samples]
         \/ /\ Program(c)[k].op = "first" /\ Program(c)[k].field = m
            /\ lists' = lists,
         \A d \in Contexts : /\ report'[d].statistics = report[d].statistics
                             /\ report'[d].calls = report[d].calls
  PROVE  ListsFollow' /\ ReportFollows'
  <1> DEFINE p == Program(c)
  <1>1. /\ Len(p) \in Nat /\ DOMAIN p = 1..Len(p)
        /\ \A i \in DOMAIN p : p[i] \in EntryType
        /\ \A i \in DOMAIN p : IsExact(p[i]) => Sources(p[i]) \subseteq Lists
        /\ Good(p) /\ DOMAIN lists = Lists
    BY ProgramLength, EntryFacts, ProgramsAreGood DEF LinesInv, TypeOK
  <1>2. ListsFollow'
    <2>1. ASSUME NEW i \in (k + 1)..Len(p), IsExact(p[i]),
                 NEW l \in Sources(p[i])
          PROVE  lists'[l] = {s \in answered' : s.context = c /\ s.metric = l}
      <3>1. i \in DOMAIN p /\ i \in at..Len(p) /\ k < i
        BY <1>1
      <3>2. lists[l] = {s \in answered : s.context = c /\ s.metric = l}
        BY <2>1, <3>1 DEF LinesInv, ListsFollow, Answered
      <3>3. Undisturbed(p, i, l) /\ l \in Lists
        BY <1>1, <2>1, <3>1 DEF Good
      <3>4. /\ p[k].op = "query" => (p[k].into = l <=> p[k].metric = l)
            /\ p[k].op = "first" => p[k].field # l
        BY <3>1, <3>3 DEF Undisturbed
      <3> HIDE DEF p
      <3>5. CASE m = l
        <4>1. lists'[l] = lists[l] \union samples
          BY <1>1, <3>3, <3>4, <3>5 DEF p
        <4> QED
          BY <3>2, <3>5, <4>1
      <3>6. CASE m # l
        <4>1. lists'[l] = lists[l]
          BY <1>1, <3>3, <3>4, <3>6 DEF p
        <4> QED
          BY <3>2, <3>6, <4>1
      <3> QED
        BY <3>5, <3>6
    <2>2. phase' = "host" => \A s \in answered' : s.context = "host"
      BY DEF LinesInv, ListsFollow
    <2> QED
      BY <2>1, <2>2 DEF ListsFollow, Answered
  <1>3. ReportFollows'
    <2>1. ASSUME NEW d \in Contexts, NEW i \in DOMAIN Program(d),
                 Done(d, i)', IsExact(Program(d)[i])
          PROVE  Holds(d, Program(d)[i])'
      <3> DEFINE e == Program(d)[i]
      <3>1. /\ e \in EntryType /\ i \in Nat
            /\ e.op = "set" => e.from = e.field
        <4>1. e \in EntryType /\ i \in Nat
          BY EntryFacts, ProgramLength
        <4> QED
          BY <2>1, <4>1, ProgramsAreGood DEF Good
      <3>2. d = c => i < k
        <4>1. c # "reported"
          BY DEF Contexts
        <4>2. d = c => i < k + 1
          BY <2>1, <4>1 DEF Done, Reported
        <4>3. d = c => i # k
          BY <2>1 DEF IsExact
        <4> QED
          BY <1>1, <3>1, <4>2, <4>3
      <3>3. Done(d, i)
        BY <2>1, <3>2 DEF Done, Reported, Contexts
      <3>4. Holds(d, e)
        BY <2>1, <3>3 DEF LinesInv, ReportFollows
      <3>5. ASSUME NEW l \in Sources(e)
            PROVE  {s \in answered' : s.context = d /\ s.metric = l}
                   = Answered(d, l)
        <4>1. d = c => m # l
          <5> SUFFICES ASSUME d = c PROVE m # l
            OBVIOUS
          <5>1. Undisturbed(p, i, l)
            BY <1>1, <2>1, <3>5 DEF Good
          <5>2. k > i
            BY <1>1, <3>1, <3>2
          <5> QED
            BY <5>1, <5>2 DEF Undisturbed
        <4> QED
          BY <4>1 DEF Answered
      <3> HIDE DEF e
      <3>6. Holds(d, e)'
        BY <2>1, <3>1, <3>4, <3>5, HoldsStays DEF e
      <3> QED
        BY <3>6 DEF e
    <2> QED
      BY <2>1 DEF ReportFollows
  <1> QED
    BY <1>2, <1>3

-----------------------------------------------------------------------------
(* The steps that write a field of the report.                             *)

LEMMA WritingStep ==
  ASSUME NEW c \in Contexts, NEW k \in DOMAIN Program(c),
         NEW values, NEW calls,
         LinesInv, phase = c, at = k, phase' = c, at' = k + 1,
         lists' = lists, answered' = answered, clusterType' = clusterType,
         values = ByQuantile(lists[Program(c)[k].from]),
         calls = ByKey(lists[<<Program(c)[k].component, "Throughput">>],
                       lists[<<Program(c)[k].component, "Latency">>]),
         \/ /\ Program(c)[k].op = "set"
            /\ report' = [report EXCEPT
                            ![c].statistics[Program(c)[k].field] = values]
         \/ /\ Program(c)[k].op = "calls"
            /\ report' = [report EXCEPT
                            ![c].calls[Program(c)[k].component] = calls]
  PROVE  Shape' /\ ListsFollow' /\ ReportFollows'
  <1> DEFINE p == Program(c)
             w == p[k]
  <1>1. /\ Len(p) \in Nat /\ DOMAIN p = 1..Len(p) /\ k \in Nat
        /\ \A i \in DOMAIN p : p[i] \in EntryType
        /\ Good(p)
    BY ProgramLength, EntryFacts, ProgramsAreGood
  <1>2. /\ w.op = "set" => w.field \in Statistics("host")
        /\ w.op = "calls" => w.component \in Components("host")
    BY EntryFacts
  <1>3. /\ DOMAIN report = Contexts
        /\ \A d \in Contexts :
             /\ DOMAIN report[d] = {"statistics", "calls", "firsts"}
             /\ DOMAIN report[d].statistics = Statistics("host")
             /\ DOMAIN report[d].calls = Components("host")
    BY DEF LinesInv, Shape
  <1>4. \/ /\ w.op = "set"
           /\ report' = [report EXCEPT ![c].statistics[w.field] = values]
        \/ /\ w.op = "calls"
           /\ report' = [report EXCEPT ![c].calls[w.component] = calls]
    OBVIOUS
  <1> HIDE DEF w
  <1>5. /\ DOMAIN report' = Contexts
        /\ \A d \in Contexts :
             /\ DOMAIN report'[d] = {"statistics", "calls", "firsts"}
             /\ DOMAIN report'[d].statistics = Statistics("host")
             /\ DOMAIN report'[d].calls = Components("host")
    BY <1>3, <1>4
  <1>6. /\ \A d \in Contexts : \A f \in Statistics("host") :
             \/ d = c /\ w.op = "set" /\ f = w.field
             \/ report'[d].statistics[f] = report[d].statistics[f]
        /\ \A d \in Contexts : \A x \in Components("host") :
             \/ d = c /\ w.op = "calls" /\ x = w.component
             \/ report'[d].calls[x] = report[d].calls[x]
    BY <1>3, <1>4
  <1>7. /\ w.op = "set" => report'[c].statistics[w.field] = values
        /\ w.op = "calls" => report'[c].calls[w.component] = calls
    BY <1>2, <1>3, <1>4
  <1>8. Shape'
    BY <1>5 DEF Shape, LinesInv
  <1>9. ListsFollow'
    <2>1. \A i \in at'..Len(p) : i \in at..Len(p)
      BY <1>1
    <2> QED
      BY <2>1 DEF LinesInv, ListsFollow, Answered
  <1>10. ReportFollows'
    <2>1. ASSUME NEW d \in Contexts, NEW i \in DOMAIN Program(d),
                 Done(d, i)', IsExact(Program(d)[i])
          PROVE  Holds(d, Program(d)[i])'
      <3> DEFINE e == Program(d)[i]
      <3>1. /\ e \in EntryType /\ i \in Nat
            /\ e.op = "set" => e.from = e.field
            /\ e.op = "set" => e.field \in Statistics("host")
            /\ e.op = "calls" => e.component \in Components("host")
        <4>1. /\ e \in EntryType /\ i \in Nat
              /\ e.op = "set" => e.field \in Statistics("host")
              /\ e.op = "calls" => e.component \in Components("host")
          BY EntryFacts, ProgramLength
        <4> QED
          BY <2>1, <4>1, ProgramsAreGood DEF Good
      <3>2. CASE d = c /\ i = k
        <4>1. e = w
          BY <3>2 DEF w
        <4>2. \A l \in Sources(w) : lists[l] = Answered(c, l)
          <5>1. k \in at..Len(p)
            BY <1>1
          <5> QED
            BY <2>1, <4>1, <5>1 DEF LinesInv, ListsFollow, w
        <4>3. CASE w.op = "set"
          <5>1. lists[w.from] = Answered(c, w.field) /\ w.from = w.field
            BY <3>1, <4>1, <4>2, <4>3 DEF Sources
          <5>2. report'[c].statistics[w.field] = ByQuantile(lists[w.from])
            BY <1>7, <4>3 DEF w
          <5>3. Answered(c, w.field)' = Answered(c, w.field)
            BY DEF Answered
          <5> QED
            BY <3>2, <4>1, <4>3, <5>1, <5>2, <5>3 DEF Holds, OwnStatistic
        <4>4. CASE w.op = "calls"
          <5> DEFINE t == <<w.component, "Throughput">>
                     l == <<w.component, "Latency">>
          <5>1. lists[t] = Answered(c, t) /\ lists[l] = Answered(c, l)
            BY <4>2, <4>4 DEF Sources
          <5>2. report'[c].calls[w.component] = ByKey(lists[t], lists[l])
            BY <1>7, <4>4 DEF w
          <5>3. /\ Answered(c, t)' = Answered(c, t)
                /\ Answered(c, l)' = Answered(c, l)
            BY DEF Answered
          <5> QED
            BY <3>2, <4>1, <4>4, <5>1, <5>2, <5>3 DEF Holds
        <4> QED
          BY <2>1, <4>1, <4>3, <4>4 DEF IsExact
      <3>3. CASE ~(d = c /\ i = k)
        <4>1. d = c => i < k
          <5>1. c # "reported"
            BY DEF Contexts
          <5>2. d = c => i < k + 1
            BY <2>1, <5>1 DEF Done, Reported
          <5> QED
            BY <1>1, <3>1, <3>3, <5>2
        <4>2. Done(d, i)
          BY <2>1, <4>1 DEF Done, Reported, Contexts
        <4>3. Holds(d, e)
          BY <2>1, <4>2 DEF LinesInv, ReportFollows
        <4>4. \A l \in Sources(e) :
                d = c /\ IsExact(w) => l \notin Sources(w)
          <5> SUFFICES ASSUME NEW l \in Sources(e), d = c, IsExact(w),
                              l \in Sources(w)
                       PROVE  FALSE
            OBVIOUS
          <5>1. Undisturbed(p, i, l)
            BY <1>1, <2>1 DEF Good
          <5>2. i = k
            BY <5>1 DEF Undisturbed, w
          <5> QED
            BY <3>3, <5>2
        <4>5. ~(d = c /\ e.op = "set" /\ w.op = "set" /\ e.field = w.field)
          <5> SUFFICES ASSUME d = c, e.op = "set", w.op = "set",
                              e.field = w.field
                       PROVE  FALSE
            OBVIOUS
          <5>1. IsExact(w)
            BY <2>1 DEF IsExact
          <5>2. w.from = w.field
            BY <1>1, <5>1 DEF Good, w
          <5>3. e.field \in Sources(e) /\ e.field \in Sources(w)
            BY <3>1, <5>2 DEF Sources
          <5> QED
            BY <4>4, <5>1, <5>3
        <4>6. ~(/\ d = c /\ e.op = "calls" /\ w.op = "calls"
                /\ e.component = w.component)
          <5> SUFFICES ASSUME d = c, e.op = "calls", w.op = "calls",
                              e.component = w.component
                       PROVE  FALSE
            OBVIOUS
          <5>1. /\ IsExact(w)
                /\ <<e.component, "Latency">> \in Sources(e)
                /\ <<e.component, "Latency">> \in Sources(w)
            BY DEF IsExact, Sources
          <5> QED
            BY <4>4, <5>1
        <4>7. /\ e.op = "set" => report'[d].statistics[e.field]
                                 = report[d].statistics[e.field]
              /\ e.op = "calls" => report'[d].calls[e.component]
                                   = report[d].calls[e.component]
          BY <1>6, <3>1, <4>5, <4>6
        <4>8. \A l \in Sources(e) :
                {s \in answered' : s.context = d /\ s.metric = l}
                = Answered(d, l)
          BY DEF Answered
        <4> HIDE DEF e
        <4>9. Holds(d, e)'
          BY <2>1, <3>1, <4>3, <4>7, <4>8, HoldsStays DEF e
        <4> QED
          BY <4>9 DEF e
      <3> QED
        BY <3>2, <3>3
    <2> QED
      BY <2>1 DEF ReportFollows
  <1> QED
    BY <1>8, <1>9, <1>10

-----------------------------------------------------------------------------
(* The induction.                                                          *)

LEMMA SamplesOf ==
  ASSUME NEW c \in Contexts, NEW m, NEW q, NEW series, phase = c
  PROVE  /\ \A s \in Answers(m, q, series) : s.context = c /\ s.metric = m
         /\ m \in Metrics \union Firsts("host")
              /\ q \in Quantiles \union {Blank}
              /\ series \subseteq Calls \union {Blank}
            => Answers(m, q, series) \subseteq Samples
  BY DEF Answers, Samples

LEMMA StepRunQuery ==
  ASSUME LinesInv, RunQuery
  PROVE  LinesInv'
  <1>1. PICK c \in Contexts : c = phase
    BY DEF RunQuery, Step
  <1>2. /\ at \in Nat /\ at >= 1 /\ at <= Len(Program(c))
        /\ Program(c)[at].op = "query"
        /\ at' = at + 1 /\ clusterType' = clusterType /\ phase' = phase
        /\ report' = report
    BY <1>1 DEF RunQuery, Step, LinesInv, TypeOK
  <1>3. PICK k \in DOMAIN Program(c) : k = at
    BY <1>2, ProgramLength
  <1> DEFINE e == Program(c)[k]
  <1>4. /\ e.op = "query" /\ e \in EntryType
        /\ e.metric \in Metrics /\ e.into \in Lists
    BY <1>2, <1>3, EntryFacts
  <1>5. PICK series \in SUBSET Series(e.metric) :
          LET samples == Answers(e.metric, e.q, series)
          IN  /\ series # Series(e.metric) => faults < MaxFaults
              /\ faults' = IF series = Series(e.metric) THEN faults
                                                         ELSE faults + 1
              /\ answered' = answered \union samples
              /\ lists' = [lists EXCEPT ![e.into] = @ \union samples]
    BY <1>1, <1>3 DEF RunQuery, Entry
  <1> DEFINE all == Answers(e.metric, e.q, series)
  <1>6. PICK samples : samples = all
    OBVIOUS
  <1>7. /\ \A s \in samples : s.context = c /\ s.metric = e.metric
        /\ samples \subseteq Samples
    <2>1. e.q \in Quantiles
      BY <1>4 DEF EntryType
    <2>2. series \subseteq Calls \union {Blank}
      BY <1>5 DEF Series
    <2> HIDE DEF e
    <2> QED
      BY <1>1, <1>4, <1>6, <2>1, <2>2, SamplesOf
  <1>8. /\ answered' = answered \union samples
        /\ lists' = [lists EXCEPT ![e.into] = @ \union samples]
    BY <1>5, <1>6
  <1>9. faults' \in 0..MaxFaults
    BY <1>5, FaultsAssumption DEF LinesInv, TypeOK
  <1>10. at' \in 1..(Len(Program("host")) + 1)
    BY <1>2, ProgramLength DEF Contexts
  <1>11. PICK m : m = e.metric
    OBVIOUS
  <1>12. ListsFollow' /\ ReportFollows'
    BY <1>1, <1>2, <1>3, <1>4, <1>7, <1>8, <1>11, ReadingStep
  <1> HIDE DEF e, all
  <1>13. TypeOK'
    BY <1>2, <1>4, <1>7, <1>8, <1>9, <1>10 DEF LinesInv, TypeOK
  <1>14. Shape'
    BY <1>2 DEF LinesInv, Shape
  <1> QED
    BY <1>12, <1>13, <1>14 DEF LinesInv

LEMMA StepFirst ==
  ASSUME LinesInv, FirstAnswered \/ FirstFails
  PROVE  LinesInv'
  <1>1. PICK c \in Contexts : c = phase
    BY DEF FirstAnswered, FirstFails, Step
  <1>2. /\ at \in Nat /\ at >= 1 /\ at <= Len(Program(c))
        /\ Program(c)[at].op = "first"
        /\ at' = at + 1 /\ clusterType' = clusterType /\ phase' = phase
        /\ lists' = lists
    BY <1>1 DEF FirstAnswered, FirstFails, Step, LinesInv, TypeOK
  <1>3. PICK k \in DOMAIN Program(c) : k = at
    BY <1>2, ProgramLength
  <1>4. PICK m : m = Program(c)[k].field
    OBVIOUS
  <1>5. Program(c)[k].op = "first" /\ m \in Firsts("host")
    BY <1>2, <1>3, <1>4, EntryFacts
  <1>6. \E samples \in SUBSET Samples :
          /\ answered' = answered \union samples
          /\ \A s \in samples : s.context = c /\ s.metric = m
    <2>1. CASE FirstAnswered
      <3>1. answered' = answered \union Answers(m, Blank, {Blank})
        BY <1>1, <1>3, <1>4, <2>1 DEF FirstAnswered, Entry
      <3> QED
        BY <1>1, <1>5, <3>1, SamplesOf
    <2>2. CASE FirstFails
      <3>1. answered' = answered \union {}
        BY <2>2 DEF FirstFails
      <3> WITNESS {} \in SUBSET Samples
      <3> QED
        BY <3>1
    <2> QED
      BY <2>1, <2>2
  <1>7. PICK samples \in SUBSET Samples :
          /\ answered' = answered \union samples
          /\ \A s \in samples : s.context = c /\ s.metric = m
    BY <1>6
  <1>8. /\ DOMAIN report' = Contexts
        /\ \A d \in Contexts :
             /\ DOMAIN report'[d] = {"statistics", "calls", "firsts"}
             /\ report'[d].statistics = report[d].statistics
             /\ report'[d].calls = report[d].calls
    <2>1. /\ DOMAIN report = Contexts
          /\ \A d \in Contexts :
               DOMAIN report[d] = {"statistics", "calls", "firsts"}
      BY DEF LinesInv, Shape
    <2>2. \/ report' = report
          \/ \E v : report' = [report EXCEPT ![c].firsts[m] = v]
      BY <1>1, <1>3, <1>4 DEF FirstAnswered, FirstFails, Entry
    <2> QED
      BY <2>1, <2>2
  <1>9. faults' \in 0..MaxFaults
    BY FaultsAssumption DEF FirstAnswered, FirstFails, LinesInv, TypeOK
  <1>10. at' \in 1..(Len(Program("host")) + 1)
    BY <1>2, ProgramLength DEF Contexts
  <1>11. ListsFollow' /\ ReportFollows'
    <2>1. /\ phase = c /\ at = k /\ phase' = c /\ at' = k + 1
          /\ Program(c)[k].op = "first" /\ Program(c)[k].field = m
          /\ lists' = lists
      BY <1>1, <1>2, <1>3, <1>4, <1>5
    <2>2. \A d \in Contexts : /\ report'[d].statistics = report[d].statistics
                              /\ report'[d].calls = report[d].calls
      BY <1>8
    <2>3. \/ /\ Program(c)[k].op = "query" /\ Program(c)[k].metric = m
             /\ lists' = [lists EXCEPT ![Program(c)[k].into] =
                             @ \union samples]
          \/ /\ Program(c)[k].op = "first" /\ Program(c)[k].field = m
             /\ lists' = lists
      BY <2>1
    <2> QED
      BY <1>7, <2>1, <2>2, <2>3, ReadingStep
  <1>12. TypeOK'
    BY <1>2, <1>7, <1>9, <1>10 DEF LinesInv, TypeOK
  <1>13. Shape'
    BY <1>2, <1>8 DEF LinesInv, Shape
  <1> QED
    BY <1>11, <1>12, <1>13 DEF LinesInv

LEMMA StepSet ==
  ASSUME LinesInv, SetStatistics \/ SetCalls
  PROVE  LinesInv'
  <1>1. PICK c \in Contexts : c = phase
    BY DEF SetStatistics, SetCalls, Step
  <1>2. /\ at \in Nat /\ at >= 1 /\ at <= Len(Program(c))
        /\ at' = at + 1 /\ clusterType' = clusterType /\ phase' = phase
        /\ lists' = lists /\ answered' = answered /\ faults' = faults
    BY <1>1 DEF SetStatistics, SetCalls, Step, LinesInv, TypeOK
  <1>3. PICK k \in DOMAIN Program(c) : k = at
    BY <1>2, ProgramLength
  <1> DEFINE e == Program(c)[k]
  <1>4. PICK values, calls :
          /\ values = ByQuantile(lists[e.from])
          /\ calls = ByKey(lists[<<e.component, "Throughput">>],
                           lists[<<e.component, "Latency">>])
    OBVIOUS
  <1>5. \/ /\ e.op = "set"
           /\ report' = [report EXCEPT ![c].statistics[e.field] = values]
        \/ /\ e.op = "calls"
           /\ report' = [report EXCEPT ![c].calls[e.component] = calls]
    BY <1>1, <1>3, <1>4 DEF SetStatistics, SetCalls, Step, Entry
  <1>6. Shape' /\ ListsFollow' /\ ReportFollows'
    BY <1>1, <1>2, <1>3, <1>4, <1>5, WritingStep
  <1>7. at' \in 1..(Len(Program("host")) + 1)
    BY <1>2, ProgramLength DEF Contexts
  <1>8. TypeOK'
    BY <1>2, <1>7 DEF LinesInv, TypeOK
  <1> QED
    BY <1>6, <1>8 DEF LinesInv

LEMMA StepPanic ==
  ASSUME LinesInv, FirstPanics
  PROVE  LinesInv'
  <1>1. /\ at \in Nat /\ at >= 1 /\ phase \in Contexts
        /\ at <= Len(Program(phase)) /\ at' = at + 1
        /\ clusterType' = clusterType /\ phase' = "panicked"
        /\ UNCHANGED <<lists, report, answered>>
        /\ faults < MaxFaults /\ faults' = faults + 1
    BY DEF FirstPanics, Step, LinesInv, TypeOK
  <1>2. TypeOK'
    <2>1. at' \in 1..(Len(Program("host")) + 1)
      BY <1>1, ProgramLength DEF Contexts
    <2> QED
      BY <1>1, <2>1, FaultsAssumption DEF LinesInv, TypeOK
  <1>3. Shape' /\ ListsFollow'
    BY <1>1 DEF LinesInv, Shape, ListsFollow, Contexts
  <1>4. \A c \in Contexts : \A i \in DOMAIN Program(c) : ~Done(c, i)'
    BY <1>1 DEF Done, Reported, Contexts
  <1>5. ReportFollows'
    BY <1>4 DEF ReportFollows
  <1> QED
    BY <1>2, <1>3, <1>5 DEF LinesInv

(* The answers and the report stay as they are, and what is done stays     *)
(* done.                                                                   *)
LEMMA ReportStays ==
  ASSUME LinesInv, answered' = answered, report' = report,
         \A c \in Contexts : \A i \in DOMAIN Program(c) :
           Done(c, i)' => Done(c, i)
  PROVE  ReportFollows'
  <1>1. ASSUME NEW c \in Contexts, NEW i \in DOMAIN Program(c),
               Done(c, i)', IsExact(Program(c)[i])
        PROVE  Holds(c, Program(c)[i])'
    <2> DEFINE e == Program(c)[i]
    <2>1. Holds(c, e)
      BY <1>1 DEF LinesInv, ReportFollows
    <2>2. /\ e \in EntryType
          /\ e.op = "set" => e.from = e.field
      BY <1>1, EntryFacts, ProgramsAreGood DEF Good
    <2>3. \A l \in Sources(e) :
            {s \in answered' : s.context = c /\ s.metric = l}
                                = Answered(c, l)
      BY DEF Answered
    <2> HIDE DEF e
    <2>4. Holds(c, e)'
      BY <1>1, <2>1, <2>2, <2>3, HoldsStays DEF e
    <2> QED
      BY <2>4 DEF e
  <1> QED
    BY <1>1 DEF ReportFollows

LEMMA StepCollected ==
  ASSUME LinesInv, Collected
  PROVE  LinesInv'
  <1>1. /\ phase \in Contexts /\ at > Len(Program(phase))
        /\ at \in Nat /\ at >= 1 /\ at <= Len(Program("host")) + 1
        /\ clusterType' = clusterType /\ clusterType \in Contexts
        /\ UNCHANGED <<report, answered, faults>>
        /\ \/ /\ phase = "host" /\ clusterType = "virtual"
              /\ phase' = "virtual" /\ at' = 1
              /\ lists' = [l \in Lists |-> {}]
           \/ /\ phase' = "reported" /\ UNCHANGED <<at, lists>>
              /\ ~(phase = "host" /\ clusterType = "virtual")
    BY ProgramLength DEF Collected, LinesInv, TypeOK, Contexts
  <1>2. Len(Program("host")) \in Nat
    BY ProgramLength DEF Contexts
  <1>3. TypeOK' /\ Shape'
    BY <1>1, <1>2 DEF LinesInv, TypeOK, Shape, Contexts
  <1>4. ListsFollow'
    <2>1. CASE phase' = "reported"
      BY <2>1 DEF ListsFollow, Contexts
    <2>2. CASE phase' = "virtual"
      <3>1. /\ lists' = [l \in Lists |-> {}] /\ at' = 1
            /\ \A s \in answered : s.context = "host"
        BY <1>1, <2>2 DEF LinesInv, ListsFollow
      <3>2. ASSUME NEW i \in 1..Len(Program("virtual")),
                   IsExact(Program("virtual")[i]),
                   NEW l \in Sources(Program("virtual")[i])
            PROVE  lists'[l] = {s \in answered' :
                                  s.context = "virtual" /\ s.metric = l}
        <4>1. i \in DOMAIN Program("virtual")
          BY ProgramLength DEF Contexts
        <4>2. l \in Lists
          BY <3>2, <4>1, EntryFacts DEF Contexts
        <4> QED
          BY <1>1, <3>1, <4>2
      <3>3. \A l : Answered("virtual", l)' =
              {s \in answered' : s.context = "virtual" /\ s.metric = l}
        BY DEF Answered
      <3>4. /\ at'..Len(Program("virtual")) = 1..Len(Program("virtual"))
            /\ phase' # "host"
        BY <2>2, <3>1
      <3> QED
        BY <2>2, <3>2, <3>3, <3>4 DEF ListsFollow
    <2> QED
      BY <1>1, <2>1, <2>2
  <1>5. ASSUME NEW c \in Contexts, NEW i \in DOMAIN Program(c), Done(c, i)'
        PROVE  Done(c, i)
    <2>1. i \in Nat /\ i >= 1 /\ i <= Len(Program(c))
      BY ProgramLength
    <2>2. Len(Program(c)) \in Nat
      BY ProgramLength
    <2>3. CASE phase' = "virtual"
      <3>1. c = "host"
        BY <1>1, <1>5, <2>1, <2>3 DEF Done, Reported
      <3> QED
        BY <1>1, <2>1, <2>2, <2>3, <3>1 DEF Done
    <2>4. CASE phase' = "reported"
      <3>1. c \in {"host", clusterType}
        BY <1>1, <1>5, <2>4 DEF Done, Reported, Contexts
      <3>2. phase = "virtual" => clusterType = "virtual"
        BY DEF LinesInv, Shape
      <3>3. c = phase \/ (phase = "virtual" /\ c = "host")
        BY <1>1, <2>4, <3>1, <3>2 DEF Contexts
      <3> QED
        BY <1>1, <2>1, <2>2, <3>3 DEF Done
    <2> QED
      BY <1>1, <2>3, <2>4
  <1>6. ReportFollows'
    BY <1>1, <1>5, ReportStays
  <1> QED
    BY <1>3, <1>4, <1>6 DEF LinesInv

LEMMA StepLinesInv == LinesInv /\ [Next]_vars => LinesInv'
  <1> SUFFICES ASSUME LinesInv, [Next]_vars PROVE LinesInv'
    OBVIOUS
  <1>1. CASE UNCHANGED vars
    <2>1. /\ clusterType' = clusterType /\ phase' = phase /\ at' = at
          /\ lists' = lists /\ report' = report /\ answered' = answered
          /\ faults' = faults
      BY <1>1 DEF vars
    <2>2. TypeOK' /\ Shape' /\ ListsFollow'
      BY <2>1 DEF LinesInv, TypeOK, Shape, ListsFollow, Answered
    <2>3. \A c \in Contexts : \A i \in DOMAIN Program(c) :
            Done(c, i)' => Done(c, i)
      BY <2>1 DEF Done, Reported
    <2> QED
      BY <2>1, <2>2, <2>3, ReportStays DEF LinesInv
  <1> QED
    BY <1>1, StepRunQuery, StepFirst, StepSet, StepPanic, StepCollected
    DEF Next, Terminated

-----------------------------------------------------------------------------
(* The fields that are set from a first sample, and those that never are.  *)

LEMMA InitFields == Init => FirstsFollow /\ LostFields
  <1> SUFFICES ASSUME Init PROVE FirstsFollow /\ LostFields
    OBVIOUS
  <1>1. /\ EmptyMetrics.firsts = [f \in Firsts("host") |-> {}]
        /\ EmptyMetrics.statistics =
             [f \in Statistics("host") |-> ByQuantile({})]
    BY DEF EmptyMetrics
  <1>2. WD \in Statistics("host") /\ WD \in Lists /\ LE \in Firsts("host")
    BY EntriesAreOrdinary
  <1>3. \A c \in Contexts : report[c] = EmptyMetrics
    BY DEF Init
  <1>4. answered = {} /\ lists = [l \in Lists |-> {}]
    BY DEF Init
  <1>5. \A c \in Contexts : Answered(c, LE) = {}
    BY <1>4 DEF Answered
  <1> QED
    BY <1>1, <1>2, <1>3, <1>4, <1>5 DEF FirstsFollow, LostFields, LE, WD

(* Nothing changes in the report, and nothing is answered about the leader *)
(* elections.                                                              *)
LEMMA FieldsStay ==
  ASSUME FirstsFollow, LostFields,
         NEW samples, answered' = answered \union samples,
         \A s \in samples : s.metric # LE,
         lists'[WD] = {},
         \A c \in Contexts :
           /\ report'[c].firsts = report[c].firsts
           /\ report'[c].statistics[WD] = report[c].statistics[WD]
  PROVE  FirstsFollow' /\ LostFields'
  <1>1. \A c \in Contexts :
          {s \in answered' : s.context = c /\ s.metric = LE} = Answered(c, LE)
    BY DEF Answered
  <1>2. \A c \in Contexts :
          /\ DOMAIN report[c].firsts = Firsts("host")
          /\ report[c].firsts[LE] = Answered(c, LE)
    BY DEF FirstsFollow, LE
  <1>3. \A c \in Contexts :
          report'[c].firsts[LE] =
            {s \in answered' : s.context = c /\ s.metric = LE}
    BY <1>1, <1>2
  <1>4. \A s \in answered' :
          s.metric = LE => s.q = Blank /\ s.call = Blank
    BY DEF FirstsFollow, LE
  <1>5. FirstsFollow'
    BY <1>2, <1>3, <1>4 DEF FirstsFollow, Answered, LE
  <1>6. LostFields'
    BY DEF LostFields, WD
  <1> QED
    BY <1>5, <1>6

(* The entry that comes next.                                              *)
LEMMA EntryIsOrdinary ==
  ASSUME LinesInv, phase \in Contexts, at <= Len(Program(phase)),
         NEW e, e = Entry
  PROVE  /\ e.op = "query" => e.metric # LE /\ e.into # WD
         /\ e.op = "set" /\ e.field = WD => e.from = WD
         /\ e.op = "first" => e.field \in Firsts("host")
                               /\ (e.kept <=> e.field = LE)
  <1>1. PICK c \in Contexts : c = phase
    OBVIOUS
  <1>2. at \in Nat /\ at >= 1
    <2>1. Len(Program("host")) \in Nat
      BY ProgramLength DEF Contexts
    <2> QED
      BY <2>1 DEF LinesInv, TypeOK
  <1>3. PICK k \in DOMAIN Program(c) : k = at
    BY <1>1, <1>2, ProgramLength
  <1>4. e = Program(c)[k]
    BY <1>1, <1>3 DEF Entry
  <1>5. e \in Ordinary
    BY <1>4, EntriesAreOrdinary
  <1>6. e.op = "first" => e.field \in Firsts("host")
    BY <1>4, EntryFacts
  <1> QED
    BY <1>5, <1>6 DEF Ordinary

LEMMA FieldsOfQuery ==
  ASSUME LinesInv, FirstsFollow, LostFields, RunQuery
  PROVE  FirstsFollow' /\ LostFields'
  <1>1. Entry.metric # LE /\ Entry.into # WD
    <2>1. /\ phase \in Contexts /\ at <= Len(Program(phase))
          /\ Entry.op = "query"
      BY DEF RunQuery, Step, Entry
    <2> QED
      BY <2>1, EntryIsOrdinary
  <1>2. PICK series, samples :
          /\ samples = Answers(Entry.metric, Entry.q, series)
          /\ answered' = answered \union samples
          /\ lists' = [lists EXCEPT ![Entry.into] = @ \union samples]
    BY DEF RunQuery
  <1>3. \A s \in samples : s.metric # LE
    BY <1>1, <1>2 DEF Answers
  <1>4. lists'[WD] = lists[WD]
    <2>1. WD \in Lists /\ DOMAIN lists = Lists
      BY EntriesAreOrdinary DEF LinesInv, TypeOK
    <2> QED
      BY <1>1, <1>2, <2>1
  <1>5. lists'[WD] = {}
    BY <1>4 DEF LostFields, WD
  <1>6. report' = report
    BY DEF RunQuery
  <1> QED
    BY <1>2, <1>3, <1>5, <1>6, FieldsStay

LEMMA FieldsOfSet ==
  ASSUME LinesInv, FirstsFollow, LostFields, SetStatistics \/ SetCalls
  PROVE  FirstsFollow' /\ LostFields'
  <1>1. /\ phase \in Contexts /\ DOMAIN report = Contexts
        /\ \A c \in Contexts :
             /\ DOMAIN report[c] = {"statistics", "calls", "firsts"}
             /\ DOMAIN report[c].statistics = Statistics("host")
    BY DEF SetStatistics, SetCalls, Step, LinesInv, Shape
  <1>2. /\ lists[WD] = {}
        /\ \A c \in Contexts : report[c].statistics[WD] = ByQuantile({})
    BY DEF LostFields, WD
  <1>3. \A c \in Contexts :
          /\ report'[c].firsts = report[c].firsts
          /\ report'[c].statistics[WD] = report[c].statistics[WD]
    <2>1. CASE SetCalls
      <3>1. PICK v, component :
              report' = [report EXCEPT ![phase].calls[component] = v]
        BY <2>1 DEF SetCalls
      <3> QED
        BY <1>1, <3>1
    <2>2. CASE SetStatistics
      <3>1. PICK f, v : /\ f = Entry.field /\ v = ByQuantile(lists[Entry.from])
                        /\ report' =
                             [report EXCEPT ![phase].statistics[f] = v]
        BY <2>2 DEF SetStatistics
      <3>2. f = WD => Entry.from = WD
        <4>1. /\ phase \in Contexts /\ at <= Len(Program(phase))
              /\ Entry.op = "set"
          BY <2>2 DEF SetStatistics, Step, Entry
        <4> QED
          BY <3>1, <4>1, EntryIsOrdinary
      <3>3. f = WD => v = ByQuantile({})
        BY <1>2, <3>1, <3>2
      <3>4. WD \in Statistics("host")
        BY EntriesAreOrdinary
      <3>5. \A c \in Contexts : report'[c].firsts = report[c].firsts
        BY <1>1, <3>1
      <3>6. \A c \in Contexts :
              report'[c].statistics = IF c = phase
                THEN [report[c].statistics EXCEPT ![f] = v]
                ELSE report[c].statistics
        BY <1>1, <3>1
      <3>7. \A c \in Contexts :
              report'[c].statistics[WD] = report[c].statistics[WD]
        BY <1>1, <1>2, <3>3, <3>4, <3>6
      <3> QED
        BY <3>5, <3>7
    <2> QED
      BY <2>1, <2>2
  <1>4. lists' = lists /\ answered' = answered \union {}
    BY DEF SetStatistics, SetCalls
  <1> QED
    BY <1>2, <1>3, <1>4, FieldsStay

(* The first sample of an answer.                                          *)
LEMMA FieldsOfFirst ==
  ASSUME LinesInv, FirstsFollow, LostFields, FirstAnswered
  PROVE  FirstsFollow' /\ LostFields'
  <1>1. PICK c, f, kept :
          /\ c \in Contexts /\ c = phase
          /\ f = Entry.field /\ kept = Entry.kept
    BY DEF FirstAnswered, Step
  <1>2. f \in Firsts("host") /\ (kept <=> f = LE)
    <2>1. /\ phase \in Contexts /\ at <= Len(Program(phase))
          /\ Entry.op = "first"
      BY DEF FirstAnswered, Step, Entry
    <2> QED
      BY <1>1, <2>1, EntryIsOrdinary
  <1> DEFINE one == [context |-> c, metric |-> f, q |-> Blank, call |-> Blank]
  <1>3. Answers(f, Blank, {Blank}) = {one}
    BY <1>1 DEF Answers
  <1>4. /\ answered' = answered \union {one}
        /\ report' = IF kept THEN [report EXCEPT ![c].firsts[f] = {one}]
                             ELSE report
        /\ lists' = lists
    BY <1>1, <1>3 DEF FirstAnswered
  <1>5. lists'[WD] = {}
    BY <1>4 DEF LostFields, WD
  <1>6. CASE f # LE
    <2>1. report' = report /\ \A s \in {one} : s.metric # LE
      BY <1>2, <1>4, <1>6
    <2> QED
      BY <1>4, <1>5, <2>1, FieldsStay
  <1>7. CASE f = LE
    <2>1. /\ DOMAIN report = Contexts
          /\ \A d \in Contexts :
               /\ DOMAIN report[d] = {"statistics", "calls", "firsts"}
               /\ DOMAIN report[d].firsts = Firsts("host")
               /\ report[d].firsts[LE] = Answered(d, LE)
      BY DEF LinesInv, Shape, FirstsFollow, LE
    <2>2. report' = [report EXCEPT ![c].firsts[f] = {one}]
      BY <1>2, <1>4, <1>7
    <2>3. \A d \in Contexts :
            /\ report'[d].statistics = report[d].statistics
            /\ report'[d].firsts =
                 IF d = c THEN [report[d].firsts EXCEPT ![LE] = {one}]
                          ELSE report[d].firsts
      BY <1>7, <2>1, <2>2
    <2>4. /\ one.metric = LE /\ one.context = c
          /\ one.q = Blank /\ one.call = Blank
      BY <1>7
    <2>5. \A s \in answered :
            s.context = c /\ s.metric = LE => s = one
      <3>1. TAKE s \in answered
      <3>2. HAVE s.context = c /\ s.metric = LE
      <3>3. s.q = Blank /\ s.call = Blank
        BY <3>2 DEF FirstsFollow, LE
      <3>4. s \in Samples
        BY DEF LinesInv, TypeOK
      <3> QED
        BY <1>7, <3>2, <3>3, <3>4 DEF Samples
    <2> HIDE DEF one
    <2>6. \A d \in Contexts :
            {s \in answered' : s.context = d /\ s.metric = LE} =
              IF d = c THEN {one} ELSE Answered(d, LE)
      <3>1. {s \in answered' : s.context = c /\ s.metric = LE} = {one}
        BY <1>4, <2>4, <2>5
      <3>2. \A d \in Contexts : d # c =>
              {s \in answered' : s.context = d /\ s.metric = LE} =
                Answered(d, LE)
        BY <1>4, <2>4 DEF Answered
      <3> QED
        BY <3>1, <3>2
    <2>7. \A d \in Contexts :
            /\ DOMAIN report'[d].firsts = Firsts("host")
            /\ report'[d].firsts[LE] =
                 {s \in answered' : s.context = d /\ s.metric = LE}
      BY <1>2, <1>7, <2>1, <2>3, <2>6
    <2>8. \A s \in answered' :
            s.metric = LE => s.q = Blank /\ s.call = Blank
      BY <1>4, <2>4 DEF FirstsFollow, LE
    <2>9. FirstsFollow'
      BY <2>7, <2>8 DEF FirstsFollow, Answered, LE
    <2>10. \A d \in Contexts : \A g \in Firsts("host") \ {LE} :
             report'[d].firsts[g] = report[d].firsts[g]
      BY <2>1, <2>3
    <2>11. LostFields'
      BY <1>5, <2>3, <2>10 DEF LostFields, LE, WD
    <2> QED
      BY <2>9, <2>11
  <1> QED
    BY <1>6, <1>7

LEMMA StepFields ==
  ASSUME LinesInv, FirstsFollow, LostFields, [Next]_vars
  PROVE  FirstsFollow' /\ LostFields'
  <1>1. CASE FirstFails \/ FirstPanics \/ Collected \/ UNCHANGED vars
    <2>1. report' = report /\ answered' = answered \union {}
      BY <1>1 DEF FirstFails, FirstPanics, Collected, vars
    <2>2. lists' = lists \/ lists' = [l \in Lists |-> {}]
      BY <1>1 DEF FirstFails, FirstPanics, Collected, vars
    <2>3. lists'[WD] = {}
      <3>1. WD \in Lists /\ lists[WD] = {}
        BY EntriesAreOrdinary DEF LostFields, WD
      <3> QED
        BY <2>2, <3>1
    <2> QED
      BY <2>1, <2>3, FieldsStay
  <1> QED
    BY <1>1, FieldsOfQuery, FieldsOfSet, FieldsOfFirst DEF Next, Terminated

-----------------------------------------------------------------------------
(* The theorems.                                                           *)

(* Lists and report follow the entries of the two programs, whatever       *)
(* queries fail or miss series, and wherever a collection panics.          *)
THEOREM Invariance == Spec => []IInv
  <1>1. Init => IInv
    BY InitLinesInv, InitFields DEF IInv
  <1>2. IInv /\ [Next]_vars => IInv'
    BY StepLinesInv, StepFields DEF IInv
  <1> QED
    BY <1>1, <1>2, PTL DEF Spec

(* Every variable keeps its type.                                          *)
THEOREM TypeCorrect == Spec => []TypeOK
  <1>1. IInv => TypeOK
    BY DEF IInv, LinesInv
  <1> QED
    BY <1>1, Invariance, PTL

(* What the entries of a context that is reported have written.            *)
LEMMA ReportedHolds ==
  ASSUME IInv, NEW context \in Reported
  PROVE  /\ context \in Contexts
         /\ \A f \in Statistics(context) \ {CM("WorkQueueWorkDuration")} :
              OwnStatistic(context, f)
         /\ \A component \in Components(context) :
              report[context].calls[component] =
                ByKey(Answered(context, <<component, "Throughput">>),
                      Answered(context, <<component, "Latency">>))
  <1>1. context \in Contexts
    BY DEF Reported, IInv, LinesInv, TypeOK, Contexts
  <1>2. ASSUME NEW e \in Entries(context), IsExact(e)
        PROVE  Holds(context, e)
    <2>1. PICK i \in DOMAIN Program(context) : e = Program(context)[i]
      BY DEF Entries
    <2>2. Done(context, i)
      BY DEF Done
    <2> QED
      BY <1>1, <1>2, <2>1, <2>2 DEF IInv, LinesInv, ReportFollows
  <1>3. ASSUME NEW f \in Statistics(context) \ {CM("WorkQueueWorkDuration")}
        PROVE  OwnStatistic(context, f)
    <2>1. PICK e \in Entries(context) : e.op = "set" /\ e.field = f
      BY DEF Statistics, OfKind
    <2>2. IsExact(e)
      BY <2>1 DEF IsExact
    <2> QED
      BY <1>2, <2>1, <2>2 DEF Holds
  <1>4. ASSUME NEW component \in Components(context)
        PROVE  report[context].calls[component] =
                 ByKey(Answered(context, <<component, "Throughput">>),
                       Answered(context, <<component, "Latency">>))
    <2>1. PICK e \in Entries(context) :
            e.op = "calls" /\ e.component = component
      BY DEF Components, OfKind
    <2>2. IsExact(e)
      BY <2>1 DEF IsExact
    <2> QED
      BY <1>2, <2>1, <2>2 DEF Holds
  <1> QED
    BY <1>1, <1>3, <1>4

(* Each statistic of a report holds the samples of its own queries in its  *)
(* own cluster, all that have come and no others: no fault of one query,   *)
(* and no earlier collection, shows in another field.                      *)
THEOREM StatisticsKeepApart == Spec => []StatisticsAreOwn
  <1>1. IInv => StatisticsAreOwn
    BY ReportedHolds DEF StatisticsAreOwn, IInv, FirstsFollow
  <1> QED
    BY <1>1, Invariance, PTL

(* The work duration of the controller manager's queue and the consensus   *)
(* proposals of etcd are never reported, whatever Prometheus answers.      *)
THEOREM SomeFieldsAreLost == Spec => []LostFields
  <1>1. IInv => LostFields
    BY DEF IInv
  <1> QED
    BY <1>1, Invariance, PTL

(* The label a sample is grouped by gives the call it belongs to: for the  *)
(* throughput of every component, and the latency of the API server.       *)
LEMMA ThroughputKey ==
  ASSUME NEW s, NEW component, s.metric = <<component, "Throughput">>
  PROVE  Key(s) = s.call
  <1>1. s.metric[1] = component /\ s.metric[2] = "Throughput"
    OBVIOUS
  <1>2. CASE component = "ApiServer"
    BY <1>1, <1>2 DEF Key, GroupedBy, KeyedBy
  <1>3. CASE component # "ApiServer"
    BY <1>1, <1>3 DEF Key, GroupedBy, KeyedBy
  <1> QED
    BY <1>2, <1>3

LEMMA LatencyKey ==
  ASSUME NEW s, s.metric = <<"ApiServer", "Latency">>
  PROVE  Key(s) = s.call
  <1>1. s.metric[1] = "ApiServer" /\ s.metric[2] = "Latency"
    OBVIOUS
  <1> QED
    BY <1>1 DEF Key, GroupedBy, KeyedBy

(* What is said of a call, and of which calls something is said.           *)
LEMMA ByKeyDomain ==
  ASSUME NEW throughput, NEW latency, NEW calls, NEW call,
         calls = ByKey(throughput, latency)
  PROVE  call \in DOMAIN calls <=>
           \E s \in throughput \union latency : Key(s) = call
  BY DEF ByKey

LEMMA ByKeyValue ==
  ASSUME NEW throughput, NEW latency, NEW calls, NEW call,
         calls = ByKey(throughput, latency), call \in DOMAIN calls
  PROVE  calls[call] =
           [throughput |-> ByQuantile({s \in throughput : Key(s) = call}),
            latency    |-> ByQuantile({s \in latency : Key(s) = call})]
  BY DEF ByKey

(* Throughput and latency of each call to the API server come together in  *)
(* a report, with the quantiles that were answered for this call.          *)
THEOREM ApiServerCallsKeepApart == Spec => []ApiServerCallsAreOwn
  <1>1. ASSUME IInv, NEW context \in Reported, NEW call \in Calls
        PROVE  OwnCall(context, "ApiServer", call)
    <2> DEFINE c == "ApiServer"
               t == Answered(context, <<c, "Throughput">>)
               l == Answered(context, <<c, "Latency">>)
               calls == report[context].calls[c]
    <2>1. calls = ByKey(t, l)
      BY <1>1, ReportedHolds, ApiServerIsCollected
    <2>2. \A s \in t \union l : Key(s) = s.call
      <3>1. \A s \in t \union l : \/ s.metric = <<c, "Throughput">>
                                  \/ s.metric = <<c, "Latency">>
        BY DEF Answered
      <3> QED
        BY <3>1, ThroughputKey, LatencyKey
    <2> HIDE DEF t, l, calls
    <2>3. /\ {s \in t : Key(s) = call} = {s \in t : s.call = call}
          /\ {s \in l : Key(s) = call} = {s \in l : s.call = call}
      BY <2>2
    <2>4. /\ call \in DOMAIN calls <=> \E s \in t \union l : s.call = call
          /\ call \in DOMAIN calls =>
               calls[call] =
                 [throughput |-> ByQuantile({s \in t : s.call = call}),
                  latency    |-> ByQuantile({s \in l : s.call = call})]
      <3>1. call \in DOMAIN calls <=> \E s \in t \union l : Key(s) = call
        BY <2>1, ByKeyDomain
      <3>2. call \in DOMAIN calls =>
              calls[call] =
                [throughput |-> ByQuantile({s \in t : Key(s) = call}),
                 latency    |-> ByQuantile({s \in l : Key(s) = call})]
        BY <2>1, ByKeyValue
      <3> QED
        BY <2>2, <2>3, <3>1, <3>2
    <2>5. call \notin DOMAIN calls =>
            {s \in t : s.call = call} = {} /\ {s \in l : s.call = call} = {}
      BY <2>4
    <2> QED
      BY <2>4, <2>5 DEF OwnCall, t, l, calls
  <1>2. IInv => ApiServerCallsAreOwn
    BY <1>1 DEF ApiServerCallsAreOwn
  <1> QED
    BY <1>2, Invariance, PTL

(* The throughput of each call of the other components is right, although  *)
(* their latencies do not come with a call.                                *)
THEOREM ClientThroughputKeepsApart == Spec => []ClientThroughputIsOwn
  <1>1. ASSUME IInv, NEW context \in Reported, NEW call \in Calls,
               NEW c \in Components(context),
               {s \in Answered(context, <<c, "Throughput">>) :
                  s.call = call} # {}
        PROVE  report[context].calls[c][call].throughput =
                 ByQuantile({s \in Answered(context, <<c, "Throughput">>) :
                               s.call = call})
    <2> DEFINE t == Answered(context, <<c, "Throughput">>)
               l == Answered(context, <<c, "Latency">>)
               calls == report[context].calls[c]
    <2>1. calls = ByKey(t, l)
      BY <1>1, ReportedHolds
    <2>2. \A s \in t : Key(s) = s.call
      <3>1. \A s \in t : s.metric = <<c, "Throughput">>
        BY DEF Answered
      <3> QED
        BY <3>1, ThroughputKey
    <2> HIDE DEF t, l, calls
    <2>3. {s \in t : Key(s) = call} = {s \in t : s.call = call}
      BY <2>2
    <2>4. \E s \in t \union l : Key(s) = call
      BY <1>1, <2>2 DEF t
    <2>5. calls[call] =
            [throughput |-> ByQuantile({s \in t : Key(s) = call}),
             latency    |-> ByQuantile({s \in l : Key(s) = call})]
      <3>1. call \in DOMAIN calls
        BY <2>1, <2>4, ByKeyDomain
      <3> QED
        BY <2>1, <3>1, ByKeyValue
    <2>6. calls[call].throughput = ByQuantile({s \in t : s.call = call})
      BY <2>3, <2>5
    <2> QED
      BY <2>6 DEF t, calls
  <1>2. IInv => ClientThroughputIsOwn
    BY <1>1 DEF ClientThroughputIsOwn
  <1> QED
    BY <1>2, Invariance, PTL

LEMMA ClientLatencyKey ==
  ASSUME NEW s, NEW component, component # "ApiServer",
         s.metric = <<component, "Latency">>
  PROVE  Key(s) = Blank
  <1>1. s.metric[1] = component /\ s.metric[2] = "Latency"
    OBVIOUS
  <1> QED
    BY <1>1 DEF Key, GroupedBy, KeyedBy

(* The latencies of all calls of a component that calls the API server     *)
(* come together under the key without a call, and no call has its own.    *)
ClientLatenciesAreMerged ==
  \A context \in Reported :
    \A component \in Components(context) \ {"ApiServer"} :
      LET calls == report[context].calls[component]
      IN  \A key \in DOMAIN calls :
            calls[key].latency =
              IF key = Blank
              THEN ByQuantile(Answered(context, <<component, "Latency">>))
              ELSE ByQuantile({})

(* Wherever there are such latencies, they miss their calls: that is so in *)
(* every run, not only in the one that TLC finds.                          *)
THEOREM ClientLatenciesMissTheirCalls == Spec => []ClientLatenciesAreMerged
  <1>1. ASSUME IInv, NEW context \in Reported,
               NEW c \in Components(context) \ {"ApiServer"},
               NEW key \in DOMAIN report[context].calls[c]
        PROVE  report[context].calls[c][key].latency =
                 IF key = Blank
                 THEN ByQuantile(Answered(context, <<c, "Latency">>))
                 ELSE ByQuantile({})
    <2> DEFINE t == Answered(context, <<c, "Throughput">>)
               l == Answered(context, <<c, "Latency">>)
               calls == report[context].calls[c]
    <2>1. calls = ByKey(t, l)
      BY <1>1, ReportedHolds
    <2>2. \A s \in l : Key(s) = Blank
      <3>1. \A s \in l : s.metric = <<c, "Latency">>
        BY DEF Answered
      <3> QED
        BY <3>1, ClientLatencyKey
    <2> HIDE DEF t, l, calls
    <2>3. {s \in l : Key(s) = key} = IF key = Blank THEN l ELSE {}
      BY <2>2
    <2>4. calls[key] =
            [throughput |-> ByQuantile({s \in t : Key(s) = key}),
             latency    |-> ByQuantile({s \in l : Key(s) = key})]
      <3>1. key \in DOMAIN calls
        BY DEF calls
      <3> QED
        BY <2>1, <3>1, ByKeyValue
    <2>5. calls[key].latency = IF key = Blank THEN ByQuantile(l)
                                              ELSE ByQuantile({})
      BY <2>3, <2>4
    <2> QED
      BY <2>5 DEF l, calls
  <1>2. IInv => ClientLatenciesAreMerged
    BY <1>1 DEF ClientLatenciesAreMerged
  <1> QED
    BY <1>2, Invariance, PTL
=============================================================================
