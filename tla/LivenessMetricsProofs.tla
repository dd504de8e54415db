----------------------- MODULE LivenessMetricsProofs -----------------------
(***************************************************************************)
(* Proofs about LivenessMetrics: whatever the kernel's files say, the      *)
(* numbers that are read from them are within their bounds.                *)
(***************************************************************************)
EXTENDS LivenessMetrics, SequenceLemmas, FiniteSetTheorems

(* An Option of something. *)
Options(V) == {None} \cup {Some(v) : v \in V}

(* A sum is reached step by step.                                           *)
LEMMA SumUpTo ==
  ASSUME NEW s \in Seq(Nat)
  PROVE  \E f \in [0 .. Len(s) -> Nat] :
           /\ f[0] = 0
           /\ \A k \in 1 .. Len(s) : f[k] = f[k - 1] + s[k]
           /\ Sum(s) = f[Len(s)]
<1> DEFINE len == Len(s)
           adds(f) == f = [t \in SUBSET DOMAIN s |->
                             IF t = {} THEN 0 ELSE f[t \ {Max(t)}] + s[Max(t)]]
           it[t \in SUBSET DOMAIN s] == IF t = {} THEN 0 ELSE it[t \ {Max(t)}] + s[Max(t)]
<1>1. Sum(s) = it[DOMAIN s]
  BY DEF Sum, FoldLeft, MapThenFoldSet
<1>2. it = CHOOSE f : adds(f)
  OBVIOUS
<1>3. len \in Nat /\ DOMAIN s = 1 .. len /\ \A k \in 1 .. len : s[k] \in Nat
  BY LenProperties, ElementOfSeq
<1>4. \E f : adds(f)
  <2> DEFINE step == [p \in Nat \X (1 .. len) |-> p[1] + s[p[2]]]
  <2>1. /\ step \in [Nat \X (1 .. len) -> Nat]
        /\ \A a \in Nat, k \in 1 .. len : step[<<a, k>>] = a + s[k]
    BY <1>3
  <2> HIDE DEF step, len
  <2>2. PICK f : IsFold(f, Nat, len, 0, step)
    BY <1>3, <2>1, FoldExists
  <2>3. ASSUME NEW t \in SUBSET (1 .. len)
        PROVE  f[t] = IF t = {} THEN 0 ELSE f[t \ {Max(t)}] + s[Max(t)]
    <3>1. t # {} => Max(t) \in 1 .. len
      <4>1. t \in SUBSET (0 .. len)
        BY <1>3
      <4> QED
        BY <1>3, <4>1, MaxIsGreatest
    <3>2. f[t \ {Max(t)}] \in Nat
      BY <2>2 DEF IsFold
    <3> QED
      BY <2>1, <2>2, <3>1, <3>2 DEF IsFold
  <2> QED
    BY <1>3, <2>2, <2>3 DEF IsFold
<1>5. adds(it)
  <2> HIDE DEF adds
  <2> QED
    BY <1>2, <1>4
<1> HIDE DEF it, len
<1>6. /\ it[1 .. 0] = 0
      /\ \A k \in 1 .. len : it[1 .. k] = it[1 .. k - 1] + s[k]
  <2>1. it[1 .. 0] = 0
    <3>1. 1 .. 0 = {}
      OBVIOUS
    <3> QED
      BY <1>5, <3>1
  <2>2. ASSUME NEW k \in 1 .. len
        PROVE  it[1 .. k] = it[1 .. k - 1] + s[k]
    <3>1. 1 .. k \in SUBSET DOMAIN s
      BY <1>3
    <3>2. 1 .. k # {} /\ Max(1 .. k) = k /\ (1 .. k) \ {k} = 1 .. k - 1
      <4>1. k \in Nat \ {0}
        BY <1>3
      <4> QED
        BY <4>1, PlacesUpTo
    <3> QED
      BY <1>5, <3>1, <3>2
  <2> QED
    BY <2>1, <2>2
<1> DEFINE f == [k \in 0 .. len |-> it[1 .. k]]
<1>7. \A k \in 0 .. len : it[1 .. k] \in Nat
  <2> DEFINE S == {k \in 0 .. len : it[1 .. k] \in Nat}
  <2>1. 0 \in S
    BY <1>3, <1>6
  <2>2. ASSUME NEW k \in 0 .. len, k \in S, k < len
        PROVE  k + 1 \in S
    <3>1. k + 1 \in 1 .. len /\ (k + 1) - 1 = k /\ k + 1 \in 0 .. len
      BY <1>3, <2>2
    <3>2. it[1 .. k + 1] = it[1 .. k] + s[k + 1]
      BY <1>6, <3>1
    <3> QED
      BY <1>3, <2>2, <3>1, <3>2
  <2> HIDE DEF S
  <2>3. 0 .. len \subseteq S
    BY <1>3, <2>1, <2>2, UpFromZero
  <2> QED
    BY <2>3 DEF S
<1>8. f \in [0 .. len -> Nat] /\ f[0] = 0 /\ Sum(s) = f[len]
  BY <1>1, <1>3, <1>6, <1>7
<1>9. \A k \in 1 .. len : f[k] = f[k - 1] + s[k]
  <2>1. \A k \in 1 .. len : k \in 0 .. len /\ k - 1 \in 0 .. len
    BY <1>3
  <2> QED
    BY <1>6, <2>1
<1> QED
  <2> HIDE DEF f
  <2> QED
    BY <1>8, <1>9 DEF len

(* What comes late in a list is not more than the whole list.               *)
LEMMA SumOfPart ==
  ASSUME NEW s \in Seq(Nat), NEW m \in Nat \ {0}, NEW n \in Nat, n <= Len(s)
  PROVE  Sum(SubSeq(s, m, n)) \in 0 .. Sum(s) /\ Sum(s) \in Nat
<1> DEFINE len == Len(s)
           t == SubSeq(s, m, n)
           size == IF m <= n THEN n - m + 1 ELSE 0
<1>1. len \in Nat /\ \A k \in 1 .. len : s[k] \in Nat
  BY LenProperties, ElementOfSeq
<1>2. /\ t \in Seq(Nat) /\ Len(t) = size
      /\ \A k \in 1 .. size : t[k] = s[m + k - 1]
  <2>1. m \in Int /\ n \in Int /\ \A k \in m .. n : s[k] \in Nat
    BY <1>1
  <2>2. /\ t \in Seq(Nat) /\ Len(t) = size
        /\ \A k \in 1 .. n - m + 1 : t[k] = s[m + k - 1]
    BY <2>1, SubSeqProperties
  <2> QED
    BY <2>2
<1> HIDE DEF t, len
<1>3. PICK f \in [0 .. len -> Nat] : /\ f[0] = 0 /\ Sum(s) = f[len]
                                     /\ \A k \in 1 .. len : f[k] = f[k - 1] + s[k]
  BY SumUpTo DEF len
<1>4. PICK g \in [0 .. size -> Nat] : /\ g[0] = 0 /\ Sum(t) = g[size]
                                      /\ \A k \in 1 .. size : g[k] = g[k - 1] + t[k]
  <2> HIDE DEF size
  <2> QED
    BY <1>2, SumUpTo
<1>5. \A k \in 0 .. len : f[k] <= f[len]
  <2> DEFINE S == {k \in 0 .. len : f[len - k] <= f[len]}
  <2>1. 0 \in S
    BY <1>1, <1>3
  <2>2. ASSUME NEW k \in 0 .. len, k \in S, k < len
        PROVE  k + 1 \in S
    <3>1. /\ len - k \in 1 .. len /\ (len - k) - 1 = len - (k + 1) /\ k + 1 \in 0 .. len
          /\ len - (k + 1) \in 0 .. len /\ len - k \in 0 .. len
      BY <1>1, <2>2
    <3>2. f[len - k] = f[len - (k + 1)] + s[len - k]
      BY <1>3, <3>1
    <3>3. f[len - (k + 1)] \in Nat /\ s[len - k] \in Nat /\ f[len] \in Nat
      BY <1>1, <1>3, <3>1
    <3> QED
      BY <2>2, <3>1, <3>2, <3>3
  <2> HIDE DEF S
  <2>3. 0 .. len \subseteq S
    BY <1>1, <2>1, <2>2, UpFromZero
  <2>4. ASSUME NEW k \in 0 .. len
        PROVE  f[k] <= f[len]
    <3>1. len - k \in 0 .. len /\ len - (len - k) = k
      BY <1>1
    <3> QED
      BY <2>3, <3>1 DEF S
  <2> QED
    BY <2>4
<1>6. size \in Nat /\ (size # 0 => m - 1 + size = n /\ n <= len)
  BY DEF len
<1>7. size # 0 => g[size] = f[n] - f[m - 1]
  <2> SUFFICES ASSUME size # 0
               PROVE  g[size] + f[m - 1] = f[n] /\ f[n] \in Nat /\ f[m - 1] \in Nat
                      /\ g[size] \in Nat
    OBVIOUS
  <2> DEFINE S == {k \in 0 .. size : g[k] + f[m - 1] = f[m - 1 + k]}
  <2> HIDE DEF size
  <2>0. m - 1 \in 0 .. len /\ n \in 0 .. len
    BY <1>1, <1>6
  <2>1. 0 \in S
    <3>1. f[m - 1] \in Nat /\ m - 1 + 0 = m - 1
      BY <1>3, <2>0
    <3> QED
      BY <1>4, <1>6, <3>1
  <2>2. ASSUME NEW k \in 0 .. size, k \in S, k < size
        PROVE  k + 1 \in S
    <3> DEFINE i == m - 1 + (k + 1)
               j == m - 1 + k
    <3>1. /\ k + 1 \in 1 .. size /\ (k + 1) - 1 = k /\ k + 1 \in 0 .. size
          /\ i \in 1 .. len /\ i - 1 = j /\ m + (k + 1) - 1 = i /\ j \in 0 .. len
      BY <1>1, <1>6, <2>2
    <3>2. /\ g[k + 1] = g[k] + t[k + 1] /\ f[i] = f[i - 1] + s[i]
          /\ t[k + 1] = s[m + (k + 1) - 1]
      BY <1>2, <1>3, <1>4, <3>1
    <3>3. g[k] \in Nat /\ f[m - 1] \in Nat /\ f[j] \in Nat /\ s[i] \in Nat
      BY <1>1, <1>3, <1>4, <2>0, <3>1
    <3>4. g[k] + f[m - 1] = f[j]
      BY <2>2
    <3>5. g[k + 1] + f[m - 1] = f[i]
      <4> HIDE DEF i, j
      <4>1. g[k + 1] = g[k] + s[i] /\ f[i] = f[j] + s[i]
        BY <3>1, <3>2
      <4> QED
        BY <3>3, <3>4, <4>1
    <3> QED
      BY <3>1, <3>5
  <2> HIDE DEF S
  <2>3. size \in S
    <3>1. 0 .. size \subseteq S
      BY <1>6, <2>1, <2>2, UpFromZero
    <3> QED
      BY <1>6, <3>1
  <2> QED
    BY <1>3, <1>4, <1>6, <2>0, <2>3 DEF S
<1>8. f[len] \in Nat /\ g[size] \in Nat
  BY <1>1, <1>3, <1>4, <1>6
<1>9. CASE size = 0
  BY <1>3, <1>4, <1>8, <1>9 DEF t
<1>10. CASE size # 0
  <2>1. f[n] \in Nat /\ f[m - 1] \in Nat /\ f[n] <= f[len]
    <3>1. m - 1 \in 0 .. len /\ n \in 0 .. len
      BY <1>1, <1>6, <1>10
    <3> QED
      BY <1>3, <1>5, <3>1
  <2> DEFINE part == g[size]
             before == f[m - 1]
             up == f[n]
             all == f[len]
  <2>2. /\ part \in Nat /\ before \in Nat /\ up \in Nat /\ all \in Nat
        /\ part + before = up /\ up <= all
    BY <1>7, <1>8, <1>10, <2>1
  <2> HIDE DEF size, len, part, before, up, all
  <2>3. part \in 0 .. all
    BY <2>2
  <2> QED
    BY <1>3, <1>4, <1>8, <2>3 DEF t, part, all
<1> QED
  BY <1>9, <1>10

(* What find_map finds is one of the things it could find.                  *)
LEMMA FirstIsOne ==
  ASSUME NEW V, NEW options \in Seq(Options(V))
  PROVE  FirstSome(options) \in Options(V)
<1> DEFINE found == FlattenSeq(options)
<1>1. options \in Seq(Seq(V))
  <2>1. \A o \in Options(V) : o \in Seq(V)
    <3>1. \A v \in V : <<v>> \in Seq(V)
      OBVIOUS
    <3>2. << >> \in Seq(V)
      BY EmptySeq
    <3> QED
      BY <3>1, <3>2 DEF Options, None, Some
  <2>2. Options(V) \subseteq Seq(V)
    BY <2>1
  <2>3. Len(options) \in Nat /\ \A k \in 1 .. Len(options) : options[k] \in Seq(V)
    BY <2>2, LenProperties, ElementOfSeq
  <2>4. options = [k \in 1 .. Len(options) |-> options[k]]
    BY LenProperties
  <2>5. options \in [1 .. Len(options) -> Seq(V)]
    BY <2>3, <2>4
  <2> QED
    BY <2>3, <2>5, SeqDef
<1>2. found \in Seq(V)
  <2>1. PICK f : Flattens(f, V, options)
    BY <1>1, FlattenUp
  <2>2. Len(options) \in 0 .. Len(options)
    BY LenProperties
  <2> QED
    BY <2>1, <2>2 DEF Flattens
<1> HIDE DEF found
<1>3. Len(found) \in Nat /\ \A i \in 1 .. Len(found) : found[i] \in V
  BY <1>2, LenProperties, ElementOfSeq
<1> DEFINE m == Min({1, Len(found)})
<1>4. m = IF Len(found) = 0 THEN 0 ELSE 1
  <2>1. {1, Len(found)} \in SUBSET Nat /\ {1, Len(found)} # {}
    BY <1>3
  <2>2. m \in {1, Len(found)} /\ m <= 1 /\ m <= Len(found)
    BY <2>1, MinIsLeast
  <2> QED
    BY <1>3, <2>2
<1>5. SubSeq(found, 1, m) \in Options(V)
  <2> HIDE DEF m
  <2>1. CASE Len(found) = 0
    <3>1. SubSeq(found, 1, 0) = << >>
      BY SubSeqEmpty
    <3> QED
      BY <1>4, <2>1, <3>1 DEF Options, None
  <2>2. CASE Len(found) # 0
    <3>1. SubSeq(found, 1, 1) = <<found[1]>> /\ found[1] \in V
      <4>1. 1 \in 1 .. Len(found) /\ 1 + 1 = 2 /\ 1 \in 1 .. Len(found)
        BY <1>3, <2>2
      <4>2. SubSeq(found, 1, 1) = <<found[1]>> \o SubSeq(found, 1 + 1, 1)
        BY <1>2, <4>1, SubSeqRecursiveFirst
      <4>3. SubSeq(found, 1 + 1, 1) = << >>
        BY SubSeqEmpty
      <4>4. <<found[1]>> \in Seq(V) /\ found[1] \in V
        BY <1>3, <4>1
      <4> QED
        BY <4>2, <4>3, <4>4, ConcatEmptySeq
    <3> QED
      BY <1>4, <2>2, <3>1 DEF Options, Some
  <2> QED
    BY <2>1, <2>2
<1> QED
  BY <1>5 DEF FirstSome, found

(* A CPU sample: idle is within the total, and the total within a word.     *)
Sample == {s \in [total : 0 .. WordMax, idle : Nat] : s.idle <= s.total}

(* What is used of something is within what there is of it.                 *)
Usage == {u \in [used : Nat, total : Nat] : u.used <= u.total}

(* What can be read of a line is numbers.                                   *)
LEMMA ReadableNumbers ==
  ASSUME NEW fields \in Seq(Number)
  PROVE  Readable(fields) \in Seq(Nat)
<1> DEFINE len == Len(fields)
           I == {i \in 1 .. len : fields[i] = Garbage}
           bad == SelectInSeq(fields, LAMBDA f : f = Garbage)
<1>1. len \in Nat /\ \A i \in 1 .. len : fields[i] \in Number
  BY LenProperties, ElementOfSeq
<1>2. bad = IF I # {} THEN Min(I) ELSE 0
  BY DEF SelectInSeq
<1>3. CASE I = {}
  <2>1. bad = 0 /\ \A i \in 1 .. len : fields[i] \in Nat
    BY <1>1, <1>2, <1>3 DEF Number
  <2>2. fields \in Seq(Nat)
    BY <2>1, <1>1, SeqDef
  <2> QED
    BY <2>1, <2>2 DEF Readable
<1>4. CASE I # {}
  <2>1. bad \in I /\ \A i \in I : bad <= i
    <3>1. I \in SUBSET Nat
      BY <1>1
    <3> HIDE DEF I, bad
    <3> QED
      BY <1>2, <1>4, <3>1, MinIsLeast
  <2> HIDE DEF bad
  <2>2. bad \in 1 .. len /\ bad # 0 /\ \A i \in 1 .. bad - 1 : i \in 1 .. len /\ ~(bad <= i)
    BY <1>1, <2>1
  <2>3. \A i \in 1 .. bad - 1 : fields[i] \in Nat
    BY <1>1, <2>1, <2>2 DEF Number
  <2>4. 1 \in Int /\ bad - 1 \in Int
    BY <1>1, <2>2
  <2>5. SubSeq(fields, 1, bad - 1) \in Seq(Nat)
    BY <2>3, <2>4, SubSeqProperties
  <2> QED
    BY <2>2, <2>5 DEF Readable, bad
<1> QED
  BY <1>3, <1>4

(* A line of /proc/stat, however short or full of garbage: the subtraction  *)
(* of idle from total does not wrap.                                        *)
LEMMA StatWithin ==
  ASSUME NEW line, line.fields \in Seq(Number)
  PROVE  ParseStat(line) \in Options(Sample)
<1> DEFINE jiffies == Readable(line.fields)
           upto == Min({5, Len(jiffies)})
<1>1. jiffies \in Seq(Nat)
  BY ReadableNumbers
<1> HIDE DEF jiffies
<1>2. upto \in Nat /\ upto <= Len(jiffies)
  <2>1. {5, Len(jiffies)} \in SUBSET Nat /\ {5, Len(jiffies)} # {}
    BY <1>1, LenProperties
  <2> QED
    BY <2>1, MinIsLeast
<1> HIDE DEF upto
<1>3. /\ Sum(jiffies) \in Nat
      /\ Sum(SubSeq(jiffies, 4, upto)) \in 0 .. Sum(jiffies)
  <2>1. 4 \in Nat \ {0}
    OBVIOUS
  <2> QED
    BY <1>1, <1>2, <2>1, SumOfPart
<1>4. ParseStat(line) =
        IF line.tag = "cpu" /\ Sum(jiffies) <= WordMax
          THEN Some([total |-> Sum(jiffies), idle |-> Sum(SubSeq(jiffies, 4, upto))])
          ELSE None
  BY DEF ParseStat, jiffies, upto
<1>5. Sum(jiffies) <= WordMax =>
        [total |-> Sum(jiffies), idle |-> Sum(SubSeq(jiffies, 4, upto))] \in Sample
  BY <1>3, MetricsAssumption DEF Sample
<1> QED
  BY <1>4, <1>5 DEF Options

(* /proc/stat, whatever its lines are.                                      *)
LEMMA SampleOrNone ==
  ASSUME NEW stat, Len(stat) \in Nat, DOMAIN stat = 1 .. Len(stat),
         \A i \in DOMAIN stat : stat[i].fields \in Seq(Number)
  PROVE  ReadProcStat(stat) \in Options(Sample)
<1> DEFINE options == [i \in DOMAIN stat |-> ParseStat(stat[i])]
<1>1. \A i \in DOMAIN stat : options[i] \in Options(Sample)
  BY StatWithin
<1>2. options \in Seq(Options(Sample))
  <2>1. options \in [1 .. Len(stat) -> Options(Sample)]
    BY <1>1
  <2> HIDE DEF options
  <2> QED
    BY <2>1, SeqDef
<1> HIDE DEF options
<1>3. FirstSome(options) \in Options(Sample)
  BY <1>2, FirstIsOne
<1> QED
  BY <1>3 DEF ReadProcStat, options

(* A share of the CPU is a share, though the counters may run backwards.    *)
LEMMA ShareOfCpu ==
  ASSUME NEW first, first.total \in 0 .. WordMax, first.idle \in 0 .. first.total,
         NEW second, second.total \in 0 .. WordMax, second.idle \in 0 .. second.total
  PROVE  CpuPercent(first, second) \in 0 .. 100
<1>1. /\ first.total \in 0 .. WordMax /\ first.idle \in 0 .. first.total
      /\ second.total \in 0 .. WordMax /\ second.idle \in 0 .. second.total
      /\ WordMax \in Nat
  BY MetricsAssumption
<1>2. \A a, b \in Int : Sat(a, b) \in Nat
  BY DEF Sat
<1>3. Busy(first) \in Nat /\ Busy(second) \in Nat
  <2>1. \A x \in Nat : x % (WordMax + 1) \in Nat
    BY <1>1
  <2> QED
    BY <1>1, <2>1 DEF Busy
<1> DEFINE elapsed == Sat(second.total, first.total)
           busy == Sat(Busy(second), Busy(first))
<1>4. elapsed \in Nat /\ busy \in Nat
  <2>1. second.total \in Int /\ first.total \in Int /\ Busy(first) \in Int /\ Busy(second) \in Int
    BY <1>1, <1>3
  <2> QED
    BY <1>2, <2>1
<1>5. \A x \in Nat : Clamp(x) \in 0 .. 100
  <2> SUFFICES ASSUME NEW x \in Nat
               PROVE  Clamp(x) \in 0 .. 100
    OBVIOUS
  <2>1. {x, 100} \in SUBSET Nat /\ {x, 100} # {}
    OBVIOUS
  <2>2. Min({x, 100}) \in {x, 100} /\ Min({x, 100}) <= 100
    BY <2>1, MinIsLeast
  <2> QED
    BY <2>2 DEF Clamp
<1>6. CpuPercent(first, second) =
        IF elapsed = 0 THEN 0 ELSE Clamp((busy * 100) \div elapsed)
  BY DEF CpuPercent
<1> HIDE DEF elapsed, busy
<1>7. elapsed # 0 => (busy * 100) \div elapsed \in Nat
  BY <1>4
<1> QED
  BY <1>5, <1>6, <1>7

(* A line of /proc/meminfo gives a number or nothing.                       *)
LEMMA FieldOrNone ==
  ASSUME NEW meminfo, NEW name, Len(meminfo) \in Nat, DOMAIN meminfo = 1 .. Len(meminfo),
         \A i \in DOMAIN meminfo : meminfo[i].kb \in Number
  PROVE  MeminfoField(meminfo, name) \in Options(Nat)
<1> DEFINE options == [i \in DOMAIN meminfo |->
                         IF meminfo[i].name = name /\ meminfo[i].kb # Garbage
                           THEN Some(meminfo[i].kb) ELSE None]
<1>1. \A i \in DOMAIN meminfo : options[i] \in Options(Nat)
  BY DEF Options, Number
<1>2. options \in Seq(Options(Nat))
  <2>1. options \in [1 .. Len(meminfo) -> Options(Nat)]
    BY <1>1
  <2> HIDE DEF options
  <2> QED
    BY <2>1, SeqDef
<1> HIDE DEF options
<1>3. FirstSome(options) \in Options(Nat)
  BY <1>2, FirstIsOne
<1> QED
  BY <1>3 DEF MeminfoField, options

(* No more memory is used than there is, whatever is said to be free.       *)
LEMMA UsageWithin ==
  ASSUME NEW meminfo, NEW total, NEW free,
         Len(meminfo) \in Nat, DOMAIN meminfo = 1 .. Len(meminfo),
         \A i \in DOMAIN meminfo : meminfo[i].kb \in Number
  PROVE  UsageOf(meminfo, total, free) \in Options(Usage)
<1> DEFINE t == MeminfoField(meminfo, total)
           f == MeminfoField(meminfo, free)
<1>1. t \in Options(Nat) /\ f \in Options(Nat)
  BY FieldOrNone
<1> HIDE DEF t, f
<1>2. (t # None => t[1] \in Nat) /\ (f # None => f[1] \in Nat)
  BY <1>1 DEF Options, Some
<1>3. \A a, b \in Nat : [used |-> UsedKb(a, b) * 1024, total |-> a * 1024] \in Usage
  BY DEF Usage, UsedKb, Sat
<1>4. UsageOf(meminfo, total, free) =
        IF t = None \/ f = None
          THEN None ELSE Some([used |-> UsedKb(t[1], f[1]) * 1024, total |-> t[1] * 1024])
  BY DEF UsageOf, t, f
<1> QED
  BY <1>2, <1>3, <1>4 DEF Options

(* No more of a disk is used than there is, whatever statvfs says is free.  *)
LEMMA DiskWithin ==
  ASSUME NEW st, st.blocks \in Nat, st.bfree \in Nat, st.frsize \in Nat, st.bsize \in Nat
  PROVE  DiskOf(st) \in Usage
<1> DEFINE block == Max({st.frsize, st.bsize})
<1>1. block \in Nat
  <2>1. \A a, b \in Nat : \E x \in {a, b} : \A y \in {a, b} : x >= y
    OBVIOUS
  <2>2. \E x \in {st.frsize, st.bsize} : \A y \in {st.frsize, st.bsize} : x >= y
    BY <2>1
  <2>3. block \in {st.frsize, st.bsize}
    BY <2>2 DEF Max
  <2> QED
    BY <2>3
<1> HIDE DEF block
<1>2. \A a, b, c \in Nat : Sat(a, b) * c \in Nat /\ a * c \in Nat /\ Sat(a, b) * c <= a * c
  <2> SUFFICES ASSUME NEW a \in Nat, NEW b \in Nat, NEW c \in Nat
               PROVE  Sat(a, b) * c \in Nat /\ a * c \in Nat /\ Sat(a, b) * c <= a * c
    OBVIOUS
  <2>1. Sat(a, b) \in Nat /\ Sat(a, b) <= a
    BY DEF Sat
  <2>2. PICK d \in Nat : a = Sat(a, b) + d
    <3>1. a - Sat(a, b) \in Nat /\ a = Sat(a, b) + (a - Sat(a, b))
      BY <2>1
    <3> QED
      BY <3>1
  <2>3. a * c = Sat(a, b) * c + d * c /\ d * c \in Nat /\ Sat(a, b) * c \in Nat
    BY <2>1, <2>2
  <2> QED
    BY <2>3
<1>3. DiskOf(st) = [used |-> Sat(st.blocks, st.bfree) * block, total |-> st.blocks * block]
  BY DEF DiskOf, block
<1>4. /\ Sat(st.blocks, st.bfree) * block \in Nat /\ st.blocks * block \in Nat
      /\ Sat(st.blocks, st.bfree) * block <= st.blocks * block
  BY <1>1, <1>2
<1> QED
  BY <1>3, <1>4 DEF Usage

(* All that a list of mounts can come to is paths, devices and such disks.   *)
Found(mounts, fs, disk) ==
  [seen    : SUBSET {Unescape(mounts[i].point) : i \in DOMAIN mounts},
   devices : SUBSET {fs[p].dev : p \in DOMAIN fs},
   disks   : Seq([mount_point : DOMAIN fs, usage : Usage,
                  label : {DeviceLabel(disk, fs[p].dev) : p \in DOMAIN fs}])]

(* Each line of the list stays among them.                                  *)
LEMMA ConsiderWithin ==
  ASSUME NEW mounts, NEW fs, NEW disk, NEW i \in DOMAIN mounts,
         \A p \in DOMAIN fs : /\ fs[p].blocks \in Nat /\ fs[p].bfree \in Nat
                              /\ fs[p].frsize \in Nat /\ fs[p].bsize \in Nat,
         NEW acc \in Found(mounts, fs, disk)
  PROVE  Consider(acc, mounts[i], fs, disk) \in Found(mounts, fs, disk)
<1> DEFINE path == Unescape(mounts[i].point)
           Disk == [mount_point : DOMAIN fs, usage : Usage,
                    label : {DeviceLabel(disk, fs[p].dev) : p \in DOMAIN fs}]
           new == [mount_point |-> path, usage |-> DiskOf(fs[path]),
                   label |-> DeviceLabel(disk, fs[path].dev)]
<1>1. path \in {Unescape(mounts[k].point) : k \in DOMAIN mounts}
  OBVIOUS
<1>2. path \in DOMAIN fs => new \in Disk /\ fs[path].dev \in {fs[p].dev : p \in DOMAIN fs}
  BY DiskWithin
<1>3. acc.disks \in Seq(Disk)
  BY DEF Found
<1>4. path \in DOMAIN fs => Append(acc.disks, new) \in Seq(Disk)
  <2> HIDE DEF new, Disk
  <2> QED
    BY <1>2, <1>3, AppendProperties
<1>5. Consider(acc, mounts[i], fs, disk) \in
        {acc, [acc EXCEPT !.seen = @ \cup {path}]}
          \cup (IF path \in DOMAIN fs
                  THEN {[seen    |-> acc.seen \cup {path},
                         devices |-> acc.devices \cup {fs[path].dev},
                         disks   |-> Append(acc.disks, new)]}
                  ELSE {})
  BY DEF Consider
<1> HIDE DEF path, new
<1>6. [acc EXCEPT !.seen = @ \cup {path}] \in Found(mounts, fs, disk)
  BY <1>1 DEF Found
<1>7. path \in DOMAIN fs =>
        [seen    |-> acc.seen \cup {path},
         devices |-> acc.devices \cup {fs[path].dev},
         disks   |-> Append(acc.disks, new)] \in Found(mounts, fs, disk)
  BY <1>1, <1>2, <1>4 DEF Found
<1> QED
  BY <1>5, <1>6, <1>7

(* What has been found before the first line, and after each. *)
Nothing == [seen |-> {}, devices |-> {}, disks |-> << >>]

Considers(f, mounts, fs, disk) ==
  /\ f \in [0 .. Len(mounts) -> Found(mounts, fs, disk)]
  /\ f[0] = Nothing
  /\ \A k \in 1 .. Len(mounts) : f[k] = Consider(f[k - 1], mounts[k], fs, disk)
  /\ Disks(mounts, fs, disk) = f[Len(mounts)].disks

(* The disks are found line by line, however many /proc/mounts has.         *)
LEMMA DisksUp ==
  ASSUME NEW mounts, Len(mounts) \in Nat, DOMAIN mounts = 1 .. Len(mounts),
         NEW fs, NEW disk,
         \A p \in DOMAIN fs : /\ fs[p].blocks \in Nat /\ fs[p].bfree \in Nat
                              /\ fs[p].frsize \in Nat /\ fs[p].bsize \in Nat
  PROVE  \E f : Considers(f, mounts, fs, disk)
<1> DEFINE len == Len(mounts)
           A == Found(mounts, fs, disk)
           next(acc, i) == Consider(acc, mounts[i], fs, disk)
           folds(f) == f = [t \in SUBSET DOMAIN mounts |->
                              IF t = {} THEN Nothing ELSE next(f[t \ {Max(t)}], Max(t))]
           it[t \in SUBSET DOMAIN mounts] ==
             IF t = {} THEN Nothing ELSE next(it[t \ {Max(t)}], Max(t))
<1>1. Disks(mounts, fs, disk) = it[DOMAIN mounts].disks
  BY DEF Disks, FoldLeft, MapThenFoldSet, Nothing
<1>2. it = CHOOSE f : folds(f)
  OBVIOUS
<1>3. Nothing \in A
  BY EmptySeq DEF Found, Nothing
<1>4. \A acc \in A, i \in 1 .. len : next(acc, i) \in A
  BY ConsiderWithin
<1> HIDE DEF A, next
<1>5. \E f : folds(f)
  <2> DEFINE step == [p \in A \X (1 .. len) |-> next(p[1], p[2])]
  <2>1. /\ step \in [A \X (1 .. len) -> A]
        /\ \A a \in A, i \in 1 .. len : step[<<a, i>>] = next(a, i)
    BY <1>4
  <2> HIDE DEF step, len
  <2>2. PICK f : IsFold(f, A, len, Nothing, step)
    BY <1>3, <2>1, FoldExists DEF len
  <2>3. ASSUME NEW t \in SUBSET (1 .. len)
        PROVE  f[t] = IF t = {} THEN Nothing ELSE next(f[t \ {Max(t)}], Max(t))
    <3>1. t # {} => Max(t) \in 1 .. len
      <4>1. t \in SUBSET (0 .. len) /\ len \in Nat
        BY DEF len
      <4> QED
        BY <4>1, MaxIsGreatest
    <3>2. f[t \ {Max(t)}] \in A
      BY <2>2 DEF IsFold
    <3> QED
      BY <2>1, <2>2, <3>1, <3>2 DEF IsFold
  <2> QED
    BY <2>2, <2>3 DEF IsFold, len
<1>6. folds(it)
  <2> HIDE DEF folds
  <2> QED
    BY <1>2, <1>5
<1> HIDE DEF it, len
<1>7. len \in Nat /\ DOMAIN mounts = 1 .. len
  BY DEF len
<1> DEFINE f == [k \in 0 .. len |-> it[1 .. k]]
<1>8. it[1 .. 0] = Nothing
  <2>1. 1 .. 0 = {}
    OBVIOUS
  <2> QED
    BY <1>6, <2>1
<1>9. ASSUME NEW k \in 1 .. len
      PROVE  it[1 .. k] = next(it[1 .. k - 1], k)
  <2>1. 1 .. k # {} /\ Max(1 .. k) = k /\ (1 .. k) \ {k} = 1 .. k - 1
    <3>1. k \in Nat \ {0}
      BY <1>7
    <3> QED
      BY <3>1, PlacesUpTo
  <2>2. 1 .. k \in SUBSET DOMAIN mounts
    BY <1>7
  <2> QED
    BY <1>6, <2>1, <2>2
<1>10. \A k \in 0 .. len : it[1 .. k] \in A
  <2> DEFINE S == {k \in 0 .. len : it[1 .. k] \in A}
  <2>1. 0 \in S
    BY <1>3, <1>7, <1>8
  <2>2. ASSUME NEW k \in 0 .. len, k \in S, k < len
        PROVE  k + 1 \in S
    <3>1. k + 1 \in 1 .. len /\ (k + 1) - 1 = k /\ k + 1 \in 0 .. len
      BY <1>7, <2>2
    <3>2. it[1 .. k + 1] = next(it[1 .. k], k + 1)
      BY <1>9, <3>1
    <3> QED
      BY <1>4, <2>2, <3>1, <3>2
  <2> HIDE DEF S
  <2>3. 0 .. len \subseteq S
    BY <1>7, <2>1, <2>2, UpFromZero
  <2> QED
    BY <2>3 DEF S
<1>11. Considers(f, mounts, fs, disk)
  <2>1. f \in [0 .. len -> A] /\ f[0] = Nothing /\ Disks(mounts, fs, disk) = f[len].disks
    BY <1>1, <1>7, <1>8, <1>10
  <2>2. \A k \in 1 .. len : f[k] = next(f[k - 1], k)
    <3>1. \A k \in 1 .. len : k \in 0 .. len /\ k - 1 \in 0 .. len
      BY <1>7
    <3> QED
      BY <1>9, <3>1
  <2> HIDE DEF f
  <2> QED
    BY <2>1, <2>2 DEF Considers, A, next, len
<1> HIDE DEF f
<1> QED
  BY <1>11

(* So each is used within its size.                                         *)
LEMMA DisksWithin ==
  ASSUME NEW mounts, Len(mounts) \in Nat, DOMAIN mounts = 1 .. Len(mounts),
         NEW fs, NEW disk,
         \A p \in DOMAIN fs : /\ fs[p].blocks \in Nat /\ fs[p].bfree \in Nat
                              /\ fs[p].frsize \in Nat /\ fs[p].bsize \in Nat
  PROVE  /\ DOMAIN Disks(mounts, fs, disk) = 1 .. Len(Disks(mounts, fs, disk))
         /\ \A k \in DOMAIN Disks(mounts, fs, disk) : Disks(mounts, fs, disk)[k].usage \in Usage
<1>1. PICK f : Considers(f, mounts, fs, disk)
  BY DisksUp
<1> DEFINE D == [mount_point : DOMAIN fs, usage : Usage,
                 label : {DeviceLabel(disk, fs[p].dev) : p \in DOMAIN fs}]
<1>2. /\ Disks(mounts, fs, disk) \in Seq(D)
      /\ \A d \in D : d.usage \in Usage
  <2>1. f[Len(mounts)] \in Found(mounts, fs, disk)
    BY <1>1 DEF Considers
  <2>2. f[Len(mounts)].disks \in Seq(D)
    BY <2>1 DEF Found
  <2> QED
    BY <1>1, <2>2 DEF Considers
<1> HIDE DEF D
<1>3. \A s \in Seq(D) : DOMAIN s = 1 .. Len(s) /\ \A k \in DOMAIN s : s[k] \in D
  BY LenProperties, ElementOfSeq
<1> QED
  BY <1>2, <1>3
-----------------------------------------------------------------------------
(* Paths. *)

(* Characters, those of the escapes among them.                             *)
Characters(C) == {" ", "\t", "\n", "\\", "0", "1", "2", "3", "4"} \subseteq C

Reading(C) == [path : Seq(C), esc : Seq(C)]

Unread == [path |-> << >>, esc |-> << >>]

(* The escapes are told apart.                                              *)
LEMMA Escapes ==
  ASSUME NEW C, Characters(C), NEW c \in DOMAIN Octal
  PROVE  /\ c \in C /\ Octal[c] \in Seq(C)
         /\ \E x, y, z \in C : Octal[c] = <<"\\", x, y, z>>
         /\ \A d \in DOMAIN Octal : Octal[d] = Octal[c] => d = c
<1>1. /\ Octal[" "] = <<"\\", "0", "4", "0">> /\ Octal["\t"] = <<"\\", "0", "1", "1">>
      /\ Octal["\n"] = <<"\\", "0", "1", "2">> /\ Octal["\\"] = <<"\\", "1", "3", "4">>
      /\ DOMAIN Octal = {" ", "\t", "\n", "\\"}
  BY DEF Octal
<1>2. {"\\", "0", "1", "2", "3", "4"} \subseteq C /\ c \in C
  BY <1>1 DEF Characters
<1>3. \E x, y, z \in C : Octal[c] = <<"\\", x, y, z>>
  BY <1>1, <1>2
<1>4. Octal[c] \in Seq(C)
  <2>1. \A w, x, y, z \in C : <<w, x, y, z>> \in Seq(C)
    OBVIOUS
  <2>2. PICK x \in C, y \in C, z \in C : Octal[c] = <<"\\", x, y, z>>
    BY <1>3
  <2>3. <<"\\", x, y, z>> \in Seq(C)
    BY <1>2, <2>1
  <2> QED
    BY <2>2, <2>3
<1>5. \A d \in DOMAIN Octal : Octal[d] = Octal[c] => d = c
  <2> DEFINE space == <<"\\", "0", "4", "0">>
             tab == <<"\\", "0", "1", "1">>
             newline == <<"\\", "0", "1", "2">>
             backslash == <<"\\", "1", "3", "4">>
  <2>1. /\ space # tab /\ space # newline /\ space # backslash
        /\ tab # newline /\ tab # backslash /\ newline # backslash
    OBVIOUS
  <2>2. /\ Octal[" "] = space /\ Octal["\t"] = tab
        /\ Octal["\n"] = newline /\ Octal["\\"] = backslash
    BY <1>1
  <2>3. DOMAIN Octal = {" ", "\t", "\n", "\\"}
    BY <1>1
  <2> HIDE DEF space, tab, newline, backslash
  <2>4. ASSUME NEW d \in DOMAIN Octal, Octal[d] = Octal[c]
        PROVE  d = c
    <3>1. c \in {" ", "\t", "\n", "\\"} /\ d \in {" ", "\t", "\n", "\\"}
      BY <2>3
    <3>2. CASE c = " "
      BY <2>1, <2>2, <2>4, <3>1, <3>2
    <3>3. CASE c = "\t"
      BY <2>1, <2>2, <2>4, <3>1, <3>3
    <3>4. CASE c = "\n"
      BY <2>1, <2>2, <2>4, <3>1, <3>4
    <3>5. CASE c = "\\"
      BY <2>1, <2>2, <2>4, <3>1, <3>5
    <3> QED
      BY <3>1, <3>2, <3>3, <3>4, <3>5
  <2> QED
    BY <2>4
<1> QED
  BY <1>2, <1>3, <1>4, <1>5

(* Characters are read one by one. *)
LEMMA UnescapeTyped ==
  ASSUME NEW C, Characters(C), NEW acc \in Reading(C), NEW c \in C
  PROVE  UnescapeStep(acc, c) \in Reading(C)
<1>1. acc.path \in Seq(C) /\ acc.esc \in Seq(C) /\ << >> \in Seq(C)
  BY EmptySeq DEF Reading
<1>2. Append(acc.path, c) \in Seq(C) /\ Append(acc.esc, c) \in Seq(C)
  BY <1>1, AppendProperties
<1>3. Decoded(Append(acc.esc, c)) \in Seq(C)
  <2> DEFINE esc == Append(acc.esc, c)
  <2>1. CASE \E d \in DOMAIN Octal : Octal[d] = esc
    <3> DEFINE d == CHOOSE d \in DOMAIN Octal : Octal[d] = esc
    <3>1. d \in DOMAIN Octal
      BY <2>1
    <3>2. d \in C
      BY <3>1, Escapes
    <3>3. Decoded(esc) = <<d>>
      BY <2>1 DEF Decoded
    <3> HIDE DEF d
    <3>4. <<d>> \in Seq(C)
      BY <3>2
    <3> QED
      BY <3>3, <3>4
  <2>2. CASE ~\E d \in DOMAIN Octal : Octal[d] = esc
    BY <1>2, <2>2 DEF Decoded
  <2> QED
    BY <2>1, <2>2
<1>4. acc.path \o Decoded(Append(acc.esc, c)) \in Seq(C)
  BY <1>1, <1>3, ConcatProperties
<1> DEFINE p == Append(acc.path, c)
           q == acc.path \o Decoded(Append(acc.esc, c))
           e == Append(acc.esc, c)
<1>5. UnescapeStep(acc, c) \in
        {[acc EXCEPT !.path = p], [path |-> q, esc |-> << >>], [acc EXCEPT !.esc = e]}
  BY DEF UnescapeStep
<1>6. p \in Seq(C) /\ q \in Seq(C) /\ e \in Seq(C)
  BY <1>2, <1>4
<1> HIDE DEF p, q, e
<1>7. /\ [acc EXCEPT !.path = p] \in Reading(C)
      /\ [path |-> q, esc |-> << >>] \in Reading(C)
      /\ [acc EXCEPT !.esc = e] \in Reading(C)
  BY <1>1, <1>6 DEF Reading
<1> QED
  BY <1>5, <1>7

Unescapes(f, C, s) ==
  /\ f \in [0 .. Len(s) -> Reading(C)]
  /\ f[0] = Unread
  /\ \A k \in 1 .. Len(s) : f[k] = UnescapeStep(f[k - 1], s[k])
  /\ Unescaped(s) = f[Len(s)]

(* There are the states it goes through.                                    *)
LEMMA UnescapeUp ==
  ASSUME NEW C, Characters(C), NEW s \in Seq(C)
  PROVE  \E f : Unescapes(f, C, s)
<1> DEFINE len == Len(s)
           A == Reading(C)
           next(a, i) == UnescapeStep(a, s[i])
           folds(f) == f = [t \in SUBSET DOMAIN s |->
                              IF t = {} THEN Unread ELSE next(f[t \ {Max(t)}], Max(t))]
           it[t \in SUBSET DOMAIN s] ==
             IF t = {} THEN Unread ELSE next(it[t \ {Max(t)}], Max(t))
<1>1. Unescaped(s) = it[DOMAIN s]
  BY DEF Unescaped, FoldLeft, MapThenFoldSet, Unread
<1>2. it = CHOOSE f : folds(f)
  OBVIOUS
<1>3. len \in Nat /\ DOMAIN s = 1 .. len /\ \A k \in 1 .. len : s[k] \in C
  BY LenProperties, ElementOfSeq
<1>4. Unread \in A
  BY EmptySeq DEF Reading, Unread
<1>5. \A a \in A, i \in 1 .. len : next(a, i) \in A
  BY <1>3, UnescapeTyped
<1> HIDE DEF A, next, len
<1>6. \E f : folds(f)
  <2> DEFINE step == [p \in A \X (1 .. len) |-> next(p[1], p[2])]
  <2>1. /\ step \in [A \X (1 .. len) -> A]
        /\ \A a \in A, i \in 1 .. len : step[<<a, i>>] = next(a, i)
    BY <1>5
  <2> HIDE DEF step
  <2>2. PICK f : IsFold(f, A, len, Unread, step)
    BY <1>3, <1>4, <2>1, FoldExists
  <2>3. ASSUME NEW t \in SUBSET (1 .. len)
        PROVE  f[t] = IF t = {} THEN Unread ELSE next(f[t \ {Max(t)}], Max(t))
    <3>1. t # {} => Max(t) \in 1 .. len
      <4>1. t \in SUBSET (0 .. len)
        BY <1>3
      <4> QED
        BY <1>3, <4>1, MaxIsGreatest
    <3>2. f[t \ {Max(t)}] \in A
      BY <2>2 DEF IsFold
    <3> QED
      BY <2>1, <2>2, <3>1, <3>2 DEF IsFold
  <2> QED
    BY <1>3, <2>2, <2>3 DEF IsFold
<1>7. folds(it)
  <2> HIDE DEF folds
  <2> QED
    BY <1>2, <1>6
<1> HIDE DEF it
<1> DEFINE f == [k \in 0 .. len |-> it[1 .. k]]
<1>8. it[1 .. 0] = Unread
  <2>1. 1 .. 0 = {}
    OBVIOUS
  <2> QED
    BY <1>7, <2>1
<1>9. ASSUME NEW k \in 1 .. len
      PROVE  it[1 .. k] = next(it[1 .. k - 1], k)
  <2>1. 1 .. k # {} /\ Max(1 .. k) = k /\ (1 .. k) \ {k} = 1 .. k - 1
    <3>1. k \in Nat \ {0}
      BY <1>3
    <3> QED
      BY <3>1, PlacesUpTo
  <2>2. 1 .. k \in SUBSET DOMAIN s
    BY <1>3
  <2> QED
    BY <1>7, <2>1, <2>2
<1>10. \A k \in 0 .. len : it[1 .. k] \in A
  <2> DEFINE S == {k \in 0 .. len : it[1 .. k] \in A}
  <2>1. 0 \in S
    BY <1>3, <1>4, <1>8
  <2>2. ASSUME NEW k \in 0 .. len, k \in S, k < len
        PROVE  k + 1 \in S
    <3>1. k + 1 \in 1 .. len /\ (k + 1) - 1 = k /\ k + 1 \in 0 .. len
      BY <1>3, <2>2
    <3>2. it[1 .. k + 1] = next(it[1 .. k], k + 1)
      BY <1>9, <3>1
    <3> QED
      BY <1>5, <2>2, <3>1, <3>2
  <2> HIDE DEF S
  <2>3. 0 .. len \subseteq S
    BY <1>3, <2>1, <2>2, UpFromZero
  <2> QED
    BY <2>3 DEF S
<1>11. Unescapes(f, C, s)
  <2>1. f \in [0 .. len -> A] /\ f[0] = Unread /\ Unescaped(s) = f[len]
    BY <1>1, <1>3, <1>8, <1>10
  <2>2. \A k \in 1 .. len : f[k] = next(f[k - 1], k)
    <3>1. \A k \in 1 .. len : k \in 0 .. len /\ k - 1 \in 0 .. len
      BY <1>3
    <3> QED
      BY <1>9, <3>1
  <2> HIDE DEF f
  <2> QED
    BY <2>1, <2>2 DEF Unescapes, A, next, len
<1> HIDE DEF f
<1> QED
  BY <1>11

(* So one more character is one more step.                                  *)
LEMMA UnescapeAppend ==
  ASSUME NEW C, Characters(C), NEW s \in Seq(C), NEW b \in C
  PROVE  /\ Unescaped(s) \in Reading(C)
         /\ Unescaped(Append(s, b)) = UnescapeStep(Unescaped(s), b)
<1> DEFINE n == Len(s)
           t == Append(s, b)
<1>1. /\ t \in Seq(C) /\ Len(t) = n + 1 /\ n \in Nat
      /\ \A i \in 1 .. n : t[i] = s[i]
      /\ t[n + 1] = b
  BY AppendProperties, LenProperties
<1>2. PICK f : Unescapes(f, C, s)
  BY UnescapeUp
<1>3. PICK g : Unescapes(g, C, t)
  BY <1>1, UnescapeUp
<1>4. /\ f[0] = Unread /\ Unescaped(s) = f[n] /\ f \in [0 .. n -> Reading(C)]
      /\ \A k \in 1 .. n : f[k] = UnescapeStep(f[k - 1], s[k])
  BY <1>2 DEF Unescapes
<1> HIDE DEF t
<1>5. /\ g[0] = Unread /\ Unescaped(t) = g[n + 1]
      /\ \A k \in 1 .. n + 1 : g[k] = UnescapeStep(g[k - 1], t[k])
  BY <1>1, <1>3 DEF Unescapes
<1> HIDE DEF n
<1>6. g[n] = f[n]
  <2> DEFINE S == {k \in 0 .. n : g[k] = f[k]}
  <2>0. n \in Nat
    BY <1>1
  <2>1. 0 \in S
    BY <2>0, <1>4, <1>5
  <2>2. ASSUME NEW k \in 0 .. n, k \in S, k < n
        PROVE  k + 1 \in S
    <3>1. k + 1 \in 1 .. n /\ k + 1 \in 1 .. n + 1 /\ (k + 1) - 1 = k /\ k + 1 \in 0 .. n
      BY <2>0, <2>2
    <3>2. /\ f[k + 1] = UnescapeStep(f[k], s[k + 1])
          /\ g[k + 1] = UnescapeStep(g[k], t[k + 1])
          /\ t[k + 1] = s[k + 1]
      BY <1>1, <1>4, <1>5, <3>1
    <3> QED
      BY <2>2, <3>1, <3>2
  <2> HIDE DEF S
  <2>3. 0 .. n \subseteq S
    BY <1>1, <2>1, <2>2, UpFromZero
  <2> QED
    BY <1>1, <2>3 DEF S
<1>7. g[n + 1] = UnescapeStep(g[n], b)
  <2>1. n + 1 \in 1 .. n + 1 /\ (n + 1) - 1 = n
    BY <1>1
  <2>2. \A k \in 1 .. n + 1 : g[k] = UnescapeStep(g[k - 1], t[k])
    BY <1>5
  <2>3. g[n + 1] = UnescapeStep(g[(n + 1) - 1], t[n + 1])
    BY <2>1, <2>2
  <2> QED
    BY <1>1, <2>1, <2>3
<1>8. f[n] \in Reading(C)
  BY <1>1, <1>4
<1> QED
  BY <1>4, <1>5, <1>6, <1>7, <1>8 DEF t

(* What the kernel writes for a character.                                  *)
Written(c) == IF c \in DOMAIN Octal THEN Octal[c] ELSE <<c>>

(* It writes a path character by character.                                 *)
LEMMA MangleAppend ==
  ASSUME NEW C, Characters(C), NEW q \in Seq(C), NEW c \in C
  PROVE  /\ Mangle(Append(q, c)) = Mangle(q) \o Written(c)
         /\ Written(c) \in Seq(C)
<1> DEFINE p == Append(q, c)
           n == Len(q)
           s == [i \in DOMAIN q |-> Written(q[i])]
           t == [i \in DOMAIN p |-> Written(p[i])]
           w == Written(c)
<1>1. \A d \in C : Written(d) \in Seq(C)
  <2>1. \A d \in C : <<d>> \in Seq(C)
    OBVIOUS
  <2> QED
    BY <2>1, Escapes DEF Written
<1>2. /\ n \in Nat /\ DOMAIN q = 1 .. n /\ \A i \in 1 .. n : q[i] \in C
      /\ p \in Seq(C) /\ Len(p) = n + 1 /\ \A i \in 1 .. n : p[i] = q[i]
      /\ p[n + 1] = c
  BY LenProperties, ElementOfSeq, AppendProperties
<1>3. DOMAIN p = 1 .. n + 1 /\ \A i \in 1 .. n + 1 : p[i] \in C
  <2> HIDE DEF p, n
  <2> QED
    BY <1>2, LenProperties, ElementOfSeq
<1>4. Mangle(q) = FlattenSeq(s) /\ Mangle(p) = FlattenSeq(t)
  BY DEF Mangle, Written
<1> HIDE DEF p, n
<1>5. /\ s \in [1 .. n -> Seq(C)] /\ t \in [1 .. n + 1 -> Seq(C)] /\ w \in Seq(C)
      /\ \A i \in 1 .. n : s[i] = t[i]
      /\ t[n + 1] = w
  BY <1>1, <1>2, <1>3
<1> HIDE DEF s, t, w
<1>6. s \in Seq(Seq(C)) /\ t \in Seq(Seq(C)) /\ Len(s) = n /\ Len(t) = n + 1
  BY <1>2, <1>5, SeqDef
<1>7. t = Append(s, w)
  <2> DEFINE u == Append(s, w)
  <2>1. /\ u \in Seq(Seq(C)) /\ Len(u) = n + 1
        /\ \A i \in 1 .. n : u[i] = s[i]
        /\ u[n + 1] = w
    BY <1>5, <1>6, AppendProperties
  <2> HIDE DEF u
  <2>2. \A i \in 1 .. n + 1 : i \in 1 .. n \/ i = n + 1
    BY <1>2
  <2>3. Len(t) = Len(u) /\ \A i \in 1 .. Len(t) : t[i] = u[i]
    BY <1>5, <1>6, <2>1, <2>2
  <2>4. t = u
    BY <1>6, <2>1, <2>3, SeqEqual
  <2> QED
    BY <2>4 DEF u
<1>8. FlattenSeq(Append(s, w)) = FlattenSeq(s) \o w
  BY <1>5, <1>6, FlattenAppend
<1> QED
  BY <1>4, <1>5, <1>7, <1>8 DEF p, w

(* Four more characters. *)
LEMMA FourMore ==
  ASSUME NEW C, NEW s \in Seq(C), NEW w \in C, NEW x \in C, NEW y \in C, NEW z \in C
  PROVE  s \o <<w, x, y, z>> = Append(Append(Append(Append(s, w), x), y), z)
<1> DEFINE n == Len(s)
           u == <<w, x, y, z>>
           l == s \o u
           s1 == Append(s, w)
           s2 == Append(s1, x)
           s3 == Append(s2, y)
           r == Append(s3, z)
<1>1. n \in Nat
  BY LenProperties
<1>2. u \in Seq(C) /\ Len(u) = 4 /\ u[1] = w /\ u[2] = x /\ u[3] = y /\ u[4] = z
  OBVIOUS
<1> HIDE DEF u
<1>3. /\ l \in Seq(C) /\ Len(l) = n + 4 /\ \A i \in 1 .. n : l[i] = s[i]
      /\ l[n + 1] = w /\ l[n + 2] = x /\ l[n + 3] = y /\ l[n + 4] = z
  <2>1. /\ l \in Seq(C) /\ Len(l) = n + Len(u)
        /\ \A i \in 1 .. n + Len(u) : l[i] = IF i <= n THEN s[i] ELSE u[i - n]
    BY <1>2, ConcatProperties
  <2> HIDE DEF l, n
  <2> QED
    BY <1>1, <1>2, <2>1
<1>4. /\ s1 \in Seq(C) /\ Len(s1) = n + 1 /\ \A i \in 1 .. n : s1[i] = s[i]
      /\ s1[n + 1] = w
  BY AppendProperties
<1> HIDE DEF s1, n, l
<1>5. /\ s2 \in Seq(C) /\ Len(s2) = n + 2 /\ \A i \in 1 .. n : s2[i] = s[i]
      /\ s2[n + 1] = w /\ s2[n + 2] = x
  <2>1. /\ s2 \in Seq(C) /\ Len(s2) = Len(s1) + 1 /\ s2[Len(s1) + 1] = x
        /\ \A i \in 1 .. Len(s1) : s2[i] = s1[i]
    BY <1>4, AppendProperties
  <2> QED
    BY <1>1, <1>4, <2>1
<1> HIDE DEF s2
<1>6. /\ s3 \in Seq(C) /\ Len(s3) = n + 3 /\ \A i \in 1 .. n : s3[i] = s[i]
      /\ s3[n + 1] = w /\ s3[n + 2] = x /\ s3[n + 3] = y
  <2>1. /\ s3 \in Seq(C) /\ Len(s3) = Len(s2) + 1 /\ s3[Len(s2) + 1] = y
        /\ \A i \in 1 .. Len(s2) : s3[i] = s2[i]
    BY <1>5, AppendProperties
  <2> QED
    BY <1>1, <1>5, <2>1
<1> HIDE DEF s3
<1>7. /\ r \in Seq(C) /\ Len(r) = n + 4 /\ \A i \in 1 .. n : r[i] = s[i]
      /\ r[n + 1] = w /\ r[n + 2] = x /\ r[n + 3] = y /\ r[n + 4] = z
  <2>1. /\ r \in Seq(C) /\ Len(r) = Len(s3) + 1 /\ r[Len(s3) + 1] = z
        /\ \A i \in 1 .. Len(s3) : r[i] = s3[i]
    BY <1>6, AppendProperties
  <2> QED
    BY <1>1, <1>6, <2>1
<1> HIDE DEF r
<1>8. \A i \in 1 .. n + 4 : i \in 1 .. n \/ i \in {n + 1, n + 2, n + 3, n + 4}
  BY <1>1
<1>9. Len(l) = Len(r) /\ \A i \in 1 .. Len(l) : l[i] = r[i]
  BY <1>3, <1>7, <1>8
<1>10. l = r
  BY <1>3, <1>7, <1>9, SeqEqual
<1> QED
  BY <1>10 DEF l, r, s1, s2, s3, u

(* What has been read of a field, and what of an escape.                    *)
Got(q, e) == [path |-> q, esc |-> e]

(* What a character does to what has been read: it is read, or begins an    *)
(* escape, or is one more of it, or the last.                               *)
LEMMA StepOf ==
  ASSUME NEW q, NEW e, NEW c
  PROVE  /\ e = << >> /\ c # "\\" =>
              UnescapeStep(Got(q, e), c) = Got(Append(q, c), e)
         /\ (e # << >> \/ c = "\\") /\ Len(e) # 3 =>
              UnescapeStep(Got(q, e), c) = Got(q, Append(e, c))
         /\ e # << >> /\ Len(e) = 3 =>
              UnescapeStep(Got(q, e), c)
                = Got(q \o Decoded(Append(e, c)), << >>)
<1> DEFINE a == [path |-> q, esc |-> e]
           p == Append(q, c)
           f == Append(e, c)
           d == q \o Decoded(Append(e, c))
           pa == [a EXCEPT !.path = Append(@, c)]
           ea == [a EXCEPT !.esc = Append(@, c)]
           ra == [path |-> a.path \o Decoded(Append(a.esc, c)), esc |-> << >>]
           next == UnescapeStep(a, c)
<1>1. next = CASE a.esc = << >> /\ c # "\\" -> pa [] Len(a.esc) = 3 -> ra [] OTHER -> ea
  BY DEF UnescapeStep
<1>2. a.path = q /\ a.esc = e
  OBVIOUS
<1>3. ra = [path |-> d, esc |-> << >>]
  BY <1>2
<1>4. pa = [path |-> p, esc |-> e]
  <2>1. \A v : [a EXCEPT !.path = v] = [path |-> v, esc |-> e]
    OBVIOUS
  <2>2. pa = [a EXCEPT !.path = p]
    BY <1>2
  <2> HIDE DEF a, p, pa
  <2> QED
    BY <2>1, <2>2
<1>5. ea = [path |-> q, esc |-> f]
  <2>1. \A v : [a EXCEPT !.esc = v] = [path |-> q, esc |-> v]
    OBVIOUS
  <2>2. ea = [a EXCEPT !.esc = f]
    BY <1>2
  <2> HIDE DEF a, f, ea
  <2> QED
    BY <2>1, <2>2
<1> HIDE DEF a, p, f, d, pa, ea, ra, next
<1>6. /\ e = << >> /\ c # "\\" => next = [path |-> p, esc |-> e]
      /\ (e # << >> \/ c = "\\") /\ Len(e) # 3 => next = [path |-> q, esc |-> f]
      /\ e # << >> /\ Len(e) = 3 => next = [path |-> d, esc |-> << >>]
  BY <1>1, <1>2, <1>3, <1>4, <1>5
<1> QED
  BY <1>6 DEF a, p, f, d, next, Got

(* And the agent reads it.                                                  *)
LEMMA WrittenRead ==
  ASSUME NEW C, Characters(C), NEW s \in Seq(C), NEW q \in Seq(C), NEW c \in C,
         Unescaped(s) = Got(q, << >>)
  PROVE  Unescaped(s \o Written(c)) = Got(Append(q, c), << >>)
<1>0. << >> \in Seq(C) /\ Len(<< >>) = 0
  BY EmptySeq
<1>1. CASE c \notin DOMAIN Octal
  <2>1. c # "\\"
    BY <1>1 DEF Octal
  <2>2. s \o Written(c) = Append(s, c)
    BY <1>1, AppendIsConcat DEF Written
  <2>3. Unescaped(Append(s, c)) = UnescapeStep(Got(q, << >>), c)
    BY UnescapeAppend
  <2> DEFINE e == << >>
  <2>4. e = << >> /\ Len(e) \in Nat
    BY <1>0
  <2> HIDE DEF e
  <2>5. UnescapeStep(Got(q, e), c) = Got(Append(q, c), << >>)
    BY <2>1, <2>4, StepOf
  <2> QED
    BY <2>2, <2>3, <2>4, <2>5
<1>2. CASE c \in DOMAIN Octal
  <2>1. PICK x \in C, y \in C, z \in C : Octal[c] = <<"\\", x, y, z>>
    BY <1>2, Escapes
  <2> DEFINE b == "\\"
             e0 == << >>
             e1 == Append(e0, b)
             e2 == Append(e1, x)
             e3 == Append(e2, y)
             e4 == Append(e3, z)
             s1 == Append(s, b)
             s2 == Append(s1, x)
             s3 == Append(s2, y)
             s4 == Append(s3, z)
  <2>2. b \in C /\ e0 \in Seq(C) /\ Len(e0) = 0 /\ e0 = << >> /\ b = "\\"
    BY <1>0 DEF Characters
  <2> HIDE DEF b, e0
  <2>3. s1 \in Seq(C) /\ e1 \in Seq(C) /\ Len(e1) = 1 /\ e1 # << >>
    <3>1. e1 \in Seq(C) /\ Len(e1) = Len(e0) + 1 /\ e1 # << >>
      BY <2>2, AppendProperties
    <3>2. s1 \in Seq(C)
      BY <2>2, AppendProperties
    <3> HIDE DEF s1, e1
    <3> QED
      BY <2>2, <3>1, <3>2
  <2> HIDE DEF s1, e1
  <2>4. s2 \in Seq(C) /\ e2 \in Seq(C) /\ Len(e2) = 2 /\ e2 # << >>
    <3>1. e2 \in Seq(C) /\ Len(e2) = Len(e1) + 1 /\ e2 # << >>
      BY <2>1, <2>3, AppendProperties
    <3>2. s2 \in Seq(C)
      BY <2>1, <2>3, AppendProperties
    <3> HIDE DEF s2, e2
    <3> QED
      BY <2>1, <2>3, <3>1, <3>2
  <2> HIDE DEF s2, e2
  <2>5. s3 \in Seq(C) /\ e3 \in Seq(C) /\ Len(e3) = 3 /\ e3 # << >>
    <3>0. e2 \in Seq(C) /\ y \in C
      BY <2>1, <2>4
    <3>1. e3 \in Seq(C) /\ Len(e3) = Len(e2) + 1 /\ e3 # << >>
      BY <3>0, AppendProperties
    <3>2. s3 \in Seq(C)
      BY <2>1, <2>4, AppendProperties
    <3> HIDE DEF s3, e3
    <3> QED
      BY <2>1, <2>4, <3>1, <3>2
  <2> HIDE DEF s3, e3
  <2>6. Unescaped(s1) = Got(q, e1)
    <3>1. Unescaped(s1) = UnescapeStep(Got(q, e0), b)
      BY <2>2, UnescapeAppend DEF s1
    <3>2. (e0 # << >> \/ b = "\\") /\ Len(e0) # 3
      BY <2>2
    <3>3. UnescapeStep(Got(q, e0), b) = Got(q, Append(e0, b))
      BY <3>2, StepOf
    <3> QED
      BY <3>1, <3>3 DEF e1
  <2>7. Unescaped(s2) = Got(q, e2)
    <3>1. Unescaped(s2) = UnescapeStep(Got(q, e1), x)
      BY <2>3, <2>6, UnescapeAppend DEF s2
    <3>2. (e1 # << >> \/ x = "\\") /\ Len(e1) # 3
      BY <2>3
    <3>3. UnescapeStep(Got(q, e1), x) = Got(q, Append(e1, x))
      BY <3>2, StepOf
    <3> QED
      BY <3>1, <3>3 DEF e2
  <2>8. Unescaped(s3) = Got(q, e3)
    <3>1. Unescaped(s3) = UnescapeStep(Got(q, e2), y)
      BY <2>4, <2>7, UnescapeAppend DEF s3
    <3>2. (e2 # << >> \/ y = "\\") /\ Len(e2) # 3
      BY <2>4
    <3>3. UnescapeStep(Got(q, e2), y) = Got(q, Append(e2, y))
      BY <3>2, StepOf
    <3> QED
      BY <3>1, <3>3 DEF e3
  <2>9. Unescaped(s4) = Got(q \o Decoded(e4), << >>)
    <3>1. Unescaped(s4) = UnescapeStep(Got(q, e3), z)
      BY <2>5, <2>8, UnescapeAppend
    <3>2. UnescapeStep(Got(q, e3), z) = Got(q \o Decoded(Append(e3, z)), << >>)
      BY <2>5, StepOf
    <3> QED
      BY <3>1, <3>2
  <2>10. e4 = Octal[c] /\ s4 = s \o Octal[c]
    <3>1. e0 \o <<b, x, y, z>> = e4 /\ s \o <<b, x, y, z>> = s4
      BY <2>2, FourMore DEF e1, e2, e3, s1, s2, s3
    <3>2. Octal[c] \in Seq(C) /\ Octal[c] = <<b, x, y, z>>
      BY <1>2, <2>1, <2>2, Escapes
    <3>3. << >> \o Octal[c] = Octal[c]
      BY <3>2, ConcatEmptySeq
    <3> QED
      BY <2>2, <3>1, <3>2, <3>3
  <2>11. Decoded(Octal[c]) = <<c>>
    <3>1. \A d \in DOMAIN Octal : Octal[d] = Octal[c] => d = c
      BY <1>2, Escapes
    <3>2. (CHOOSE d \in DOMAIN Octal : Octal[d] = Octal[c]) = c
      BY <1>2, <3>1
    <3> QED
      BY <1>2, <3>2 DEF Decoded
  <2>12. Append(q, c) = q \o <<c>>
    BY AppendIsConcat
  <2> HIDE DEF e4, s4
  <2> QED
    BY <1>2, <2>9, <2>10, <2>11, <2>12 DEF Written
<1> QED
  BY <1>1, <1>2

(* So a path is read as it was, whatever characters it has.                 *)
LEMMA UnescapeMangle ==
  ASSUME NEW p, p \in Seq(Range(p))
  PROVE  Unescape(Mangle(p)) = p
<1> DEFINE C == Range(p) \cup {" ", "\t", "\n", "\\", "0", "1", "2", "3", "4"}
           n == Len(p)
           start(k) == SubSeq(p, 1, k)
           S == {k \in 0 .. n : /\ start(k) \in Seq(C) /\ Mangle(start(k)) \in Seq(C)
                                /\ Unescaped(Mangle(start(k))) = Got(start(k), << >>)}
<1>1. Characters(C) /\ p \in Seq(C)
  <2>1. Range(p) \subseteq C
    OBVIOUS
  <2>2. Characters(C)
    BY DEF Characters
  <2> HIDE DEF C
  <2> QED
    BY <2>1, <2>2, SeqMonotonic
<1> HIDE DEF C
<1>2. n \in Nat /\ DOMAIN p = 1 .. n /\ \A i \in 1 .. n : p[i] \in C
  BY <1>1, LenProperties, ElementOfSeq
<1>3. 0 \in S
  <2>1. start(0) = << >> /\ << >> \in Seq(C) /\ DOMAIN << >> = {} /\ Len(<< >>) = 0
    BY SubSeqEmpty, EmptySeq
  <2>2. Mangle(<< >>) = << >>
    <3>1. [i \in DOMAIN << >> |-> Written((<< >>)[i])] = << >>
      OBVIOUS
    <3>2. FlattenSeq(<< >>) = << >>
      <4>1. << >> \in Seq(Seq(C))
        BY EmptySeq
      <4>2. PICK f : Flattens(f, C, << >>)
        BY <4>1, FlattenUp
      <4> QED
        BY <2>1, <4>2 DEF Flattens
    <3> QED
      BY <3>1, <3>2 DEF Mangle, Written
  <2>3. Unescaped(<< >>) = Got(<< >>, << >>)
    <3>1. PICK f : Unescapes(f, C, << >>)
      BY <1>1, <2>1, UnescapeUp
    <3> QED
      BY <2>1, <3>1 DEF Unescapes, Unread
  <2>4. /\ start(0) \in Seq(C) /\ Mangle(start(0)) \in Seq(C)
        /\ Unescaped(Mangle(start(0))) = Got(start(0), << >>)
    BY <2>1, <2>2, <2>3
  <2>5. 0 \in 0 .. n
    BY <1>2
  <2> HIDE DEF start, n
  <2> QED
    BY <2>4, <2>5
<1>4. ASSUME NEW k \in 0 .. n, k \in S, k < n
      PROVE  k + 1 \in S
  <2>1. /\ start(k) \in Seq(C) /\ Mangle(start(k)) \in Seq(C)
        /\ Unescaped(Mangle(start(k))) = Got(start(k), << >>)
    BY <1>4
  <2> DEFINE j == k + 1
             q == start(k)
             c == p[j]
  <2>2. j \in 1 .. n /\ j \in 0 .. n /\ j - 1 = k /\ 1 \in 1 .. n /\ c \in C
    BY <1>2, <1>4
  <2> HIDE DEF j
  <2>3. SubSeq(p, 1, j) = SubSeq(p, 1, j - 1) \o <<p[j]>>
    BY <1>1, <2>2, SubSeqRecursiveSecond
  <2>4. start(j) = q \o <<c>>
    BY <2>2, <2>3
  <2>5. q \in Seq(C) /\ Mangle(q) \in Seq(C) /\ Unescaped(Mangle(q)) = Got(q, << >>)
    BY <2>1
  <2> HIDE DEF q, c, start
  <2>6. start(j) = Append(q, c) /\ Append(q, c) \in Seq(C)
    BY <2>2, <2>4, <2>5, AppendIsConcat, AppendProperties
  <2>7. Mangle(Append(q, c)) = Mangle(q) \o Written(c) /\ Written(c) \in Seq(C)
    BY <1>1, <2>2, <2>5, MangleAppend
  <2>8. Mangle(q) \o Written(c) \in Seq(C)
    BY <2>5, <2>7, ConcatProperties
  <2>9. Unescaped(Mangle(q) \o Written(c)) = Got(Append(q, c), << >>)
    <3> DEFINE m == Mangle(q)
    <3>1. m \in Seq(C) /\ Unescaped(m) = Got(q, << >>)
      BY <2>5
    <3> HIDE DEF m
    <3>2. Unescaped(m \o Written(c)) = Got(Append(q, c), << >>)
      BY <1>1, <2>2, <2>5, <3>1, WrittenRead
    <3> QED
      BY <3>2 DEF m
  <2> QED
    BY <2>2, <2>6, <2>7, <2>8, <2>9 DEF j
<1> HIDE DEF S
<1>5. n \in S
  <2>1. 0 .. n \subseteq S
    BY <1>2, <1>3, <1>4, UpFromZero
  <2> QED
    BY <1>2, <2>1
<1>6. start(n) = p
  BY <1>1, SubSeqFull
<1>7. Unescaped(Mangle(p)) = Got(p, << >>)
  BY <1>5, <1>6 DEF S
<1>8. p \o << >> = p
  BY <1>1, ConcatEmptySeq
<1> QED
  BY <1>7, <1>8 DEF Unescape, Got

-----------------------------------------------------------------------------
(* The disks, each once. *)

(* Three characters of a path. *)
LEMMA ThreeOf ==
  ASSUME NEW t, NEW a, NEW b, NEW c
  PROVE  SubSeq(t, 1, 3) = <<a, b, c>> <=> t[1] = a /\ t[2] = b /\ t[3] = c
<1> DEFINE s == SubSeq(t, 1, 3)
           u == <<a, b, c>>
           C == {t[1], t[2], t[3]}
<1>1. DOMAIN s = 1 .. 3 /\ \A i \in 1 .. 3 : s[i] = t[i]
  <2>1. \A i \in 1 .. 3 : t[i] \in C
    OBVIOUS
  <2> HIDE DEF C
  <2>2. /\ s \in Seq(C) /\ Len(s) = IF 1 <= 3 THEN 3 - 1 + 1 ELSE 0
        /\ \A i \in 1 .. 3 - 1 + 1 : s[i] = t[1 + i - 1]
    BY <2>1, SubSeqProperties
  <2> HIDE DEF s
  <2>3. \A i \in 1 .. 3 : i \in 1 .. 3 - 1 + 1 /\ 1 + i - 1 = i
    OBVIOUS
  <2>4. Len(s) = 3 /\ \A i \in 1 .. 3 : s[i] = t[i]
    BY <2>2, <2>3
  <2> QED
    BY <2>2, <2>4, LenProperties
<1>2. u = [i \in 1 .. 3 |-> u[i]] /\ u[1] = a /\ u[2] = b /\ u[3] = c
  OBVIOUS
<1>3. s = [i \in 1 .. 3 |-> s[i]]
  BY <1>1
<1> HIDE DEF s, u
<1>4. \A i \in 1 .. 3 : i = 1 \/ i = 2 \/ i = 3
  OBVIOUS
<1>5. s = u <=> s[1] = u[1] /\ s[2] = u[2] /\ s[3] = u[3]
  BY <1>2, <1>3, <1>4
<1> QED
  BY <1>1, <1>2, <1>5 DEF s, u

(* A path is runtime state or lasting. *)
LEMMA RuntimeOrLasting ==
  ASSUME NEW p, p \in Seq(Range(p))
  PROVE  IsRuntime(p) <=> ~Lasting(p)
<1> DEFINE C == Range(p) \cup {"/"}
           t == p \o <<"/", "/">>
           n == Len(p)
           Dirs == {"run", "dev", "nix"}
<1>1. p \in Seq(C) /\ <<"/", "/">> \in Seq(C)
  <2>1. Range(p) \subseteq C /\ "/" \in C
    OBVIOUS
  <2> HIDE DEF C
  <2> QED
    BY <2>1, SeqMonotonic
<1>2. n \in Nat
  BY LenProperties
<1>3. /\ t \in Seq(C) /\ Len(t) = n + 2
      /\ \A i \in 1 .. n : t[i] = p[i]
      /\ t[n + 1] = "/" /\ t[n + 2] = "/"
  <2> DEFINE u == <<"/", "/">>
  <2>1. Len(u) = 2 /\ u[1] = "/" /\ u[2] = "/"
    OBVIOUS
  <2>2. u \in Seq(C)
    BY <1>1
  <2> HIDE DEF u
  <2>3. /\ p \o u \in Seq(C) /\ Len(p \o u) = n + Len(u)
        /\ \A i \in 1 .. n + Len(u) : (p \o u)[i] = IF i <= n THEN p[i] ELSE u[i - n]
    BY <1>1, <2>2, ConcatProperties
  <2> HIDE DEF n
  <2>4. n + 1 \in 1 .. n + 2 /\ n + 2 \in 1 .. n + 2 /\ ~(n + 1 <= n) /\ ~(n + 2 <= n)
        /\ (n + 1) - n = 1 /\ (n + 2) - n = 2 /\ \A i \in 1 .. n : i \in 1 .. n + 2 /\ i <= n
    BY <1>2
  <2> QED
    BY <2>1, <2>3, <2>4 DEF u
<1>4. \A dir \in Dirs : dir # "/"
  OBVIOUS
<1> HIDE DEF C, t, n, Dirs
<1>5. Lasting(p) <=> \A dir \in Dirs : SubSeq(t, 1, 3) # <<"/", dir, "/">>
  BY DEF Lasting, t, Dirs
<1>6. IsRuntime(p) <=>
        \E dir \in Dirs : p = <<"/", dir>> \/ (3 <= n /\ SubSeq(p, 1, 3) = <<"/", dir, "/">>)
  <2>1. ASSUME NEW dir
        PROVE  IsPrefix(<<"/", dir, "/">>, p) <=> 3 <= n /\ SubSeq(p, 1, 3) = <<"/", dir, "/">>
    <3> DEFINE w == <<"/", dir, "/">>
    <3>1. Len(w) = 3 /\ w \in Seq({"/", dir})
      OBVIOUS
    <3> HIDE DEF w
    <3>2. SubSeq(w, 1, Len(w)) = w
      BY <3>1, SubSeqFull
    <3>3. IsPrefix(w, p) <=> 3 <= n /\ SubSeq(p, 1, 3) = w
      BY <3>1, <3>2 DEF IsPrefix, n
    <3> QED
      BY <3>3 DEF w
  <2> QED
    BY <2>1 DEF IsRuntime, Dirs
<1>7. ASSUME NEW dir \in Dirs
      PROVE  SubSeq(t, 1, 3) = <<"/", dir, "/">> <=>
               p = <<"/", dir>> \/ (3 <= n /\ SubSeq(p, 1, 3) = <<"/", dir, "/">>)
  <2>1. /\ SubSeq(t, 1, 3) = <<"/", dir, "/">> <=> t[1] = "/" /\ t[2] = dir /\ t[3] = "/"
        /\ SubSeq(p, 1, 3) = <<"/", dir, "/">> <=> p[1] = "/" /\ p[2] = dir /\ p[3] = "/"
    BY ThreeOf
  <2>2. p = <<"/", dir>> <=> n = 2 /\ p[1] = "/" /\ p[2] = dir
    <3> DEFINE u == <<"/", dir>>
    <3>1. Len(u) = 2 /\ u[1] = "/" /\ u[2] = dir /\ u \in Seq({"/", dir})
      OBVIOUS
    <3>2. CASE n = 2 /\ p[1] = "/" /\ p[2] = dir
      <4>1. \A i \in 1 .. 2 : i = 1 \/ i = 2
        OBVIOUS
      <4>2. /\ DOMAIN p = 1 .. 2 /\ DOMAIN u = 1 .. 2
            /\ p = [i \in DOMAIN p |-> p[i]] /\ u = [i \in DOMAIN u |-> u[i]]
        <5>1. DOMAIN p = 1 .. 2 /\ p = [i \in DOMAIN p |-> p[i]]
          BY <3>2, SeqDef, LenProperties DEF n
        <5>2. DOMAIN u = 1 .. 2 /\ u = [i \in DOMAIN u |-> u[i]]
          OBVIOUS
        <5> QED
          BY <5>1, <5>2
      <4> HIDE DEF u
      <4>3. p = u
        BY <3>1, <3>2, <4>1, <4>2
      <4> QED
        BY <3>2, <4>3 DEF u
    <3>3. CASE p = u
      BY <3>1, <3>3 DEF n
    <3> QED
      BY <3>2, <3>3
  <2> DEFINE A == SubSeq(t, 1, 3) = <<"/", dir, "/">>
             B == SubSeq(p, 1, 3) = <<"/", dir, "/">>
             D == p = <<"/", dir>>
  <2> HIDE DEF A, B, D
  <2>3. /\ A <=> t[1] = "/" /\ t[2] = dir /\ t[3] = "/"
        /\ B <=> p[1] = "/" /\ p[2] = dir /\ p[3] = "/"
        /\ D <=> n = 2 /\ p[1] = "/" /\ p[2] = dir
        /\ dir # "/"
    BY <1>4, <2>1, <2>2 DEF A, B, D
  <2>4. CASE n = 0
    <3>1. t[2] = "/"
      BY <1>3, <2>4
    <3> QED
      BY <2>3, <2>4, <3>1 DEF A, B, D
  <2>5. CASE n = 1
    <3>1. t[2] = "/"
      BY <1>3, <2>5
    <3> QED
      BY <2>3, <2>5, <3>1 DEF A, B, D
  <2>6. CASE n = 2
    <3>1. t[1] = p[1] /\ t[2] = p[2] /\ t[3] = "/"
      BY <1>3, <2>6
    <3> QED
      BY <2>3, <2>6, <3>1 DEF A, B, D
  <2>7. CASE n >= 3
    <3>1. t[1] = p[1] /\ t[2] = p[2] /\ t[3] = p[3] /\ n # 2
      BY <1>2, <1>3, <2>7
    <3> QED
      BY <2>3, <2>7, <3>1 DEF A, B, D
  <2> QED
    BY <1>2, <2>4, <2>5, <2>6, <2>7
<1> QED
  BY <1>5, <1>6, <1>7
(* A machine's mounts: its paths have characters, and a mount point is a    *)
(* path as the kernel writes it.                                            *)
Mounted(mounts, fs) ==
  /\ Len(mounts) \in Nat /\ DOMAIN mounts = 1 .. Len(mounts)
  /\ \A p \in DOMAIN fs :
       /\ p \in Seq(Range(p))
       /\ fs[p].blocks \in Nat /\ fs[p].bfree \in Nat
       /\ fs[p].frsize \in Nat /\ fs[p].bsize \in Nat
  /\ \A i \in DOMAIN mounts :
       mounts[i].whole => Mangle(Unescape(mounts[i].point)) = mounts[i].point

(* The lines that count, before a path is looked at.                        *)
Eligible(mounts) ==
  {i \in DOMAIN mounts :
     /\ mounts[i].whole /\ mounts[i].fstype # "9p" /\ "ro" \notin mounts[i].options
     /\ ~IsRuntime(Unescape(mounts[i].point))}

(* The path that is read of a line is the one the line is about.            *)
LEMMA PathTrue ==
  ASSUME NEW mounts, NEW fs, Mounted(mounts, fs),
         NEW i \in DOMAIN mounts, mounts[i].whole
  PROVE  /\ \A p \in DOMAIN fs : Mangle(p) = mounts[i].point <=> p = Unescape(mounts[i].point)
         /\ Unescape(mounts[i].point) \in DOMAIN fs =>
              PathAt(mounts, fs, i) = Unescape(mounts[i].point)
<1> DEFINE q == Unescape(mounts[i].point)
<1>1. Mangle(q) = mounts[i].point
  BY DEF Mounted
<1>2. ASSUME NEW p \in DOMAIN fs, Mangle(p) = mounts[i].point
      PROVE  p = q
  <2>1. p \in Seq(Range(p))
    BY DEF Mounted
  <2>2. Unescape(Mangle(p)) = p
    BY <2>1, UnescapeMangle
  <2> QED
    BY <1>2, <2>2
<1>3. \A p \in DOMAIN fs : Mangle(p) = mounts[i].point <=> p = q
  BY <1>1, <1>2
<1> HIDE DEF q
<1>4. q \in DOMAIN fs => PathAt(mounts, fs, i) = q
  BY <1>3 DEF PathAt
<1> QED
  BY <1>3, <1>4 DEF q

(* So the lines that show a disk are those that count and have blocks.      *)
LEMMA ShownAre ==
  ASSUME NEW mounts, NEW fs, Mounted(mounts, fs)
  PROVE  Shown(mounts, fs) =
           {i \in Eligible(mounts) : /\ Unescape(mounts[i].point) \in DOMAIN fs
                                     /\ fs[Unescape(mounts[i].point)].blocks > 0}
<1> SUFFICES ASSUME NEW i \in DOMAIN mounts, mounts[i].whole
             PROVE  (\E p \in DOMAIN fs :
                       Mangle(p) = mounts[i].point /\ fs[p].blocks > 0 /\ Lasting(p))
                    <=> /\ ~IsRuntime(Unescape(mounts[i].point))
                        /\ Unescape(mounts[i].point) \in DOMAIN fs
                        /\ fs[Unescape(mounts[i].point)].blocks > 0
  BY DEF Shown, Eligible
<1> DEFINE q == Unescape(mounts[i].point)
<1>1. \A p \in DOMAIN fs : Mangle(p) = mounts[i].point <=> p = q
  BY PathTrue
<1>2. q \in DOMAIN fs => (IsRuntime(q) <=> ~Lasting(q))
  BY RuntimeOrLasting DEF Mounted
<1> HIDE DEF q
<1>3. (\E p \in DOMAIN fs : Mangle(p) = mounts[i].point /\ fs[p].blocks > 0 /\ Lasting(p))
        <=> q \in DOMAIN fs /\ fs[q].blocks > 0 /\ Lasting(q)
  BY <1>1
<1> QED
  BY <1>2, <1>3 DEF q

(* Of the lines of each disk the first. *)
Firsts(S, d) == {i \in S : \A j \in S : d[j] = d[i] => i <= j}

(* What has been found after k lines, where the lines that count are E,     *)
(* those that show a disk S, and q and d tell their paths and devices.      *)
Listed(E, S, q, d, k, seen, devices, disks) ==
  /\ \A i \in E : i <= k => q[i] \in seen
  /\ \A p \in seen : \E i \in E : i <= k /\ q[i] = p
  /\ \A i \in S : i <= k => d[i] \in devices
  /\ \A v \in devices : \E i \in S : i <= k /\ d[i] = v
  /\ Len(disks) = Cardinality({i \in Firsts(S, d) : i <= k})
  /\ \A m \in 1 .. Len(disks) : \E i \in Firsts(S, d) :
       i <= k /\ UpTo(Firsts(S, d), i) = m /\ disks[m].mount_point = q[i]

(* One line more.                                                           *)
LEMMA ListedStep ==
  ASSUME NEW n \in Nat, NEW E \in SUBSET (1 .. n), NEW S \in SUBSET E, NEW q, NEW d,
         \A i \in S, j \in E : q[i] = q[j] => j \in S /\ d[i] = d[j],
         NEW k \in 0 .. n, k < n,
         NEW seen, NEW devices, NEW D, NEW disks \in Seq(D),
         Listed(E, S, q, d, k, seen, devices, disks)
  PROVE  /\ k + 1 \notin E \/ (k + 1 \in E /\ q[k + 1] \in seen) =>
              Listed(E, S, q, d, k + 1, seen, devices, disks)
         /\ k + 1 \in E \ S \/ (k + 1 \in S /\ d[k + 1] \in devices) =>
              Listed(E, S, q, d, k + 1, seen \cup {q[k + 1]}, devices, disks)
         /\ k + 1 \in S /\ d[k + 1] \notin devices =>
              \A disk \in D : disk.mount_point = q[k + 1] =>
                Listed(E, S, q, d, k + 1, seen \cup {q[k + 1]}, devices \cup {d[k + 1]},
                       Append(disks, disk))
<1> DEFINE l == k + 1
           F == Firsts(S, d)
           c(j) == Cardinality({i \in F : i <= j})
<1>1. k \in Nat /\ l \in 1 .. n /\ \A i \in 1 .. n : i <= l <=> i <= k \/ i = l
  OBVIOUS
<1>2. F \subseteq S /\ \A i \in F, j \in S : d[j] = d[i] => i <= j
  BY DEF Firsts
<1>3. IsFiniteSet({i \in F : i <= k})
  <2>1. IsFiniteSet(1 .. n) /\ {i \in F : i <= k} \in SUBSET (1 .. n)
    <3>1. IsFiniteSet(1 .. n)
      BY FS_Interval
    <3>2. {i \in F : i <= k} \in SUBSET (1 .. n)
      BY <1>2
    <3> QED
      BY <3>1, <3>2
  <2> QED
    BY <2>1, FS_Subset
<1>4. l \in F => c(l) = c(k) + 1 /\ UpTo(F, l) = c(k) + 1
  <2> DEFINE U == {i \in F : i <= k}
  <2>1. l \notin U
    OBVIOUS
  <2>2. l \in F => {i \in F : i <= l} = U \cup {l}
    BY <1>1, <1>2
  <2>3. IsFiniteSet(U)
    BY <1>3
  <2> HIDE DEF U, l, F
  <2>4. Cardinality(U \cup {l}) = Cardinality(U) + 1
    BY <2>1, <2>3, FS_AddElement
  <2> QED
    BY <2>2, <2>4 DEF U, UpTo
<1>5. l \notin F => c(l) = c(k)
  <2>1. l \notin F => {i \in F : i <= l} = {i \in F : i <= k}
    BY <1>1, <1>2
  <2> QED
    BY <2>1
<1> HIDE DEF c
<1>6. /\ \A i \in E : i <= k => q[i] \in seen
      /\ \A p \in seen : \E i \in E : i <= k /\ q[i] = p
      /\ \A i \in S : i <= k => d[i] \in devices
      /\ \A v \in devices : \E i \in S : i <= k /\ d[i] = v
      /\ Len(disks) = c(k)
      /\ \A m \in 1 .. Len(disks) : \E i \in F :
           i <= k /\ UpTo(F, i) = m /\ disks[m].mount_point = q[i]
  BY DEF Listed, c
<1> HIDE DEF F
<1>7. ASSUME NEW j \in S, j <= k, l \in S, d[j] = d[l]
      PROVE  l \notin F
  BY <1>1, <1>2, <1>7
<1>8. ASSUME l \notin F
      PROVE  /\ Len(disks) = c(l)
             /\ \A m \in 1 .. Len(disks) : \E i \in F :
                  i <= l /\ UpTo(F, i) = m /\ disks[m].mount_point = q[i]
  BY <1>1, <1>2, <1>5, <1>6, <1>8
<1>9. ASSUME l \notin E \/ (l \in E /\ q[l] \in seen)
      PROVE  Listed(E, S, q, d, l, seen, devices, disks)
  <2>1. l \in S => \E j \in S : j <= k /\ d[j] = d[l]
    BY <1>6, <1>9
  <2>2. l \notin F
    BY <1>2, <1>7, <2>1
  <2>3. /\ \A i \in E : i <= l => q[i] \in seen
        /\ \A p \in seen : \E i \in E : i <= l /\ q[i] = p
    BY <1>1, <1>6, <1>9
  <2>4. /\ \A i \in S : i <= l => d[i] \in devices
        /\ \A v \in devices : \E i \in S : i <= l /\ d[i] = v
    BY <1>1, <1>6, <2>1
  <2> QED
    BY <1>8, <2>2, <2>3, <2>4 DEF Listed, c, F
<1> DEFINE more == seen \cup {q[l]}
<1>10. ASSUME l \in E
       PROVE  /\ \A i \in E : i <= l => q[i] \in more
              /\ \A p \in more : \E i \in E : i <= l /\ q[i] = p
  BY <1>1, <1>6, <1>10
<1> HIDE DEF more
<1>11. ASSUME l \in E \ S \/ (l \in S /\ d[l] \in devices)
       PROVE  Listed(E, S, q, d, l, more, devices, disks)
  <2>1. l \in S => \E j \in S : j <= k /\ d[j] = d[l]
    BY <1>6, <1>11
  <2>2. l \notin F /\ l \in E
    BY <1>2, <1>7, <1>11, <2>1
  <2>3. /\ \A i \in S : i <= l => d[i] \in devices
        /\ \A v \in devices : \E i \in S : i <= l /\ d[i] = v
    BY <1>1, <1>6, <2>1
  <2> QED
    BY <1>8, <1>10, <2>2, <2>3 DEF Listed, c, F
<1>12. ASSUME l \in S, d[l] \notin devices, NEW disk \in D, disk.mount_point = q[l]
       PROVE  Listed(E, S, q, d, l, more, devices \cup {d[l]}, Append(disks, disk))
  <2> DEFINE devs == devices \cup {d[l]}
             longer == Append(disks, disk)
  <2>1. l \in F /\ l \in E
    <3>1. ASSUME NEW j \in S, d[j] = d[l]
          PROVE  l <= j
      <4>1. ~(j <= k)
        BY <1>6, <1>12, <3>1
      <4>2. j \in Nat /\ k \in Nat
        BY <1>1
      <4> QED
        BY <4>1, <4>2
    <3> QED
      BY <1>12, <3>1 DEF F, Firsts
  <2>2. /\ \A i \in S : i <= l => d[i] \in devs
        /\ \A v \in devs : \E i \in S : i <= l /\ d[i] = v
    BY <1>1, <1>6, <1>12
  <2> HIDE DEF devs
  <2>3. /\ Len(longer) = Len(disks) + 1
        /\ \A m \in 1 .. Len(disks) : longer[m] = disks[m]
        /\ longer[Len(disks) + 1] = disk
    BY AppendProperties
  <2>4. Len(disks) \in Nat
    BY LenProperties
  <2> HIDE DEF longer
  <2>5. Len(longer) = c(l)
    BY <1>4, <1>6, <2>1, <2>3
  <2>6. ASSUME NEW m \in 1 .. Len(longer)
        PROVE  \E i \in F : i <= l /\ UpTo(F, i) = m /\ longer[m].mount_point = q[i]
    <3>1. CASE m \in 1 .. Len(disks)
      <4>1. PICK i \in F : i <= k /\ UpTo(F, i) = m /\ disks[m].mount_point = q[i]
        BY <1>6, <3>1
      <4>2. i <= l
        BY <1>1, <1>2, <4>1
      <4> QED
        BY <2>3, <3>1, <4>1, <4>2
    <3>2. CASE m = Len(disks) + 1
      <4>1. UpTo(F, l) = m /\ longer[m].mount_point = q[l] /\ l <= l
        BY <1>1, <1>4, <1>6, <1>12, <2>1, <2>3, <3>2
      <4> QED
        BY <2>1, <4>1
    <3> QED
      BY <2>3, <2>4, <3>1, <3>2
  <2> QED
    BY <1>10, <2>1, <2>2, <2>5, <2>6 DEF Listed, c, F, devs, longer
<1> QED
  BY <1>9, <1>11, <1>12 DEF more

(* The place of a line among them tells it.                                 *)
LEMMA NthIs ==
  ASSUME NEW n \in Nat, NEW F \in SUBSET (1 .. n), NEW i \in F
  PROVE  Nth(F, UpTo(F, i)) = i
<1> DEFINE U(j) == {m \in F : m <= j}
<1>1. ASSUME NEW j \in F, NEW m \in F, j < m
      PROVE  UpTo(F, j) # UpTo(F, m)
  <2>1. IsFiniteSet(U(m))
    <3>1. IsFiniteSet(1 .. n)
      BY FS_Interval
    <3>2. U(m) \in SUBSET (1 .. n)
      OBVIOUS
    <3> HIDE DEF U
    <3> QED
      BY <3>1, <3>2, FS_Subset
  <2>2. U(j) \in SUBSET U(m) /\ m \in U(m) /\ m \notin U(j)
    <3>1. j \in Nat /\ m \in Nat /\ \A x \in F : x \in Nat
      OBVIOUS
    <3>2. ~(m <= j) /\ m <= m /\ \A x \in F : x <= j => x <= m
      BY <1>1, <3>1
    <3> QED
      BY <3>2
  <2> HIDE DEF U
  <2>3. Cardinality(U(m)) = Cardinality(U(j)) => U(m) = U(j)
    BY <2>1, <2>2, FS_Subset
  <2> QED
    BY <2>2, <2>3 DEF UpTo, U
<1>2. ASSUME NEW j \in F, UpTo(F, j) = UpTo(F, i)
      PROVE  j = i
  <2>1. j < i \/ i < j \/ i = j
    OBVIOUS
  <2> QED
    BY <1>1, <1>2, <2>1
<1> QED
  BY <1>2 DEF Nth
(* A path that is no disk, or one of a disk that is known. *)
NoNewDisk(path, acc, fs) ==
  path \notin DOMAIN fs \/ fs[path].blocks = 0 \/ fs[path].dev \in acc.devices

DiskAt(path, fs, disk) ==
  [mount_point |-> path, usage |-> DiskOf(fs[path]), label |-> DeviceLabel(disk, fs[path].dev)]

(* What becomes of a line: it is passed over; or its path is remembered; or *)
(* it is a disk.                                                            *)
LEMMA Considered ==
  ASSUME NEW acc, NEW line, NEW fs, NEW disk, NEW path, path = Unescape(line.point)
  PROVE  Consider(acc, line, fs, disk) =
           IF Skipped(acc, line) THEN acc
           ELSE IF NoNewDisk(path, acc, fs) THEN [acc EXCEPT !.seen = @ \cup {path}]
           ELSE [seen    |-> acc.seen \cup {path},
                 devices |-> acc.devices \cup {fs[path].dev},
                 disks   |-> Append(acc.disks, DiskAt(path, fs, disk))]
BY DEF Consider, Known, NoNewDisk, DiskAt

(* The disks that are found are the right ones, for any mounts.             *)
LEMMA DisksTrue ==
  ASSUME NEW mounts, NEW fs, NEW disk, Mounted(mounts, fs)
  PROVE  [k \in DOMAIN Disks(mounts, fs, disk) |-> Disks(mounts, fs, disk)[k].mount_point]
           = [k \in 1 .. Cardinality(FirstOnes(mounts, fs)) |->
                PathAt(mounts, fs, Nth(FirstOnes(mounts, fs), k))]
<1> DEFINE n == Len(mounts)
           E == Eligible(mounts)
           S == Shown(mounts, fs)
           q == [i \in 1 .. n |-> Unescape(mounts[i].point)]
           d == [i \in S |-> fs[q[i]].dev]
           F == Firsts(S, d)
           D == [mount_point : DOMAIN fs, usage : Usage,
                 label : {DeviceLabel(disk, fs[p].dev) : p \in DOMAIN fs}]
           list == Disks(mounts, fs, disk)
<1>1. /\ n \in Nat /\ DOMAIN mounts = 1 .. n
      /\ \A p \in DOMAIN fs : /\ fs[p].blocks \in Nat /\ fs[p].bfree \in Nat
                              /\ fs[p].frsize \in Nat /\ fs[p].bsize \in Nat
  BY DEF Mounted
<1>2. PICK f : Considers(f, mounts, fs, disk)
  BY <1>1, DisksUp
<1>3. E \in SUBSET (1 .. n)
  BY <1>1 DEF Eligible
<1>4. /\ S \in SUBSET E
      /\ \A i \in E : i \in S <=> q[i] \in DOMAIN fs /\ fs[q[i]].blocks > 0
  <2>1. S = {i \in E : /\ Unescape(mounts[i].point) \in DOMAIN fs
                       /\ fs[Unescape(mounts[i].point)].blocks > 0}
    BY ShownAre
  <2> HIDE DEF E, S
  <2> QED
    BY <1>3, <2>1
<1>5. \A i \in S : d[i] = fs[q[i]].dev /\ q[i] \in DOMAIN fs /\ PathAt(mounts, fs, i) = q[i]
  <2>1. ASSUME NEW i \in S
        PROVE  PathAt(mounts, fs, i) = Unescape(mounts[i].point)
    <3>1. i \in DOMAIN mounts /\ mounts[i].whole
      BY DEF Shown
    <3>2. Unescape(mounts[i].point) \in DOMAIN fs
      BY <1>3, <1>4
    <3> HIDE DEF S
    <3> QED
      BY <3>1, <3>2, PathTrue
  <2> HIDE DEF S, E
  <2> QED
    BY <1>3, <1>4, <2>1
<1>6. F = FirstOnes(mounts, fs)
  <2> DEFINE dev(i) == fs[PathAt(mounts, fs, i)].dev
  <2>1. FirstOnes(mounts, fs) = {i \in S : \A j \in S : dev(j) = dev(i) => i <= j}
    BY DEF FirstOnes
  <2>2. \A i \in S : d[i] = dev(i)
    BY <1>5
  <2> HIDE DEF S, d, dev
  <2> QED
    BY <2>1, <2>2 DEF Firsts
<1> DEFINE right(k) == Listed(E, S, q, d, k, f[k].seen, f[k].devices, f[k].disks)
           G == {k \in 0 .. n : right(k)}
<1>7. /\ f \in [0 .. n -> Found(mounts, fs, disk)] /\ f[0] = Nothing
      /\ \A k \in 1 .. n : f[k] = Consider(f[k - 1], mounts[k], fs, disk)
      /\ list = f[n].disks
  BY <1>2 DEF Considers
<1>8. \A i \in 1 .. n : q[i] = Unescape(mounts[i].point)
  OBVIOUS
<1>9. \A i \in S, j \in E : q[i] = q[j] => j \in S /\ d[i] = d[j]
  <2> HIDE DEF S, E, q, d
  <2> QED
    BY <1>4, <1>5
<1>10. ASSUME NEW p \in DOMAIN fs
       PROVE  DiskAt(p, fs, disk) \in D /\ DiskAt(p, fs, disk).mount_point = p
  BY <1>1, <1>10, DiskWithin DEF DiskAt
<1>11. \A k \in 0 .. n : f[k].disks \in Seq(D)
  BY <1>7 DEF Found
<1> HIDE DEF E, S, q, d, F, D, n, list
<1>12. right(0)
  <2>1. /\ Nothing.seen = {} /\ Nothing.devices = {} /\ Nothing.disks = << >>
        /\ Len(<< >>) = 0
    BY EmptySeq DEF Nothing
  <2>2. \A i \in 1 .. n : ~(i <= 0)
    BY <1>1
  <2>3. Cardinality({i \in Firsts(S, d) : i <= 0}) = 0
    <3>1. {i \in Firsts(S, d) : i <= 0} = {}
      BY <1>3, <1>4, <2>2 DEF Firsts
    <3> QED
      BY <3>1, FS_EmptySet
  <2> DEFINE none == << >>
  <2>4. none = << >> /\ 1 .. 0 = {}
    OBVIOUS
  <2> HIDE DEF none
  <2>5. Listed(E, S, q, d, 0, {}, {}, none)
    BY <1>3, <1>4, <2>1, <2>2, <2>3, <2>4 DEF Listed
  <2> QED
    BY <1>7, <2>1, <2>4, <2>5
<1>13. ASSUME NEW k \in 0 .. n, right(k), k < n
       PROVE  right(k + 1)
  <2> DEFINE l == k + 1
             acc == f[k]
             line == mounts[l]
             path == q[l]
             x == DiskAt(path, fs, disk)
             goal(seen, devices, disks) == Listed(E, S, q, d, l, seen, devices, disks)
  <2>1. l \in 1 .. n /\ l \in 0 .. n /\ l - 1 = k /\ l \in DOMAIN mounts
    BY <1>1, <1>13
  <2> HIDE DEF l
  <2>2. f[l] = Consider(acc, line, fs, disk) /\ path = Unescape(line.point)
    BY <1>7, <1>8, <2>1
  <2>3. Skipped(acc, line) <=> l \notin E \/ (l \in E /\ q[l] \in acc.seen)
    BY <2>1, <2>2 DEF Skipped, E, Eligible
  <2>4. Listed(E, S, q, d, k, acc.seen, acc.devices, acc.disks)
    BY <1>13
  <2>5. acc \in Found(mounts, fs, disk) /\ acc.disks \in Seq(D)
    BY <1>7, <1>11
  <2>6. /\ l \notin E \/ (l \in E /\ path \in acc.seen) =>
             goal(acc.seen, acc.devices, acc.disks)
        /\ l \in E \ S \/ (l \in S /\ d[l] \in acc.devices) =>
             goal(acc.seen \cup {path}, acc.devices, acc.disks)
        /\ l \in S /\ d[l] \notin acc.devices => \A y \in D : y.mount_point = path =>
             goal(acc.seen \cup {path}, acc.devices \cup {d[l]}, Append(acc.disks, y))
    <3> HIDE DEF acc, D
    <3> QED
      BY <1>1, <1>3, <1>4, <1>9, <1>13, <2>4, <2>5, ListedStep DEF path, l
  <2>7. l \in E => (l \in S <=> path \in DOMAIN fs /\ fs[path].blocks > 0)
    BY <1>4
  <2>8. l \in S => d[l] = fs[path].dev /\ path \in DOMAIN fs /\ x \in D /\ x.mount_point = path
    BY <1>5, <1>10
  <2>9. path \in DOMAIN fs => fs[path].blocks \in Nat
    BY <1>1
  <2> DEFINE kept == [acc EXCEPT !.seen = @ \cup {path}]
             new == [seen |-> acc.seen \cup {path}, devices |-> acc.devices \cup {fs[path].dev},
                     disks |-> Append(acc.disks, x)]
  <2>10. f[l] = IF Skipped(acc, line) THEN acc
                ELSE IF NoNewDisk(path, acc, fs) THEN kept ELSE new
    <3> HIDE DEF acc, line, path, x, kept, new
    <3>1. f[l] = Consider(acc, line, fs, disk) /\ path = Unescape(line.point)
      BY <2>2
    <3>2. Consider(acc, line, fs, disk) =
            IF Skipped(acc, line) THEN acc ELSE IF NoNewDisk(path, acc, fs) THEN kept ELSE new
      BY <3>1, Considered DEF kept, new, x
    <3> QED
      BY <3>1, <3>2
  <2>11. /\ kept.seen = acc.seen \cup {path} /\ kept.devices = acc.devices
         /\ kept.disks = acc.disks
    BY <2>5 DEF Found
  <2>12. /\ new.seen = acc.seen \cup {path} /\ new.devices = acc.devices \cup {fs[path].dev}
         /\ new.disks = Append(acc.disks, x)
    OBVIOUS
  <2> HIDE DEF acc, line, path, kept, new, x, goal, D
  <2>13. goal(f[l].seen, f[l].devices, f[l].disks)
    <3>1. CASE Skipped(acc, line)
      BY <2>3, <2>6, <2>10, <3>1 DEF path
    <3>2. CASE ~Skipped(acc, line) /\ NoNewDisk(path, acc, fs)
      <4>1. l \in E \ S \/ (l \in S /\ d[l] \in acc.devices)
        BY <2>3, <2>7, <2>8, <3>2 DEF NoNewDisk
      <4> QED
        BY <2>6, <2>10, <2>11, <3>2, <4>1
    <3>3. CASE ~Skipped(acc, line) /\ ~NoNewDisk(path, acc, fs)
      <4>1. l \in S /\ d[l] \notin acc.devices
        BY <2>3, <2>7, <2>8, <2>9, <3>3 DEF NoNewDisk
      <4> QED
        BY <2>6, <2>8, <2>10, <2>12, <3>3, <4>1
    <3> QED
      BY <3>1, <3>2, <3>3
  <2> QED
    BY <2>13 DEF goal, l
<1>14. right(n)
  <2> HIDE DEF right
  <2>1. 0 \in G
    BY <1>1, <1>12
  <2>2. ASSUME NEW k \in 0 .. n, k \in G, k < n
        PROVE  k + 1 \in G
    <3>1. k + 1 \in 0 .. n
      BY <1>1, <2>2
    <3> QED
      BY <1>13, <2>2, <3>1
  <2> HIDE DEF G
  <2>3. 0 .. n \subseteq G
    BY <1>1, <2>1, <2>2, UpFromZero
  <2> QED
    BY <1>1, <2>3 DEF G
<1>15. /\ Len(list) = Cardinality(F) /\ list \in Seq(D)
       /\ \A m \in 1 .. Len(list) : \E i \in F : UpTo(F, i) = m /\ list[m].mount_point = q[i]
  <2>1. {i \in F : i <= n} = F
    <3>1. F \subseteq 1 .. n
      BY <1>3, <1>4 DEF F, Firsts
    <3>2. \A i \in 1 .. n : i <= n
      BY <1>1
    <3>3. \A i \in F : i <= n
      BY <3>1, <3>2
    <3> HIDE DEF F
    <3> QED
      BY <3>3
  <2>2. n \in 0 .. n
    BY <1>1
  <2> QED
    BY <1>7, <1>11, <1>14, <2>1, <2>2 DEF Listed, F
<1>16. ASSUME NEW m \in 1 .. Len(list)
       PROVE  list[m].mount_point = PathAt(mounts, fs, Nth(F, m))
  <2>1. PICK i \in F : UpTo(F, i) = m /\ list[m].mount_point = q[i]
    BY <1>15
  <2>2. F \in SUBSET (1 .. n) /\ i \in S
    BY <1>3, <1>4 DEF F, Firsts
  <2>3. Nth(F, m) = i
    BY <1>1, <2>1, <2>2, NthIs
  <2> QED
    BY <1>5, <2>1, <2>2, <2>3
<1>17. DOMAIN list = 1 .. Len(list)
  BY <1>15, LenProperties
<1>18. [k \in DOMAIN list |-> list[k].mount_point]
         = [k \in 1 .. Cardinality(F) |-> PathAt(mounts, fs, Nth(F, k))]
  BY <1>15, <1>16, <1>17
<1> QED
  BY <1>6, <1>18 DEF list
=============================================================================
