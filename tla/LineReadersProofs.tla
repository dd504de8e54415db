-------------------------- MODULE LineReadersProofs --------------------------
(***************************************************************************)
(* Proofs about LineReaders, for any streams, of any length, and any       *)
(* number of reads that are dropped.                                       *)
(***************************************************************************)
EXTENDS LineReaders, SequenceLemmas

(* What the reference is made of, for bytes of any kind.                    *)
Ordinary(C) == Newline \in C /\ "bad" \in C

SoFar(C) == [out : Seq(Seq(C)), rest : Seq(C)]

Start == [out |-> << >>, rest |-> << >>]

(* A line comes to a list of at most one element.                           *)
LEMMA WholeTyped ==
  ASSUME NEW C, Ordinary(C), NEW r, NEW line \in Seq(C)
  PROVE  Parse(line) \in Seq(C) /\ Whole(r, line) \in Seq(Seq(C))
<1>1. Bad \in Seq(C)
  BY DEF Bad, Ordinary
<1>2. Parse(line) \in Seq(C)
  BY <1>1 DEF Parse
<1>3. Append(line, Newline) \in Seq(C)
  BY AppendProperties DEF Ordinary
<1>4. \A l \in Seq(C) : <<l>> \in Seq(Seq(C))
  OBVIOUS
<1>5. << >> \in Seq(Seq(C))
  BY EmptySeq
<1> QED
  BY <1>2, <1>3, <1>4, <1>5 DEF Whole

(* The reference goes on from bytes to bytes.                               *)
LEMMA AdvanceTyped ==
  ASSUME NEW C, Ordinary(C), NEW r, NEW sofar \in SoFar(C), NEW b \in C
  PROVE  Advance(r, sofar, b) \in SoFar(C)
<1>1. sofar.out \in Seq(Seq(C)) /\ sofar.rest \in Seq(C)
  BY DEF SoFar
<1>2. Whole(r, sofar.rest) \in Seq(Seq(C))
  BY <1>1, WholeTyped
<1>3. sofar.out \o Whole(r, sofar.rest) \in Seq(Seq(C))
  BY <1>1, <1>2, ConcatProperties
<1>4. Append(sofar.rest, b) \in Seq(C) /\ << >> \in Seq(C)
  BY <1>1, AppendProperties, EmptySeq
<1> QED
  BY <1>1, <1>3, <1>4 DEF Advance, SoFar

(* A stream is scanned byte by byte.                                        *)
Scans(f, C, r, s) ==
  /\ f \in [0 .. Len(s) -> SoFar(C)]
  /\ f[0] = Start
  /\ \A k \in 1 .. Len(s) : f[k] = Advance(r, f[k - 1], s[k])
  /\ Scan(r, s) = f[Len(s)]

(* It has a state for every place in the stream, each from the one before.  *)
LEMMA ScanUp ==
  ASSUME NEW C, Ordinary(C), NEW r, NEW s \in Seq(C)
  PROVE  \E f : Scans(f, C, r, s)
<1> DEFINE len == Len(s)
           A == SoFar(C)
           next(a, i) == Advance(r, a, s[i])
           folds(f) == f = [t \in SUBSET DOMAIN s |->
                              IF t = {} THEN Start ELSE next(f[t \ {Max(t)}], Max(t))]
           it[t \in SUBSET DOMAIN s] ==
             IF t = {} THEN Start ELSE next(it[t \ {Max(t)}], Max(t))
<1>1. Scan(r, s) = it[DOMAIN s]
  BY DEF Scan, FoldLeft, MapThenFoldSet, Start
<1>2. it = CHOOSE f : folds(f)
  OBVIOUS
<1>3. len \in Nat /\ DOMAIN s = 1 .. len /\ \A k \in 1 .. len : s[k] \in C
  BY LenProperties, ElementOfSeq
<1>4. Start \in A
  BY EmptySeq DEF SoFar, Start
<1>5. \A a \in A, i \in 1 .. len : next(a, i) \in A
  BY <1>3, AdvanceTyped
<1> HIDE DEF A, next, len
<1>6. \E f : folds(f)
  <2> DEFINE step == [p \in A \X (1 .. len) |-> next(p[1], p[2])]
  <2>1. /\ step \in [A \X (1 .. len) -> A]
        /\ \A a \in A, i \in 1 .. len : step[<<a, i>>] = next(a, i)
    BY <1>5
  <2> HIDE DEF step
  <2>2. PICK f : IsFold(f, A, len, Start, step)
    BY <1>3, <1>4, <2>1, FoldExists
  <2>3. ASSUME NEW t \in SUBSET (1 .. len)
        PROVE  f[t] = IF t = {} THEN Start ELSE next(f[t \ {Max(t)}], Max(t))
    <3>1. t # {} => Max(t) \in 1 .. len
      <4>1. t \in SUBSET (0 .. len)
        BY <1>3
      <4> QED
        BY <1>3, <4>1, MaxIsGreatest
    <3>2. f[t \ {Max(t)}] \in A
      BY <2>2 DEF IsFold
    <3> QED
      BY <2>1, <2>2, <3>1, <3>2 DEF IsFold
  <2> QED
    BY <1>3, <2>2, <2>3 DEF IsFold
<1>7. folds(it)
  <2> HIDE DEF folds
  <2> QED
    BY <1>2, <1>6
<1> HIDE DEF it
<1> DEFINE f == [k \in 0 .. len |-> it[1 .. k]]
<1>8. it[1 .. 0] = Start
  <2>1. 1 .. 0 = {}
    OBVIOUS
  <2> QED
    BY <1>7, <2>1
<1>9. ASSUME NEW k \in 1 .. len
      PROVE  it[1 .. k] = next(it[1 .. k - 1], k)
  <2>1. 1 .. k # {} /\ Max(1 .. k) = k /\ (1 .. k) \ {k} = 1 .. k - 1
    <3>1. k \in Nat \ {0}
      BY <1>3
    <3> QED
      BY <3>1, PlacesUpTo
  <2>2. 1 .. k \in SUBSET DOMAIN s
    BY <1>3
  <2> QED
    BY <1>7, <2>1, <2>2
<1>10. \A k \in 0 .. len : it[1 .. k] \in A
  <2> DEFINE S == {k \in 0 .. len : it[1 .. k] \in A}
  <2>1. 0 \in S
    BY <1>3, <1>4, <1>8
  <2>2. ASSUME NEW k \in 0 .. len, k \in S, k < len
        PROVE  k + 1 \in S
    <3>1. k + 1 \in 1 .. len /\ (k + 1) - 1 = k /\ k + 1 \in 0 .. len
      BY <1>3, <2>2
    <3>2. it[1 .. k + 1] = next(it[1 .. k], k + 1)
      BY <1>9, <3>1
    <3> QED
      BY <1>5, <2>2, <3>1, <3>2
  <2> HIDE DEF S
  <2>3. 0 .. len \subseteq S
    BY <1>3, <2>1, <2>2, UpFromZero
  <2> QED
    BY <2>3 DEF S
<1>11. Scans(f, C, r, s)
  <2>1. f \in [0 .. len -> A] /\ f[0] = Start /\ Scan(r, s) = f[len]
    BY <1>1, <1>3, <1>8, <1>10
  <2>2. \A k \in 1 .. len : f[k] = next(f[k - 1], k)
    <3>1. \A k \in 1 .. len : k \in 0 .. len /\ k - 1 \in 0 .. len
      BY <1>3
    <3> QED
      BY <1>9, <3>1
  <2> HIDE DEF f
  <2> QED
    BY <2>1, <2>2 DEF Scans, A, next, len
<1> HIDE DEF f
<1> QED
  BY <1>11

(* So one more byte is one more step.                                       *)
LEMMA ScanAppend ==
  ASSUME NEW C, Ordinary(C), NEW r, NEW s \in Seq(C), NEW b \in C
  PROVE  /\ Scan(r, s) \in SoFar(C)
         /\ Scan(r, Append(s, b)) = Advance(r, Scan(r, s), b)
<1> DEFINE n == Len(s)
           t == Append(s, b)
<1>1. /\ t \in Seq(C) /\ Len(t) = n + 1 /\ n \in Nat
      /\ \A i \in 1 .. n : t[i] = s[i]
      /\ t[n + 1] = b
  BY AppendProperties, LenProperties
<1>2. PICK f : Scans(f, C, r, s)
  BY ScanUp
<1>3. PICK g : Scans(g, C, r, t)
  BY <1>1, ScanUp
<1>4. /\ f[0] = Start /\ Scan(r, s) = f[n] /\ f \in [0 .. n -> SoFar(C)]
      /\ \A k \in 1 .. n : f[k] = Advance(r, f[k - 1], s[k])
  BY <1>2 DEF Scans
<1> HIDE DEF t
<1>5. /\ g[0] = Start /\ Scan(r, t) = g[n + 1]
      /\ \A k \in 1 .. n + 1 : g[k] = Advance(r, g[k - 1], t[k])
  BY <1>1, <1>3 DEF Scans
<1> HIDE DEF n
<1>6. g[n] = f[n]
  <2> DEFINE S == {k \in 0 .. n : g[k] = f[k]}
  <2>0. n \in Nat
    BY <1>1
  <2>1. 0 \in S
    BY <2>0, <1>4, <1>5
  <2>2. ASSUME NEW k \in 0 .. n, k \in S, k < n
        PROVE  k + 1 \in S
    <3>1. k + 1 \in 1 .. n /\ k + 1 \in 1 .. n + 1 /\ (k + 1) - 1 = k /\ k + 1 \in 0 .. n
      BY <2>0, <2>2
    <3>2. /\ f[k + 1] = Advance(r, f[k], s[k + 1])
          /\ g[k + 1] = Advance(r, g[k], t[k + 1])
          /\ t[k + 1] = s[k + 1]
      BY <1>1, <1>4, <1>5, <3>1
    <3> QED
      BY <2>2, <3>1, <3>2
  <2> HIDE DEF S
  <2>3. 0 .. n \subseteq S
    BY <1>1, <2>1, <2>2, UpFromZero
  <2> QED
    BY <1>1, <2>3 DEF S
<1>7. g[n + 1] = Advance(r, g[n], b)
  <2>1. n + 1 \in 1 .. n + 1 /\ (n + 1) - 1 = n
    BY <1>1
  <2>2. \A k \in 1 .. n + 1 : g[k] = Advance(r, g[k - 1], t[k])
    BY <1>5
  <2>3. g[n + 1] = Advance(r, g[(n + 1) - 1], t[n + 1])
    BY <2>1, <2>2
  <2> QED
    BY <1>1, <2>1, <2>3
<1>8. f[n] \in SoFar(C)
  BY <1>1, <1>4
<1> QED
  BY <1>4, <1>5, <1>6, <1>7, <1>8 DEF t

(* Nothing comes to nothing. *)
LEMMA ScanNothing ==
  ASSUME NEW r
  PROVE  Scan(r, << >>) = Start
<1>1. PICK f : Scans(f, {Newline, "bad"}, r, << >>)
  <2>1. << >> \in Seq({Newline, "bad"}) /\ Ordinary({Newline, "bad"})
    BY EmptySeq DEF Ordinary
  <2> QED
    BY <2>1, ScanUp
<1>2. Len(<< >>) = 0
  BY EmptySeq
<1> QED
  BY <1>1, <1>2 DEF Scans

(* A stream that goes on. *)
LEMMA OneMore ==
  ASSUME NEW C, NEW s \in Seq(C), NEW t \in Seq(C), NEW k \in 0 .. Len(t), k < Len(t)
  PROVE  /\ s \o SubSeq(t, 1, k) \in Seq(C) /\ SubSeq(t, 1, k) \in Seq(C) /\ t[k + 1] \in C
         /\ SubSeq(t, 1, k + 1) = Append(SubSeq(t, 1, k), t[k + 1])
         /\ s \o SubSeq(t, 1, k + 1) = Append(s \o SubSeq(t, 1, k), t[k + 1])
<1> DEFINE n == k + 1
           u == SubSeq(t, 1, k)
<1>1. /\ Len(t) \in Nat /\ n \in 1 .. Len(t) /\ 1 \in 1 .. Len(t) /\ n - 1 = k
      /\ \A i \in 1 .. Len(t) : t[i] \in C
  BY LenProperties, ElementOfSeq
<1>2. u \in Seq(C)
  <2>1. 1 \in Int /\ k \in Int /\ \A i \in 1 .. k : t[i] \in C
    BY <1>1
  <2> QED
    BY <2>1, SubSeqProperties
<1>3. s \o u \in Seq(C)
  BY <1>2, ConcatProperties
<1>4. t[n] \in C /\ <<t[n]>> \in Seq(C)
  BY <1>1
<1> HIDE DEF n, u
<1>5. SubSeq(t, 1, n) = u \o <<t[n]>>
  <2>1. SubSeq(t, 1, n) = SubSeq(t, 1, n - 1) \o <<t[n]>>
    BY <1>1, SubSeqRecursiveSecond
  <2> QED
    BY <1>1, <2>1 DEF u
<1>6. SubSeq(t, 1, n) = Append(u, t[n])
  BY <1>2, <1>4, <1>5, AppendIsConcat
<1>7. s \o SubSeq(t, 1, n) = Append(s \o u, t[n])
  <2>1. s \o (u \o <<t[n]>>) = (s \o u) \o <<t[n]>>
    BY <1>2, <1>4, ConcatAssociative
  <2> QED
    BY <1>3, <1>4, <1>5, <2>1, AppendIsConcat
<1> QED
  BY <1>2, <1>3, <1>4, <1>6, <1>7 DEF n, u

(* The same for a stream that has been read up to k.                        *)
LEMMA ScanOneMore ==
  ASSUME NEW C, Ordinary(C), NEW r, NEW s \in Seq(C), NEW t \in Seq(C),
         NEW k \in 0 .. Len(t), k < Len(t)
  PROVE  /\ Scan(r, s \o SubSeq(t, 1, k)) \in SoFar(C)
         /\ t[k + 1] \in C /\ SubSeq(t, 1, k + 1) = Append(SubSeq(t, 1, k), t[k + 1])
         /\ Scan(r, s \o SubSeq(t, 1, k + 1)) =
              Advance(r, Scan(r, s \o SubSeq(t, 1, k)), t[k + 1])
<1> DEFINE p == s \o SubSeq(t, 1, k)
           b == t[k + 1]
<1>1. /\ p \in Seq(C) /\ b \in C /\ s \o SubSeq(t, 1, k + 1) = Append(p, b)
      /\ SubSeq(t, 1, k + 1) = Append(SubSeq(t, 1, k), b)
  BY OneMore
<1> HIDE DEF p, b
<1>2. Scan(r, p) \in SoFar(C) /\ Scan(r, Append(p, b)) = Advance(r, Scan(r, p), b)
  BY <1>1, ScanAppend
<1> QED
  BY <1>1, <1>2 DEF p, b

(* What is owed is not taken back when more bytes come. *)
Grown(C, base, grown) == \E more \in Seq(Seq(C)) : grown = base \o more

(* Not by one byte, and so not by any number of them.                       *)
LEMMA AdvanceGrows ==
  ASSUME NEW C, Ordinary(C), NEW r, NEW sofar \in SoFar(C), NEW b \in C,
         NEW base \in Seq(Seq(C)), Grown(C, base, sofar.out)
  PROVE  Grown(C, base, Advance(r, sofar, b).out)
<1> DEFINE w == Whole(r, sofar.rest)
<1>1. PICK m \in Seq(Seq(C)) : sofar.out = base \o m
  BY DEF Grown
<1>2. w \in Seq(Seq(C))
  <2>1. sofar.rest \in Seq(C)
    BY DEF SoFar
  <2> QED
    BY <2>1, WholeTyped
<1>3. Advance(r, sofar, b).out \in {sofar.out, sofar.out \o w}
  BY DEF Advance
<1> HIDE DEF w
<1>4. m \o w \in Seq(Seq(C)) /\ (base \o m) \o w = base \o (m \o w)
  BY <1>2, ConcatProperties, ConcatAssociative
<1> QED
  BY <1>1, <1>3, <1>4 DEF Grown

(* What is owed for a stream begins with what is owed for its beginning.    *)
LEMMA ScanGrows ==
  ASSUME NEW C, Ordinary(C), NEW r, NEW s \in Seq(C), NEW t \in Seq(C)
  PROVE  Grown(C, Scan(r, s).out, Scan(r, s \o t).out)
<1> DEFINE n == Len(t)
           up(k) == Scan(r, s \o SubSeq(t, 1, k))
           base == Scan(r, s).out
           S == {k \in 0 .. n : Grown(C, base, up(k).out)}
<1>1. n \in Nat /\ base \in Seq(Seq(C)) /\ << >> \in Seq(Seq(C))
  <2>1. Scan(r, s) \in SoFar(C)
    <3>1. "bad" \in C
      BY DEF Ordinary
    <3> QED
      BY <3>1, ScanAppend
  <2> QED
    BY <2>1, LenProperties, EmptySeq DEF SoFar
<1>2. 0 \in S
  <2>1. SubSeq(t, 1, 0) = << >> /\ s \o << >> = s
    BY SubSeqEmpty, ConcatEmptySeq
  <2>2. up(0).out = base
    BY <2>1
  <2>3. base \o << >> = base
    <3> HIDE DEF base
    <3> QED
      BY <1>1, ConcatEmptySeq
  <2>4. 0 \in 0 .. n
    BY <1>1
  <2> HIDE DEF up, base, n
  <2>5. Grown(C, base, base)
    BY <1>1, <2>3 DEF Grown
  <2> QED
    BY <2>2, <2>4, <2>5
<1>3. ASSUME NEW k \in 0 .. n, k \in S, k < n
      PROVE  k + 1 \in S
  <2>1. Grown(C, base, up(k).out) /\ k + 1 \in 0 .. n
    BY <1>1, <1>3
  <2>2. /\ up(k) \in SoFar(C) /\ t[k + 1] \in C
        /\ up(k + 1) = Advance(r, up(k), t[k + 1])
    <3>1. k < Len(t) /\ k \in 0 .. Len(t)
      BY <1>3
    <3>2. /\ t[k + 1] \in C /\ SubSeq(t, 1, k + 1) = Append(SubSeq(t, 1, k), t[k + 1])
          /\ up(k + 1) = Advance(r, up(k), t[k + 1])
      BY <3>1, ScanOneMore
    <3>3. up(k) \in SoFar(C)
      BY <3>1, ScanOneMore
    <3> QED
      BY <3>2, <3>3
  <2>3. base \in Seq(Seq(C))
    BY <1>1
  <2> HIDE DEF up, base, n
  <2>4. Grown(C, base, up(k + 1).out)
    BY <2>1, <2>2, <2>3, AdvanceGrows
  <2> QED
    BY <2>1, <2>4
<1> HIDE DEF S
<1>4. n \in S
  <2>1. 0 .. n \subseteq S
    BY <1>1, <1>2, <1>3, UpFromZero
  <2> QED
    BY <1>1, <2>1
<1>5. SubSeq(t, 1, n) = t
  BY SubSeqFull
<1> QED
  BY <1>4, <1>5 DEF S

(* Without a newline, what comes is added to the rest.                      *)
LEMMA ScanQuiet ==
  ASSUME NEW C, Ordinary(C), NEW r, NEW s \in Seq(C), NEW t \in Seq(C),
         Scan(r, s).rest = << >>, \A i \in 1 .. Len(t) : t[i] # Newline
  PROVE  Scan(r, s \o t) = [out |-> Scan(r, s).out, rest |-> t]
<1> DEFINE n == Len(t)
           up(k) == Scan(r, s \o SubSeq(t, 1, k))
           base == Scan(r, s).out
           S == {k \in 0 .. n : up(k) = [out |-> base, rest |-> SubSeq(t, 1, k)]}
<1>1. n \in Nat /\ Scan(r, s) = [out |-> base, rest |-> << >>]
  <2>1. Scan(r, s) \in SoFar(C)
    <3>1. "bad" \in C
      BY DEF Ordinary
    <3> QED
      BY <3>1, ScanAppend
  <2> QED
    BY <2>1, LenProperties DEF SoFar
<1>2. 0 \in S
  <2>1. SubSeq(t, 1, 0) = << >> /\ s \o << >> = s
    BY SubSeqEmpty, ConcatEmptySeq
  <2>2. up(0) = Scan(r, s)
    BY <2>1
  <2>3. 0 \in 0 .. n
    BY <1>1
  <2> HIDE DEF up, base, n
  <2> QED
    BY <1>1, <2>1, <2>2, <2>3
<1>3. ASSUME NEW k \in 0 .. n, k \in S, k < n
      PROVE  k + 1 \in S
  <2>1. /\ t[k + 1] \in C /\ SubSeq(t, 1, k + 1) = Append(SubSeq(t, 1, k), t[k + 1])
        /\ up(k + 1) = Advance(r, up(k), t[k + 1])
    <3>1. k < Len(t)
      BY <1>3
    <3> QED
      BY <3>1, ScanOneMore
  <2>2. k + 1 \in 1 .. n /\ k + 1 \in 0 .. n
    BY <1>1, <1>3
  <2>3. t[k + 1] # Newline
    BY <2>2
  <2> HIDE DEF up, base
  <2>4. up(k) = [out |-> base, rest |-> SubSeq(t, 1, k)]
    BY <1>3
  <2> DEFINE p == SubSeq(t, 1, k)
             b == t[k + 1]
  <2>5. /\ b # Newline /\ up(k) = [out |-> base, rest |-> p]
        /\ up(k + 1) = Advance(r, up(k), b)
    BY <2>1, <2>3, <2>4
  <2> HIDE DEF p, b
  <2>6. up(k + 1) = [out |-> base, rest |-> Append(p, b)]
    BY <2>5 DEF Advance
  <2>7. up(k + 1) = [out |-> base, rest |-> SubSeq(t, 1, k + 1)]
    BY <2>1, <2>6 DEF p, b
  <2> QED
    BY <2>2, <2>7
<1> HIDE DEF S
<1>4. n \in S
  <2>1. 0 .. n \subseteq S
    BY <1>1, <1>2, <1>3, UpFromZero
  <2> QED
    BY <1>1, <2>1
<1>5. SubSeq(t, 1, n) = t
  BY SubSeqFull
<1> QED
  BY <1>4, <1>5 DEF S

-----------------------------------------------------------------------------
(* A reader's buffer. *)

(* A part of a stream, and the next part.                                   *)
LEMMA Parts ==
  ASSUME NEW C, NEW s \in Seq(C), NEW k \in Nat, NEW m \in Nat, NEW n \in Nat,
         k <= m, m <= n, n <= Len(s)
  PROVE  /\ SubSeq(s, k + 1, m) \in Seq(C) /\ Len(SubSeq(s, k + 1, m)) = m - k
         /\ \A i \in 1 .. m - k : SubSeq(s, k + 1, m)[i] = s[k + i]
         /\ SubSeq(s, k + 1, m) \o SubSeq(s, m + 1, n) = SubSeq(s, k + 1, n)
<1>1. Len(s) \in Nat /\ \A i \in 1 .. Len(s) : s[i] \in C
  BY LenProperties, ElementOfSeq
<1> DEFINE a == k + 1
<1>2. a \in Int /\ m \in Int /\ a - 1 = k /\ \A i \in a .. m : s[i] \in C
  BY <1>1
<1>3. a \in 1 .. Len(s) + 1 /\ m \in a - 1 .. Len(s) /\ n \in m .. Len(s)
  BY <1>1
<1>4. m - a + 1 = m - k /\ (IF a <= m THEN m - a + 1 ELSE 0) = m - k
      /\ \A i \in 1 .. m - k : a + i - 1 = k + i
  OBVIOUS
<1> HIDE DEF a
<1>5. /\ SubSeq(s, a, m) \in Seq(C) /\ Len(SubSeq(s, a, m)) = m - k
      /\ \A i \in 1 .. m - k : SubSeq(s, a, m)[i] = s[k + i]
  <2>1. /\ SubSeq(s, a, m) \in Seq(C)
        /\ Len(SubSeq(s, a, m)) = IF a <= m THEN m - a + 1 ELSE 0
        /\ \A i \in 1 .. m - a + 1 : SubSeq(s, a, m)[i] = s[a + i - 1]
    BY <1>2, SubSeqProperties
  <2> QED
    BY <1>4, <2>1
<1>6. SubSeq(s, a, m) \o SubSeq(s, m + 1, n) = SubSeq(s, a, n)
  BY <1>3, ConcatAdjacentSubSeq
<1> QED
  BY <1>5, <1>6 DEF a

(* Two parts that meet are one.                                             *)
LEMMA Joined ==
  ASSUME NEW C, NEW s \in Seq(C), NEW k \in Nat, NEW m \in Nat, NEW n \in Nat,
         k <= m, m <= n, n <= Len(s)
  PROVE  SubSeq(s, k + 1, m) \o SubSeq(s, m + 1, n) = SubSeq(s, k + 1, n)
BY Parts

(* The stream is made of bytes.                                             *)
LEMMA Stream ==
  ASSUME input \in Inputs
  PROVE  input \in Seq(Bytes) /\ Len(input) \in Nat /\ Ordinary(Bytes)
<1>1. input \in Seq(Range(input))
  BY ReadersAssumption
<1>2. Range(input) \subseteq Bytes
  BY DEF Bytes
<1>3. input \in Seq(Bytes)
  BY <1>1, <1>2, SeqMonotonic
<1>4. Ordinary(Bytes)
  BY DEF Ordinary, Bytes
<1> QED
  BY <1>3, <1>4, LenProperties

(* Where the first newline is, if there is one.                             *)
LEMMA FirstNewline ==
  ASSUME buffer \in Seq(Bytes)
  PROVE  /\ NewlineAt \in 0 .. Len(buffer) /\ Len(buffer) \in Nat
         /\ NewlineAt = 0 => \A i \in 1 .. Len(buffer) : buffer[i] # Newline
         /\ NewlineAt # 0 => /\ buffer[NewlineAt] = Newline
                             /\ \A i \in 1 .. NewlineAt - 1 : buffer[i] # Newline
<1> DEFINE I == {i \in 1 .. Len(buffer) : buffer[i] = Newline}
<1>1. Len(buffer) \in Nat
  BY LenProperties
<1>2. NewlineAt = IF I # {} THEN Min(I) ELSE 0
  BY DEF NewlineAt, SelectInSeq
<1>3. CASE I = {}
  BY <1>1, <1>2, <1>3
<1>4. CASE I # {}
  <2>1. NewlineAt \in I /\ \A i \in I : NewlineAt <= i
    <3>1. I \in SUBSET Nat
      BY <1>1
    <3> HIDE DEF I
    <3> QED
      BY <1>2, <1>4, <3>1, MinIsLeast
  <2> DEFINE at == NewlineAt
  <2>2. at \in 1 .. Len(buffer) /\ buffer[at] = Newline /\ \A i \in I : at <= i
    BY <2>1
  <2> HIDE DEF at
  <2>3. \A i \in 1 .. at - 1 : i \in 1 .. Len(buffer) /\ ~(at <= i)
    BY <1>1, <2>2
  <2>4. at # 0 /\ at \in 0 .. Len(buffer) /\ \A i \in 1 .. at - 1 : buffer[i] # Newline
    BY <1>1, <2>2, <2>3
  <2> QED
    BY <1>1, <2>2, <2>4 DEF at
<1> QED
  BY <1>3, <1>4

(* What has been read of the next line waits in the buffer.                 *)
Waiting(k) ==
  /\ input \in Inputs /\ pos \in 0 .. Len(input) /\ k \in 0 .. pos
  /\ Scan(reader, SubSeq(input, 1, k)) = [out |-> out, rest |-> << >>]
  /\ buffer = SubSeq(input, k + 1, pos)

(* The buffer is that part of the stream, byte for byte.                    *)
LEMMA Buffered ==
  ASSUME NEW k, Waiting(k)
  PROVE  /\ k \in Nat /\ pos \in Nat /\ k <= pos /\ pos <= Len(input)
         /\ buffer \in Seq(Bytes) /\ Len(buffer) = pos - k
         /\ \A i \in 1 .. pos - k : buffer[i] = input[k + i]
         /\ SubSeq(input, 1, k) \in Seq(Bytes)
         /\ SubSeq(input, 1, k) \o buffer = SubSeq(input, 1, pos)
<1>1. /\ k \in Nat /\ pos \in Nat /\ k <= pos /\ pos <= Len(input) /\ 0 \in Nat /\ 0 <= k
      /\ buffer = SubSeq(input, k + 1, pos)
      /\ input \in Seq(Bytes)
  BY Stream DEF Waiting
<1>2. /\ buffer \in Seq(Bytes) /\ Len(buffer) = pos - k
      /\ \A i \in 1 .. pos - k : buffer[i] = input[k + i]
  <2>1. pos <= pos
    BY <1>1
  <2> QED
    BY <1>1, <2>1, Parts
<1>3. /\ SubSeq(input, 0 + 1, k) \in Seq(Bytes)
      /\ SubSeq(input, 0 + 1, k) \o SubSeq(input, k + 1, pos) = SubSeq(input, 0 + 1, pos)
  BY <1>1, Parts
<1>4. 0 + 1 = 1
  OBVIOUS
<1> QED
  BY <1>1, <1>2, <1>3, <1>4

(* Without a newline in the buffer, it is all the reference has, too.       *)
LEMMA NothingWhole ==
  ASSUME NEW k, Waiting(k), NewlineAt = 0
  PROVE  Scan(reader, SubSeq(input, 1, pos)) = [out |-> out, rest |-> buffer]
<1> DEFINE s == SubSeq(input, 1, k)
<1>1. /\ s \in Seq(Bytes) /\ buffer \in Seq(Bytes) /\ Ordinary(Bytes)
      /\ s \o buffer = SubSeq(input, 1, pos)
  BY Buffered, Stream DEF Waiting
<1>2. Scan(reader, s) = [out |-> out, rest |-> << >>]
  BY DEF Waiting
<1>3. \A i \in 1 .. Len(buffer) : buffer[i] # Newline
  BY <1>1, FirstNewline
<1> HIDE DEF s
<1>4. Scan(reader, s).rest = << >> /\ Scan(reader, s).out = out
  BY <1>2
<1>5. Scan(reader, s \o buffer) = [out |-> Scan(reader, s).out, rest |-> buffer]
  BY <1>1, <1>3, <1>4, ScanQuiet
<1> QED
  BY <1>1, <1>4, <1>5

(* A line is what the reference hands out with its newline.                 *)
LEMMA LineOut ==
  ASSUME NEW k, Waiting(k), NewlineAt # 0
  PROVE  /\ k + NewlineAt \in 0 .. pos
         /\ Scan(reader, SubSeq(input, 1, k + NewlineAt)) =
              [out |-> out \o Whole(reader, Line), rest |-> << >>]
         /\ AfterLine = SubSeq(input, k + NewlineAt + 1, pos)
         /\ Line \in Seq(Bytes) /\ AfterLine \in Seq(Bytes)
         /\ Line = << >> <=> NewlineAt = 1
<1> DEFINE j == NewlineAt
           s == SubSeq(input, 1, k)
           q == k + j
           len == Len(buffer)
<1>1. /\ k \in Nat /\ pos \in Nat /\ k <= pos /\ pos <= Len(input)
      /\ buffer \in Seq(Bytes) /\ len = pos - k
      /\ \A i \in 1 .. pos - k : buffer[i] = input[k + i]
      /\ s \in Seq(Bytes) /\ s \o buffer = SubSeq(input, 1, pos)
      /\ input \in Seq(Bytes) /\ Ordinary(Bytes) /\ Len(input) \in Nat
      /\ Scan(reader, s) = [out |-> out, rest |-> << >>]
  BY Buffered, Stream DEF Waiting
<1>2. /\ j \in 1 .. len /\ len \in Nat /\ buffer[j] = Newline
      /\ \A i \in 1 .. j - 1 : buffer[i] # Newline
  BY <1>1, FirstNewline
<1> HIDE DEF j, s, len
<1>3. /\ q \in 0 .. pos /\ q \in Nat /\ q - 1 \in Nat /\ k <= q - 1 /\ q - 1 <= q
      /\ q - 1 <= Len(input) /\ q <= pos /\ q <= Len(input) /\ (q - 1) + 1 = q
      /\ q - 1 - k = j - 1 /\ j - 1 \in Nat /\ j \in Nat /\ 0 <= j - 1 /\ j - 1 <= j /\ j <= len
      /\ 1 <= q - 1 + 1 /\ q \in 1 .. Len(input) /\ k + j = q /\ len <= len /\ 0 \in Nat
  BY <1>1, <1>2
<1>4. /\ Line \in Seq(Bytes) /\ Len(Line) = j - 1
      /\ \A i \in 1 .. j - 1 : Line[i] = buffer[i]
  <2>1. /\ SubSeq(buffer, 0 + 1, j - 1) \in Seq(Bytes)
        /\ Len(SubSeq(buffer, 0 + 1, j - 1)) = j - 1 - 0
        /\ \A i \in 1 .. j - 1 - 0 : SubSeq(buffer, 0 + 1, j - 1)[i] = buffer[0 + i]
    <3>1. j - 1 <= len
      BY <1>2, <1>3
    <3>2. j - 1 <= j - 1
      BY <1>3
    <3> QED
      BY <1>1, <1>3, <3>1, <3>2, Parts DEF len
  <2>2. 0 + 1 = 1 /\ j - 1 - 0 = j - 1 /\ \A i \in 1 .. j - 1 : 0 + i = i
    BY <1>3
  <2> QED
    BY <2>1, <2>2 DEF Line, j
<1>5. /\ AfterLine \in Seq(Bytes) /\ Len(AfterLine) = len - j
      /\ \A i \in 1 .. len - j : AfterLine[i] = buffer[j + i]
  BY <1>1, <1>3, Parts DEF AfterLine, j, len
<1> DEFINE u == SubSeq(input, k + 1, q - 1)
           v == SubSeq(input, q + 1, pos)
<1>6. /\ u \in Seq(Bytes) /\ Len(u) = j - 1
      /\ \A i \in 1 .. j - 1 : u[i] = input[k + i]
  <2>1. /\ u \in Seq(Bytes) /\ Len(u) = q - 1 - k
        /\ \A i \in 1 .. q - 1 - k : u[i] = input[k + i]
    <3> HIDE DEF q
    <3> QED
      BY <1>1, <1>3, Parts
  <2> QED
    BY <1>3, <2>1
<1>7. /\ v \in Seq(Bytes) /\ Len(v) = pos - q
      /\ \A i \in 1 .. pos - q : v[i] = input[q + i]
  <2> HIDE DEF q
  <2>1. pos <= pos
    BY <1>1
  <2> QED
    BY <1>1, <1>3, <2>1, Parts
<1> HIDE DEF u, v
<1>8. Line = u
  <2>1. \A i \in 1 .. j - 1 : i \in 1 .. pos - k
    BY <1>1, <1>2
  <2>2. Len(Line) = Len(u) /\ \A i \in 1 .. Len(Line) : Line[i] = u[i]
    BY <1>1, <1>4, <1>6, <2>1
  <2> QED
    BY <1>4, <1>6, <2>2, SeqEqual
<1>9. AfterLine = v
  <2>1. len - j = pos - q
    BY <1>1, <1>2
  <2>2. \A i \in 1 .. len - j : j + i \in 1 .. pos - k /\ k + (j + i) = q + i
    BY <1>1, <1>2
  <2>3. ASSUME NEW i \in 1 .. len - j
        PROVE  AfterLine[i] = v[i]
    <3>1. AfterLine[i] = buffer[j + i] /\ v[i] = input[q + i]
      BY <1>5, <1>7, <2>1
    <3>2. buffer[j + i] = input[k + (j + i)]
      BY <1>1, <2>2
    <3> QED
      BY <2>2, <3>1, <3>2
  <2>4. Len(AfterLine) = Len(v) /\ \A i \in 1 .. Len(AfterLine) : AfterLine[i] = v[i]
    BY <1>5, <1>7, <2>1, <2>3
  <2> QED
    BY <1>5, <1>7, <2>4, SeqEqual
<1>10. Scan(reader, s \o u) = [out |-> out, rest |-> u]
  <2>1. \A i \in 1 .. Len(u) : u[i] # Newline
    BY <1>2, <1>4, <1>6, <1>8
  <2>2. Scan(reader, s).rest = << >> /\ Scan(reader, s).out = out
    BY <1>1
  <2>3. s \in Seq(Bytes) /\ u \in Seq(Bytes) /\ Ordinary(Bytes)
    BY <1>1, <1>6
  <2>4. Scan(reader, s \o u) = [out |-> Scan(reader, s).out, rest |-> u]
    BY <2>1, <2>2, <2>3, ScanQuiet
  <2> QED
    BY <2>2, <2>4
<1>11. SubSeq(input, 1, q) = Append(s \o u, input[q]) /\ input[q] = Newline /\ s \o u \in Seq(Bytes)
  <2>1. SubSeq(input, 1, q - 1) = s \o u
    <3>1. SubSeq(input, 0 + 1, k) \o SubSeq(input, k + 1, q - 1) = SubSeq(input, 0 + 1, q - 1)
      <4>1. 0 <= k
        BY <1>1
      <4> HIDE DEF q
      <4> QED
        BY <1>1, <1>3, <4>1, Parts
    <3>2. 0 + 1 = 1
      OBVIOUS
    <3> QED
      BY <3>1, <3>2 DEF s, u
  <2>2. s \o u \in Seq(Bytes)
    BY <1>1, <1>6, ConcatProperties
  <2>3. input[q] = buffer[j]
    <3>1. j \in 1 .. pos - k
      BY <1>1, <1>2
    <3> QED
      BY <1>1, <3>1
  <2>4. SubSeq(input, 1, q) = SubSeq(input, 1, q - 1) \o <<input[q]>>
    <3>1. 1 \in 1 .. Len(input)
      BY <1>1, <1>3
    <3> HIDE DEF q
    <3> QED
      BY <1>1, <1>3, <3>1, SubSeqRecursiveSecond
  <2>5. input[q] \in Bytes
    <3> HIDE DEF q
    <3> QED
      BY <1>1, <1>3, ElementOfSeq
  <2>6. Append(s \o u, input[q]) = (s \o u) \o <<input[q]>>
    <3> HIDE DEF q
    <3> QED
      BY <2>2, <2>5, AppendIsConcat
  <2> QED
    BY <1>2, <2>1, <2>2, <2>3, <2>4, <2>6
<1>12. Scan(reader, SubSeq(input, 1, q)) = [out |-> out \o Whole(reader, Line), rest |-> << >>]
  <2> DEFINE p == s \o u
             b == Newline
  <2>1. b \in Bytes /\ Ordinary(Bytes) /\ p \in Seq(Bytes)
    BY <1>1, <1>11 DEF Ordinary
  <2>2. /\ Scan(reader, p) = [out |-> out, rest |-> Line]
        /\ SubSeq(input, 1, q) = Append(p, b)
    BY <1>8, <1>10, <1>11
  <2> HIDE DEF p, q
  <2>3. Scan(reader, Append(p, b)) = Advance(reader, Scan(reader, p), b)
    <3> HIDE DEF b
    <3> QED
      BY <2>1, ScanAppend
  <2>4. Scan(reader, SubSeq(input, 1, q)) = Advance(reader, [out |-> out, rest |-> Line], b)
    BY <2>2, <2>3
  <2>5. Advance(reader, [out |-> out, rest |-> Line], b)
          = [out |-> out \o Whole(reader, Line), rest |-> << >>]
    BY DEF Advance
  <2> QED
    BY <2>4, <2>5
<1>13. Line = << >> <=> j = 1
  <2>1. Line = << >> <=> Len(Line) = 0
    BY <1>4, EmptySeq
  <2> QED
    BY <1>3, <1>4, <2>1
<1> QED
  BY <1>3, <1>4, <1>5, <1>9, <1>12, <1>13 DEF j, v

(* The newline that is added at the end is the first one in the buffer.     *)
Closing(k) ==
  /\ input \in Inputs /\ pos = Len(input) /\ k \in 0 .. pos /\ k < pos
  /\ Scan(reader, SubSeq(input, 1, k)) = [out |-> out, rest |-> << >>]
  /\ \A i \in k + 1 .. pos : input[i] # Newline
  /\ buffer = Append(SubSeq(input, k + 1, pos), Newline)

(* A closed rest is one line, the last, and what the reference has left.    *)
LEMMA LastLine ==
  ASSUME NEW k, Closing(k)
  PROVE  /\ buffer \in Seq(Bytes) /\ NewlineAt # 0 /\ ~IsBlank /\ AfterLine = << >>
         /\ Line \in Seq(Bytes) /\ Line # << >>
         /\ Scan(reader, input) = [out |-> out, rest |-> Line]
<1> DEFINE s == SubSeq(input, 1, k)
           l == SubSeq(input, k + 1, pos)
           n == pos - k
           j == NewlineAt
<1>1. /\ input \in Seq(Bytes) /\ pos \in Nat /\ k \in Nat /\ k <= pos /\ pos <= Len(input)
      /\ n \in Nat \ {0} /\ 0 \in Nat /\ 0 <= k /\ pos <= pos /\ 0 + 1 = 1 /\ pos = Len(input)
      /\ Ordinary(Bytes)
  BY Stream DEF Closing
<1>2. /\ l \in Seq(Bytes) /\ Len(l) = n /\ \A i \in 1 .. n : l[i] = input[k + i]
  BY <1>1, Parts
<1>3. s \in Seq(Bytes) /\ s \o l = input
  <2>1. /\ SubSeq(input, 0 + 1, k) \in Seq(Bytes)
        /\ SubSeq(input, 0 + 1, k) \o SubSeq(input, k + 1, pos) = SubSeq(input, 0 + 1, pos)
    <3>1. 0 <= k /\ k <= pos /\ pos <= Len(input) /\ input \in Seq(Bytes)
      BY <1>1
    <3>2. 0 \in Nat /\ k \in Nat /\ pos \in Nat
      BY <1>1
    <3> QED
      BY <3>1, <3>2, Parts
  <2>2. SubSeq(input, 1, pos) = input
    BY <1>1, SubSeqFull
  <2> QED
    BY <1>1, <2>1, <2>2
<1>4. buffer = Append(l, Newline) /\ Newline \in Bytes
  BY <1>1 DEF Closing, Ordinary
<1> HIDE DEF s, l
<1>5. \A i \in 1 .. n : l[i] # Newline
  <2>1. \A i \in 1 .. n : k + i \in k + 1 .. pos
    BY <1>1
  <2> QED
    BY <1>2, <2>1 DEF Closing
<1>6. /\ buffer \in Seq(Bytes) /\ Len(buffer) = n + 1 /\ buffer[n + 1] = Newline
      /\ \A i \in 1 .. n : buffer[i] = l[i]
  BY <1>2, <1>4, AppendProperties
<1> HIDE DEF n
<1>7. j = n + 1
  <2>1. /\ j \in 0 .. n + 1
        /\ j = 0 => \A i \in 1 .. n + 1 : buffer[i] # Newline
        /\ j # 0 => buffer[j] = Newline
    BY <1>6, FirstNewline
  <2> HIDE DEF j
  <2>2. n + 1 \in 1 .. n + 1 /\ (j # 0 /\ j # n + 1 => j \in 1 .. n)
    BY <1>1, <2>1
  <2> QED
    BY <1>5, <1>6, <2>1, <2>2
<1>8. Line = l
  <2>1. /\ SubSeq(buffer, 0 + 1, n) \in Seq(Bytes) /\ Len(SubSeq(buffer, 0 + 1, n)) = n - 0
        /\ \A i \in 1 .. n - 0 : SubSeq(buffer, 0 + 1, n)[i] = buffer[0 + i]
    <3>1. n <= n /\ n <= Len(buffer) /\ 0 <= n /\ n \in Nat
      BY <1>1, <1>6
    <3> QED
      BY <1>1, <1>6, <3>1, Parts
  <2>2. n - 0 = n /\ \A i \in 1 .. n : 0 + i = i
    BY <1>1
  <2>3. Line = SubSeq(buffer, 0 + 1, n)
    <3>1. j - 1 = n
      BY <1>1, <1>7
    <3> QED
      BY <1>1, <3>1 DEF Line
  <2>4. /\ Line \in Seq(Bytes) /\ Len(Line) = n /\ \A i \in 1 .. n : Line[i] = l[i]
    BY <1>6, <2>1, <2>2, <2>3
  <2> QED
    BY <1>2, <2>4, SeqEqual
<1>9. AfterLine = << >>
  <2>1. j + 1 \in Int /\ Len(buffer) \in Int /\ Len(buffer) < j + 1
    BY <1>1, <1>6, <1>7
  <2> QED
    BY <2>1, SubSeqEmpty DEF AfterLine
<1>10. Line # << >>
  <2>1. Len(<< >>) = 0
    BY EmptySeq
  <2> QED
    BY <1>1, <1>2, <1>8, <2>1
<1>11. NewlineAt # 0 /\ ~IsBlank
  BY <1>1, <1>7 DEF IsBlank
<1>12. Scan(reader, s \o l) = [out |-> out, rest |-> l]
  <2>1. Scan(reader, s) = [out |-> out, rest |-> << >>]
    BY DEF Closing, s
  <2>2. Scan(reader, s).rest = << >> /\ Scan(reader, s).out = out
    BY <2>1
  <2>3. \A i \in 1 .. Len(l) : l[i] # Newline
    BY <1>2, <1>5
  <2>4. Scan(reader, s \o l) = [out |-> Scan(reader, s).out, rest |-> l]
    <3>1. s \in Seq(Bytes) /\ l \in Seq(Bytes) /\ Ordinary(Bytes)
      BY <1>1, <1>2, <1>3
    <3> QED
      BY <2>2, <2>3, <3>1, ScanQuiet
  <2> QED
    BY <2>2, <2>4
<1> QED
  BY <1>2, <1>3, <1>6, <1>8, <1>9, <1>10, <1>11, <1>12

-----------------------------------------------------------------------------
(* The steps. *)

(* A reader that asks for more has it behind what waits.                    *)
LEMMA Filled ==
  ASSUME Reading, NEW n \in 1 .. Len(input), Fill(n)
  PROVE  Reading'
<1>1. /\ input \in Inputs /\ reader # "chunks" /\ pos \in 0 .. Len(input)
      /\ out \in Seq(Seq(Bytes)) /\ reader \in Readers /\ done = "no"
      /\ pos' = pos + n /\ pos + n <= Len(input) /\ NewlineAt = 0
      /\ buffer' = buffer \o SubSeq(input, pos + 1, pos + n)
      /\ UNCHANGED <<reader, input, out, done>>
  BY DEF Reading, Fill
<1>2. Len(input) \in Nat /\ input \in Seq(Bytes) /\ pos # Len(input)
  BY <1>1, Stream
<1>3. PICK k \in 0 .. pos : Between(k)
  BY <1>1, <1>2 DEF Reading, Exhausted
<1>4. buffer = SubSeq(input, k + 1, pos)
  BY <1>2, <1>3 DEF Between
<1>5. buffer' = SubSeq(input, k + 1, pos + n)
  <2> DEFINE m == pos + n
  <2>1. /\ k \in Nat /\ pos \in Nat /\ m \in Nat /\ k <= pos /\ pos <= m /\ m <= Len(input)
        /\ input \in Seq(Bytes)
    BY <1>1, <1>2
  <2>2. buffer' = SubSeq(input, k + 1, pos) \o SubSeq(input, pos + 1, m)
    BY <1>1, <1>4
  <2> HIDE DEF m
  <2>3. SubSeq(input, k + 1, pos) \o SubSeq(input, pos + 1, m) = SubSeq(input, k + 1, m)
    BY <2>1, Joined
  <2> QED
    BY <2>2, <2>3 DEF m
<1>6. pos' \in 0 .. Len(input) /\ k \in 0 .. pos'
  BY <1>1, <1>2
<1>7. Between(k)'
  BY <1>1, <1>3, <1>5 DEF Between
<1> QED
  BY <1>1, <1>6, <1>7 DEF Reading

(* What is read and handed out stands when a reader stops or is dropped.    *)
LEMMA Stands ==
  ASSUME Reading, UNCHANGED <<reader, input, pos, buffer, out>>,
         done' = "end" /\ reader # "chunks" => Exhausted
  PROVE  Reading'
BY DEF Reading, Exhausted, Between

(* A whole line is handed out.                                              *)
LEMMA HandsOut ==
  ASSUME Reading, NEW k, Waiting(k), NewlineAt # 0, done = "no",
         buffer' = AfterLine, out' = out \o Whole(reader, Line),
         UNCHANGED <<reader, input, pos, done>>, reader # "chunks"
  PROVE  Reading'
<1>1. PICK q \in 0 .. pos :
      /\ AfterLine = SubSeq(input, q + 1, pos)
      /\ Scan(reader, SubSeq(input, 1, q)) = [out |-> out \o Whole(reader, Line), rest |-> << >>]
      /\ Line \in Seq(Bytes)
  BY LineOut
<1>2. out' \in Seq(Seq(Bytes))
  <2>1. out \in Seq(Seq(Bytes)) /\ Ordinary(Bytes)
    BY Stream DEF Reading
  <2>2. Whole(reader, Line) \in Seq(Seq(Bytes))
    BY <1>1, <2>1, WholeTyped
  <2> QED
    BY <2>1, <2>2, ConcatProperties
<1>3. /\ input' = input /\ reader' = reader /\ pos' = pos /\ done' = done
      /\ buffer' = SubSeq(input, q + 1, pos) /\ out' = out \o Whole(reader, Line)
  BY <1>1
<1>4. Between(q)'
  <2>1. Scan(reader', SubSeq(input', 1, q)) = [out |-> out', rest |-> << >>]
    BY <1>1, <1>3
  <2>2. buffer' = SubSeq(input', q + 1, pos')
    BY <1>3
  <2> QED
    BY <2>1, <2>2 DEF Between
<1>5. q \in 0 .. pos' /\ done' # "end"
  BY <1>1, <1>3
<1>6. reader \in Readers /\ input \in Inputs /\ pos \in 0 .. Len(input)
  BY DEF Reading
<1> QED
  BY <1>2, <1>3, <1>4, <1>5, <1>6 DEF Reading

(* The rest is handed out at the end.                                       *)
LEMMA HandsRest ==
  ASSUME Reading, reader # "chunks", pos = Len(input), done = "no",
         NEW l \in Seq(Bytes), l # << >>, Scan(reader, input) = [out |-> out, rest |-> l],
         out' = Append(out, IF reader = "lines" THEN l ELSE Parse(l)), buffer' = << >>,
         UNCHANGED <<reader, input, pos, done>>
  PROVE  Reading'
<1>1. out \in Seq(Seq(Bytes)) /\ Ordinary(Bytes) /\ Parse(l) \in Seq(Bytes)
  <2>1. out \in Seq(Seq(Bytes)) /\ Ordinary(Bytes)
    BY Stream DEF Reading
  <2> QED
    BY <2>1, WholeTyped
<1>2. out' \in Seq(Seq(Bytes))
  <2>1. (IF reader = "lines" THEN l ELSE Parse(l)) \in Seq(Bytes)
    BY <1>1
  <2> QED
    BY <1>1, <2>1, AppendProperties
<1>3. Owed(reader, input) = Append(out, IF reader = "lines" THEN l ELSE Parse(l))
  BY DEF Owed
<1>4. Exhausted'
  BY <1>3 DEF Exhausted
<1> QED
  BY <1>2, <1>4 DEF Reading
(* What a reader of lines can have in its buffer.                           *)
LEMMA Open ==
  ASSUME Reading, reader # "chunks"
  PROVE  \/ Exhausted
         \/ \E k \in 0 .. pos : Waiting(k)
         \/ reader = "messages" /\ \E k \in 0 .. pos : Closing(k)
<1>1. /\ input \in Inputs /\ pos \in 0 .. Len(input)
      /\ Exhausted \/ \E k \in 0 .. pos : Between(k)
  BY DEF Reading
<1>2. ASSUME NEW k \in 0 .. pos, Between(k)
      PROVE  Waiting(k) \/ (reader = "messages" /\ Closing(k))
  <2>1. CASE buffer = SubSeq(input, k + 1, pos)
    BY <1>1, <1>2, <2>1 DEF Between, Waiting
  <2>2. CASE buffer # SubSeq(input, k + 1, pos)
    BY <1>1, <1>2, <2>2 DEF Between, Closing
  <2> QED
    BY <2>1, <2>2
<1> QED
  BY <1>1, <1>2

(* A newline in the buffer is the stream's, or the one added at the end.    *)
LEMMA HasLine ==
  ASSUME Reading, reader # "chunks", NewlineAt # 0
  PROVE  \/ \E k \in 0 .. pos : Waiting(k)
         \/ reader = "messages" /\ \E k \in 0 .. pos : Closing(k)
<1>1. ASSUME Exhausted
      PROVE  FALSE
  <2>1. buffer = << >> /\ << >> \in Seq(Bytes) /\ Len(<< >>) = 0
    BY <1>1, EmptySeq DEF Exhausted
  <2>2. NewlineAt \in 0 .. Len(buffer)
    BY <2>1, FirstNewline
  <2> DEFINE j == NewlineAt
  <2>3. j \in 0 .. 0 /\ j # 0
    BY <2>1, <2>2
  <2> HIDE DEF j
  <2> QED
    BY <2>3
<1> QED
  BY <1>1, Open

(* Without one, all the lines that have been read are handed out.           *)
LEMMA AllOut ==
  ASSUME Reading, reader # "chunks", NewlineAt = 0
  PROVE  \/ Exhausted
         \/ /\ buffer \in Seq(Bytes)
            /\ Scan(reader, SubSeq(input, 1, pos)) = [out |-> out, rest |-> buffer]
<1>1. ASSUME NEW k \in 0 .. pos, Waiting(k)
      PROVE  /\ buffer \in Seq(Bytes)
             /\ Scan(reader, SubSeq(input, 1, pos)) = [out |-> out, rest |-> buffer]
  BY <1>1, Buffered, NothingWhole
<1>2. ASSUME NEW k \in 0 .. pos, Closing(k)
      PROVE  FALSE
  BY <1>2, LastLine
<1> QED
  BY <1>1, <1>2, Open

(* So at the end of the stream only a last line can be left.                *)
LEMMA AtTheEnd ==
  ASSUME Reading, reader # "chunks", NewlineAt = 0, pos = Len(input)
  PROVE  /\ buffer = << >> => Exhausted
         /\ buffer # << >> => /\ buffer \in Seq(Bytes)
                              /\ Scan(reader, input) = [out |-> out, rest |-> buffer]
<1>1. input \in Seq(Bytes)
  BY Stream DEF Reading
<1>2. SubSeq(input, 1, pos) = input
  BY <1>1, SubSeqFull
<1>3. CASE Exhausted
  BY <1>3 DEF Exhausted
<1>4. CASE ~Exhausted
  <2>1. /\ buffer \in Seq(Bytes)
        /\ Scan(reader, input) = [out |-> out, rest |-> buffer]
    BY <1>2, <1>4, AllOut
  <2>2. buffer = << >> => Owed(reader, input) = out
    BY <2>1 DEF Owed
  <2> QED
    BY <2>1, <2>2 DEF Exhausted
<1> QED
  BY <1>3, <1>4

(* A reader of lines hands out what the reference does.                     *)
LEMMA GivesLine ==
  ASSUME Reading, reader # "chunks", NewlineAt # 0, done = "no", NEW k, Waiting(k),
         NEW x, Gives(x, AfterLine), Whole(reader, Line) = <<x>>
  PROVE  Reading'
<1>1. x \in Seq(Bytes) /\ out \in Seq(Seq(Bytes))
  <2>1. Line \in Seq(Bytes) /\ Ordinary(Bytes)
    BY LineOut, Stream DEF Waiting
  <2>2. <<x>> \in Seq(Seq(Bytes)) /\ Len(<<x>>) = 1 /\ <<x>>[1] = x
    BY <2>1, WholeTyped
  <2>3. x \in Seq(Bytes)
    <3> DEFINE s == <<x>>
    <3>1. s \in Seq(Seq(Bytes)) /\ 1 \in 1 .. Len(s) /\ s[1] = x
      BY <2>2
    <3> HIDE DEF s
    <3> QED
      BY <3>1, ElementOfSeq
  <2> QED
    BY <2>3 DEF Reading
<1>2. out' = out \o Whole(reader, Line)
  BY <1>1, AppendIsConcat DEF Gives
<1>3. UNCHANGED <<reader, input, pos, done>> /\ buffer' = AfterLine
  BY DEF Gives
<1> QED
  BY <1>2, <1>3, HandsOut

(* And at the end the rest, as one more line.                               *)
LEMMA GivesRest ==
  ASSUME Reading, reader # "chunks", done = "no", pos = Len(input), NewlineAt = 0,
         buffer # << >>, Gives(IF reader = "lines" THEN buffer ELSE Parse(buffer), << >>)
  PROVE  Reading'
<1>1. buffer \in Seq(Bytes) /\ Scan(reader, input) = [out |-> out, rest |-> buffer]
  BY AtTheEnd
<1>2. /\ out' = Append(out, IF reader = "lines" THEN buffer ELSE Parse(buffer))
      /\ buffer' = << >> /\ UNCHANGED <<reader, input, pos, done>>
  BY DEF Gives
<1> QED
  BY <1>1, <1>2, HandsRest
(* A chunk is what a read brings. *)
LEMMA ChunkOut ==
  ASSUME Reading, NEW n \in 1 .. Len(input), OutputChunk(n)
  PROVE  Reading'
<1> DEFINE m == pos + n
           x == SubSeq(input, pos + 1, m)
           p == SubSeq(input, 1, pos)
<1>1. /\ input \in Inputs /\ pos \in 0 .. Len(input) /\ reader \in Readers
      /\ reader = "chunks" /\ done = "no" /\ buffer = << >>
      /\ out \in Seq(Seq(Bytes)) /\ FlattenSeq(out) = p
      /\ m <= Len(input) /\ out' = Append(out, << >> \o x)
      /\ buffer' = << >> /\ pos' = m /\ UNCHANGED <<reader, input, done>>
  BY DEF Reading, OutputChunk, Goes
<1>2. Len(input) \in Nat /\ input \in Seq(Bytes)
  BY <1>1, Stream
<1>3. /\ pos \in Nat /\ m \in Nat /\ 0 \in Nat /\ 0 <= pos /\ pos <= m /\ m <= m
      /\ pos <= Len(input) /\ m \in 0 .. Len(input)
  BY <1>1, <1>2
<1> HIDE DEF m
<1>4. x \in Seq(Bytes)
  <2>1. m <= Len(input) /\ input \in Seq(Bytes)
    BY <1>1, <1>2
  <2> QED
    BY <1>3, <2>1, Parts
<1>5. p \o x = SubSeq(input, 1, m)
  <2>1. m <= Len(input) /\ input \in Seq(Bytes)
    BY <1>1, <1>2
  <2>2. SubSeq(input, 0 + 1, pos) \o SubSeq(input, pos + 1, m) = SubSeq(input, 0 + 1, m)
    BY <1>3, <2>1, Parts
  <2>3. 0 + 1 = 1
    OBVIOUS
  <2> QED
    BY <2>2, <2>3
<1> HIDE DEF x, p
<1>6. out' = Append(out, x)
  <2>1. << >> \o x = x
    BY <1>4, ConcatEmptySeq
  <2> QED
    BY <1>1, <2>1
<1>7. FlattenSeq(Append(out, x)) = FlattenSeq(out) \o x
  BY <1>1, <1>4, FlattenAppend
<1>8. Append(out, x) \in Seq(Seq(Bytes))
  BY <1>1, <1>4, AppendProperties
<1>9. FlattenSeq(out') = SubSeq(input', 1, pos')
  BY <1>1, <1>5, <1>6, <1>7
<1> QED
  BY <1>1, <1>3, <1>6, <1>8, <1>9 DEF Reading

(* Nothing has been read yet. *)
LEMMA ReadingFirst ==
  ASSUME Init
  PROVE  Reading
<1>1. /\ reader \in Readers /\ input \in Inputs /\ pos = 0
      /\ buffer = << >> /\ out = << >> /\ done = "no"
  BY DEF Init
<1>2. Len(input) \in Nat
  BY <1>1, Stream
<1>3. SubSeq(input, 1, 0) = << >>
  BY SubSeqEmpty
<1>4. FlattenSeq(<< >>) = << >>
  <2>1. << >> \in Seq(Seq(Bytes)) /\ Len(<< >>) = 0
    BY EmptySeq
  <2>2. PICK f : Flattens(f, Bytes, << >>)
    BY <2>1, FlattenUp
  <2> QED
    BY <2>1, <2>2 DEF Flattens
<1>5. Between(0)
  <2>1. Scan(reader, SubSeq(input, 1, 0)) = Start
    BY <1>3, ScanNothing
  <2>2. SubSeq(input, 0 + 1, pos) = << >>
    BY <1>1, <1>3
  <2> QED
    BY <1>1, <2>1, <2>2 DEF Between, Start
<1>6. out \in Seq(Seq(Bytes))
  BY <1>1, EmptySeq
<1>7. 0 \in 0 .. pos /\ pos \in 0 .. Len(input)
  BY <1>1, <1>2
<1> QED
  BY <1>1, <1>3, <1>4, <1>5, <1>6, <1>7 DEF Reading

(* Every step of a reader. *)
LEMMA ReadingKept ==
  ASSUME Reading, [Next]_vars
  PROVE  Reading'
<1>1. CASE UNCHANGED vars
  <2>1. UNCHANGED <<reader, input, pos, buffer, out, done>>
    BY <1>1 DEF vars
  <2> QED
    BY <2>1, Stands DEF Reading
<1>2. CASE \E n \in 1 .. Len(input) : Fill(n)
  BY <1>2, Filled
<1>3. CASE \E n \in 1 .. Len(input) : OutputChunk(n)
  BY <1>3, ChunkOut
<1>4. CASE MessageLine
  <2>1. /\ reader = "messages" /\ done = "no" /\ NewlineAt # 0
        /\ IsBlank => buffer' = AfterLine /\ UNCHANGED <<reader, input, pos, out, done>>
        /\ ~IsBlank => Gives(Parse(Line), AfterLine)
    BY <1>4 DEF MessageLine, Goes
  <2>2. ASSUME NEW k, Waiting(k)
        PROVE  Reading'
    <3>1. Line = << >> <=> IsBlank
      BY <2>1, <2>2, LineOut DEF IsBlank
    <3>2. CASE IsBlank
      <4>1. Whole(reader, Line) = << >>
        BY <2>1, <3>1, <3>2 DEF Whole
      <4>2. out \o << >> = out
        <5>1. out \in Seq(Seq(Bytes))
          BY DEF Reading
        <5> QED
          BY <5>1, ConcatEmptySeq
      <4>3. out' = out \o Whole(reader, Line) /\ buffer' = AfterLine
            /\ UNCHANGED <<reader, input, pos, done>>
        BY <2>1, <3>2, <4>1, <4>2
      <4> QED
        BY <2>1, <2>2, <4>3, HandsOut
    <3>3. CASE ~IsBlank
      <4>1. Whole(reader, Line) = <<Parse(Line)>>
        BY <2>1, <3>1, <3>3 DEF Whole
      <4>2. Gives(Parse(Line), AfterLine) /\ reader # "chunks" /\ done = "no"
        BY <2>1, <3>3
      <4> QED
        BY <2>1, <2>2, <4>1, <4>2, GivesLine
    <3> QED
      BY <3>2, <3>3
  <2>3. ASSUME NEW k, Closing(k)
        PROVE  Reading'
    <3>1. /\ ~IsBlank /\ AfterLine = << >> /\ Line \in Seq(Bytes) /\ Line # << >>
          /\ Scan(reader, input) = [out |-> out, rest |-> Line]
      BY <2>3, LastLine
    <3>2. /\ out' = Append(out, IF reader = "lines" THEN Line ELSE Parse(Line))
          /\ buffer' = << >> /\ UNCHANGED <<reader, input, pos, done>>
      BY <2>1, <3>1 DEF Gives
    <3>3. reader # "chunks" /\ pos = Len(input) /\ done = "no"
      BY <2>1, <2>3 DEF Closing
    <3> QED
      BY <3>1, <3>2, <3>3, HandsRest
  <2> QED
    BY <2>1, <2>2, <2>3, HasLine
<1>5. CASE MessageEof
  <2>1. /\ reader = "messages" /\ done = "no" /\ NewlineAt = 0 /\ pos = Len(input)
        /\ buffer = << >> => done' = "end" /\ UNCHANGED <<reader, input, pos, buffer, out>>
        /\ buffer # << >> => /\ buffer' = Append(buffer, Newline)
                             /\ UNCHANGED <<reader, input, pos, out, done>>
    BY <1>5 DEF MessageEof, AtEof, Goes, NoRest, End, Closed
  <2>2. CASE buffer = << >>
    BY <2>1, <2>2, AtTheEnd, Stands
  <2>3. CASE buffer # << >>
    <3>1. PICK k \in 0 .. pos : Waiting(k)
      <4>1. ~Exhausted
        BY <2>3 DEF Exhausted
      <4>2. \A k \in 0 .. pos : ~Closing(k)
        BY <2>1, LastLine
      <4> QED
        BY <2>1, <4>1, <4>2, Open
    <3>2. /\ buffer \in Seq(Bytes) /\ Len(buffer) = pos - k /\ k \in Nat /\ pos \in Nat
          /\ \A i \in 1 .. pos - k : buffer[i] = input[k + i]
      BY <3>1, Buffered
    <3>3. \A i \in 1 .. pos - k : buffer[i] # Newline
      BY <2>1, <3>2, FirstNewline
    <3>4. k < pos
      <4>1. Len(buffer) # 0
        BY <2>3, <3>2, EmptySeq
      <4> QED
        BY <3>2, <4>1
    <3>5. \A i \in k + 1 .. pos : input[i] # Newline
      <4>1. ASSUME NEW i \in k + 1 .. pos
            PROVE  input[i] # Newline
        <5>1. i - k \in 1 .. pos - k /\ k + (i - k) = i
          BY <3>2
        <5> QED
          BY <3>2, <3>3, <5>1
      <4> QED
        BY <4>1
    <3>6. Between(k)'
      <4>1. UNCHANGED <<reader, input, pos, out>> /\ buffer' = Append(buffer, Newline)
        BY <2>1, <2>3
      <4>2. /\ Scan(reader, SubSeq(input, 1, k)) = [out |-> out, rest |-> << >>]
            /\ buffer = SubSeq(input, k + 1, pos)
        BY <3>1 DEF Waiting
      <4> QED
        BY <2>1, <3>4, <3>5, <4>1, <4>2 DEF Between
    <3> QED
      BY <2>1, <2>3, <3>6 DEF Reading
  <2> QED
    BY <2>2, <2>3
<1>6. CASE OutputLine
  <2>1. /\ reader = "lines" /\ done = "no" /\ NewlineAt # 0
        /\ Gives(Append(Line, Newline), AfterLine)
    BY <1>6 DEF OutputLine, Goes
  <2>2. PICK k \in 0 .. pos : Waiting(k)
    BY <2>1, HasLine
  <2>3. Whole(reader, Line) = <<Append(Line, Newline)>> /\ reader # "chunks"
    BY <2>1 DEF Whole
  <2> QED
    BY <2>1, <2>2, <2>3, GivesLine
<1>7. CASE OutputEof
  <2>1. /\ reader = "lines" /\ done = "no" /\ NewlineAt = 0 /\ pos = Len(input)
        /\ buffer = << >> => done' = "end" /\ UNCHANGED <<reader, input, pos, buffer, out>>
        /\ buffer # << >> => Gives(buffer, << >>)
    BY <1>7 DEF OutputEof, AtEof, Goes, NoRest, End
  <2>2. CASE buffer = << >>
    BY <2>1, <2>2, AtTheEnd, Stands
  <2>3. CASE buffer # << >>
    BY <2>1, <2>3, GivesRest
  <2> QED
    BY <2>2, <2>3
<1>8. CASE ChunkEof
  <2>1. reader = "chunks" /\ UNCHANGED <<reader, input, pos, buffer, out>>
    BY <1>8 DEF ChunkEof, AtEof, Goes, End
  <2> QED
    BY <2>1, Stands
<1>9. CASE StatusLine
  <2>1. /\ reader = "statuses" /\ done = "no"
        /\ \/ NewlineAt # 0 /\ Gives(Parse(Line), AfterLine)
           \/ NewlineAt = 0 /\ pos = Len(input) /\ buffer # << >> /\ Gives(Parse(buffer), << >>)
    BY <1>9 DEF StatusLine, AtEof, Goes
  <2>2. CASE NewlineAt # 0
    <3>1. PICK k \in 0 .. pos : Waiting(k)
      BY <2>1, <2>2, HasLine
    <3>2. Whole(reader, Line) = <<Parse(Line)>> /\ reader # "chunks"
      BY <2>1 DEF Whole
    <3> QED
      BY <2>1, <2>2, <3>1, <3>2, GivesLine
  <2>3. CASE NewlineAt = 0
    BY <2>1, <2>3, GivesRest
  <2> QED
    BY <2>2, <2>3
<1>10. CASE StatusEof
  <2>1. /\ reader = "statuses" /\ NewlineAt = 0 /\ pos = Len(input) /\ buffer = << >>
        /\ UNCHANGED <<reader, input, pos, buffer, out>>
    BY <1>10 DEF StatusEof, AtEof, Goes, End
  <2> QED
    BY <2>1, AtTheEnd, Stands
<1>11. CASE ReadError
  <2>1. done' = "failed" /\ UNCHANGED <<reader, input, pos, buffer, out>>
    BY <1>11 DEF ReadError
  <2> QED
    BY <2>1, Stands
<1>12. CASE Cancel
  <2>1. done = "no" /\ UNCHANGED <<reader, input, pos, buffer, out, done>>
    BY <1>12 DEF Cancel, KeptOnCancel
  <2> QED
    BY <2>1, Stands
<1> QED
  BY <1>1, <1>2, <1>3, <1>4, <1>5, <1>6, <1>7, <1>8, <1>9, <1>10, <1>11, <1>12 DEF Next, Step
-----------------------------------------------------------------------------
(* What a run checks, for streams of any length. *)

(* A stream of bytes and its rest. *)
LEMMA OwedGrows ==
  ASSUME Reading, NEW k \in 0 .. pos, Scan(reader, SubSeq(input, 1, k)).out = out
  PROVE  Grown(Bytes, out, Owed(reader, input))
<1> DEFINE n == Len(input)
           s == SubSeq(input, 1, k)
           t == SubSeq(input, k + 1, n)
           end == Scan(reader, input)
           x == IF reader = "lines" THEN end.rest ELSE Parse(end.rest)
<1>1. input \in Seq(Bytes) /\ n \in Nat /\ Ordinary(Bytes) /\ pos \in 0 .. n
  BY Stream DEF Reading
<1>2. /\ 0 \in Nat /\ k \in Nat /\ 0 <= k /\ k <= n /\ n <= n /\ 0 + 1 = 1
  BY <1>1
<1>3. /\ s \in Seq(Bytes) /\ t \in Seq(Bytes) /\ s \o t = input
  <2>1. SubSeq(input, 1, n) = input
    BY <1>1, SubSeqFull
  <2>2. n <= Len(input)
    BY <1>1
  <2> HIDE DEF n
  <2>3. /\ SubSeq(input, 0 + 1, k) \in Seq(Bytes)
        /\ SubSeq(input, 0 + 1, k) \o SubSeq(input, k + 1, n) = SubSeq(input, 0 + 1, n)
    BY <1>1, <1>2, <2>2, Parts
  <2>4. SubSeq(input, k + 1, n) \in Seq(Bytes)
    BY <1>1, <1>2, <2>2, Parts
  <2> QED
    BY <1>2, <2>1, <2>3, <2>4
<1>4. Grown(Bytes, out, end.out)
  <2>1. Scan(reader, s).out = out /\ Scan(reader, s \o t) = end
    BY <1>3
  <2> HIDE DEF s, t, end
  <2>2. Grown(Bytes, Scan(reader, s).out, Scan(reader, s \o t).out)
    BY <1>1, <1>3, ScanGrows
  <2> QED
    BY <2>1, <2>2
<1>5. end.out \in Seq(Seq(Bytes)) /\ end.rest \in Seq(Bytes)
  <2>1. Scan(reader, input) \in SoFar(Bytes)
    <3>1. "bad" \in Bytes
      BY <1>1 DEF Ordinary
    <3> QED
      BY <1>1, <3>1, ScanAppend
  <2> QED
    BY <2>1 DEF SoFar
<1>6. x \in Seq(Bytes)
  BY <1>1, <1>5, WholeTyped
<1>7. Owed(reader, input) \in {end.out, Append(end.out, x)}
  BY DEF Owed
<1> HIDE DEF x, end
<1>8. PICK m \in Seq(Seq(Bytes)) : end.out = out \o m
  BY <1>4 DEF Grown
<1>9. Append(end.out, x) = out \o Append(m, x)
  <2>1. out \in Seq(Seq(Bytes)) /\ <<x>> \in Seq(Seq(Bytes))
    BY <1>6 DEF Reading
  <2>2. Append(end.out, x) = end.out \o <<x>> /\ Append(m, x) = m \o <<x>>
    BY <1>5, <1>6, <1>8, AppendIsConcat
  <2>3. (out \o m) \o <<x>> = out \o (m \o <<x>>)
    BY <1>8, <2>1, ConcatAssociative
  <2> QED
    BY <1>8, <2>2, <2>3
<1>10. Append(m, x) \in Seq(Seq(Bytes))
  BY <1>6, <1>8, AppendProperties
<1> QED
  BY <1>7, <1>8, <1>9, <1>10 DEF Grown

(* A list is a prefix of what it grows to.                                  *)
LEMMA GrownIsPrefix ==
  ASSUME NEW C, NEW base \in Seq(Seq(C)), NEW grown, Grown(C, base, grown)
  PROVE  IsPrefix(base, grown)
<1> DEFINE n == Len(base)
<1>1. PICK m \in Seq(Seq(C)) : grown = base \o m
  BY DEF Grown
<1>2. n \in Nat /\ Len(m) \in Nat /\ Len(grown) = n + Len(m)
  BY <1>1, LenProperties, ConcatProperties
<1>3. n <= Len(grown)
  BY <1>2
<1>4. SubSeq(grown, 1, n) = SubSeq(base, 1, n)
  <2>1. CASE n = 0
    BY <2>1, SubSeqEmpty
  <2>2. CASE n # 0
    <3>1. 1 \in 1 .. n + 1 /\ n \in 1 - 1 .. n
      BY <1>2
    <3> QED
      BY <1>1, <3>1, SubSeqOfConcat1
  <2> QED
    BY <2>1, <2>2
<1> QED
  BY <1>3, <1>4 DEF IsPrefix

(* However the bytes come, whatever is dropped and wherever the stream      *)
(* ends: between the reader and its buffer no byte is lost, and none comes  *)
(* twice.  Every other result about the readers is a part of this one.      *)
THEOREM Cut == Spec => []Reading
<1>1. Init => Reading
  BY ReadingFirst
<1>2. Reading /\ [Next]_vars => Reading'
  BY ReadingKept
<1> QED
  BY <1>1, <1>2, PTL DEF Spec

(* What a reader has handed out is the beginning of what the stream holds,  *)
(* line by line, and all of it when it says that the stream has ended.      *)
THEOREM Whatever == Spec => []Framed
<1>1. Reading => Framed
  <2> SUFFICES ASSUME Reading
               PROVE  Framed
    OBVIOUS
  <2>1. CASE reader = "chunks"
    BY <2>1 DEF Reading, Framed
  <2>2. CASE reader # "chunks"
    <3>1. out \in Seq(Seq(Bytes)) /\ (done = "end" => out = Owed(reader, input))
      BY <2>2 DEF Reading, Exhausted
    <3>2. CASE Exhausted
      <4>1. out = Owed(reader, input)
        BY <3>2 DEF Exhausted
      <4>2. << >> \in Seq(Seq(Bytes)) /\ out \o << >> = out
        BY <3>1, EmptySeq, ConcatEmptySeq
      <4>3. Grown(Bytes, out, out)
        BY <4>2 DEF Grown
      <4> QED
        BY <2>2, <3>1, <4>1, <4>3, GrownIsPrefix DEF Framed
    <3>3. CASE ~Exhausted
      <4>1. PICK k \in 0 .. pos : Between(k)
        BY <2>2, <3>3 DEF Reading
      <4>2. Scan(reader, SubSeq(input, 1, k)).out = out
        BY <4>1 DEF Between
      <4>3. Grown(Bytes, out, Owed(reader, input))
        BY <4>2, OwedGrows
      <4> QED
        BY <2>2, <3>1, <4>3, GrownIsPrefix DEF Framed
    <3> QED
      BY <3>2, <3>3
  <2> QED
    BY <2>1, <2>2
<1> QED
  BY <1>1, Cut, PTL

(* A reader of lines asks for more bytes only when it has handed out every  *)
(* line it has read: a message that is here is never waited for.            *)
THEOREM NothingWaits == Spec => NothingHeld
<1> DEFINE Asks == pos' # pos /\ reader # "chunks"
                     => out = Scan(reader, SubSeq(input, 1, pos)).out
<1>1. Reading /\ [Next]_vars => [Asks]_vars
  <2> SUFFICES ASSUME Reading, Next, pos' # pos, reader # "chunks"
               PROVE  out = Scan(reader, SubSeq(input, 1, pos)).out
    OBVIOUS
  <2>1. PICK n \in 1 .. Len(input) : Fill(n)
    <3>1. \A n \in 1 .. Len(input) : ~OutputChunk(n)
      BY DEF OutputChunk, Goes
    <3>2. ~MessageLine /\ ~MessageEof
      BY DEF MessageLine, MessageEof, Gives, End
    <3>3. ~OutputLine /\ ~OutputEof /\ ~ChunkEof
      BY DEF OutputLine, OutputEof, ChunkEof, Gives, End
    <3>4. ~StatusLine /\ ~StatusEof /\ ~ReadError /\ ~Cancel
      BY DEF StatusLine, StatusEof, ReadError, Cancel, Gives, End
    <3> QED
      BY <3>1, <3>2, <3>3, <3>4 DEF Next, Step
  <2>2. NewlineAt = 0 /\ pos + n <= Len(input)
    BY <2>1 DEF Fill
  <2>3. ~Exhausted
    <3>1. Len(input) \in Nat
      BY Stream DEF Reading
    <3> QED
      BY <2>2, <3>1 DEF Exhausted
  <2>4. Scan(reader, SubSeq(input, 1, pos)) = [out |-> out, rest |-> buffer]
    BY <2>2, <2>3, AllOut
  <2> QED
    BY <2>4
<1> QED
  BY <1>1, Cut, PTL DEF Spec, NothingHeld
==============================================================================
