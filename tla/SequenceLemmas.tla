--------------------------- MODULE SequenceLemmas ---------------------------
(***************************************************************************)
(* What the proofs about several components need to know of sequences:     *)
(* buffers and queues are sequences from the middle of which elements are  *)
(* taken, and a queue without repetition stays one.  What a fold over a     *)
(* sequence comes to is shown place by place, by induction stated for sets. *)
(***************************************************************************)
EXTENDS Integers, SequencesExt, FiniteSetsExt, SequenceTheorems, WellFoundedInduction, TLAPS

(* Removing an element closes the gap and keeps the rest in place. *)
LEMMA RemoveAtFacts ==
  ASSUME NEW S, NEW s \in Seq(S), NEW i \in 1 .. Len(s)
  PROVE  /\ RemoveAt(s, i) \in Seq(S)
         /\ Len(RemoveAt(s, i)) = Len(s) - 1
         /\ \A j \in 1 .. Len(s) - 1 :
              RemoveAt(s, i)[j] = IF j < i THEN s[j] ELSE s[j + 1]
<1> DEFINE a == SubSeq(s, 1, i - 1)
           b == SubSeq(s, i + 1, Len(s))
<1>1. Len(s) \in Nat /\ \A j \in 1 .. Len(s) : s[j] \in S
  BY LenProperties, ElementOfSeq
<1>2. /\ a \in Seq(S)
      /\ Len(a) = i - 1
      /\ \A j \in 1 .. i - 1 : a[j] = s[j]
  <2>1. \A j \in 1 .. i - 1 : s[j] \in S
    BY <1>1
  <2>2. /\ a \in Seq(S)
        /\ Len(a) = IF 1 <= i - 1 THEN i - 1 - 1 + 1 ELSE 0
        /\ \A j \in 1 .. i - 1 - 1 + 1 : a[j] = s[1 + j - 1]
    BY <1>1, <2>1, SubSeqProperties, 1 \in Int, i - 1 \in Int
  <2> QED
    BY <2>2, <1>1
<1>3. /\ b \in Seq(S)
      /\ Len(b) = Len(s) - i
      /\ \A j \in 1 .. Len(s) - i : b[j] = s[i + j]
  <2>1. \A j \in i + 1 .. Len(s) : s[j] \in S
    BY <1>1
  <2>2. /\ b \in Seq(S)
        /\ Len(b) = IF i + 1 <= Len(s) THEN Len(s) - (i + 1) + 1 ELSE 0
        /\ \A j \in 1 .. Len(s) - (i + 1) + 1 : b[j] = s[i + 1 + j - 1]
    BY <1>1, <2>1, SubSeqProperties, i + 1 \in Int, Len(s) \in Int
  <2> QED
    BY <2>2, <1>1
<1>4. /\ a \o b \in Seq(S)
      /\ Len(a \o b) = Len(a) + Len(b)
      /\ \A j \in 1 .. Len(a) + Len(b) :
           (a \o b)[j] = IF j <= Len(a) THEN a[j] ELSE b[j - Len(a)]
  BY <1>2, <1>3, ConcatProperties
<1>5. RemoveAt(s, i) = a \o b
  BY DEF RemoveAt
<1>6. ASSUME NEW j \in 1 .. Len(s) - 1
      PROVE  (a \o b)[j] = IF j < i THEN s[j] ELSE s[j + 1]
  <2> HIDE DEF a, b
  <2>1. CASE j < i
    BY <1>1, <1>2, <1>3, <1>4, <2>1
  <2>2. CASE ~(j < i)
    <3>1. j - Len(a) \in 1 .. Len(s) - i
      BY <1>1, <1>2, <2>2
    <3>2. (a \o b)[j] = b[j - Len(a)]
      BY <1>1, <1>2, <1>3, <1>4, <2>2
    <3>3. i + (j - Len(a)) = j + 1
      BY <1>1, <1>2
    <3> QED
      BY <1>3, <3>1, <3>2, <3>3, <2>2
  <2> QED
    BY <2>1, <2>2
<1> QED
  <2> HIDE DEF a, b
  <2> QED
    BY <1>1, <1>2, <1>3, <1>4, <1>5, <1>6

(* A sequence without repetition that loses an element loses it for good.   *)
LEMMA RemoveInjective ==
  ASSUME NEW S, NEW s \in Seq(S), NEW i \in 1 .. Len(s), IsInjective(s)
  PROVE  /\ RemoveAt(s, i) \in Seq(S)
         /\ IsInjective(RemoveAt(s, i))
         /\ Range(RemoveAt(s, i)) = Range(s) \ {s[i]}
<1> DEFINE t == RemoveAt(s, i)
<1>1. /\ t \in Seq(S)
      /\ Len(t) = Len(s) - 1
      /\ \A j \in 1 .. Len(s) - 1 : t[j] = IF j < i THEN s[j] ELSE s[j + 1]
  BY RemoveAtFacts
<1>2. DOMAIN s = 1 .. Len(s) /\ Len(s) \in Nat
  BY LenProperties
<1>3. DOMAIN t = 1 .. Len(s) - 1
  BY <1>1, LenProperties
<1>4. \A m, n \in 1 .. Len(s) : s[m] = s[n] => m = n
  BY <1>2 DEF IsInjective
<1> HIDE DEF t
<1>5. IsInjective(t)
  <2> SUFFICES ASSUME NEW j \in 1 .. Len(s) - 1, NEW k \in 1 .. Len(s) - 1, t[j] = t[k]
               PROVE  j = k
    BY <1>3 DEF IsInjective
  <2> DEFINE p == IF j < i THEN j ELSE j + 1
             q == IF k < i THEN k ELSE k + 1
  <2>1. t[j] = s[p] /\ t[k] = s[q]
    BY <1>1
  <2>2. p \in 1 .. Len(s) /\ q \in 1 .. Len(s)
    BY <1>2
  <2>3. p = q
    BY <1>4, <2>1, <2>2
  <2> QED
    BY <1>2, <2>3
<1>6. Range(t) \subseteq Range(s) \ {s[i]}
  <2> SUFFICES ASSUME NEW j \in 1 .. Len(s) - 1
               PROVE  t[j] \in Range(s) \ {s[i]}
    BY <1>3 DEF Range
  <2> DEFINE k == IF j < i THEN j ELSE j + 1
  <2>1. k \in 1 .. Len(s) /\ k # i /\ t[j] = s[k]
    <3>1. CASE j < i
      BY <1>1, <1>2, <3>1
    <3>2. CASE ~(j < i)
      BY <1>1, <1>2, <3>2
    <3> QED
      BY <3>1, <3>2
  <2> QED
    BY <1>2, <1>4, <2>1 DEF Range
<1>7. Range(s) \ {s[i]} \subseteq Range(t)
  <2> SUFFICES ASSUME NEW k \in 1 .. Len(s), s[k] # s[i]
               PROVE  s[k] \in Range(t)
    BY <1>2 DEF Range
  <2> DEFINE j == IF k < i THEN k ELSE k - 1
  <2>1. k # i
    OBVIOUS
  <2>2. j \in 1 .. Len(s) - 1 /\ t[j] = s[k]
    <3>1. CASE k < i
      BY <1>1, <1>2, <3>1
    <3>2. CASE ~(k < i)
      BY <1>1, <1>2, <2>1, <3>2
    <3> QED
      BY <3>1, <3>2
  <2> QED
    BY <1>3, <2>2 DEF Range
<1> QED
  BY <1>1, <1>5, <1>6, <1>7 DEF t

(* A queue without repetition whose first element leaves.                   *)
LEMMA TailInjective ==
  ASSUME NEW S, NEW s \in Seq(S), s # << >>, IsInjective(s)
  PROVE  /\ Tail(s) \in Seq(S) /\ Head(s) \in S /\ Head(s) \in Range(s)
         /\ IsInjective(Tail(s))
         /\ Range(Tail(s)) = Range(s) \ {Head(s)}
<1>1. DOMAIN s = 1 .. Len(s) /\ Len(s) \in Nat /\ Len(s) # 0
  BY LenProperties, EmptySeq
<1>2. /\ Head(s) \in S /\ Tail(s) \in Seq(S) /\ Head(s) = s[1]
      /\ Len(Tail(s)) = Len(s) - 1
      /\ \A i \in 1 .. Len(Tail(s)) : Tail(s)[i] = s[i + 1]
  BY HeadTailProperties
<1>3. DOMAIN Tail(s) = 1 .. Len(s) - 1
  BY <1>2, LenProperties
<1>4. \A m, n \in 1 .. Len(s) : s[m] = s[n] => m = n
  BY <1>1 DEF IsInjective
<1>5. IsInjective(Tail(s))
  <2> SUFFICES ASSUME NEW j \in 1 .. Len(s) - 1, NEW k \in 1 .. Len(s) - 1,
                      Tail(s)[j] = Tail(s)[k]
               PROVE  j = k
    BY <1>3 DEF IsInjective
  <2>1. s[j + 1] = s[k + 1] /\ j + 1 \in 1 .. Len(s) /\ k + 1 \in 1 .. Len(s)
    BY <1>1, <1>2
  <2> QED
    BY <1>4, <2>1
<1>6. Range(Tail(s)) = Range(s) \ {Head(s)}
  <2>1. ASSUME NEW j \in 1 .. Len(s) - 1
        PROVE  Tail(s)[j] \in Range(s) \ {Head(s)}
    <3>1. j + 1 \in 1 .. Len(s) /\ j + 1 # 1 /\ Tail(s)[j] = s[j + 1] /\ 1 \in 1 .. Len(s)
      BY <1>1, <1>2
    <3> QED
      BY <1>1, <1>2, <1>4, <3>1 DEF Range
  <2>2. ASSUME NEW k \in 1 .. Len(s), s[k] # Head(s)
        PROVE  s[k] \in Range(Tail(s))
    <3>1. k - 1 \in 1 .. Len(s) - 1 /\ (k - 1) + 1 = k
      BY <1>1, <1>2, <2>2
    <3>2. Tail(s)[k - 1] = s[k]
      BY <1>2, <3>1
    <3> QED
      BY <1>3, <3>1, <3>2 DEF Range
  <2> QED
    BY <1>1, <1>3, <2>1, <2>2 DEF Range
<1>7. Head(s) \in Range(s)
  BY <1>1, <1>2 DEF Range
<1> QED
  BY <1>2, <1>5, <1>6, <1>7

(* A queue without repetition that a newcomer joins.                        *)
LEMMA JoinInjective ==
  ASSUME NEW S, NEW s \in Seq(S), NEW e \in S, IsInjective(s), e \notin Range(s)
  PROVE  /\ Append(s, e) \in Seq(S)
         /\ IsInjective(Append(s, e))
         /\ Range(Append(s, e)) = Range(s) \cup {e}
<1> SUFFICES ASSUME NEW t, t = Append(s, e)
             PROVE  t \in Seq(S) /\ IsInjective(t) /\ Range(t) = Range(s) \cup {e}
  OBVIOUS
<1>1. DOMAIN s = 1 .. Len(s) /\ Len(s) \in Nat
  BY LenProperties
<1>2. /\ t \in Seq(S) /\ Len(t) = Len(s) + 1
      /\ \A i \in 1 .. Len(s) : t[i] = s[i]
      /\ t[Len(s) + 1] = e
  BY AppendProperties
<1>3. DOMAIN t = 1 .. Len(s) + 1
  BY <1>2, LenProperties
<1>4. \A i \in 1 .. Len(s) : s[i] # e
  BY <1>1 DEF Range
<1>5. IsInjective(t)
  <2> SUFFICES ASSUME NEW j \in 1 .. Len(s) + 1, NEW k \in 1 .. Len(s) + 1, t[j] = t[k]
               PROVE  j = k
    BY <1>3 DEF IsInjective
  <2>1. \A m, n \in 1 .. Len(s) : s[m] = s[n] => m = n
    BY <1>1 DEF IsInjective
  <2>2. (j \in 1 .. Len(s) \/ j = Len(s) + 1) /\ (k \in 1 .. Len(s) \/ k = Len(s) + 1)
    BY <1>1
  <2> QED
    BY <1>2, <1>4, <2>1, <2>2
<1>6. Range(t) = Range(s) \cup {e}
  <2>1. ASSUME NEW j \in 1 .. Len(s) + 1
        PROVE  t[j] \in Range(s) \cup {e}
    <3>1. j \in 1 .. Len(s) \/ j = Len(s) + 1
      BY <1>1
    <3> QED
      BY <1>1, <1>2, <3>1 DEF Range
  <2>2. Range(s) \cup {e} \subseteq Range(t)
    <3>1. \A i \in 1 .. Len(s) : i \in 1 .. Len(s) + 1
      BY <1>1
    <3>2. Len(s) + 1 \in 1 .. Len(s) + 1
      BY <1>1
    <3> QED
      BY <1>1, <1>2, <1>3, <3>1, <3>2 DEF Range
  <2> QED
    BY <1>3, <2>1, <2>2 DEF Range
<1> QED
  BY <1>2, <1>5, <1>6

(* A sequence is its head and its tail.                                     *)
LEMMA HeadOnTail ==
  ASSUME NEW S, NEW s \in Seq(S), s # << >>
  PROVE  s = <<Head(s)>> \o Tail(s)
<1>1. Len(s) \in Nat /\ Len(s) # 0 /\ Head(s) = s[1]
  BY EmptySeq, LenProperties
<1>2. SubSeq(s, 1, Len(s)) = <<s[1]>> \o SubSeq(s, 1 + 1, Len(s))
  <2>1. 1 \in 1 .. Len(s) /\ Len(s) \in 1 .. Len(s)
    BY <1>1
  <2> QED
    BY <2>1, SubSeqRecursiveFirst
<1>3. SubSeq(s, 1, Len(s)) = s /\ Tail(s) = SubSeq(s, 2, Len(s))
  BY SubSeqFull, TailIsSubSeq
<1>4. SubSeq(s, 1 + 1, Len(s)) = SubSeq(s, 2, Len(s))
  BY 1 + 1 = 2
<1> QED
  BY <1>1, <1>2, <1>3, <1>4

-----------------------------------------------------------------------------
(* Induction, stated for sets, and the folds of sequences. *)

(* A set of numbers has a least one.                                        *)
LEMMA LeastNumber ==
  ASSUME NEW T \in SUBSET Nat, T # {}
  PROVE  \E m \in T : \A n \in T : m <= n
<1>1. IsWellFoundedOn(OpToRel(<, Nat), Nat)
  BY NatLessThanWellFounded
<1>2. PICK m \in T : \A n \in T : <<n, m>> \notin OpToRel(<, Nat)
  BY <1>1, WFMin
<1>3. ASSUME NEW n \in Nat, NEW k \in Nat, n < k
      PROVE  <<n, k>> \in OpToRel(<, Nat)
  BY <1>3 DEF OpToRel
<1>4. \A n \in T : ~(n < m)
  BY <1>2, <1>3
<1> QED
  BY <1>4

(* Induction over numbers, stated for a set: what holds of a number is the  *)
(* set of those it holds of.                                                *)
LEMMA UpFromZero ==
  ASSUME NEW top \in Nat, NEW S, 0 \in S,
         \A n \in 0 .. top : n \in S /\ n < top => n + 1 \in S
  PROVE  0 .. top \subseteq S
<1> DEFINE T == {n \in 0 .. top : n \notin S}
<1> SUFFICES ASSUME T # {}
             PROVE  FALSE
  OBVIOUS
<1>1. PICK m \in T : \A n \in T : m <= n
  <2>1. T \in SUBSET Nat
    OBVIOUS
  <2> HIDE DEF T
  <2> QED
    BY <2>1, LeastNumber
<1>2. m \in 0 .. top /\ m \notin S /\ m # 0
  BY <1>1
<1>3. m - 1 \in 0 .. top /\ m - 1 < top /\ ~(m <= m - 1) /\ (m - 1) + 1 = m
  BY <1>2
<1>4. m - 1 \in S
  BY <1>1, <1>3
<1> QED
  BY <1>2, <1>3, <1>4

(* Min and Max are what they say.                                           *)
LEMMA MinIsLeast ==
  ASSUME NEW T \in SUBSET Nat, T # {}
  PROVE  Min(T) \in T /\ \A n \in T : Min(T) <= n
BY LeastNumber DEF Min

(* The greatest of numbers that have a bound is one of them.                *)
LEMMA MaxIsGreatest ==
  ASSUME NEW top \in Nat, NEW T \in SUBSET (0 .. top), T # {}
  PROVE  Max(T) \in T /\ \A n \in T : n <= Max(T)
<1> DEFINE U == {n \in Nat : \A k \in T : k <= n}
<1>1. top \in U /\ U \in SUBSET Nat
  OBVIOUS
<1>2. PICK m \in U : \A n \in U : m <= n
  <2> HIDE DEF U
  <2> QED
    BY <1>1, LeastNumber
<1>3. m \in T
  <2> SUFFICES ASSUME m \notin T
               PROVE  FALSE
    OBVIOUS
  <2>1. PICK k \in T : TRUE
    OBVIOUS
  <2>2. \A n \in T : n <= m - 1
    BY <1>2
  <2>3. m - 1 \in Nat
    BY <1>2, <2>1, <2>2
  <2>4. m - 1 \in U
    BY <2>2, <2>3
  <2> QED
    BY <1>2, <2>4
<1>4. m \in T /\ \A n \in T : m >= n
  BY <1>2, <1>3
<1>5. \E x \in T : \A n \in T : x >= n
  BY <1>4
<1>6. Max(T) \in T /\ \A n \in T : Max(T) >= n
  BY <1>5 DEF Max
<1> QED
  BY <1>6

(* What MapThenFoldSet, and so the folds of sequences, are made of: a       *)
(* function of the sets of places, which takes the last place away first.   *)
IsFold(f, A, len, base, step) ==
  /\ f \in [SUBSET (1 .. len) -> A]
  /\ \A t \in SUBSET (1 .. len) :
       f[t] = IF t = {} THEN base ELSE step[<<f[t \ {Max(t)}], Max(t)>>]

(* There is such a function, whatever a step does.                          *)
LEMMA FoldExists ==
  ASSUME NEW A, NEW len \in Nat, NEW base \in A, NEW step \in [A \X (1 .. len) -> A]
  PROVE  \E f : IsFold(f, A, len, base, step)
<1> DEFINE Good(f, k) ==
             /\ f \in [SUBSET (1 .. k) -> A]
             /\ \A t \in SUBSET (1 .. k) :
                  f[t] = IF t = {} THEN base ELSE step[<<f[t \ {Max(t)}], Max(t)>>]
           S == {k \in 0 .. len : \E f \in [SUBSET (1 .. k) -> A] : Good(f, k)}
<1>1. 0 \in S
  <2> DEFINE f == [t \in SUBSET (1 .. 0) |-> base]
  <2>1. \A t \in SUBSET (1 .. 0) : t = {}
    OBVIOUS
  <2>2. f \in [SUBSET (1 .. 0) -> A] /\ Good(f, 0)
    BY <2>1
  <2> HIDE DEF f, Good
  <2>3. 0 \in 0 .. len /\ \E h \in [SUBSET (1 .. 0) -> A] : Good(h, 0)
    BY <2>2
  <2> QED
    BY <2>3
<1>2. ASSUME NEW k \in 0 .. len, k \in S, k < len
      PROVE  k + 1 \in S
  <2>1. PICK f \in [SUBSET (1 .. k) -> A] : Good(f, k)
    BY <1>2
  <2> DEFINE g == [t \in SUBSET (1 .. k + 1) |->
                     IF k + 1 \in t THEN step[<<f[t \ {k + 1}], k + 1>>] ELSE f[t]]
  <2>2. /\ k + 1 \in 1 .. len /\ k + 1 \notin 1 .. k
        /\ \A n \in 1 .. k + 1 : n \in 1 .. k \/ n = k + 1
        /\ k \in Nat /\ k + 1 \in 0 .. len
    BY <1>2
  <2>3. ASSUME NEW t \in SUBSET (1 .. k + 1)
        PROVE  /\ t \ {k + 1} \in SUBSET (1 .. k)
               /\ k + 1 \notin t => t \in SUBSET (1 .. k)
               /\ t \in SUBSET (0 .. k + 1)
    BY <2>2
  <2>4. g \in [SUBSET (1 .. k + 1) -> A]
    BY <2>1, <2>2, <2>3
  <2>5. ASSUME NEW t \in SUBSET (1 .. k + 1)
        PROVE  g[t] = IF t = {} THEN base ELSE step[<<g[t \ {Max(t)}], Max(t)>>]
    <3>1. CASE k + 1 \in t
      <4>1. Max(t) = k + 1
        <5>1. Max(t) \in t /\ \A n \in t : n <= Max(t)
          BY <2>2, <2>3, <3>1, MaxIsGreatest
        <5>2. \A n \in 1 .. k + 1 : k + 1 <= n => n = k + 1
          BY <2>2
        <5> QED
          BY <3>1, <5>1, <5>2
      <4>2. g[t \ {k + 1}] = f[t \ {k + 1}]
        BY <2>3
      <4> QED
        BY <3>1, <4>1, <4>2
    <3>2. CASE k + 1 \notin t
      <4>1. g[t] = f[t] /\ t \in SUBSET (1 .. k)
        BY <2>3, <3>2
      <4>2. t # {} => /\ t \ {Max(t)} \in SUBSET (1 .. k)
                      /\ g[t \ {Max(t)}] = f[t \ {Max(t)}]
        BY <2>2, <4>1
      <4>3. f[t] = IF t = {} THEN base ELSE step[<<f[t \ {Max(t)}], Max(t)>>]
        BY <2>1, <4>1
      <4> QED
        BY <4>1, <4>2, <4>3
    <3> QED
      BY <3>1, <3>2
  <2> HIDE DEF g
  <2>6. Good(g, k + 1)
    BY <2>4, <2>5
  <2> HIDE DEF Good
  <2> QED
    BY <2>2, <2>4, <2>6
<1>3. len \in S
  <2> HIDE DEF S
  <2> QED
    BY <1>1, <1>2, UpFromZero
<1> QED
  BY <1>3 DEF IsFold

(* The places up to one of them: the last one is taken away first.          *)
LEMMA PlacesUpTo ==
  ASSUME NEW k \in Nat \ {0}
  PROVE  1 .. k # {} /\ Max(1 .. k) = k /\ (1 .. k) \ {k} = 1 .. k - 1
<1>1. 1 .. k \in SUBSET (0 .. k) /\ 1 .. k # {} /\ k \in 1 .. k
  OBVIOUS
<1>2. Max(1 .. k) \in 1 .. k /\ \A n \in 1 .. k : n <= Max(1 .. k)
  BY <1>1, MaxIsGreatest
<1> QED
  BY <1>1, <1>2

(* A sequence of sequences is flattened one by one.                         *)
Flattens(f, V, s) ==
  /\ f \in [0 .. Len(s) -> Seq(V)]
  /\ f[0] = << >>
  /\ \A k \in 1 .. Len(s) : f[k] = f[k - 1] \o s[k]
  /\ FlattenSeq(s) = f[Len(s)]

(* There are the lists it goes through.                                     *)
LEMMA FlattenUp ==
  ASSUME NEW V, NEW s \in Seq(Seq(V))
  PROVE  \E f : Flattens(f, V, s)
<1> DEFINE n == Len(s)
           joins(f) == f = [i \in 1 .. n |-> IF i = 1 THEN s[i] ELSE f[i - 1] \o s[i]]
           flat[i \in 1 .. n] == IF i = 1 THEN s[i] ELSE flat[i - 1] \o s[i]
<1>1. n \in Nat /\ \A i \in 1 .. n : s[i] \in Seq(V)
  BY LenProperties, ElementOfSeq
<1>2. flat = CHOOSE f : joins(f)
  OBVIOUS
<1>3. FlattenSeq(s) = IF n = 0 THEN s ELSE flat[n]
  BY DEF FlattenSeq
<1> DEFINE step == [p \in Seq(V) \X (1 .. n) |-> p[1] \o s[p[2]]]
<1>4. /\ step \in [Seq(V) \X (1 .. n) -> Seq(V)]
      /\ \A a \in Seq(V), i \in 1 .. n : step[<<a, i>>] = a \o s[i]
  BY <1>1, ConcatProperties
<1> HIDE DEF step, n
<1>5. PICK g : IsFold(g, Seq(V), n, << >>, step)
  BY <1>1, <1>4, EmptySeq, FoldExists
<1> DEFINE f == [i \in 0 .. n |-> g[1 .. i]]
<1>6. \A i \in 0 .. n : f[i] = g[1 .. i] /\ g[1 .. i] \in Seq(V)
  <2>1. \A i \in 0 .. n : 1 .. i \in SUBSET (1 .. n)
    BY <1>1
  <2> QED
    BY <1>5, <2>1 DEF IsFold
<1>7. f[0] = << >>
  <2>1. 1 .. 0 = {} /\ {} \in SUBSET (1 .. n) /\ 0 \in 0 .. n
    BY <1>1
  <2> QED
    BY <1>5, <1>6, <2>1 DEF IsFold
<1>8. ASSUME NEW i \in 1 .. n
      PROVE  f[i] = f[i - 1] \o s[i]
  <2>1. 1 .. i # {} /\ Max(1 .. i) = i /\ (1 .. i) \ {i} = 1 .. i - 1
    <3>1. i \in Nat \ {0}
      BY <1>1
    <3> QED
      BY <3>1, PlacesUpTo
  <2>2. 1 .. i \in SUBSET (1 .. n) /\ i \in 0 .. n /\ i - 1 \in 0 .. n
    BY <1>1
  <2>3. g[1 .. i] = step[<<g[1 .. i - 1], i>>]
    BY <1>5, <2>1, <2>2 DEF IsFold
  <2> HIDE DEF f
  <2> QED
    BY <1>4, <1>6, <2>2, <2>3
<1> DEFINE h == [i \in 1 .. n |-> f[i]]
<1>9. joins(h)
  <2> DEFINE e(i) == IF i = 1 THEN s[i] ELSE h[i - 1] \o s[i]
  <2>1. ASSUME NEW i \in 1 .. n
        PROVE  f[i] = e(i)
    <3> HIDE DEF f
    <3>1. CASE i = 1
      <4>0. i - 1 = 0
        BY <3>1
      <4>1. f[i] = << >> \o s[i] /\ s[i] \in Seq(V)
        BY <1>1, <1>7, <1>8, <4>0
      <4> QED
        BY <3>1, <4>1, ConcatEmptySeq
    <3>2. CASE i # 1
      <4>1. i - 1 \in 1 .. n
        BY <1>1, <3>2
      <4> QED
        BY <1>8, <3>2, <4>1
    <3> QED
      BY <3>1, <3>2
  <2> HIDE DEF e, f
  <2>2. h = [i \in 1 .. n |-> e(i)]
    BY <2>1
  <2> HIDE DEF h
  <2> QED
    BY <2>2 DEF e
<1>10. joins(flat)
  <2> HIDE DEF joins, h
  <2> QED
    BY <1>2, <1>9
<1> HIDE DEF flat, f
<1>11. \A k \in 0 .. n : k # 0 => flat[k] = f[k]
  <2> DEFINE S == {k \in 0 .. n : k # 0 => flat[k] = f[k]}
  <2>1. 0 \in S
    BY <1>1
  <2>2. ASSUME NEW k \in 0 .. n, k \in S, k < n
        PROVE  k + 1 \in S
    <3>1. k + 1 \in 1 .. n /\ (k + 1) - 1 = k /\ k + 1 \in 0 .. n /\ (k + 1 = 1 <=> k = 0)
      BY <1>1, <2>2
    <3>2. flat[k + 1] = IF k = 0 THEN s[k + 1] ELSE flat[k] \o s[k + 1]
      BY <1>10, <3>1
    <3>3. f[k + 1] = f[k] \o s[k + 1] /\ s[k + 1] \in Seq(V)
      BY <1>1, <1>8, <3>1
    <3>4. << >> \o s[k + 1] = s[k + 1]
      BY <3>3, ConcatEmptySeq
    <3>5. flat[k + 1] = f[k + 1]
      BY <1>7, <2>2, <3>2, <3>3, <3>4
    <3> QED
      BY <3>1, <3>5
  <2> HIDE DEF S
  <2>3. 0 .. n \subseteq S
    BY <1>1, <2>1, <2>2, UpFromZero
  <2> QED
    BY <2>3 DEF S
<1>12. FlattenSeq(s) = f[n]
  <2>1. n = 0 => s = << >>
    BY EmptySeq DEF n
  <2>2. n \in 0 .. n
    BY <1>1
  <2> QED
    BY <1>3, <1>7, <1>11, <2>1, <2>2
<1>13. f \in [0 .. n -> Seq(V)]
  BY <1>6 DEF f
<1> QED
  <2> HIDE DEF f
  <2>1. Flattens(f, V, s)
    BY <1>7, <1>8, <1>12, <1>13 DEF Flattens, n
  <2> QED
    BY <2>1

(* So what comes last comes at the end.                                     *)
LEMMA FlattenAppend ==
  ASSUME NEW V, NEW s \in Seq(Seq(V)), NEW x \in Seq(V)
  PROVE  FlattenSeq(Append(s, x)) = FlattenSeq(s) \o x
<1> DEFINE n == Len(s)
           t == Append(s, x)
<1>1. /\ t \in Seq(Seq(V)) /\ Len(t) = n + 1 /\ n \in Nat
      /\ \A i \in 1 .. n : t[i] = s[i]
      /\ t[n + 1] = x
  BY AppendProperties, LenProperties
<1>2. PICK f : Flattens(f, V, s)
  BY FlattenUp
<1>3. PICK g : Flattens(g, V, t)
  BY <1>1, FlattenUp
<1>4. /\ f[0] = << >> /\ FlattenSeq(s) = f[n]
      /\ \A k \in 1 .. n : f[k] = f[k - 1] \o s[k]
  BY <1>2 DEF Flattens
<1> HIDE DEF t
<1>5. /\ g[0] = << >> /\ FlattenSeq(t) = g[n + 1]
      /\ \A k \in 1 .. n + 1 : g[k] = g[k - 1] \o t[k]
  BY <1>1, <1>3 DEF Flattens
<1> HIDE DEF n
<1>6. g[n] = f[n]
  <2> DEFINE S == {k \in 0 .. n : g[k] = f[k]}
  <2>0. n \in Nat
    BY <1>1
  <2>1. 0 \in S
    BY <2>0, <1>4, <1>5
  <2>2. ASSUME NEW k \in 0 .. n, k \in S, k < n
        PROVE  k + 1 \in S
    <3>1. k + 1 \in 1 .. n /\ k + 1 \in 1 .. n + 1 /\ (k + 1) - 1 = k /\ k + 1 \in 0 .. n
      BY <2>0, <2>2
    <3>2. f[k + 1] = f[k] \o s[k + 1] /\ g[k + 1] = g[k] \o t[k + 1] /\ t[k + 1] = s[k + 1]
      BY <1>1, <1>4, <1>5, <3>1
    <3> QED
      BY <2>2, <3>1, <3>2
  <2> HIDE DEF S
  <2>3. 0 .. n \subseteq S
    BY <1>1, <2>1, <2>2, UpFromZero
  <2> QED
    BY <1>1, <2>3 DEF S
<1>7. g[n + 1] = g[n] \o x
  <2>1. n + 1 \in 1 .. n + 1 /\ (n + 1) - 1 = n
    BY <1>1
  <2>2. \A k \in 1 .. n + 1 : g[k] = g[k - 1] \o t[k]
    BY <1>5
  <2>3. g[n + 1] = g[(n + 1) - 1] \o t[n + 1]
    BY <2>1, <2>2
  <2> QED
    BY <1>1, <2>1, <2>3
<1> QED
  BY <1>4, <1>5, <1>6, <1>7 DEF t
=============================================================================
