---------------------------- MODULE ExecRxProofs ----------------------------
(***************************************************************************)
(* Proofs about ExecRx, for any kinds, receivers, tasks and any number of  *)
(* lines.                                                                  *)
(***************************************************************************)
EXTENDS ExecRx, SequenceLemmas, SequenceTheorems, TLAPS

-----------------------------------------------------------------------------
(* Facts about the operations on the buffer. *)

(* An increasing sequence has no repetition. *)
LEMMA IncreasingInjective ==
  ASSUME NEW s \in Seq(Nat), StrictlyIncreasing(s)
  PROVE  IsInjective(s)
<1>1. DOMAIN s = 1 .. Len(s) /\ Len(s) \in Nat /\ \A i \in DOMAIN s : s[i] \in Nat
  BY LenProperties, ElementOfSeq
<1> QED
  BY <1>1 DEF IsInjective, StrictlyIncreasing

(* pop: an increasing buffer stays increasing and loses just the message    *)
(* that was taken.                                                          *)
LEMMA PopFacts ==
  ASSUME NEW s \in Seq(Nat), StrictlyIncreasing(s), NEW i \in 1 .. Len(s)
  PROVE  /\ RemoveAt(s, i) \in Seq(Nat)
         /\ StrictlyIncreasing(RemoveAt(s, i))
         /\ Range(RemoveAt(s, i)) = Range(s) \ {s[i]}
<1> DEFINE t == RemoveAt(s, i)
<1>1. /\ t \in Seq(Nat)
      /\ Len(t) = Len(s) - 1
      /\ \A j \in 1 .. Len(s) - 1 : t[j] = IF j < i THEN s[j] ELSE s[j + 1]
  BY RemoveAtFacts
<1>2. /\ DOMAIN s = 1 .. Len(s) /\ Len(s) \in Nat
      /\ \A j \in 1 .. Len(s) : s[j] \in Nat
  BY LenProperties, ElementOfSeq
<1>3. DOMAIN t = 1 .. Len(s) - 1
  BY <1>1, LenProperties
<1> HIDE DEF t
<1>4. StrictlyIncreasing(t)
  <2> SUFFICES ASSUME NEW j \in 1 .. Len(s) - 1, NEW k \in 1 .. Len(s) - 1, j < k
               PROVE  t[j] < t[k]
    BY <1>3 DEF StrictlyIncreasing
  <2>1. \A m, n \in 1 .. Len(s) : m < n => s[m] < s[n]
    BY <1>2 DEF StrictlyIncreasing
  <2>2. t[j] = s[IF j < i THEN j ELSE j + 1] /\ t[k] = s[IF k < i THEN k ELSE k + 1]
    BY <1>1
  <2> QED
    BY <1>2, <2>1, <2>2
<1>5. Range(t) \subseteq Range(s) \ {s[i]}
  <2> SUFFICES ASSUME NEW j \in 1 .. Len(s) - 1
               PROVE  t[j] \in Range(s) \ {s[i]}
    BY <1>3 DEF Range
  <2> DEFINE k == IF j < i THEN j ELSE j + 1
  <2>1. k \in 1 .. Len(s) /\ k # i /\ t[j] = s[k]
    <3>1. CASE j < i
      BY <1>1, <1>2, <3>1
    <3>2. CASE ~(j < i)
      BY <1>1, <1>2, <3>2
    <3> QED
      BY <3>1, <3>2
  <2>2. s[k] # s[i]
    BY <1>2, <2>1, IncreasingInjective DEF IsInjective
  <2> QED
    BY <1>2, <2>1, <2>2 DEF Range
<1>6. Range(s) \ {s[i]} \subseteq Range(t)
  <2> SUFFICES ASSUME NEW k \in 1 .. Len(s), s[k] # s[i]
               PROVE  s[k] \in Range(t)
    BY <1>2 DEF Range
  <2> DEFINE j == IF k < i THEN k ELSE k - 1
  <2>1. k # i
    OBVIOUS
  <2>2. j \in 1 .. Len(s) - 1 /\ t[j] = s[k]
    <3>1. CASE k < i
      BY <1>1, <1>2, <3>1
    <3>2. CASE ~(k < i)
      BY <1>1, <1>2, <2>1, <3>2
    <3> QED
      BY <3>1, <3>2
  <2> QED
    BY <1>3, <2>2 DEF Range
<1> QED
  BY <1>1, <1>4, <1>5, <1>6 DEF t

(* Appending adds one element to the range, and keeps a sequence increasing *)
(* when that element is larger than all others.                             *)
LEMMA AppendFacts ==
  ASSUME NEW s \in Seq(Nat), NEW e \in Nat
  PROVE  /\ Append(s, e) \in Seq(Nat)
         /\ Range(Append(s, e)) = Range(s) \cup {e}
         /\ StrictlyIncreasing(s) /\ (\A x \in Range(s) : x < e)
              => StrictlyIncreasing(Append(s, e))
<1> DEFINE t == Append(s, e)
<1>1. /\ t \in Seq(Nat)
      /\ Len(t) = Len(s) + 1
      /\ \A i \in 1 .. Len(s) : t[i] = s[i]
      /\ t[Len(s) + 1] = e
  BY AppendProperties
<1>2. DOMAIN s = 1 .. Len(s) /\ Len(s) \in Nat /\ DOMAIN t = 1 .. Len(s) + 1
  BY <1>1, LenProperties
<1> HIDE DEF t
<1>3. Range(t) = Range(s) \cup {e}
  <2>1. Range(t) \subseteq Range(s) \cup {e}
    BY <1>1, <1>2 DEF Range
  <2>2. Range(s) \subseteq Range(t)
    BY <1>1, <1>2 DEF Range
  <2>3. e \in Range(t)
    BY <1>1, <1>2 DEF Range
  <2> QED
    BY <2>1, <2>2, <2>3
<1>4. ASSUME StrictlyIncreasing(s), \A x \in Range(s) : x < e
      PROVE  StrictlyIncreasing(t)
  <2> SUFFICES ASSUME NEW i \in 1 .. Len(s) + 1, NEW j \in 1 .. Len(s) + 1, i < j
               PROVE  t[i] < t[j]
    BY <1>2 DEF StrictlyIncreasing
  <2>1. CASE j = Len(s) + 1
    <3>1. i \in 1 .. Len(s)
      BY <1>2, <2>1
    <3>2. s[i] \in Range(s)
      BY <1>2, <3>1 DEF Range
    <3>3. s[i] < e
      BY <1>4, <3>2
    <3> QED
      BY <1>1, <2>1, <3>1, <3>3
  <2>2. CASE j # Len(s) + 1
    <3>1. i \in DOMAIN s /\ j \in DOMAIN s
      BY <1>2, <2>2
    <3>2. s[i] < s[j]
      BY <1>4, <3>1 DEF StrictlyIncreasing
    <3> QED
      BY <1>1, <1>2, <3>1, <3>2
  <2> QED
    BY <2>1, <2>2
<1> QED
  BY <1>1, <1>3, <1>4 DEF t

(* Handing position p to receiver r. *)
LEMMA HandOut ==
  ASSUME got \in [Receivers -> Seq(Nat)], NEW r \in Receivers, NEW p \in Nat,
         got' = [got EXCEPT ![r] = Append(@, p)]
  PROVE  /\ got' \in [Receivers -> Seq(Nat)]
         /\ Range(got'[r]) = Range(got[r]) \cup {p}
         /\ \A s \in Receivers : s # r => got'[s] = got[s]
         /\ Delivered' = Delivered \cup {p}
         /\ InOrder /\ (\A q \in Range(got[r]) : q < p) => InOrder'
<1>1. got[r] \in Seq(Nat) /\ got'[r] = Append(got[r], p)
  OBVIOUS
<1>2. /\ Append(got[r], p) \in Seq(Nat)
      /\ Range(Append(got[r], p)) = Range(got[r]) \cup {p}
      /\ StrictlyIncreasing(got[r]) /\ (\A x \in Range(got[r]) : x < p)
            => StrictlyIncreasing(Append(got[r], p))
  BY <1>1, AppendFacts
<1>3. got' \in [Receivers -> Seq(Nat)]
  BY <1>1, <1>2
<1>4. \A s \in Receivers : s # r => got'[s] = got[s]
  OBVIOUS
<1>5. Delivered' = Delivered \cup {p}
  BY <1>1, <1>2, <1>4 DEF Delivered
<1>6. InOrder /\ (\A q \in Range(got[r]) : q < p) => InOrder'
  BY <1>1, <1>2, <1>4 DEF InOrder
<1> QED
  BY <1>1, <1>2, <1>3, <1>4, <1>5, <1>6

-----------------------------------------------------------------------------

(* Every variable of the receiver keeps its type. *)
THEOREM Typing == Spec => []TypeOK
<1>1. Init => TypeOK
  <2>1. /\ << >> \in Seq(Nat)
        /\ << >> \in Seq(Kinds \cup {Bad})
        /\ Len(<< >>) = 0
    BY EmptySeq
  <2>2. Init => read \in 0 .. Len(lines)
    BY <2>1 DEF Init
  <2>3. Init => lines \in Seq(Kinds \cup {Bad}) /\ queue \in Seq(Nat)
    BY <2>1 DEF Init
  <2>4. Init => got \in [Receivers -> Seq(Nat)]
    BY <2>1 DEF Init
  <2> QED
    BY <2>2, <2>3, <2>4 DEF Init, TypeOK
<1>2. TypeOK /\ [Next]_vars => TypeOK'
  <2> SUFFICES ASSUME TypeOK, [Next]_vars
               PROVE  TypeOK'
    OBVIOUS
  <2> USE RxAssumption DEF TypeOK
  <2>0. Len(lines) \in Nat
    BY LenProperties
  <2>1. ASSUME NEW k \in Kinds \cup {Bad}, HostWrite(k)
        PROVE  TypeOK'
    <3>1. lines' \in Seq(Kinds \cup {Bad}) /\ Len(lines') = Len(lines) + 1
      BY <2>1, AppendProperties DEF HostWrite
    <3> QED
      BY <2>0, <2>1, <3>1 DEF HostWrite, Wake, Woken
  <2>2. ASSUME NEW how \in {"eof", "failed"}, HostEnd(how)
        PROVE  TypeOK'
    BY <2>2 DEF HostEnd, Wake, Woken
  <2>3. ASSUME NEW r \in Receivers, TakeBuffered(r)
        PROVE  TypeOK'
    <3>1. PICK i \in Hits(r) : /\ got' = [got EXCEPT ![r] = Append(@, queue[i])]
                               /\ queue' = RemoveAt(queue, i)
      BY <2>3 DEF TakeBuffered, IsFirstHit
    <3>2. i \in 1 .. Len(queue) /\ queue[i] \in Nat
      BY <3>1, LenProperties, ElementOfSeq DEF Hits
    <3>3. queue' \in Seq(Nat)
      BY <3>1, <3>2, RemoveAtFacts
    <3>4. got' \in [Receivers -> Seq(Nat)]
      BY <3>1, <3>2, HandOut
    <3> QED
      BY <2>3, <3>3, <3>4 DEF TakeBuffered, IsFirstHit
  <2>4. ASSUME NEW r \in Receivers, BeginRead(r)
        PROVE  TypeOK'
    BY <2>4 DEF BeginRead, PopFindsNothing
  <2>5. ASSUME NEW r \in Receivers, ReadOwn(r) \/ ReadBad(r)
        PROVE  TypeOK'
    <3>1. got' \in [Receivers -> Seq(Nat)]
      BY <2>5, HandOut, read + 1 \in Nat DEF ReadOwn, ReadBad
    <3>2. /\ read' \in 0 .. Len(lines')
          /\ lock' = Nobody
          /\ toPoll' = toPoll \cup {r}
          /\ UNCHANGED <<lines, stream, queue, waker, outcome, drained, closed>>
      BY <2>0, <2>5 DEF ReadOwn, ReadBad, HasLine, Return
    <3> QED
      BY <3>1, <3>2
  <2>6. ASSUME NEW r \in Receivers, ReadOther(r)
        PROVE  TypeOK'
    <3>1. queue' \in Seq(Nat)
      BY <2>6, AppendFacts, read + 1 \in Nat DEF ReadOther, PutAside
    <3> QED
      BY <2>0, <2>6, <3>1 DEF ReadOther, PutAside, HasLine
  <2>7. ASSUME NEW r \in Receivers, ReadPending(r) \/ ReadEnd(r) \/ ReadFailed(r)
        PROVE  TypeOK'
    <3>1. CASE ReadPending(r)
      BY <3>1 DEF ReadPending, LeaveWaker
    <3>2. CASE ReadEnd(r)
      BY <3>2 DEF ReadEnd
    <3>3. CASE ReadFailed(r)
      BY <3>3 DEF ReadFailed
    <3> QED
      BY <2>7, <3>1, <3>2, <3>3
  <2>8. ASSUME NEW r \in Receivers, Recall(r)
        PROVE  TypeOK'
    BY <2>8 DEF Recall
  <2>9. ASSUME NEW n \in read .. Len(lines), Close(n)
        PROVE  TypeOK'
    <3>1. Range(queue) \subseteq Nat
      BY LenProperties, ElementOfSeq DEF Range
    <3>2. << >> \in Seq(Nat)
      BY EmptySeq
    <3>3. n \in 0 .. Len(lines) /\ read + 1 .. n \subseteq Nat
      BY <2>0
    <3>4. /\ read' \in 0 .. Len(lines')
          /\ queue' \in Seq(Nat)
          /\ drained' \subseteq Nat
          /\ closed' \in BOOLEAN
      BY <2>9, <3>1, <3>2, <3>3 DEF Close
    <3> QED
      BY <2>9, <3>4 DEF Close
  <2>10. CASE UNCHANGED vars
    BY <2>10 DEF vars
  <2> QED
    BY <2>1, <2>2, <2>3, <2>4, <2>5, <2>6, <2>7, <2>8, <2>9, <2>10
       DEF Next, Fetched, Reading
<1> QED
  BY <1>1, <1>2, PTL DEF Spec

-----------------------------------------------------------------------------
(* The inductive invariant. *)

(* What the invariant says of positions: those buffered or delivered are    *)
(* positions that have been read.                                           *)
LEMMA Ranges ==
  ASSUME IndInv
  PROVE  /\ read \in Nat /\ Len(lines) \in Nat /\ read <= Len(lines)
         /\ Range(queue) \subseteq 1 .. read
         /\ Delivered \subseteq 1 .. read
         /\ \A r \in Receivers : Range(got[r]) \subseteq 1 .. read
<1>1. Len(lines) \in Nat
  BY LenProperties DEF IndInv, TypeOK
<1>2. \A r \in Receivers : Range(got[r]) \subseteq Delivered
  BY DEF Delivered
<1> QED
  BY <1>1, <1>2 DEF IndInv, TypeOK, Places

(* A step that moves no position preserves the invariant, if whoever takes  *)
(* the mutex finds nothing in the buffer, and if nothing a receiver has     *)
(* seen the end of is missed.                                               *)
LEMMA QuietStep ==
  ASSUME IndInv, TypeOK',
         UNCHANGED <<queue, got, read, drained>>,
         \A p \in 1 .. read : lines'[p] = lines[p],
         \A r \in Receivers : lock' = r =>
            \A p \in Range(queue) : ~Matches(r, p),
         \A r \in Receivers : outcome'[r] = "end" => stream' = "eof",
         EndMeansAll'
  PROVE  IndInv'
<1>1. /\ Range(queue)' = Range(queue)
      /\ Delivered' = Delivered
      /\ InOrder'
      /\ Places'
      /\ StrictlyIncreasing(queue')
  BY DEF IndInv, Delivered, InOrder, Places
<1>2. \A p \in Range(queue) \cup Delivered : lines'[p] = lines[p]
  BY Ranges
<1>3. \A r \in Receivers, p \in Range(queue) : Matches(r, p)' = Matches(r, p)
  BY <1>2 DEF Matches
<1> QED
  BY <1>1, <1>2, <1>3 DEF IndInv

(* The first hit in the buffer is the oldest message the receiver can use,  *)
(* and newer than everything it has been given.                             *)
LEMMA FirstHit ==
  ASSUME IndInv, NEW r \in Receivers, NEW i \in Hits(r),
         \A j \in Hits(r) : i <= j
  PROVE  /\ i \in 1 .. Len(queue)
         /\ queue[i] \in Range(queue)
         /\ Matches(r, queue[i])
         /\ \A p \in Range(queue) : Matches(r, p) => queue[i] <= p
         /\ \A q \in Range(got[r]) : q < queue[i]
<1>1. /\ DOMAIN queue = 1 .. Len(queue) /\ Len(queue) \in Nat
      /\ \A j \in DOMAIN queue : queue[j] \in Nat
  BY LenProperties, ElementOfSeq DEF IndInv, TypeOK
<1>2. i \in DOMAIN queue /\ queue[i] \in Range(queue) /\ Matches(r, queue[i])
  BY DEF Hits, Range
<1>3. ASSUME NEW p \in Range(queue), Matches(r, p)
      PROVE  queue[i] <= p
  <2>1. PICK j \in DOMAIN queue : queue[j] = p
    BY DEF Range
  <2>2. i <= j
    BY <1>3, <2>1 DEF Hits
  <2>3. i < j => queue[i] < queue[j]
    BY <1>2, <2>1 DEF IndInv, StrictlyIncreasing
  <2> QED
    BY <1>1, <1>2, <2>1, <2>2, <2>3
<1>4. \A q \in Range(got[r]) : q < queue[i]
  BY <1>2 DEF IndInv
<1> QED
  BY <1>1, <1>2, <1>3, <1>4

(* Taking a buffered message. *)
LEMMA TakeBufferedStep ==
  ASSUME IndInv, TypeOK', NEW r \in Receivers, TakeBuffered(r)
  PROVE  IndInv'
<1>1. PICK i \in Hits(r) : /\ \A j \in Hits(r) : i <= j
                           /\ got' = [got EXCEPT ![r] = Append(@, queue[i])]
                           /\ queue' = RemoveAt(queue, i)
  BY DEF TakeBuffered, IsFirstHit
<1> DEFINE p == queue[i]
<1>2. /\ i \in 1 .. Len(queue)
      /\ p \in Range(queue)
      /\ Matches(r, p)
      /\ \A x \in Range(queue) : Matches(r, x) => p <= x
      /\ \A q \in Range(got[r]) : q < p
  BY <1>1, FirstHit
<1>3. /\ StrictlyIncreasing(queue')
      /\ Range(queue') = Range(queue) \ {p}
  BY <1>1, <1>2, PopFacts DEF IndInv, TypeOK
<1>4. p \in Nat /\ read \in Nat /\ Range(queue) \subseteq 1 .. read
  BY <1>2, Ranges
<1> HIDE DEF p
<1>5. /\ Range(got'[r]) = Range(got[r]) \cup {p}
      /\ \A s \in Receivers : s # r => got'[s] = got[s]
      /\ Delivered' = Delivered \cup {p}
      /\ InOrder'
  BY <1>1, <1>2, <1>4, HandOut DEF IndInv, TypeOK, p
<1>6. UNCHANGED <<lines, stream, read, lock, outcome, drained>> /\ lock = Nobody
  BY DEF TakeBuffered, IsFirstHit, CanPoll
<1>7. Places'
  <2>1. \A s \in Receivers : Range(got[s]) \subseteq Delivered
    BY DEF Delivered
  <2>2. p \notin Delivered /\ p \notin drained
    BY <1>2 DEF IndInv, Places
  <2>3. \A s, t \in Receivers :
          s # t => Range(got'[s]) \cap Range(got'[t]) = {}
    BY <1>5, <2>1, <2>2 DEF IndInv, Places
  <2>4. /\ Range(queue) \cup Delivered \cup drained = 1 .. read
        /\ Range(queue) \cap Delivered = {}
        /\ Range(queue) \cap drained = {}
        /\ Delivered \cap drained = {}
    BY DEF IndInv, Places
  <2>5. /\ Range(queue') \cup Delivered' \cup drained' = 1 .. read'
        /\ Range(queue') \cap Delivered' = {}
        /\ Range(queue') \cap drained' = {}
        /\ Delivered' \cap drained' = {}
    BY <1>2, <1>3, <1>5, <1>6, <2>2, <2>4, Zenon
  <2> QED
    BY <2>3, <2>5 DEF Places
<1>8. ASSUME NEW s \in Receivers, NEW x \in Range(queue'),
             NEW q \in Range(got'[s]), Matches(s, x)
      PROVE  q < x
  <2>1. x \in Range(queue) /\ x # p /\ x \in Nat
    BY <1>3, <1>4
  <2>2. CASE s = r /\ q = p
    BY <1>2, <1>4, <1>8, <2>1, <2>2
  <2>3. CASE ~(s = r /\ q = p)
    <3>1. q \in Range(got[s])
      BY <1>5, <2>3
    <3> QED
      BY <1>8, <2>1, <3>1 DEF IndInv
  <2> QED
    BY <2>2, <2>3
<1>9. ASSUME NEW x \in Range(queue'), NEW q \in Delivered', lines[x] = lines[q]
      PROVE  q < x
  <2>1. x \in Range(queue) /\ x # p /\ x \in Nat
    BY <1>3, <1>4
  <2>2. CASE q = p
    BY <1>2, <1>4, <1>9, <2>1, <2>2 DEF Matches
  <2>3. CASE q # p
    BY <1>5, <1>9, <2>1, <2>3 DEF IndInv
  <2> QED
    BY <2>2, <2>3
<1>10. EndMeansAll'
  <2>1. Unclaimed' \subseteq Unclaimed
    BY <1>3, <1>6 DEF Unclaimed
  <2> QED
    BY <1>6, <2>1 DEF IndInv, EndMeansAll, Matches
<1>11. \A s \in Receivers : lock' # s
  BY <1>6, RxAssumption
<1> QED
  BY <1>3, <1>5, <1>6, <1>7, <1>8, <1>9, <1>10, <1>11 DEF IndInv, Matches

(* Returning the line just read, a message of the receiver or a parse error. *)
LEMMA ReadAndReturnStep ==
  ASSUME IndInv, TypeOK', NEW r \in Receivers, ReadOwn(r) \/ ReadBad(r)
  PROVE  IndInv'
<1> DEFINE p == read + 1
<1>1. /\ lock = r
      /\ lock' = Nobody
      /\ read < Len(lines)
      /\ read' = p
      /\ got' = [got EXCEPT ![r] = Append(@, p)]
      /\ UNCHANGED <<lines, stream, queue, outcome, drained>>
      /\ Matches(r, p) \/ lines[p] = Bad
  BY DEF ReadOwn, ReadBad, HasLine, Return
<1>2. /\ read \in Nat /\ p \in Nat /\ Len(lines) \in Nat
      /\ Range(queue) \subseteq 1 .. read
      /\ Delivered \subseteq 1 .. read
      /\ \A s \in Receivers : Range(got[s]) \subseteq 1 .. read
  BY Ranges
<1>3. \A q \in Range(got[r]) : q < p
  BY <1>2
<1>4. p \notin Range(queue) /\ p \notin Delivered /\ p \notin drained
  BY <1>2 DEF IndInv, Places
<1>5. 1 .. p = (1 .. read) \cup {p}
  BY <1>2
<1> HIDE DEF p
<1>6. /\ Range(got'[r]) = Range(got[r]) \cup {p}
      /\ \A s \in Receivers : s # r => got'[s] = got[s]
      /\ Delivered' = Delivered \cup {p}
      /\ InOrder'
  BY <1>1, <1>2, <1>3, HandOut DEF IndInv, TypeOK
<1>7. Places'
  <2>1. \A s \in Receivers : Range(got[s]) \subseteq Delivered
    BY DEF Delivered
  <2>2. \A s, t \in Receivers :
          s # t => Range(got'[s]) \cap Range(got'[t]) = {}
    BY <1>4, <1>6, <2>1 DEF IndInv, Places
  <2>3. /\ Range(queue) \cup Delivered \cup drained = 1 .. read
        /\ Range(queue) \cap Delivered = {}
        /\ Range(queue) \cap drained = {}
        /\ Delivered \cap drained = {}
    BY DEF IndInv, Places
  <2>4. /\ Range(queue') \cup Delivered' \cup drained' = 1 .. read'
        /\ Range(queue') \cap Delivered' = {}
        /\ Range(queue') \cap drained' = {}
        /\ Delivered' \cap drained' = {}
    BY <1>1, <1>4, <1>5, <1>6, <2>3, Zenon
  <2> QED
    BY <2>2, <2>4 DEF Places
<1>8. \A x \in Range(queue) : ~Matches(r, x) /\ lines[x] # Bad
  BY <1>1 DEF IndInv
<1>9. ASSUME NEW s \in Receivers, NEW x \in Range(queue),
             NEW q \in Range(got'[s]), Matches(s, x)
      PROVE  q < x
  BY <1>6, <1>8, <1>9 DEF IndInv
<1>10. ASSUME NEW x \in Range(queue), NEW q \in Delivered', lines[x] = lines[q]
       PROVE  q < x
  BY <1>1, <1>6, <1>8, <1>10 DEF IndInv, Matches
<1>11. EndMeansAll'
  <2>1. Unclaimed' \subseteq Unclaimed
    BY <1>1, <1>2 DEF Unclaimed, p
  <2> QED
    BY <1>1, <2>1 DEF IndInv, EndMeansAll, Matches
<1>12. \A s \in Receivers : lock' # s
  BY <1>1, RxAssumption
<1> QED
  BY <1>1, <1>6, <1>7, <1>9, <1>10, <1>11, <1>12 DEF IndInv, Matches

(* Putting aside a message of another kind. *)
LEMMA ReadOtherStep ==
  ASSUME IndInv, TypeOK', NEW r \in Receivers, ReadOther(r)
  PROVE  IndInv'
<1> DEFINE p == read + 1
<1>1. /\ lock = r
      /\ read < Len(lines)
      /\ lines[p] # Bad
      /\ ~Matches(r, p)
      /\ read' = p
      /\ queue' = Append(queue, p)
      /\ UNCHANGED <<lines, stream, lock, got, outcome, drained>>
  BY DEF ReadOther, PutAside, HasLine
<1>2. /\ read \in Nat /\ p \in Nat /\ Len(lines) \in Nat
      /\ Range(queue) \subseteq 1 .. read
      /\ Delivered \subseteq 1 .. read
      /\ \A s \in Receivers : Range(got[s]) \subseteq 1 .. read
  BY Ranges
<1>3. \A x \in 1 .. read : x < p
  BY <1>2
<1>4. 1 .. p = (1 .. read) \cup {p} /\ p \notin 1 .. read
  BY <1>2
<1> HIDE DEF p
<1>5. Range(queue') = Range(queue) \cup {p} /\ StrictlyIncreasing(queue')
  BY <1>1, <1>2, <1>3, AppendFacts DEF IndInv, TypeOK
<1>6. Delivered' = Delivered /\ InOrder'
  BY <1>1 DEF Delivered, IndInv, InOrder
<1>7. Places'
  <2>1. p \notin Delivered /\ p \notin drained /\ p \notin Range(queue)
    BY <1>2, <1>4 DEF IndInv, Places
  <2> QED
    BY <1>1, <1>4, <1>5, <1>6, <2>1 DEF IndInv, Places
<1>8. ASSUME NEW s \in Receivers, lock = s, NEW x \in Range(queue')
      PROVE  ~Matches(s, x)
  BY <1>1, <1>5, <1>8 DEF IndInv
<1>9. ASSUME NEW s \in Receivers, NEW x \in Range(queue'),
             NEW q \in Range(got[s]), Matches(s, x)
      PROVE  q < x
  BY <1>2, <1>3, <1>5, <1>9 DEF IndInv
<1>10. ASSUME NEW x \in Range(queue'), NEW q \in Delivered, lines[x] = lines[q]
       PROVE  q < x
  BY <1>2, <1>3, <1>5, <1>10 DEF IndInv
<1>11. EndMeansAll'
  <2>1. Unclaimed' \subseteq Unclaimed
    BY <1>1, <1>2, <1>5 DEF Unclaimed, p
  <2> QED
    BY <1>1, <2>1 DEF IndInv, EndMeansAll, Matches
<1>12. \A x \in Range(queue') : lines[x] # Bad
  BY <1>1, <1>5 DEF IndInv
<1> QED
  BY <1>1, <1>5, <1>6, <1>7, <1>8, <1>9, <1>10, <1>11, <1>12 DEF IndInv, Matches

(* Closing. *)
LEMMA CloseStep ==
  ASSUME IndInv, TypeOK', NEW n \in read .. Len(lines), Close(n)
  PROVE  IndInv'
<1>1. /\ lock' = Nobody
      /\ drained' = drained \cup Range(queue) \cup (read + 1 .. n)
      /\ queue' = << >>
      /\ read' = n
      /\ UNCHANGED <<lines, stream, got, outcome>>
  BY DEF Close
<1>2. Range(queue') = {} /\ StrictlyIncreasing(queue')
  <2>1. DOMAIN queue' = {}
    BY <1>1
  <2> QED
    BY <2>1 DEF Range, StrictlyIncreasing
<1>3. Delivered' = Delivered /\ InOrder'
  BY <1>1 DEF Delivered, IndInv, InOrder
<1>4. /\ read \in Nat /\ n \in Nat /\ n >= read /\ Len(lines) \in Nat
      /\ Delivered \subseteq 1 .. read
  BY Ranges
<1>5. Places'
  <2>1. 1 .. n = (1 .. read) \cup (read + 1 .. n)
    BY <1>4
  <2>2. Delivered \cap (read + 1 .. n) = {}
    BY <1>4
  <2> QED
    BY <1>1, <1>2, <1>3, <2>1, <2>2 DEF IndInv, Places
<1>6. EndMeansAll'
  <2>1. Unclaimed' \subseteq Unclaimed
    BY <1>1, <1>2, <1>4 DEF Unclaimed
  <2> QED
    BY <1>1, <2>1 DEF IndInv, EndMeansAll, Matches
<1>7. \A s \in Receivers : lock' # s
  BY <1>1, RxAssumption
<1> QED
  BY <1>1, <1>2, <1>3, <1>5, <1>6, <1>7 DEF IndInv

(* The invariant holds in every reachable state. *)
THEOREM Invariant == Spec => []IndInv
<1>1. Init => IndInv
  <2> SUFFICES ASSUME Init
               PROVE  IndInv
    OBVIOUS
  <2>1. TypeOK
    <3>1. << >> \in Seq(Nat) /\ << >> \in Seq(Kinds \cup {Bad}) /\ Len(<< >>) = 0
      BY EmptySeq
    <3>2. read \in 0 .. Len(lines)
      BY <3>1 DEF Init
    <3>3. lines \in Seq(Kinds \cup {Bad}) /\ queue \in Seq(Nat)
      BY <3>1 DEF Init
    <3>4. got \in [Receivers -> Seq(Nat)]
      BY <3>1 DEF Init
    <3> QED
      BY <3>2, <3>3, <3>4 DEF Init, TypeOK
  <2>2. /\ Range(queue) = {} /\ Delivered = {} /\ StrictlyIncreasing(queue)
        /\ \A r \in Receivers : Range(got[r]) = {} /\ StrictlyIncreasing(got[r])
    <3>1. DOMAIN << >> = {}
      OBVIOUS
    <3> QED
      BY <3>1 DEF Init, Range, Delivered, StrictlyIncreasing
  <2> QED
    BY <2>1, <2>2, RxAssumption DEF Init, IndInv, Places, InOrder, EndMeansAll
<1>2. IndInv /\ TypeOK' /\ [Next]_vars => IndInv'
  <2> SUFFICES ASSUME IndInv, TypeOK', [Next]_vars
               PROVE  IndInv'
    OBVIOUS
  <2>0. /\ read \in Nat /\ Len(lines) \in Nat /\ read <= Len(lines)
        /\ Range(queue) \subseteq 1 .. read
    BY Ranges
  <2>1. ASSUME NEW k \in Kinds \cup {Bad}, HostWrite(k)
        PROVE  IndInv'
    <3>1. \A p \in 1 .. read : lines'[p] = lines[p]
      BY <2>0, <2>1, AppendProperties DEF HostWrite, IndInv, TypeOK
    <3>2. UNCHANGED <<stream, read, queue, lock, got, outcome, drained>>
      BY <2>1 DEF HostWrite
    <3>3. \A r \in Receivers : outcome'[r] # "end"
      BY <2>1, <3>2 DEF HostWrite, IndInv
    <3> QED
      BY <3>1, <3>2, <3>3, QuietStep DEF IndInv, EndMeansAll
  <2>2. ASSUME NEW how \in {"eof", "failed"}, HostEnd(how)
        PROVE  IndInv'
    <3>1. UNCHANGED <<lines, read, queue, lock, got, outcome, drained>>
      BY <2>2 DEF HostEnd
    <3>2. \A r \in Receivers : outcome'[r] # "end"
      BY <2>2, <3>1 DEF HostEnd, IndInv
    <3> QED
      BY <3>1, <3>2, QuietStep DEF IndInv, EndMeansAll
  <2>3. ASSUME NEW r \in Receivers, BeginRead(r)
        PROVE  IndInv'
    <3>1. UNCHANGED <<lines, stream, read, queue, got, outcome, drained>>
      BY <2>3 DEF BeginRead, PopFindsNothing
    <3>2. lock' = r /\ \A p \in Range(queue) : ~Matches(r, p)
      BY <2>3 DEF BeginRead, PopFindsNothing, Hits, Range
    <3>3. EndMeansAll'
      BY <3>1 DEF IndInv, EndMeansAll, Unclaimed, Matches
    <3> QED
      BY <3>1, <3>2, <3>3, QuietStep DEF IndInv
  <2>4. ASSUME NEW r \in Receivers, ReadPending(r) \/ ReadFailed(r)
        PROVE  IndInv'
    <3>1. /\ UNCHANGED <<lines, stream, read, queue, got, drained>>
          /\ lock' = Nobody
          /\ outcome' = outcome \/ outcome' = [outcome EXCEPT ![r] = "error"]
      BY <2>4 DEF ReadPending, LeaveWaker, ReadFailed
    <3>2. \A s \in Receivers : outcome'[s] = "end" => outcome[s] = "end"
      BY <3>1 DEF IndInv, TypeOK
    <3>3. EndMeansAll'
      BY <3>1, <3>2 DEF IndInv, EndMeansAll, Unclaimed, Matches
    <3> QED
      BY <3>1, <3>2, <3>3, QuietStep, RxAssumption DEF IndInv
  <2>5. ASSUME NEW r \in Receivers, ReadEnd(r)
        PROVE  IndInv'
    <3>1. /\ UNCHANGED <<lines, stream, read, queue, got, drained>>
          /\ lock = r /\ lock' = Nobody
          /\ read = Len(lines) /\ stream = "eof"
          /\ outcome' = [outcome EXCEPT ![r] = "end"]
      BY <2>5 DEF ReadEnd
    <3>2. \A s \in Receivers : outcome'[s] = "end" => outcome[s] = "end" \/ s = r
      BY <3>1 DEF IndInv, TypeOK
    <3>3. Unclaimed = Range(queue) /\ Unclaimed' = Unclaimed
      BY <2>0, <3>1 DEF Unclaimed
    <3>4. \A p \in Unclaimed : ~Matches(r, p) /\ lines[p] # Bad
      BY <3>1, <3>3 DEF IndInv
    <3>5. EndMeansAll'
      BY <3>1, <3>2, <3>3, <3>4 DEF IndInv, EndMeansAll, Matches
    <3> QED
      BY <3>1, <3>2, <3>5, QuietStep, RxAssumption DEF IndInv
  <2>6. ASSUME NEW r \in Receivers, Recall(r)
        PROVE  IndInv'
    <3>1. UNCHANGED <<lines, stream, read, queue, lock, got, outcome, drained>>
      BY <2>6 DEF Recall
    <3>2. EndMeansAll'
      BY <3>1 DEF IndInv, EndMeansAll, Unclaimed, Matches
    <3> QED
      BY <3>1, <3>2, QuietStep DEF IndInv
  <2>7. CASE UNCHANGED vars
    <3>1. UNCHANGED <<lines, stream, read, queue, lock, got, outcome, drained>>
      BY <2>7 DEF vars
    <3>2. EndMeansAll'
      BY <3>1 DEF IndInv, EndMeansAll, Unclaimed, Matches
    <3> QED
      BY <3>1, <3>2, QuietStep DEF IndInv
  <2> QED
    BY <2>1, <2>2, <2>3, <2>4, <2>5, <2>6, <2>7, TakeBufferedStep,
       ReadAndReturnStep, ReadOtherStep, CloseStep
       DEF Next, Fetched, Reading
<1> QED
  BY <1>1, <1>2, Typing, PTL DEF Spec

-----------------------------------------------------------------------------
(* The properties. *)

(* No line is lost or handed out twice. *)
THEOREM OnceEach == Spec => []ExactlyOnce
<1>1. IndInv => ExactlyOnce
  BY IncreasingInjective DEF IndInv, TypeOK, InOrder, ExactlyOnce
<1> QED
  BY <1>1, Invariant, PTL

(* Each receiver is given its messages in the order they were sent. *)
THEOREM Ordered == Spec => []InOrder
<1>1. IndInv => InOrder
  BY DEF IndInv
<1> QED
  BY <1>1, Invariant, PTL

(* No message is handed out before an earlier one of its kind. *)
THEOREM KindsInOrder == Spec => []NoOvertaking
<1>1. IndInv => NoOvertaking
  <2> SUFFICES ASSUME IndInv,
                      NEW p \in Unclaimed, NEW q \in Delivered,
                      lines[p] = lines[q]
               PROVE  q < p
    BY DEF NoOvertaking
  <2>1. CASE p \in Range(queue)
    BY <2>1 DEF IndInv
  <2>2. CASE p \in read + 1 .. Len(lines)
    BY <2>2, Ranges
  <2> QED
    BY <2>1, <2>2 DEF Unclaimed
<1> QED
  BY <1>1, Invariant, PTL

(* A receiver is told of the end only after all it asked for. *)
THEOREM EndComplete == Spec => []EndMeansAll
<1>1. IndInv => EndMeansAll
  BY DEF IndInv
<1> QED
  BY <1>1, Invariant, PTL

-----------------------------------------------------------------------------
(* One task polls every receiver, as the agent's join! does. *)
OneTaskOnly == \A r, s \in Receivers : TaskOf[r] = TaskOf[s]

(* The strengthening that makes NoLostWakeup inductive: while a receiver    *)
(* sleeps, the connection holds the waker of its task.                      *)
WakerKept ==
  \A r \in Receivers : Asleep(r) /\ ~closed =>
     Hits(r) = {} /\ read = Len(lines) /\ stream = "open" /\ waker = TaskOf[r]

(* With one task, no receiver sleeps while there is something for it. *)
THEOREM NoneSleepsOnAMessage ==
  ASSUME OneTaskOnly
  PROVE  Spec => []NoLostWakeup
<1>1. Init => WakerKept
  BY DEF Init, WakerKept, Asleep
<1>2. IndInv /\ WakerKept /\ [Next]_vars => WakerKept'
  <2> SUFFICES ASSUME IndInv, WakerKept, [Next]_vars,
                      NEW s \in Receivers, Asleep(s)', ~closed'
               PROVE  Hits(s)' = {} /\ (read = Len(lines))' /\ stream' = "open"
                        /\ waker' = TaskOf[s]
    BY DEF WakerKept
  <2> USE RxAssumption
  <2>1. ASSUME NEW k \in Kinds \cup {Bad}, HostWrite(k)
        PROVE  FALSE
    BY <2>1 DEF HostWrite, Wake, Woken, WakerKept, Asleep
  <2>2. ASSUME NEW how \in {"eof", "failed"}, HostEnd(how)
        PROVE  FALSE
    BY <2>2 DEF HostEnd, Wake, Woken, WakerKept, Asleep
  <2>3. ASSUME NEW r \in Receivers, TakeBuffered(r)
        PROVE  Hits(s)' = {} /\ (read = Len(lines))' /\ stream' = "open"
                 /\ waker' = TaskOf[s]
    <3>1. PICK i \in Hits(r) : queue' = RemoveAt(queue, i)
      BY <2>3 DEF TakeBuffered, IsFirstHit
    <3>2. i \in 1 .. Len(queue)
      BY LenProperties DEF Hits, IndInv, TypeOK
    <3>3. Range(queue') \subseteq Range(queue)
      BY <3>1, <3>2, PopFacts DEF IndInv, TypeOK
    <3>4. Asleep(s) /\ ~closed
      BY <2>3 DEF TakeBuffered, IsFirstHit, CanPoll, Asleep
    <3>5. Hits(s) = {} /\ read = Len(lines) /\ stream = "open" /\ waker = TaskOf[s]
      BY <3>4 DEF WakerKept
    <3>6. \A p \in Range(queue) : ~Matches(s, p)
      BY <3>5 DEF Hits, Range
    <3>7. Hits(s)' = {}
      BY <2>3, <3>3, <3>6 DEF Hits, Range, Matches, TakeBuffered, IsFirstHit
    <3> QED
      BY <2>3, <3>5, <3>7 DEF TakeBuffered, IsFirstHit
  <2>4. ASSUME NEW r \in Receivers, BeginRead(r)
        PROVE  Hits(s)' = {} /\ (read = Len(lines))' /\ stream' = "open"
                 /\ waker' = TaskOf[s]
    BY <2>4 DEF BeginRead, PopFindsNothing, CanPoll, Asleep, WakerKept, Hits, Matches
  <2>5. ASSUME NEW r \in Receivers, ReadOwn(r) \/ ReadBad(r) \/ ReadOther(r)
        PROVE  FALSE
    <3>1. Asleep(s) /\ ~closed
      BY <2>5 DEF ReadOwn, ReadBad, ReadOther, PutAside, HasLine, Return, Asleep
    <3>2. read = Len(lines)
      BY <3>1 DEF WakerKept
    <3> QED
      BY <2>5, <3>2, Ranges DEF ReadOwn, ReadBad, ReadOther, PutAside, HasLine
  <2>6. ASSUME NEW r \in Receivers, ReadPending(r)
        PROVE  Hits(s)' = {} /\ (read = Len(lines))' /\ stream' = "open"
                 /\ waker' = TaskOf[s]
    <3>1. Hits(s)' = Hits(s)
      BY <2>6 DEF ReadPending, LeaveWaker, Hits, Matches
    <3>2. Hits(s) = {}
      <4>1. CASE s = r
        BY <2>6, <4>1 DEF ReadPending, LeaveWaker, IndInv, Hits, Range
      <4>2. CASE s # r
        BY <2>6, <4>2 DEF ReadPending, LeaveWaker, Asleep, WakerKept
      <4> QED
        BY <4>1, <4>2
    <3> QED
      BY <2>6, <3>1, <3>2 DEF ReadPending, LeaveWaker, OneTaskOnly
  <2>7. ASSUME NEW r \in Receivers, ReadEnd(r) \/ ReadFailed(r)
        PROVE  Hits(s)' = {} /\ (read = Len(lines))' /\ stream' = "open"
                 /\ waker' = TaskOf[s]
    <3>1. /\ lock = r
          /\ UNCHANGED <<lines, stream, read, queue, waker, toPoll, closed>>
          /\ outcome'[r] # "none"
          /\ outcome'[s] = outcome[s] \/ s = r
      BY <2>7 DEF ReadEnd, ReadFailed, IndInv, TypeOK
    <3>2. s # r
      BY <3>1 DEF Asleep
    <3>3. Asleep(s) /\ ~closed
      BY <3>1, <3>2 DEF Asleep
    <3> QED
      BY <3>1, <3>3 DEF WakerKept, Hits, Matches
  <2>8. ASSUME NEW r \in Receivers, Recall(r)
        PROVE  Hits(s)' = {} /\ (read = Len(lines))' /\ stream' = "open"
                 /\ waker' = TaskOf[s]
    BY <2>8 DEF Recall, Asleep, WakerKept, Hits, Matches
  <2>9. ASSUME NEW n \in read .. Len(lines), Close(n)
        PROVE  FALSE
    BY <2>9 DEF Close
  <2>10. CASE UNCHANGED vars
    BY <2>10 DEF vars, Asleep, WakerKept, Hits, Matches
  <2> QED
    BY <2>1, <2>2, <2>3, <2>4, <2>5, <2>6, <2>7, <2>8, <2>9, <2>10
       DEF Next, Fetched, Reading
<1>3. WakerKept => NoLostWakeup
  BY DEF WakerKept, NoLostWakeup
<1> QED
  BY <1>1, <1>2, <1>3, Invariant, PTL DEF Spec

-----------------------------------------------------------------------------
(* The receiver implements the channel. *)

(* One step of the receiver is one step of the channel or leaves it alone. *)
LEMMA ChannelStep ==
  ASSUME IndInv, [Next]_vars
  PROVE  [Channel!Next]_(Channel!vars)
<1> USE DEF Channel!vars, Channel!Wanted
<1>0. /\ read \in Nat /\ Len(lines) \in Nat /\ read <= Len(lines)
      /\ Range(queue) \subseteq 1 .. read
  BY Ranges
<1>1. ASSUME NEW k \in Kinds \cup {Bad}, HostWrite(k)
      PROVE  Channel!Next
  <2>1. Len(lines') = Len(lines) + 1
    BY <1>1, AppendProperties DEF HostWrite, IndInv, TypeOK
  <2>2. read + 1 .. Len(lines) + 1 = (read + 1 .. Len(lines)) \cup {Len(lines) + 1}
    BY <1>0
  <2>3. Unclaimed' = Unclaimed \cup {Len(lines) + 1}
    BY <1>1, <2>1, <2>2 DEF HostWrite, Unclaimed
  <2> QED
    BY <1>1, <2>3 DEF HostWrite, Channel!Next, Channel!Put
<1>2. ASSUME NEW how \in {"eof", "failed"}, HostEnd(how)
      PROVE  Channel!Next
  BY <1>2 DEF HostEnd, Unclaimed, Channel!Next, Channel!End
<1>3. ASSUME NEW r \in Receivers, TakeBuffered(r)
      PROVE  Channel!Next
  <2>1. PICK i \in Hits(r) : /\ \A j \in Hits(r) : i <= j
                             /\ got' = [got EXCEPT ![r] = Append(@, queue[i])]
                             /\ queue' = RemoveAt(queue, i)
    BY <1>3 DEF TakeBuffered, IsFirstHit
  <2> DEFINE p == queue[i]
  <2>2. /\ i \in 1 .. Len(queue)
        /\ p \in Range(queue)
        /\ Matches(r, p)
        /\ \A x \in Range(queue) : Matches(r, x) => p <= x
    BY <2>1, FirstHit
  <2>3. Range(queue') = Range(queue) \ {p}
    BY <2>1, <2>2, PopFacts DEF IndInv, TypeOK
  <2> HIDE DEF p
  <2>4. p \in Nat /\ p <= read
    BY <1>0, <2>2
  <2>5. Unclaimed' = Unclaimed \ {p}
    <3>1. p \notin read + 1 .. Len(lines)
      BY <1>0, <2>4
    <3> QED
      BY <1>3, <2>3, <3>1 DEF TakeBuffered, IsFirstHit, Unclaimed
  <2>6. \A q \in Unclaimed : lines[q] \in Accepts[r] => p <= q
    BY <1>0, <2>2, <2>4 DEF Unclaimed, Matches
  <2>7. p \in Unclaimed /\ lines[p] \in Accepts[r]
    BY <2>2 DEF Unclaimed, Matches
  <2>8. got' = [got EXCEPT ![r] = Append(@, p)]
    BY <2>1 DEF p
  <2>9. Channel!Take(r, p)
    BY <1>3, <2>5, <2>6, <2>7, <2>8 DEF TakeBuffered, IsFirstHit, Channel!Take, Channel!Give
  <2> QED
    BY <2>7, <2>9 DEF Channel!Next
<1>4. ASSUME NEW r \in Receivers, ReadOwn(r) \/ ReadBad(r)
      PROVE  Channel!Next
  <2> DEFINE p == read + 1
  <2>1. /\ lock = r
        /\ read < Len(lines)
        /\ read' = p
        /\ got' = [got EXCEPT ![r] = Append(@, p)]
        /\ UNCHANGED <<lines, stream, queue, outcome, drained>>
        /\ Matches(r, p) \/ lines[p] = Bad
    BY <1>4 DEF ReadOwn, ReadBad, HasLine, Return
  <2>2. \A q \in Range(queue) : ~Matches(r, q) /\ lines[q] # Bad
    BY <2>1 DEF IndInv
  <2>3. p \in Unclaimed /\ Unclaimed' = Unclaimed \ {p}
    <3>1. p \notin Range(queue)
      BY <1>0
    <3>2. p \in read + 1 .. Len(lines)
      BY <1>0, <2>1
    <3>3. p + 1 .. Len(lines) = (read + 1 .. Len(lines)) \ {p}
      BY <1>0
    <3> QED
      BY <2>1, <3>1, <3>2, <3>3 DEF Unclaimed
  <2>4. \A q \in Unclaimed : q \in Range(queue) \/ p <= q
    BY <1>0 DEF Unclaimed
  <2>5. Channel!Take(r, p)
    <3>1. CASE Matches(r, p)
      BY <2>1, <2>2, <2>3, <2>4, <3>1 DEF Channel!Take, Channel!Give, Matches
    <3>2. CASE lines[p] = Bad
      <4>1. \A q \in Unclaimed : q < p => q \in Range(queue)
        BY <1>0 DEF Unclaimed
      <4>2. \A q \in Unclaimed :
              q < p => q \notin Channel!Wanted(r) /\ lines[q] # Bad
        BY <2>2, <4>1 DEF Matches
      <4> HIDE DEF Channel!Wanted
      <4> QED
        BY <2>1, <2>3, <3>2, <4>2 DEF Channel!Take, Channel!Give
    <3> QED
      BY <2>1, <3>1, <3>2
  <2> QED
    BY <2>3, <2>5 DEF Channel!Next
<1>5. ASSUME NEW r \in Receivers, ReadOther(r)
      PROVE  UNCHANGED Channel!vars
  <2>1. /\ read < Len(lines)
        /\ read' = read + 1
        /\ queue' = Append(queue, read + 1)
        /\ UNCHANGED <<lines, stream, got, outcome, drained>>
    BY <1>5 DEF ReadOther, PutAside, HasLine
  <2>2. Range(queue') = Range(queue) \cup {read + 1}
    BY <1>0, <2>1, AppendFacts, read + 1 \in Nat DEF IndInv, TypeOK
  <2>3. read + 1 .. Len(lines) = {read + 1} \cup (read + 1 + 1 .. Len(lines))
    BY <1>0, <2>1
  <2>4. Unclaimed' = Unclaimed
    BY <2>1, <2>2, <2>3 DEF Unclaimed
  <2> QED
    BY <2>1, <2>4
<1>6. ASSUME NEW r \in Receivers, BeginRead(r) \/ ReadPending(r) \/ Recall(r)
      PROVE  UNCHANGED Channel!vars
  BY <1>6 DEF BeginRead, PopFindsNothing, ReadPending, LeaveWaker, Recall, Unclaimed
<1>7. ASSUME NEW r \in Receivers, ReadEnd(r)
      PROVE  Channel!Next
  <2>1. /\ lock = r /\ read = Len(lines) /\ stream = "eof"
        /\ UNCHANGED <<lines, stream, read, queue, got, drained>>
        /\ outcome' = [outcome EXCEPT ![r] = "end"]
    BY <1>7 DEF ReadEnd
  <2>2. Unclaimed = Range(queue) /\ Unclaimed' = Unclaimed
    BY <1>0, <2>1 DEF Unclaimed
  <2>3. \A p \in Unclaimed : p \notin Channel!Wanted(r) /\ lines[p] # Bad
    BY <2>1, <2>2 DEF IndInv, Matches
  <2> HIDE DEF Channel!Wanted
  <2> QED
    BY <2>1, <2>2, <2>3 DEF Channel!Next, Channel!SeeEnd, Channel!AtEnd
<1>8. ASSUME NEW r \in Receivers, ReadFailed(r)
      PROVE  Channel!Next
  BY <1>8 DEF ReadFailed, Unclaimed, Channel!Next, Channel!SeeFailure
<1>9. ASSUME NEW n \in read .. Len(lines), Close(n)
      PROVE  Channel!Next
  <2> DEFINE ps == Range(queue) \cup (read + 1 .. n)
  <2>1. /\ drained' = drained \cup ps
        /\ read' = n
        /\ queue' = << >>
        /\ UNCHANGED <<lines, stream, got, outcome>>
    BY <1>9 DEF Close
  <2>2. ps \subseteq Unclaimed
    BY <1>0 DEF Unclaimed
  <2>3. Unclaimed' = Unclaimed \ ps
    <3>1. Range(queue') = {}
      BY <2>1 DEF Range
    <3>2. (read + 1 .. Len(lines)) \ (read + 1 .. n) = n + 1 .. Len(lines)
      BY <1>0
    <3>3. Range(queue) \cap (n + 1 .. Len(lines)) = {}
      BY <1>0
    <3> QED
      BY <2>1, <3>1, <3>2, <3>3 DEF Unclaimed
  <2> HIDE DEF ps
  <2>4. Channel!Drain(ps)
    BY <2>1, <2>2, <2>3 DEF Channel!Drain
  <2> QED
    BY <2>2, <2>4 DEF Channel!Next
<1>10. CASE UNCHANGED vars
  BY <1>10 DEF vars, Unclaimed
<1> QED
  BY <1>1, <1>2, <1>3, <1>4, <1>5, <1>6, <1>7, <1>8, <1>9, <1>10
     DEF Next, Fetched, Reading

(* Every behaviour of the receiver is a behaviour of the channel. *)
THEOREM Implements == Spec => ChannelSpec
<1>1. Init => Channel!Init
  <2>1. DOMAIN << >> = {} /\ Len(<< >>) = 0
    OBVIOUS
  <2>2. Init => Unclaimed = {}
    BY <2>1 DEF Init, Unclaimed, Range
  <2> QED
    BY <2>2 DEF Init, Channel!Init
<1>2. IndInv /\ [Next]_vars => [Channel!Next]_(Channel!vars)
  BY ChannelStep
<1> QED
  BY <1>1, <1>2, Invariant, PTL DEF Spec, ChannelSpec, Channel!Spec
=============================================================================
