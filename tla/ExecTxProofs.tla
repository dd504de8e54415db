---------------------------- MODULE ExecTxProofs ----------------------------
(***************************************************************************)
(* Proofs about ExecTx, for any clones and tasks, lines of any length, any *)
(* high-water mark and window, and any number of messages and batches.     *)
(***************************************************************************)
EXTENDS ExecTx, SequenceTheorems, TLAPS

-----------------------------------------------------------------------------
(* Arithmetic of lines. *)

(* A quotient and a remainder are the only ones of their kind. *)
LEMMA OneRemainder ==
  ASSUME NEW a \in Int, NEW b \in Int, NEW d \in Nat \ {0},
         NEW k \in 0 .. d - 1, NEW r \in 0 .. d - 1, a * d + k = b * d + r
  PROVE  r = k
<1>1. CASE a = b
  BY <1>1
<1>2. CASE a < b
  <2>1. (b - a - 1) * d >= 0
    BY <1>2
  <2> QED
    BY <2>1
<1>3. CASE a > b
  <2>1. (a - b - 1) * d >= 0
    BY <1>3
  <2> QED
    BY <2>1
<1> QED
  BY <1>1, <1>2, <1>3

(* Counting on from the end of a line stays within the next one, and the    *)
(* end of that is the end of a line.                                        *)
LEMMA NextLine ==
  ASSUME NEW n \in Nat, n % LineLen = 0
  PROVE  /\ \A k \in 0 .. LineLen - 1 : (n + k) % LineLen = k
         /\ (n + LineLen) % LineLen = 0
<1> DEFINE q == n \div LineLen
<1>1. LineLen \in Nat \ {0} /\ q \in Int /\ n = q * LineLen
  BY TxAssumption
<1> HIDE DEF q
<1>2. ASSUME NEW k \in 0 .. LineLen - 1, NEW m \in Int, NEW c \in Int,
             m = c * LineLen + k
      PROVE  m % LineLen = k
  <2>1. m \div LineLen \in Int /\ m % LineLen \in 0 .. LineLen - 1
    BY <1>1
  <2>2. m = (m \div LineLen) * LineLen + (m % LineLen)
    BY <1>1
  <2> QED
    BY <1>1, <1>2, <2>1, <2>2, OneRemainder
<1>3. ASSUME NEW k \in 0 .. LineLen - 1
      PROVE  (n + k) % LineLen = k
  BY <1>1, <1>2
<1>4. (n + LineLen) % LineLen = 0
  <2>1. n + LineLen = (q + 1) * LineLen + 0 /\ 0 \in 0 .. LineLen - 1
    BY <1>1
  <2> QED
    BY <1>1, <1>2, <2>1
<1> QED
  BY <1>3, <1>4
-----------------------------------------------------------------------------
(* The stream. *)

(* The stream is what is written and then what is buffered, unit by unit.   *)
LEMMA StreamTyped ==
  ASSUME TypeOK
  PROVE  /\ Stream \in Seq(Units)
         /\ Len(Stream) = Len(wire) + Len(buf)
         /\ Len(wire) \in Nat /\ Len(buf) \in Nat
         /\ DOMAIN Stream = 1 .. Len(Stream)
         /\ \A i \in 1 .. Len(Stream) :
              /\ Stream[i] \in Units
              /\ Stream[i] = IF i <= Len(wire) THEN wire[i] ELSE buf[i - Len(wire)]
<1>1. wire \in Seq(Units) /\ buf \in Seq(Units)
  BY DEF TypeOK
<1>2. /\ Stream \in Seq(Units)
      /\ Len(Stream) = Len(wire) + Len(buf)
      /\ \A i \in 1 .. Len(wire) + Len(buf) :
           Stream[i] = IF i <= Len(wire) THEN wire[i] ELSE buf[i - Len(wire)]
  BY <1>1, ConcatProperties DEF Stream
<1> QED
  BY <1>1, <1>2, LenProperties, ElementOfSeq

(* What the connection takes moves from the buffer to the wire: the stream  *)
(* as a whole stays as it is.                                               *)
LEMMA TransmitFacts ==
  ASSUME TypeOK, NEW n \in 1 .. Len(buf), Transmit(n)
  PROVE  /\ wire' \in Seq(Units) /\ buf' \in Seq(Units)
         /\ Len(wire') = Len(wire) + n
         /\ Len(buf') = Len(buf) - n
         /\ \A i \in 1 .. Len(wire) : wire'[i] = wire[i]
         /\ Stream' = Stream
<1> DEFINE front == SubSeq(buf, 1, n)
           rest == SubSeq(buf, n + 1, Len(buf))
<1>1. /\ wire \in Seq(Units) /\ buf \in Seq(Units)
      /\ Len(wire) \in Nat /\ Len(buf) \in Nat
      /\ \A i \in 1 .. Len(buf) : buf[i] \in Units
  BY LenProperties, ElementOfSeq DEF TypeOK
<1>2. wire' = wire \o front /\ buf' = rest
  BY DEF Transmit, BufferAfter
<1>3. front \in Seq(Units) /\ Len(front) = n
  <2>1. \A i \in 1 .. n : buf[i] \in Units
    BY <1>1
  <2> QED
    BY <1>1, <2>1, SubSeqProperties, 1 \in Int, n \in Int
<1>4. rest \in Seq(Units) /\ Len(rest) = Len(buf) - n
  <2>1. \A i \in n + 1 .. Len(buf) : buf[i] \in Units
    BY <1>1
  <2>2. n + 1 \in Int /\ Len(buf) \in Int
    BY <1>1
  <2>3. /\ rest \in Seq(Units)
        /\ Len(rest) = IF n + 1 <= Len(buf) THEN Len(buf) - (n + 1) + 1 ELSE 0
    BY <2>1, <2>2, SubSeqProperties
  <2> QED
    BY <1>1, <2>3
<1>5. front \o rest = buf
  <2>1. /\ 1 \in 1 .. Len(buf) + 1 /\ n \in 1 - 1 .. Len(buf)
        /\ Len(buf) \in n .. Len(buf)
    BY <1>1
  <2>2. front \o rest = SubSeq(buf, 1, Len(buf))
    BY <1>1, <2>1, ConcatAdjacentSubSeq
  <2> QED
    BY <1>1, <2>2, SubSeqFull
<1> HIDE DEF front, rest
<1>6. Stream' = Stream
  <2>1. wire' \o buf' = (wire \o front) \o rest
    BY <1>2
  <2>2. (wire \o front) \o rest = wire \o (front \o rest)
    <3>1. \A s, t, u \in Seq(Units) : (s \o t) \o u = s \o (t \o u)
      BY ConcatAssociative
    <3> QED
      BY <1>1, <1>3, <1>4, <3>1
  <2> QED
    BY <2>1, <2>2, <1>5 DEF Stream
<1>7. /\ wire \o front \in Seq(Units)
      /\ Len(wire \o front) = Len(wire) + Len(front)
      /\ \A i \in 1 .. Len(wire) + Len(front) :
           (wire \o front)[i] = IF i <= Len(wire) THEN wire[i] ELSE front[i - Len(wire)]
  BY <1>1, <1>3, ConcatProperties
<1>8. /\ wire' \in Seq(Units)
      /\ Len(wire') = Len(wire) + n
      /\ \A i \in 1 .. Len(wire) : wire'[i] = wire[i]
  BY <1>1, <1>2, <1>3, <1>7
<1> QED
  BY <1>2, <1>4, <1>6, <1>8

(* A message's line. *)
LEMMA LineFacts ==
  ASSUME NEW m \in Messages
  PROVE  /\ Line(m) \in Seq(Units)
         /\ Len(Line(m)) = LineLen
         /\ \A i \in 1 .. LineLen : Line(m)[i] = <<m, i>>
<1>1. LineLen \in Nat
  BY TxAssumption
<1>2. Line(m) \in [1 .. LineLen -> Units]
  BY DEF Line, Units
<1>3. Line(m) \in Seq(Units)
  BY <1>1, <1>2, SeqDef
<1>4. Len(Line(m)) = LineLen
  <2>1. DOMAIN Line(m) = 1 .. LineLen /\ DOMAIN Line(m) = 1 .. Len(Line(m))
    BY <1>2, <1>3, LenProperties
  <2>2. Len(Line(m)) \in Nat
    BY <1>3, LenProperties
  <2> QED
    BY <1>1, <2>1, <2>2
<1> QED
  BY <1>3, <1>4 DEF Line
-----------------------------------------------------------------------------
(* The types, the mutex and the batches. *)

(* Every variable keeps its type, the mutex is held by one poll of an open  *)
(* connection, one close at most has taken the connection, and a message is *)
(* in a poll only if there is one left.  The three are one invariant: the   *)
(* type of next rests on the last of them.                                  *)
THEOREM Turning == Spec => [](TypeOK /\ Held /\ Turns)
<1>1. Init => TypeOK /\ Held /\ Turns
  <2>1. << >> \in Seq(Units) /\ Len(<< >>) = 0
    BY EmptySeq
  <2> QED
    BY <2>1, TxAssumption DEF Init, TypeOK, TxStates, PCs, Held, InMutex, Turns, MessageLeft
<1>2. TypeOK /\ Held /\ Turns /\ [Next]_vars => (TypeOK /\ Held /\ Turns)'
  <2> SUFFICES ASSUME TypeOK, Held, Turns, [Next]_vars
               PROVE  TypeOK' /\ Held' /\ Turns'
    OBVIOUS
  <2> USE TxAssumption DEF batch, connection, handles, results
  <2>0. Len(wire) \in Nat /\ Len(buf) \in Nat
    BY StreamTyped
  <2>1. ASSUME NEW n \in 1 .. Len(wire) - flushed, Deliver(n)
        PROVE  TypeOK' /\ Held' /\ Turns'
    BY <2>0, <2>1 DEF Deliver, Wake, TypeOK, Held, Turns, MessageLeft
  <2>2. ASSUME Break
        PROVE  TypeOK' /\ Held' /\ Turns'
    BY <2>2 DEF Break, Wake, TypeOK, Held, Turns, MessageLeft
  <2>3. ASSUME NEW s \in Senders, NEW n \in 0 .. MaxBatch, NEW f \in BOOLEAN,
               Start(s, n, f), closing' \subseteq Senders
        PROVE  TypeOK' /\ Held' /\ Turns'
    <3>0. /\ last[s] + 1 \in 1 .. MaxMessages + 1
          /\ last[s] + n \in 0 .. MaxMessages
          /\ next' \in [Senders -> 1 .. MaxMessages + 1]
          /\ last' \in [Senders -> 0 .. MaxMessages]
      <4>1. last[s] \in 0 .. MaxMessages /\ last[s] + n <= MaxMessages
        BY <2>3 DEF Start, TypeOK
      <4>2. last[s] + 1 \in 1 .. MaxMessages + 1 /\ last[s] + n \in 0 .. MaxMessages
        BY <4>1
      <4>3. /\ next' = [next EXCEPT ![s] = last[s] + 1]
            /\ last' = [last EXCEPT ![s] = last[s] + n]
            /\ next \in [Senders -> 1 .. MaxMessages + 1]
            /\ last \in [Senders -> 0 .. MaxMessages]
        BY <2>3 DEF Start, TypeOK
      <4> QED
        BY <4>2, <4>3
    <3>1. TypeOK'
      <4>1. /\ pc' \in [Senders -> PCs] /\ taken' \in [Senders -> BOOLEAN]
            /\ flush' \in [Senders -> BOOLEAN]
            /\ toPoll' \subseteq Senders
        BY <2>3 DEF Start, TypeOK, PCs
      <4>2. UNCHANGED <<buf, wire, flushed, conn, tx, holder, waker, gone, accepted, promised>>
        BY <2>3 DEF Start
      <4> QED
        BY <2>3, <3>0, <4>1, <4>2 DEF TypeOK
    <3>2. Held'
      BY <2>3 DEF Start, TypeOK, Held, InMutex
    <3>3. Turns'
      BY <2>3 DEF Start, TypeOK, Turns, MessageLeft
    <3> QED
      BY <3>1, <3>2, <3>3
  <2>4. ASSUME NEW s \in Senders, Lock(s)
        PROVE  TypeOK' /\ Held' /\ Turns'
    <3>1. TypeOK'
      BY <2>4 DEF Lock, TypeOK, PCs
    <3>2. Held'
      BY <2>4 DEF Lock, CanPoll, TypeOK, Held, InMutex
    <3>3. Turns'
      BY <2>4 DEF Lock, TypeOK, Turns, MessageLeft
    <3> QED
      BY <3>1, <3>2, <3>3
  <2>5. ASSUME NEW s \in Senders, LockClosed(s) \/ Fail(s) \/ Cancel(s)
        PROVE  TypeOK' /\ Held' /\ Turns'
    <3>1. /\ ReturnError(s)
          /\ holder' = holder \/ (holder = s /\ holder' = Nobody)
          /\ holder = Nobody \/ holder = s \/ pc[s] = "waiting"
          /\ holder' = s => pc[s] = "waiting"
          /\ UNCHANGED <<buf, connection, waker, batch, results>>
      BY <2>5 DEF LockClosed, Fail, Cancel, CanPoll
    <3>2. /\ pc' = [pc EXCEPT ![s] = "idle"]
          /\ toPoll' = toPoll \ {s}
          /\ tx' \in TxStates
          /\ closing' \subseteq closing
          /\ gone' \in SUBSET (gone \cup {s})
          /\ tx' = tx \/ (tx = "open" /\ gone' = Senders)
      BY <3>1 DEF ReturnError, Return, Release, HandleGoes, TypeOK, TxStates
    <3>3. TypeOK'
      BY <3>1, <3>2 DEF TypeOK, PCs
    <3>4. Held'
      BY <3>1, <3>2, <2>5 DEF TypeOK, Held, InMutex
    <3>5. Turns'
      BY <3>1, <3>2 DEF TypeOK, Turns, MessageLeft
    <3> QED
      BY <3>3, <3>4, <3>5
  <2>6. ASSUME NEW n \in 1 .. Len(buf), Transmit(n),
               UNCHANGED <<tx, holder, waker, toPoll, pc, batch, handles, results>>
        PROVE  TypeOK' /\ Held' /\ Turns'
    <3>1. /\ wire' \in Seq(Units) /\ buf' \in Seq(Units)
          /\ Len(wire') = Len(wire) + n
      BY <2>6, TransmitFacts
    <3>2. flushed' \in 0 .. Len(wire')
      BY <2>0, <2>6, <3>1 DEF Transmit, TypeOK
    <3> QED
      BY <2>6, <3>1, <3>2 DEF Transmit, TypeOK, Held, Turns, MessageLeft
  <2>7. ASSUME NEW s \in Senders, AppendLine(s)
        PROVE  TypeOK' /\ Held' /\ Turns'
    <3>1. LineLeft(s) \in Seq(Units)
      <4>1. <<s, next[s]>> \in Messages
        BY <2>7 DEF AppendLine, TypeOK, Turns, MessageLeft, Messages
      <4> QED
        BY <4>1, LineFacts, EmptySeq DEF LineLeft
    <3>2. buf' \in Seq(Units)
      BY <2>7, <3>1, ConcatProperties DEF AppendLine, TypeOK
    <3>3. TypeOK'
      BY <2>7, <3>2 DEF AppendLine, LeaveWaker, TypeOK, PCs
    <3>4. Held'
      BY <2>7 DEF AppendLine, TypeOK, Held, InMutex
    <3>5. Turns'
      BY <2>7 DEF AppendLine, TypeOK, Turns, MessageLeft
    <3> QED
      BY <3>3, <3>4, <3>5
  <2>8. ASSUME NEW s \in Senders, PassMessage(s)
        PROVE  TypeOK' /\ Held' /\ Turns'
    <3>1. /\ pc' = [pc EXCEPT ![s] = "next"] \/ pc' = [pc EXCEPT ![s] = "idle"]
          /\ toPoll' \subseteq toPoll
      BY <2>8 DEF PassMessage, Return
    <3>2. next[s] \in 1 .. MaxMessages
      BY <2>8 DEF PassMessage, TypeOK, Turns, MessageLeft
    <3>3. TypeOK'
      <4>1. accepted' \subseteq Messages
        BY <2>8, <3>2 DEF PassMessage, TypeOK, Messages
      <4>2. next' \in [Senders -> 1 .. MaxMessages + 1]
        BY <2>8, <3>2 DEF PassMessage, TypeOK
      <4>3. pc' \in [Senders -> PCs] /\ toPoll' \subseteq Senders
        <5>1. pc \in [Senders -> PCs] /\ "next" \in PCs /\ "idle" \in PCs
          BY DEF TypeOK, PCs
        <5>2. toPoll \subseteq Senders
          BY DEF TypeOK
        <5> QED
          BY <3>1, <5>1, <5>2
      <4>4. /\ UNCHANGED <<buf, wire, flushed, conn, tx, last, flush, closing, gone,
                           promised>>
            /\ holder' = Nobody /\ waker' \in Tasks \cup {Nobody}
            /\ taken' \in [Senders -> BOOLEAN]
        BY <2>8 DEF PassMessage, LeaveWaker, TypeOK
      <4> QED
        BY <4>1, <4>2, <4>3, <4>4 DEF TypeOK
    <3>4. Held'
      BY <2>8, <3>1 DEF PassMessage, TypeOK, Held, InMutex
    <3>5. Turns'
      BY <2>8, <3>1, <3>2 DEF PassMessage, TypeOK, Turns, MessageLeft
    <3> QED
      BY <3>3, <3>4, <3>5
  <2>9. ASSUME NEW s \in Senders, FlushDone(s)
        PROVE  TypeOK' /\ Held' /\ Turns'
    <3>1. /\ pc' = [pc EXCEPT ![s] = "take"] \/ pc' = [pc EXCEPT ![s] = "idle"]
          /\ toPoll' \subseteq toPoll
      BY <2>9 DEF FlushDone, Return
    <3>2. TypeOK'
      BY <2>9, <3>1 DEF FlushDone, TypeOK, PCs
    <3>3. Held'
      BY <2>9, <3>1 DEF FlushDone, TypeOK, Held, InMutex
    <3>4. Turns'
      BY <2>9, <3>1 DEF FlushDone, TypeOK, Turns, MessageLeft
    <3> QED
      BY <3>2, <3>3, <3>4
  <2>10. ASSUME NEW s \in Senders, Park(s)
         PROVE  TypeOK' /\ Held' /\ Turns'
    <3>1. TypeOK'
      BY <2>10 DEF Park, LeaveWaker, TypeOK, PCs
    <3>2. Held'
      BY <2>10 DEF Park, TypeOK, Held, InMutex
    <3>3. Turns'
      BY <2>10 DEF Park, TypeOK, Turns, MessageLeft
    <3> QED
      BY <3>1, <3>2, <3>3
  <2>11. ASSUME NEW s \in Senders, TakeLocal(s)
         PROVE  TypeOK' /\ Held' /\ Turns'
    <3>1. CASE tx = "open"
      <4>1. /\ pc' = [pc EXCEPT ![s] = "drain"] /\ tx' = "draining"
            /\ pc[s] = "take" /\ holder = Nobody
            /\ UNCHANGED <<buf, connection, holder, waker, toPoll, batch, handles, results>>
        BY <2>11, <3>1 DEF TakeLocal
      <4>2. TypeOK'
        BY <4>1 DEF TypeOK, TxStates, PCs
      <4>3. Held'
        BY <3>1, <4>1 DEF TypeOK, Held, InMutex
      <4>4. Turns'
        BY <4>1 DEF TypeOK, Turns, MessageLeft
      <4> QED
        BY <4>2, <4>3, <4>4
    <3>2. CASE tx # "open"
      <4>1. /\ pc' = [pc EXCEPT ![s] = "idle"] /\ tx' = tx
            /\ pc[s] = "take" /\ holder = Nobody
            /\ toPoll' = toPoll \ {s}
            /\ closing' \subseteq closing
            /\ gone' \in SUBSET (gone \cup {s})
            /\ UNCHANGED <<buf, connection, holder, waker, batch, results>>
        BY <2>11, <3>2 DEF TakeLocal, ReturnError, Return, Release, HandleGoes, TypeOK
      <4>2. TypeOK'
        BY <4>1 DEF TypeOK, PCs
      <4>3. Held'
        BY <4>1 DEF TypeOK, Held, InMutex
      <4>4. Turns'
        BY <4>1 DEF TypeOK, Turns, MessageLeft
      <4> QED
        BY <4>2, <4>3, <4>4
    <3> QED
      BY <3>1, <3>2
  <2>12. ASSUME NEW s \in Senders, DropHandle(s)
         PROVE  TypeOK' /\ Held' /\ Turns'
    <3>1. /\ pc[s] = "idle"
          /\ gone' = gone \cup {s}
          /\ closing' = closing \ {s}
          /\ tx' \in TxStates
          /\ tx' = tx \/ (tx = "open" /\ gone' = Senders)
          /\ UNCHANGED <<buf, connection, holder, waker, toPoll, pc, batch, results>>
      BY <2>12 DEF DropHandle, Release, HandleGoes, TypeOK, TxStates
    <3>2. TypeOK'
      BY <3>1 DEF TypeOK
    <3>3. Held'
      BY <3>1 DEF TypeOK, Held, InMutex
    <3>4. Turns'
      BY <3>1 DEF TypeOK, Turns, MessageLeft
    <3> QED
      BY <3>2, <3>3, <3>4
  <2>14. ASSUME NEW s \in Senders, DrainParks(s) \/ DrainAgain(s)
         PROVE  TypeOK' /\ Held' /\ Turns'
    <3>1. /\ pc' = [pc EXCEPT ![s] = "parked"] \/ pc' = [pc EXCEPT ![s] = "drain"]
          /\ pc[s] \in {"drain", "parked"}
          /\ waker' \in Tasks \cup {Nobody} /\ toPoll' \subseteq toPoll
          /\ UNCHANGED <<buf, connection, tx, holder, batch, handles, results>>
      BY <2>14 DEF DrainParks, DrainAgain, LeaveWaker, TypeOK
    <3>2. TypeOK'
      BY <3>1 DEF TypeOK, PCs
    <3>3. Held'
      BY <3>1 DEF TypeOK, Held, InMutex
    <3>4. Turns'
      BY <3>1 DEF TypeOK, Turns, MessageLeft
    <3> QED
      BY <3>2, <3>3, <3>4
  <2>15. ASSUME NEW s \in Senders, Shutdown(s) \/ DropClose(s)
         PROVE  TypeOK' /\ Held' /\ Turns'
    <3>1. /\ pc' = [pc EXCEPT ![s] = "idle"]
          /\ pc[s] \in {"drain", "parked"}
          /\ tx' \in {"shut", "lost"}
          /\ toPoll' = toPoll \ {s}
          /\ gone' = gone \cup {s}
          /\ closing' = closing \ {s}
          /\ UNCHANGED <<buf, connection, holder, waker, batch, results>>
      BY <2>15 DEF Shutdown, DropClose, Return, HandleGoes
    <3>2. tx = "draining" /\ holder = Nobody
      BY <3>1 DEF Held, TypeOK
    <3>3. TypeOK'
      BY <3>1 DEF TypeOK, TxStates, PCs
    <3>4. Held'
      <4>1. \A r \in Senders \ {s} : pc[r] \notin {"drain", "parked"} /\ pc'[r] = pc[r]
        BY <3>1 DEF Held, TypeOK
      <4>2. pc'[s] = "idle"
        BY <3>1 DEF TypeOK
      <4> QED
        BY <3>1, <3>2, <4>1, <4>2 DEF Held, InMutex
    <3>5. Turns'
      BY <3>1 DEF TypeOK, Turns, MessageLeft
    <3> QED
      BY <3>3, <3>4, <3>5
  <2>16. ASSUME BackgroundShutdown \/ RuntimeStops
         PROVE  TypeOK' /\ Held' /\ Turns'
    <3>1. /\ tx = "background" /\ tx' \in TxStates
          /\ UNCHANGED <<buf, connection, holder, waker, toPoll, pc, batch, handles, results>>
      BY <2>16 DEF BackgroundShutdown, RuntimeStops, TxStates
    <3> QED
      BY <3>1 DEF TypeOK, Held, Turns, MessageLeft
  <2>13. CASE UNCHANGED vars
    BY <2>13 DEF vars, TypeOK, Held, Turns, MessageLeft
  <2> QED
    <3>1. ASSUME NEW s \in Senders, NEW n \in 0 .. MaxBatch, NEW f \in BOOLEAN,
                 StartSend(s, n, f)
          PROVE  TypeOK' /\ Held' /\ Turns'
      <4>1. Start(s, n, f) /\ closing' \subseteq Senders
        BY <3>1 DEF StartSend, TypeOK
      <4> QED
        BY <2>3, <4>1
    <3>2. ASSUME NEW s \in Senders, StartClose(s)
          PROVE  TypeOK' /\ Held' /\ Turns'
      <4>1. Start(s, 0, TRUE) /\ closing' = closing \cup {s}
        BY <3>2, Zenon DEF StartClose
      <4>2. closing' \subseteq Senders /\ 0 \in 0 .. MaxBatch
        BY <4>1 DEF TypeOK
      <4> QED
        BY <2>3, <4>1, <4>2, Zenon
    <3>3. ASSUME NEW s \in Senders, NEW n \in 1 .. Len(buf), WriteSome(s, n)
          PROVE  TypeOK' /\ Held' /\ Turns'
      BY <2>6, <3>3 DEF WriteSome
    <3>4. ASSUME NEW n \in 1 .. Len(buf),
                 BackgroundSome(n) \/ \E s \in Senders : DrainSome(s, n)
          PROVE  TypeOK' /\ Held' /\ Turns'
      BY <2>6, <3>4 DEF BackgroundSome, DrainSome
    <3> QED
      BY <2>1, <2>2, <2>4, <2>5, <2>7, <2>8, <2>9, <2>10, <2>11, <2>12, <2>13,
         <2>14, <2>15, <2>16, <3>1, <3>2, <3>3, <3>4 DEF Next, InPoll, Background
<1> QED
  BY <1>1, <1>2, PTL DEF Spec

(* Every variable keeps its type: the messages of a send never pass the end *)
(* of its batch.                                                            *)
THEOREM Typing == Spec => []TypeOK
BY Turning, PTL
-----------------------------------------------------------------------------
(* The stream's part of the invariant. *)

(* A unit of the stream names a sender, a number and a place in a line.     *)
LEMMA UnitFacts ==
  ASSUME TypeOK, NEW i \in 1 .. Len(Stream)
  PROVE  /\ Stream[i][1][1] \in Senders
         /\ Stream[i][1][2] \in 1 .. MaxMessages
         /\ Stream[i][2] \in 1 .. LineLen
         /\ Stream[i][1] = <<Stream[i][1][1], Stream[i][1][2]>>
         /\ Stream[i] = <<Stream[i][1], Stream[i][2]>>
BY StreamTyped DEF Units, Messages

(* A step that leaves the stream alone, and turns to a sender's next        *)
(* message only after the message before it was taken, or none was, keeps   *)
(* what the invariant says of the stream.                                   *)
LEMMA QuietStep ==
  ASSUME TypeOK, TypeOK', Stream' = Stream,
         WholeStream, WholeLines, InStream, SenderOrder,
         \A s \in Senders :
           \/ next'[s] = next[s] /\ taken'[s] = taken[s]
           \/ ~taken'[s] /\ next'[s] >= next[s] /\ (taken[s] => next'[s] > next[s])
  PROVE  WholeStream' /\ WholeLines' /\ InStream' /\ SenderOrder'
<1>1. WholeStream' /\ WholeLines' /\ SenderOrder'
  BY DEF WholeStream, WholeLines, SenderOrder
<1>2. ASSUME NEW s \in Senders, taken'[s]
      PROVE  Sent(<<s, next[s]>>)'
  BY <1>2 DEF InStream, Sent
<1>3. ASSUME NEW i \in DOMAIN Stream
      PROVE  LET s == Stream[i][1][1]
             IN  \/ Stream[i][1][2] < next'[s]
                 \/ taken'[s] /\ Stream[i][1][2] = next'[s]
  <2> DEFINE s == Stream[i][1][1]
             k == Stream[i][1][2]
  <2>1. s \in Senders /\ k \in Int
    BY StreamTyped, UnitFacts
  <2>2. k < next[s] \/ (taken[s] /\ k = next[s])
    BY DEF InStream
  <2>3. next[s] \in Int /\ next'[s] \in Int
    BY <2>1 DEF TypeOK
  <2> HIDE DEF s, k
  <2>4. k < next'[s] \/ (taken'[s] /\ k = next'[s])
    BY <2>1, <2>2, <2>3
  <2> QED
    BY <2>4 DEF s, k
<1> QED
  <2>1. InStream'
    <3>1. \A s \in Senders : taken'[s] => Sent(<<s, next[s]>>)'
      BY <1>2
    <3> QED
      BY <1>3, <3>1 DEF InStream
  <2> QED
    BY <1>1, <2>1

(* A line that is appended for the first time goes to the end of the        *)
(* stream, after whole lines only.                                          *)
LEMMA GrowFacts ==
  ASSUME TypeOK, NEW m \in Messages, wire' = wire, buf' = buf \o Line(m)
  PROVE  /\ Len(Stream') = Len(Stream) + LineLen
         /\ DOMAIN Stream' = 1 .. Len(Stream) + LineLen
         /\ \A i \in 1 .. Len(Stream) : Stream'[i] = Stream[i]
         /\ \A k \in 1 .. LineLen : Stream'[Len(Stream) + k] = <<m, k>>
<1>1. /\ wire \in Seq(Units) /\ buf \in Seq(Units) /\ Stream \in Seq(Units)
      /\ Len(Stream) \in Nat /\ LineLen \in Nat
  BY StreamTyped, LenProperties, TxAssumption DEF TypeOK
<1>2. /\ Line(m) \in Seq(Units)
      /\ Len(Line(m)) = LineLen
      /\ \A i \in 1 .. LineLen : Line(m)[i] = <<m, i>>
  BY LineFacts
<1>3. Stream' = Stream \o Line(m)
  <2>1. \A s, t, u \in Seq(Units) : (s \o t) \o u = s \o (t \o u)
    BY ConcatAssociative
  <2> QED
    BY <1>1, <1>2, <2>1 DEF Stream
<1>4. /\ Stream \o Line(m) \in Seq(Units)
      /\ Len(Stream \o Line(m)) = Len(Stream) + Len(Line(m))
      /\ \A i \in 1 .. Len(Stream) + Len(Line(m)) :
           (Stream \o Line(m))[i] =
             IF i <= Len(Stream) THEN Stream[i] ELSE Line(m)[i - Len(Stream)]
  BY <1>1, <1>2, ConcatProperties
<1>5. DOMAIN Stream' = 1 .. Len(Stream')
  BY <1>3, <1>4, LenProperties
<1>6. ASSUME NEW k \in 1 .. LineLen
      PROVE  Stream'[Len(Stream) + k] = <<m, k>>
  <2>1. /\ Len(Stream) + k \in 1 .. Len(Stream) + Len(Line(m))
        /\ ~(Len(Stream) + k <= Len(Stream))
        /\ Len(Stream) + k - Len(Stream) = k
    BY <1>1, <1>2
  <2> QED
    BY <1>2, <1>3, <1>4, <2>1
<1> QED
  BY <1>1, <1>2, <1>3, <1>4, <1>5, <1>6

(* Appending the line of a sender's next message, not yet taken, keeps what *)
(* the invariant says of the stream.                                        *)
LEMMA GrowStep ==
  ASSUME TypeOK, WholeStream, WholeLines, InStream, SenderOrder,
         NEW s \in Senders, ~taken[s], <<s, next[s]>> \in Messages,
         wire' = wire, buf' = buf \o Line(<<s, next[s]>>),
         next' = next, taken' = [taken EXCEPT ![s] = TRUE]
  PROVE  WholeStream' /\ WholeLines' /\ InStream' /\ SenderOrder'
<1> DEFINE m == <<s, next[s]>>
           n == Len(Stream)
<1>1. /\ Len(Stream') = n + LineLen
      /\ DOMAIN Stream' = 1 .. n + LineLen
      /\ \A i \in 1 .. n : Stream'[i] = Stream[i]
      /\ \A k \in 1 .. LineLen : Stream'[n + k] = <<m, k>>
  BY GrowFacts
<1>2. n \in Nat /\ LineLen \in Nat \ {0} /\ DOMAIN Stream = 1 .. n
  BY StreamTyped, TxAssumption
<1>3. n % LineLen = 0
  BY DEF WholeStream
<1>4. /\ \A k \in 0 .. LineLen - 1 : (n + k) % LineLen = k
      /\ (n + LineLen) % LineLen = 0
  BY <1>2, <1>3, NextLine
<1>5. \A i \in 1 .. n : /\ Stream[i][1][1] \in Senders
                        /\ Stream[i][1][2] \in Int
  BY UnitFacts
<1>6. next[s] \in Int /\ taken \in [Senders -> BOOLEAN]
  BY DEF TypeOK
<1>7. \A i \in 1 .. n : Stream[i][1][1] = s => Stream[i][1][2] < next[s]
  BY <1>2 DEF InStream
<1>8. ASSUME NEW i \in 1 .. n + LineLen, i > n
      PROVE  i - n \in 1 .. LineLen /\ Stream'[i] = <<m, i - n>>
  <2>1. i - n \in 1 .. LineLen /\ n + (i - n) = i
    BY <1>2, <1>8
  <2> QED
    BY <1>1, <2>1
<1>9. WholeStream'
  BY <1>1, <1>4 DEF WholeStream
<1> HIDE DEF n, m
<1>10. WholeLines'
  <2> SUFFICES ASSUME NEW i \in 1 .. n + LineLen
               PROVE  LET part == ((i - 1) % LineLen) + 1
                      IN  /\ Stream'[i][2] = part
                          /\ part > 1 => Stream'[i][1] = Stream'[i - 1][1]
    BY <1>1 DEF WholeLines
  <2>1. CASE i <= n
    <3>1. i \in 1 .. n /\ Stream'[i] = Stream[i]
      BY <1>1, <1>2, <2>1
    <3>2. /\ Stream[i][2] = ((i - 1) % LineLen) + 1
          /\ ((i - 1) % LineLen) + 1 > 1 => Stream[i][1] = Stream[i - 1][1]
      BY <1>2, <3>1 DEF WholeLines
    <3>3. i > 1 => Stream'[i - 1] = Stream[i - 1]
      BY <1>1, <1>2, <3>1
    <3>4. i = 1 => ~(((i - 1) % LineLen) + 1 > 1)
      BY <1>2
    <3> QED
      BY <3>1, <3>2, <3>3, <3>4
  <2>2. CASE i > n
    <3> DEFINE k == i - n
    <3>1. k \in 1 .. LineLen /\ Stream'[i] = <<m, k>>
      BY <1>8, <2>2
    <3>2. ((i - 1) % LineLen) + 1 = k
      <4>1. k - 1 \in 0 .. LineLen - 1 /\ n + (k - 1) = i - 1
        BY <1>2, <3>1
      <4>2. (n + (k - 1)) % LineLen = k - 1
        BY <1>4, <4>1
      <4>3. (i - 1) % LineLen = k - 1
        BY <4>1, <4>2
      <4> HIDE DEF k
      <4> QED
        BY <3>1, <4>3
    <3>3. k > 1 => Stream'[i - 1] = <<m, k - 1>>
      <4> SUFFICES ASSUME k > 1
                   PROVE  Stream'[i - 1] = <<m, k - 1>>
        OBVIOUS
      <4>1. i - 1 \in 1 .. n + LineLen /\ i - 1 > n /\ i - 1 - n = k - 1
        BY <1>2, <3>1
      <4> QED
        BY <1>8, <4>1
    <3> HIDE DEF k
    <3> QED
      BY <3>1, <3>2, <3>3
  <2> QED
    BY <1>2, <2>1, <2>2
<1>11. SenderOrder'
  <2> SUFFICES ASSUME NEW i \in 1 .. n + LineLen, NEW j \in 1 .. n + LineLen,
                      i < j, Stream'[i][1][1] = Stream'[j][1][1]
               PROVE  \/ Stream'[i][1][2] < Stream'[j][1][2]
                      \/ /\ Stream'[i][1] = Stream'[j][1]
                         /\ j - i = Stream'[j][2] - Stream'[i][2]
    BY <1>1 DEF SenderOrder
  <2>1. CASE j <= n
    <3>1. /\ i \in 1 .. n /\ Stream'[i] = Stream[i]
          /\ j \in 1 .. n /\ Stream'[j] = Stream[j]
      BY <1>1, <1>2, <2>1
    <3> QED
      BY <1>2, <3>1 DEF SenderOrder
  <2>2. CASE i <= n /\ j > n
    <3>1. i \in 1 .. n /\ Stream'[i] = Stream[i]
      BY <1>1, <1>2, <2>2
    <3>2. Stream'[j][1] = <<s, next[s]>>
      BY <1>8, <2>2 DEF m
    <3> QED
      BY <1>7, <3>1, <3>2
  <2>3. CASE i > n /\ j > n
    <3>1. Stream'[i] = <<m, i - n>> /\ Stream'[j] = <<m, j - n>>
      BY <1>8, <2>3
    <3> QED
      BY <1>2, <3>1
  <2> QED
    BY <1>2, <2>1, <2>2, <2>3
<1>12. InStream'
  <2>1. \A x \in Range(Stream) : x \in Range(Stream')
    BY <1>1, <1>2 DEF Range
  <2>2. \A k \in 1 .. LineLen : <<m, k>> \in Range(Stream')
    <3> SUFFICES ASSUME NEW k \in 1 .. LineLen
                 PROVE  <<m, k>> \in Range(Stream')
      OBVIOUS
    <3>1. n + k \in 1 .. n + LineLen
      BY <1>2
    <3> QED
      BY <1>1, <3>1 DEF Range
  <2>3. ASSUME NEW r \in Senders, taken'[r]
        PROVE  \A k \in 1 .. LineLen : <<<<r, next[r]>>, k>> \in Range(Stream')
    <3>1. CASE r = s
      BY <2>2, <3>1 DEF m
    <3>2. CASE r # s
      <4>1. taken[r]
        BY <1>6, <2>3, <3>2
      <4>2. Sent(<<r, next[r]>>)
        BY <4>1 DEF InStream
      <4> QED
        BY <2>1, <4>2 DEF Sent
    <3> QED
      BY <3>1, <3>2
  <2>4. ASSUME NEW i \in 1 .. n + LineLen
        PROVE  LET r == Stream'[i][1][1]
               IN  \/ Stream'[i][1][2] < next[r]
                   \/ taken'[r] /\ Stream'[i][1][2] = next[r]
    <3>1. CASE i <= n
      <4>1. i \in 1 .. n /\ Stream'[i] = Stream[i]
        BY <1>1, <1>2, <3>1
      <4> QED
        BY <1>2, <1>5, <1>6, <1>7, <4>1 DEF InStream
    <3>2. CASE i > n
      <4>1. Stream'[i][1] = <<s, next[s]>>
        BY <1>8, <3>2 DEF m
      <4> QED
        BY <1>6, <4>1
    <3> QED
      BY <1>2, <3>1, <3>2
  <2>5. \A r \in Senders : taken'[r] => Sent(<<r, next[r]>>)'
    BY <2>3 DEF Sent
  <2> QED
    BY <1>1, <2>4, <2>5 DEF InStream
<1> QED
  BY <1>9, <1>10, <1>11, <1>12

(* A message's units are found in a longer stream as in a shorter one.      *)
LEMMA SentStays ==
  ASSUME NEW m, Sent(m), Range(Stream) \subseteq Range(Stream)'
  PROVE  Sent(m)'
BY DEF Sent

(* What has been flushed stays so, as long as the connection only           *)
(* takes units behind those it has.                                         *)
LEMMA PromisesStay ==
  ASSUME TypeOK, PromisesKept, TypeOK', flushed' >= flushed, Len(wire) <= Len(wire'),
         \A i \in 1 .. Len(wire) : wire'[i] = wire[i]
  PROVE  \A m \in promised, i \in 1 .. LineLen :
           \E j \in 1 .. flushed' : wire'[j] = <<m, i>>
<1>1. Len(wire) \in Nat /\ flushed \in 0 .. Len(wire) /\ flushed' \in Nat
  BY StreamTyped DEF TypeOK
<1> SUFFICES ASSUME NEW m \in promised, NEW i \in 1 .. LineLen
             PROVE  \E j \in 1 .. flushed' : wire'[j] = <<m, i>>
  OBVIOUS
<1>2. PICK j \in 1 .. flushed : wire[j] = <<m, i>>
  BY DEF PromisesKept
<1>3. j \in 1 .. flushed' /\ j \in 1 .. Len(wire)
  BY <1>1
<1> QED
  BY <1>2, <1>3

(* Messages are counted by numbers, whatever their bound.                   *)
LEMMA BatchTypes ==
  ASSUME TypeOK
  PROVE  /\ next \in [Senders -> Nat] /\ last \in [Senders -> Nat]
         /\ taken \in [Senders -> BOOLEAN]
<1>1. 1 .. MaxMessages + 1 \subseteq Nat /\ 0 .. MaxMessages \subseteq Nat
  BY TxAssumption
<1> QED
  BY <1>1 DEF TypeOK

(* Whatever the step, the invariant's part for the stream.                  *)
LEMMA StreamStep ==
  ASSUME TypeOK, Held, Turns, TypeOK', Turns', [Next]_vars,
         WholeStream, WholeLines, InStream, SenderOrder
  PROVE  /\ WholeStream' /\ WholeLines' /\ InStream' /\ SenderOrder'
         /\ Range(Stream) \subseteq Range(Stream)'
<1> DEFINE Goal == /\ WholeStream' /\ WholeLines' /\ InStream' /\ SenderOrder'
                   /\ Range(Stream) \subseteq Range(Stream)'
           Forward == \A s \in Senders :
             \/ next'[s] = next[s] /\ taken'[s] = taken[s]
             \/ ~taken'[s] /\ next'[s] >= next[s] /\ (taken[s] => next'[s] > next[s])
<1> USE DEF batch, connection, handles, results
<1>1. ASSUME UNCHANGED <<wire, buf, next, taken>>
      PROVE  Goal
  <2>1. Stream' = Stream
    BY <1>1 DEF Stream
  <2> QED
    BY <1>1, <2>1, QuietStep
<1>2. ASSUME NEW s \in Senders, NEW n \in 0 .. MaxBatch, NEW f \in BOOLEAN,
             Start(s, n, f)
      PROVE  Goal
  <2>1. Stream' = Stream
    BY <1>2 DEF Start, Stream
  <2>2. Forward
    <3>1. /\ next' = [next EXCEPT ![s] = last[s] + 1]
          /\ taken' = [taken EXCEPT ![s] = FALSE]
      BY <1>2 DEF Start
    <3>2. /\ next \in [Senders -> Nat] /\ last \in [Senders -> Nat]
          /\ taken \in [Senders -> BOOLEAN]
      BY BatchTypes
    <3>3. next[s] <= last[s] + 1 /\ (taken[s] => next[s] <= last[s])
      BY DEF Turns, MessageLeft
    <3>4. next'[s] = last[s] + 1 /\ taken'[s] = FALSE
      BY <3>1, <3>2
    <3>5. ~taken'[s] /\ next'[s] >= next[s] /\ (taken[s] => next'[s] > next[s])
      BY <3>2, <3>3, <3>4
    <3>6. \A r \in Senders \ {s} : next'[r] = next[r] /\ taken'[r] = taken[r]
      BY <3>1, <3>2
    <3> QED
      BY <3>5, <3>6
  <2> QED
    BY <2>1, <2>2, QuietStep
<1>3. ASSUME NEW n \in 1 .. Len(buf), Transmit(n), UNCHANGED <<next, taken>>
      PROVE  Goal
  <2>1. Stream' = Stream
    BY <1>3, TransmitFacts
  <2> QED
    BY <1>3, <2>1, QuietStep
<1>4. ASSUME NEW s \in Senders, AppendLine(s)
      PROVE  Goal
  <2>1. CASE taken[s]
    <3>1. buf' = buf
      <4>1. buf' = buf \o << >> /\ buf \in Seq(Units)
        BY <1>4, <2>1 DEF AppendLine, LineLeft, TypeOK
      <4> QED
        BY <4>1, ConcatEmptySeq
    <3>2. taken' = taken /\ next' = next /\ wire' = wire
      BY <1>4, <2>1 DEF AppendLine, TypeOK
    <3> QED
      BY <1>1, <3>1, <3>2
  <2>2. CASE ~taken[s]
    <3>1. <<s, next[s]>> \in Messages
      <4>1. next[s] <= last[s] /\ last[s] <= MaxMessages
        BY <1>4, TxAssumption DEF AppendLine, TypeOK, Turns, MessageLeft
      <4> QED
        BY <4>1, TxAssumption DEF TypeOK, Messages
    <3>2. /\ wire' = wire /\ buf' = buf \o Line(<<s, next[s]>>)
          /\ next' = next /\ taken' = [taken EXCEPT ![s] = TRUE]
      BY <1>4, <2>2 DEF AppendLine, LineLeft
    <3>3. Range(Stream) \subseteq Range(Stream')
      <4>1. /\ DOMAIN Stream' = 1 .. Len(Stream) + LineLen
            /\ \A i \in 1 .. Len(Stream) : Stream'[i] = Stream[i]
        BY <3>1, <3>2, GrowFacts
      <4>2. DOMAIN Stream = 1 .. Len(Stream) /\ Len(Stream) \in Nat /\ LineLen \in Nat
        BY StreamTyped, TxAssumption
      <4> QED
        BY <4>1, <4>2 DEF Range
    <3> QED
      BY <2>2, <3>1, <3>2, <3>3, GrowStep
  <2> QED
    BY <2>1, <2>2
<1>5. ASSUME NEW s \in Senders, PassMessage(s)
      PROVE  Goal
  <2>1. Stream' = Stream
    BY <1>5 DEF PassMessage, Stream
  <2>2. Forward
    <3>1. /\ next' = [next EXCEPT ![s] = @ + 1]
          /\ taken' = [taken EXCEPT ![s] = FALSE]
      BY <1>5 DEF PassMessage
    <3>2. /\ next \in [Senders -> Nat]
          /\ taken \in [Senders -> BOOLEAN]
      BY BatchTypes
    <3>3. next'[s] = next[s] + 1 /\ taken'[s] = FALSE /\ next[s] \in Nat
      BY <3>1, <3>2
    <3>4. ~taken'[s] /\ next'[s] >= next[s] /\ next'[s] > next[s]
      BY <3>3
    <3>5. \A r \in Senders \ {s} : next'[r] = next[r] /\ taken'[r] = taken[r]
      BY <3>1, <3>2
    <3> QED
      BY <3>4, <3>5
  <2> QED
    BY <2>1, <2>2, QuietStep
<1> HIDE DEF Goal
<1>6. ASSUME NEW s \in Senders, NEW n \in 0 .. MaxBatch, NEW f \in BOOLEAN,
             StartSend(s, n, f)
      PROVE  Goal
  BY <1>2, <1>6 DEF StartSend
<1>7. ASSUME NEW s \in Senders, StartClose(s)
      PROVE  Goal
  <2>1. Start(s, 0, TRUE)
    BY <1>7, Zenon DEF StartClose
  <2>2. 0 \in 0 .. MaxBatch
    BY TxAssumption
  <2> QED
    BY <1>2, <2>1, <2>2, Zenon
<1>8. ASSUME NEW n \in 1 .. Len(buf),
             BackgroundSome(n) \/ \E s \in Senders : WriteSome(s, n) \/ DrainSome(s, n)
      PROVE  Goal
  BY <1>3, <1>8 DEF BackgroundSome, DrainSome, WriteSome
<1> QED
  <2>1. ASSUME NEW n, Deliver(n)
        PROVE  Goal
    BY <1>1, <2>1 DEF Deliver
  <2>2. ASSUME Break \/ BackgroundShutdown \/ RuntimeStops \/ UNCHANGED vars
        PROVE  Goal
    BY <1>1, <2>2 DEF Break, BackgroundShutdown, RuntimeStops, vars
  <2>3. ASSUME NEW s \in Senders,
               \/ Lock(s) \/ LockClosed(s) \/ TakeLocal(s) \/ Cancel(s)
               \/ DropHandle(s) \/ FlushDone(s) \/ Park(s) \/ Fail(s)
               \/ DrainParks(s) \/ DrainAgain(s) \/ Shutdown(s) \/ DropClose(s)
        PROVE  Goal
    BY <1>1, <2>3 DEF Lock, LockClosed, TakeLocal, Cancel, DropHandle, FlushDone,
                      Park, Fail, DrainParks, DrainAgain, Shutdown, DropClose
  <2>4. Goal
    BY <1>4, <1>5, <1>6, <1>7, <1>8, <2>1, <2>2, <2>3 DEF Next, InPoll, Background
  <2> QED
    BY <2>4 DEF Goal

(* When a flush is complete, all that was accepted is flushed.              *)
LEMMA FlushedAll ==
  ASSUME TypeOK, AcceptedSent, FlushReady, NEW m \in accepted, NEW i \in 1 .. LineLen
  PROVE  \E j \in 1 .. flushed : wire[j] = <<m, i>>
<1>1. <<m, i>> \in Range(Stream)
  BY DEF AcceptedSent, Sent
<1>2. PICK j \in DOMAIN Stream : Stream[j] = <<m, i>>
  BY <1>1 DEF Range
<1>3. Len(Stream) = Len(wire)
  BY StreamTyped, EmptySeq DEF FlushReady
<1>4. j \in 1 .. Len(wire) /\ Stream[j] = wire[j]
  BY <1>3, StreamTyped
<1> QED
  BY <1>2, <1>4 DEF FlushReady

(* Whatever the step, what is accepted is in the stream, and what a flush   *)
(* has covered has been flushed through the connection.                     *)
LEMMA KeptStep ==
  ASSUME TypeOK, Turns, InStream, AcceptedSent, PromisesKept, TypeOK', [Next]_vars,
         Range(Stream) \subseteq Range(Stream)'
  PROVE  AcceptedSent' /\ PromisesKept'
<1> DEFINE Reached == \A m \in promised', i \in 1 .. LineLen :
                        \E j \in 1 .. flushed' : wire'[j] = <<m, i>>
<1> USE DEF batch, connection, handles, results
<1>1. CASE \E s \in Senders : PassMessage(s)
  <2>1. PICK s \in Senders : PassMessage(s)
    BY <1>1
  <2>2. Sent(<<s, next[s]>>)
    BY <2>1 DEF PassMessage, Turns, InStream
  <2>3. ASSUME NEW m \in accepted'
        PROVE  Sent(m)'
    <3>1. m \in accepted \/ m = <<s, next[s]>>
      BY <2>1, <2>3 DEF PassMessage
    <3>2. Sent(m)
      <4>1. CASE m \in accepted
        BY <4>1 DEF AcceptedSent, PromisesKept
      <4>2. CASE m = <<s, next[s]>>
        BY <2>2, <4>2
      <4> QED
        BY <3>1, <4>1, <4>2
    <3> QED
      BY <3>2, SentStays
  <2>4. UNCHANGED <<wire, flushed, promised>>
    BY <2>1 DEF PassMessage
  <2>5. Reached
    BY <2>4 DEF AcceptedSent, PromisesKept
  <2> QED
    BY <2>3, <2>5 DEF AcceptedSent, PromisesKept
<1>2. CASE \E s \in Senders : FlushDone(s)
  <2>1. PICK s \in Senders : FlushDone(s)
    BY <1>2
  <2>2. /\ UNCHANGED <<buf, wire, flushed, accepted>>
        /\ promised' = promised \cup accepted
        /\ buf = << >> /\ flushed = Len(wire)
    BY <2>1 DEF FlushDone, FlushReady
  <2>3. \A m \in accepted' : Sent(m)'
    <3>1. \A m \in accepted : Sent(m)
      BY DEF AcceptedSent, PromisesKept
    <3> QED
      BY <2>2, <3>1, SentStays
  <2>4. ASSUME NEW m \in promised', NEW i \in 1 .. LineLen
        PROVE  \E j \in 1 .. flushed' : wire'[j] = <<m, i>>
    <3>1. CASE m \in promised
      BY <2>2, <3>1 DEF AcceptedSent, PromisesKept
    <3>2. CASE m \in accepted
      <4>1. FlushReady
        BY <2>1 DEF FlushDone
      <4> QED
        BY <2>2, <3>2, <4>1, FlushedAll
    <3> QED
      BY <2>2, <2>4, <3>1, <3>2
  <2> QED
    BY <2>3, <2>4 DEF AcceptedSent, PromisesKept
<1>3. CASE ~(\E s \in Senders : PassMessage(s) \/ FlushDone(s))
  <2>1. UNCHANGED results
    BY <1>3 DEF Next, InPoll, Background, Deliver, Break, StartSend, StartClose, Start,
                Lock, LockClosed, WriteSome, AppendLine, Park, Fail, TakeLocal, Cancel,
                DropHandle, DrainSome, DrainParks, DrainAgain, Shutdown, DropClose,
                BackgroundSome, BackgroundShutdown, RuntimeStops, vars
  <2>2. \A m \in accepted' : Sent(m)'
    <3>1. \A m \in accepted : Sent(m)
      BY DEF AcceptedSent, PromisesKept
    <3> QED
      BY <2>1, <3>1, SentStays
  <2>3. /\ flushed' >= flushed /\ Len(wire) <= Len(wire')
        /\ \A i \in 1 .. Len(wire) : wire'[i] = wire[i]
    <3>1. Len(wire) \in Nat /\ flushed \in Nat
      BY StreamTyped DEF TypeOK
    <3>2. CASE \E n \in 1 .. Len(buf) : Transmit(n)
      <4>1. PICK n \in 1 .. Len(buf) : Transmit(n)
        BY <3>2
      <4>2. Len(wire') = Len(wire) + n /\ \A i \in 1 .. Len(wire) : wire'[i] = wire[i]
        BY <4>1, TransmitFacts
      <4> QED
        BY <3>1, <4>1, <4>2 DEF Transmit
    <3>3. CASE \E n \in 1 .. Len(wire) - flushed : Deliver(n)
      BY <3>1, <3>3 DEF Deliver
    <3>4. CASE UNCHANGED <<wire, flushed>>
      BY <3>1, <3>4
    <3> QED
      BY <1>3, <3>2, <3>3, <3>4
         DEF Next, InPoll, Background, Break, StartSend, StartClose, Start, Lock,
             LockClosed, WriteSome, AppendLine, Park, Fail, TakeLocal, Cancel,
             DropHandle, DrainSome, DrainParks, DrainAgain, Shutdown, DropClose,
             BackgroundSome, BackgroundShutdown, RuntimeStops, vars
  <2>4. Reached
    BY <2>1, <2>3, PromisesStay
  <2> QED
    BY <2>2, <2>4 DEF AcceptedSent, PromisesKept
<1> QED
  BY <1>1, <1>2, <1>3

(* Whatever the step, the buffer is no longer than one line above its mark: *)
(* a line goes in only when the buffer is below it.                         *)
LEMMA BoundedStep ==
  ASSUME TypeOK, Turns, Bounded, [Next]_vars
  PROVE  Bounded'
<1> USE DEF batch, connection, handles, results
<1>1. Len(buf) \in Nat /\ LineLen \in Nat \ {0} /\ HighWater \in Nat \ {0}
  BY StreamTyped, TxAssumption
<1>2. CASE \E s \in Senders : AppendLine(s)
  <2>1. PICK s \in Senders : AppendLine(s)
    BY <1>2
  <2>2. Len(buf) < HighWater
    BY <1>1, <2>1, EmptySeq DEF AppendLine, GoesOn, FlushReady
  <2>3. LineLeft(s) \in Seq(Units) /\ Len(LineLeft(s)) <= LineLen
    <3>1. CASE taken[s]
      BY <1>1, <3>1, EmptySeq DEF LineLeft
    <3>2. CASE ~taken[s]
      <4>1. next[s] <= last[s] /\ last[s] <= MaxMessages
        BY <2>1, TxAssumption DEF AppendLine, TypeOK, Turns, MessageLeft
      <4>2. <<s, next[s]>> \in Messages
        BY <4>1, TxAssumption DEF TypeOK, Messages
      <4> QED
        BY <1>1, <3>2, <4>2, LineFacts DEF LineLeft
    <3> QED
      BY <3>1, <3>2
  <2>4. buf \in Seq(Units) /\ buf' = buf \o LineLeft(s)
    BY <2>1 DEF AppendLine, TypeOK
  <2>5. Len(buf \o LineLeft(s)) = Len(buf) + Len(LineLeft(s)) /\ Len(LineLeft(s)) \in Nat
    BY <2>3, <2>4, ConcatProperties, LenProperties
  <2> QED
    BY <1>1, <2>2, <2>3, <2>4, <2>5 DEF Bounded
<1>3. CASE \E n \in 1 .. Len(buf) : Transmit(n)
  <2>1. PICK n \in 1 .. Len(buf) : Transmit(n)
    BY <1>3
  <2>2. Len(buf') = Len(buf) - n
    BY <2>1, TransmitFacts
  <2> QED
    BY <1>1, <2>2 DEF Bounded
<1>4. CASE buf' = buf
  BY <1>4 DEF Bounded
<1> QED
  BY <1>2, <1>3, <1>4
     DEF Next, InPoll, Background, Deliver, Break, StartSend, StartClose, Start, Lock,
         LockClosed, WriteSome, PassMessage, FlushDone, Park, Fail, TakeLocal, Cancel,
         DropHandle, DrainSome, DrainParks, DrainAgain, Shutdown, DropClose,
         BackgroundSome, BackgroundShutdown, RuntimeStops, vars

(* Whatever the step, a connection that is shut down in good order has left *)
(* nothing in the buffer, and nothing unflushed.                            *)
LEMMA ShutStep ==
  ASSUME TypeOK, Held, [Next]_vars, tx = "shut" /\ conn = "up" => FlushReady
  PROVE  tx' = "shut" /\ conn' = "up" => FlushReady'
<1> USE DEF batch, connection, handles, results
<1> DEFINE Shut == BackgroundShutdown \/ \E s \in Senders : Shutdown(s)
<1>1. conn' = "up" => conn = "up"
  BY DEF Next, InPoll, Background, Deliver, Break, StartSend, StartClose, Start, Lock,
         LockClosed, WriteSome, Transmit, AppendLine, PassMessage, FlushDone, Park, Fail,
         TakeLocal, Cancel, DropHandle, DrainSome, DrainParks, DrainAgain, Shutdown,
         DropClose, BackgroundSome, BackgroundShutdown, RuntimeStops, vars
<1>2. CASE Shut
  BY <1>2 DEF BackgroundShutdown, Shutdown, Drained, FlushReady
<1>3. CASE ~Shut
  <2>1. tx' = "shut" => tx = "shut"
    BY <1>3 DEF Next, InPoll, Background, Deliver, Break, StartSend, StartClose, Start,
                Lock, LockClosed, WriteSome, AppendLine, PassMessage, FlushDone, Park,
                Fail, TakeLocal, Cancel, DropHandle, DrainSome, DrainParks, DrainAgain,
                DropClose, BackgroundSome, RuntimeStops, ReturnError, Release, vars
  <2>2. tx = "shut" => \A s \in Senders : holder # s /\ pc[s] # "drain"
    BY TxAssumption DEF Held
  <2>3. FlushReady => ~\E n \in 1 .. Len(wire) - flushed : Deliver(n)
    BY StreamTyped DEF FlushReady, TypeOK
  <2>4. tx = "shut" /\ FlushReady => UNCHANGED <<buf, wire, flushed>>
    BY <1>3, <2>2, <2>3
       DEF Next, InPoll, Background, Break, StartSend, StartClose, Start, Lock,
           LockClosed, WriteSome, AppendLine, PassMessage, FlushDone, Park, Fail,
           TakeLocal, Cancel, DropHandle, DrainSome, DrainParks, DrainAgain,
           DropClose, BackgroundSome, RuntimeStops, vars
  <2> QED
    BY <1>1, <2>1, <2>4 DEF FlushReady
<1> QED
  BY <1>2, <1>3

-----------------------------------------------------------------------------
(* The inductive invariant, and what follows from it. *)

(* IndInv holds of every behaviour: the invariants below are its parts.     *)
THEOREM Invariant == Spec => []IndInv
<1> DEFINE Known == TypeOK /\ Held /\ Turns
           Rest  == /\ WholeStream /\ WholeLines
                    /\ InStream /\ SenderOrder
                    /\ AcceptedSent /\ PromisesKept
                    /\ Bounded
                    /\ tx = "shut" /\ conn = "up" => FlushReady
<1>1. Init => Rest
  <2> SUFFICES ASSUME Init
               PROVE  Rest
    OBVIOUS
  <2>1. Stream = << >> /\ DOMAIN Stream = {}
    <3>1. << >> \in Seq(Units) /\ Len(<< >>) = 0
      BY EmptySeq
    <3>2. Stream = << >>
      BY <3>1, ConcatEmptySeq DEF Init, Stream
    <3> QED
      BY <3>1, <3>2, LenProperties
  <2>2. Len(Stream) = 0 /\ Len(buf) = 0
    BY <2>1, EmptySeq DEF Init
  <2>3. 0 % LineLen = 0 /\ 0 < HighWater + LineLen
    BY TxAssumption
  <2>4. WholeStream /\ WholeLines /\ SenderOrder
    BY <2>1, <2>2, <2>3 DEF WholeStream, WholeLines, SenderOrder
  <2>5. InStream
    BY <2>1 DEF Init, InStream
  <2>6. AcceptedSent /\ PromisesKept
    BY DEF Init, AcceptedSent, PromisesKept
  <2> QED
    BY <2>2, <2>3, <2>4, <2>5, <2>6 DEF Init, Bounded
<1>2. Known /\ Known' /\ Rest /\ [Next]_vars => Rest'
  BY StreamStep, KeptStep, BoundedStep, ShutStep
<1>3. Spec => []Known
  BY Turning
<1>4. Known /\ Rest => IndInv
  BY DEF IndInv
<1> QED
  BY <1>1, <1>2, <1>3, <1>4, PTL DEF Spec

(* Lines go out whole and one at a time, however the connection splits them *)
(* and however many clones send at once (TxLocal::poll_transmit).           *)
THEOREM LinesWhole == Spec => []WholeLines
BY Invariant, PTL DEF IndInv

(* No message is sent twice, though its send may be polled again after the  *)
(* line is in the buffer (msg.0.take() in Tx::poll_send), and each clone's  *)
(* messages keep their order.                                               *)
THEOREM InSenderOrder == Spec => []SenderOrder
BY Invariant, PTL DEF IndInv

(* What a send has reported as sent is in the stream until the connection   *)
(* is shut down or dropped, and what a flush has covered is flushed, for    *)
(* good, whatever is cancelled, fails or is closed afterwards.              *)
THEOREM NothingLost == Spec => []Kept
<1>1. IndInv => Kept
  BY DEF IndInv, Kept
<1> QED
  BY Invariant, <1>1, PTL

(* The shared buffer never exceeds its high-water mark by a line or more,   *)
(* however many clones push at once (poll_flush_in_bg).                     *)
THEOREM BufferBounded == Spec => []Bounded
BY Invariant, PTL DEF IndInv

(* A shutdown of a connection that works leaves nothing behind: all that    *)
(* was accepted, by whichever clone, is flushed (TxLocal::close).           *)
THEOREM ShutClean == Spec => []ClosedClean
<1>1. IndInv => ClosedClean
  <2> SUFFICES ASSUME IndInv, tx = "shut", conn = "up",
                      NEW m \in accepted, NEW i \in 1 .. LineLen
               PROVE  buf = << >> /\ \E j \in 1 .. flushed : wire[j] = <<m, i>>
    BY DEF ClosedClean, IndInv, FlushReady
  <2>1. TypeOK /\ AcceptedSent /\ FlushReady
    BY DEF IndInv
  <2> QED
    BY <2>1, FlushedAll DEF FlushReady
<1> QED
  BY Invariant, <1>1, PTL
=============================================================================
