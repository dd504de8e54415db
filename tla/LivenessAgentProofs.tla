------------------------- MODULE LivenessAgentProofs -------------------------
(***************************************************************************)
(* Proofs about LivenessAgent, for lines of any length, a connection that  *)
(* takes any number of units ahead, any readings and any number of faults. *)
(***************************************************************************)
EXTENDS LivenessAgent, LivenessMetricsProofs

(* Turns are numbers, and the first follows no turn at all.                 *)
LEMMA TurnsGoOn ==
  /\ \A n \in Nat : After(n) \in Nat
  /\ After(0) = 1
<1>1. Turns \in Nat /\ Turns > 0
  BY AgentAssumption DEF Turns
<1>2. \A n \in Nat : n % Turns \in Nat
  BY <1>1
<1>3. 0 % Turns = 0
  BY <1>1
<1> QED
  BY <1>2, <1>3 DEF After

(* What is on the way is what waits in the connection and what is not       *)
(* written yet.                                                             *)
LEMMA OnTheWay ==
  ASSUME NEW w \in Seq(Unit), NEW l \in Seq(Unit)
  PROVE  /\ w \o l \in Seq(Unit) /\ Len(w \o l) = Len(w) + Len(l)
         /\ Len(w) \in Nat /\ Len(l) \in Nat
         /\ \A k \in 1 .. Len(w) : (w \o l)[k] = w[k]
         /\ \A k \in 1 .. Len(l) : (w \o l)[Len(w) + k] = l[k]
         /\ \A k \in 1 .. Len(w) + Len(l) : (w \o l)[k] \in Unit
         /\ w \o l = << >> <=> w = << >> /\ l = << >>
         /\ l = << >> => w \o l = w
<1>1. /\ w \o l \in Seq(Unit) /\ Len(w \o l) = Len(w) + Len(l)
      /\ \A k \in 1 .. Len(w) + Len(l) :
           (w \o l)[k] = IF k <= Len(w) THEN w[k] ELSE l[k - Len(w)]
  BY ConcatProperties
<1>2. Len(w) \in Nat /\ Len(l) \in Nat
  BY LenProperties
<1>3. \A k \in 1 .. Len(w) : (w \o l)[k] = w[k]
  BY <1>1, <1>2
<1>4. ASSUME NEW k \in 1 .. Len(l)
      PROVE  (w \o l)[Len(w) + k] = l[k]
  <2>1. /\ Len(w) + k \in 1 .. Len(w) + Len(l) /\ ~(Len(w) + k <= Len(w))
        /\ Len(w) + k - Len(w) = k
    BY <1>2
  <2> QED
    BY <1>1, <2>1
<1>5. \A k \in 1 .. Len(w) + Len(l) : (w \o l)[k] \in Unit
  BY <1>1, ElementOfSeq
<1>6. w \o l = << >> <=> w = << >> /\ l = << >>
  <2>1. \A s \in Seq(Unit) : s = << >> <=> Len(s) = 0
    BY EmptySeq
  <2> QED
    BY <1>1, <1>2, <2>1
<1>7. l = << >> => w \o l = w
  BY ConcatEmptySeq
<1> QED
  BY <1>1, <1>2, <1>3, <1>4, <1>5, <1>6, <1>7

-----------------------------------------------------------------------------
(* Types and stages. *)

(* Units stay units, whoever holds them.                                    *)
LEMMA TypedStep ==
  ASSUME IndInv, [Next]_vars
  PROVE  Typed'
<1> USE DEF agent, host, system
<1>1. /\ wire \in Seq(Unit) /\ left \in Seq(Unit) /\ partial \in Seq(Unit)
      /\ << >> \in Seq(Unit)
      /\ turn \in Nat /\ heard \in Nat /\ broken \in BOOLEAN
      /\ report # None => report[1].systemd \in States
      /\ phase = "collected" => report # None
  BY EmptySeq DEF IndInv, Typed, Stages
<1>2. CASE UNCHANGED <<wire, left, partial, turn, heard, broken, report>>
  BY <1>1, <1>2 DEF Typed
<1>3. ASSUME NEW how, Exit(how), UNCHANGED <<wire, partial, heard, broken>>
      PROVE  Typed'
  BY <1>1, <1>3 DEF Typed, Exit
<1>4. CASE Restart
  BY <1>1, <1>4 DEF Typed, Restart
<1>5. ASSUME NEW r \in Sound, Collect(r)
      PROVE  Typed'
  <2>1. PICK output \in Systemctl :
          report' = <<[systemd     |-> SystemdState(output),
                       cpu_percent |-> CpuPercent(cpu[1], Measured[r].stat[1]),
                       memory      |-> Measured[r].memory[1], swap |-> Measured[r].swap[1],
                       disks       |-> Measured[r].disks]>>
    BY <1>5 DEF Collect, Some
  <2>2. report'[1].systemd \in States
    BY <2>1 DEF SystemdState, States
  <2> QED
    BY <1>1, <1>5, <2>2 DEF Typed, Collect
<1>6. CASE StartSend
  <2>1. /\ left' = Line(report[1]) /\ report' = None
        /\ UNCHANGED <<wire, partial, turn, heard, broken>>
    BY <1>6 DEF StartSend
  <2>2. LineLen \in Nat /\ \A k \in 1..LineLen : k \in 1..LineLen
    BY AgentAssumption
  <2>3. Line(report[1]) \in Seq(Unit)
    <3>1. \A k \in 1..LineLen :
            [turn |-> turn, part |-> k, systemd |-> report[1].systemd] \in Unit
      BY <1>1, <1>6 DEF Unit, StartSend
    <3> QED
      BY <2>2, <3>1, IsASeq DEF Line
  <2> QED
    BY <1>1, <2>1, <2>3 DEF Typed
<1>7. CASE Write
  <2>1. /\ left # << >> /\ wire' = Append(wire, Head(left)) /\ left' = Tail(left)
        /\ UNCHANGED <<partial, turn, heard, broken, report>>
    BY <1>7 DEF Write
  <2>2. Head(left) \in Unit /\ Tail(left) \in Seq(Unit)
    BY <1>1, <2>1, HeadTailProperties
  <2>3. Append(wire, Head(left)) \in Seq(Unit)
    BY <1>1, <2>2, AppendProperties
  <2> QED
    BY <1>1, <2>1, <2>2, <2>3 DEF Typed
<1>8. CASE SendDone
  <2>1. turn' = After(turn) /\ UNCHANGED <<wire, left, partial, heard, broken, report>>
    BY <1>8 DEF SendDone
  <2> QED
    BY <1>1, <2>1, TurnsGoOn DEF Typed
<1>9. WholeLine(partial) => partial[1].turn \in Nat
  <2> SUFFICES ASSUME WholeLine(partial)
               PROVE  partial[1].turn \in Nat
    OBVIOUS
  <2>1. 1 \in 1..Len(partial)
    BY AgentAssumption DEF WholeLine
  <2>2. partial[1] \in Unit
    BY <1>1, <2>1, ElementOfSeq
  <2> QED
    BY <2>2 DEF Unit
<1>10. CASE HostReads
  <2>1. /\ wire # << >> /\ wire' = Tail(wire) /\ UNCHANGED <<left, turn, report>>
        /\ partial' \in {Append(partial, Head(wire)), << >>}
        /\ heard' = heard \/ (WholeLine(partial) /\ heard' = partial[1].turn)
        /\ broken' \in {broken, TRUE}
    BY <1>10 DEF HostReads
  <2>2. Head(wire) \in Unit /\ Tail(wire) \in Seq(Unit)
    BY <1>1, <2>1, HeadTailProperties
  <2>3. Append(partial, Head(wire)) \in Seq(Unit)
    BY <1>1, <2>2, AppendProperties
  <2> QED
    BY <1>1, <1>9, <2>1, <2>2, <2>3 DEF Typed
<1>11. CASE HostSeesEnd
  <2>1. /\ UNCHANGED <<wire, left, turn, report>> /\ partial' = << >>
        /\ heard' = heard \/ (WholeLine(partial) /\ heard' = partial[1].turn)
        /\ broken' \in {broken, TRUE}
    BY <1>11 DEF HostSeesEnd
  <2> QED
    BY <1>1, <1>9, <2>1 DEF Typed
<1>12. CASE HostHangsUp
  BY <1>1, <1>12 DEF HostHangsUp, Typed
<1> QED
  BY <1>2, <1>3, <1>4, <1>5, <1>6, <1>7, <1>8, <1>10, <1>11, <1>12
     DEF Next, Agent, Connect, Begin, WriteFails, Shutdown, IntervalOver, ConnectFails,
         BeginFails, CollectFails, SigTerm, SigKill, Boot, vars

(* While the host has the beginning of a line and no gap, what ends its     *)
(* line ends a whole one.                                                   *)
LEMMA HostGets ==
  ASSUME IndInv, conn # "gone", wire # << >>
  PROVE  /\ wire[1].part = Len(partial) + 1 /\ wire[1].turn = After(heard)
         /\ wire[1] = Head(wire) /\ Len(partial) \in Nat
         /\ Head(wire).part = LineLen => WholeLine(partial) /\ partial[1].turn = After(heard)
<1>1. /\ wire \in Seq(Unit) /\ left \in Seq(Unit) /\ partial \in Seq(Unit)
      /\ LineLen \in Nat \ {0, 1}
  BY AgentAssumption DEF IndInv, Typed
<1>2. /\ Len(partial) \in Nat /\ DOMAIN partial = 1 .. Len(partial)
      /\ Head(wire) = wire[1] /\ 1 \in 1 .. Len(wire)
  <2>1. Len(wire) \in Nat /\ Len(wire) # 0
    BY <1>1, EmptySeq, LenProperties
  <2> QED
    BY <1>1, <2>1, LenProperties
<1>3. /\ wire[1].part = Len(partial) + 1 /\ wire[1].turn = After(heard)
      /\ \A k \in 1 .. Len(partial) : partial[k].part = k /\ partial[k].turn = After(heard)
  <2>1. wire \o left # << >> /\ (wire \o left)[1] = wire[1]
    BY <1>1, <1>2, OnTheWay
  <2> QED
    BY <2>1 DEF IndInv, InStep, Gapless
<1>4. Head(wire).part = LineLen => WholeLine(partial) /\ partial[1].turn = After(heard)
  <2> SUFFICES ASSUME Head(wire).part = LineLen
               PROVE  WholeLine(partial) /\ partial[1].turn = After(heard)
    OBVIOUS
  <2>1. Len(partial) = LineLen - 1 /\ 1 \in 1 .. Len(partial)
    BY <1>1, <1>2, <1>3
  <2> QED
    BY <1>2, <1>3, <2>1 DEF WholeLine
<1> QED
  BY <1>2, <1>3, <1>4

(* A connection that the agent has closed ends between two lines, unless    *)
(* the agent was killed.                                                    *)
LEMMA EndsBetween ==
  ASSUME IndInv, HostSeesEnd
  PROVE  /\ exit = "killed"
         /\ heard' # heard => heard' = After(heard)
<1>1. /\ wire = << >> /\ left = << >> /\ partial # << >> /\ conn = "closed"
      /\ wire \in Seq(Unit) /\ partial \in Seq(Unit)
  BY DEF IndInv, Stages, HostSeesEnd, Typed
<1>2. wire \o left = << >>
  BY <1>1, OnTheWay
<1>3. exit = "killed"
  BY <1>1, <1>2 DEF IndInv, InStep, Gapless
<1>4. heard' # heard => heard' = After(heard)
  <2> SUFFICES ASSUME heard' # heard
               PROVE  heard' = After(heard)
    OBVIOUS
  <2>1. heard' = partial[1].turn
    BY DEF HostSeesEnd
  <2>2. 1 \in 1 .. Len(partial)
    <3>1. Len(partial) \in Nat /\ Len(partial) # 0
      BY <1>1, EmptySeq, LenProperties
    <3> QED
      BY <3>1
  <2> QED
    BY <1>1, <2>1, <2>2 DEF IndInv, InStep, Gapless
<1> QED
  BY <1>3, <1>4

(* The agent writes on a connection that is up, and what was closed or is   *)
(* broken stays so until systemd starts it again.                           *)
LEMMA StagesStep ==
  ASSUME IndInv, [Next]_vars
  PROVE  Stages'
<1> USE DEF agent, host, system, None, Some
<1>1. Stages /\ broken \in BOOLEAN
  BY DEF IndInv, Typed
<1>2. ASSUME NEW how, Exit(how), UNCHANGED <<wire, partial, heard, broken>>,
             phase # "down"
      PROVE  Stages'
  BY <1>1, <1>2 DEF Stages, Exit
<1>3. CASE UNCHANGED vars \/ SigTerm \/ \E state \in {"running", "degraded"} : Boot(state)
  BY <1>1, <1>3 DEF Stages, vars, SigTerm, Boot
<1>4. CASE Restart \/ Connect \/ Begin
  BY <1>1, <1>4 DEF Stages, Restart, Connect, Begin
<1>5. CASE StartSend \/ Write \/ SendDone \/ IntervalOver
  BY <1>1, <1>5 DEF Stages, StartSend, Write, SendDone, IntervalOver
<1>6. ASSUME NEW r \in Sound, Collect(r)
      PROVE  Stages'
  <2>1. report' # << >> /\ phase' = "collected" /\ phase = "collect"
        /\ UNCHANGED <<left, exit, conn, broken>>
    BY <1>6 DEF Collect
  <2> QED
    BY <1>1, <2>1 DEF Stages
<1>7. CASE HostReads
  <2>1. broken' = broken
    BY <1>7, HostGets DEF HostReads
  <2> QED
    BY <1>1, <1>7, <2>1 DEF Stages, HostReads
<1>8. CASE HostSeesEnd
  <2>1. exit = "killed"
    BY <1>8, EndsBetween
  <2> QED
    BY <1>1, <1>8, <2>1 DEF Stages, HostSeesEnd
<1>9. CASE HostHangsUp
  BY <1>1, <1>9 DEF Stages, HostHangsUp
<1> QED
  BY <1>2, <1>3, <1>4, <1>5, <1>6, <1>7, <1>8, <1>9
     DEF Next, Agent, WriteFails, Shutdown, Listening, ConnectFails, BeginFails,
         CollectFails, SigKill

-----------------------------------------------------------------------------
(* Nothing missing on the way. *)

(* What comes before a cut has no gap either.                               *)
LEMMA CutOff ==
  ASSUME NEW w \in Seq(Unit), NEW l \in Seq(Unit), NEW begun, NEW last, NEW n, NEW m, NEW cut,
         Gapless(w \o l, begun, last, n, cut)
  PROVE  Gapless(w, begun, last, m, TRUE)
<1>1. /\ Len(w \o l) = Len(w) + Len(l) /\ Len(w) \in Nat /\ Len(l) \in Nat
      /\ \A k \in 1 .. Len(w) : (w \o l)[k] = w[k]
      /\ w # << >> => w \o l # << >> /\ Len(w) # 0
  BY OnTheWay, EmptySeq
<1>2. w # << >> => 1 \in 1 .. Len(w)
  BY <1>1
<1>3. ASSUME NEW k \in 1 .. (Len(w) - 1)
      PROVE  Follows(w[k + 1], w[k])
  <2>1. /\ k \in 1 .. (Len(w \o l) - 1)
        /\ k \in 1 .. Len(w) /\ k + 1 \in 1 .. Len(w)
    BY <1>1
  <2> QED
    BY <1>1, <2>1 DEF Gapless
<1> QED
  BY <1>1, <1>2, <1>3 DEF Gapless

(* A line joins whole, after what is on the way.                            *)
LEMMA Joined ==
  ASSUME NEW w \in Seq(Unit), NEW line \in Seq(Unit), NEW begun \in Seq(Unit),
         NEW last \in Nat, NEW n \in Nat,
         Gapless(w, begun, last, n, FALSE),
         Len(line) = LineLen, \A k \in 1 .. LineLen : line[k].part = k /\ line[k].turn = n
  PROVE  Gapless(w \o line, begun, last, After(n), FALSE)
<1> DEFINE way == w \o line
           len == Len(w)
<1>1. /\ len \in Nat /\ LineLen \in Nat \ {0, 1} /\ Len(way) = len + LineLen
      /\ \A k \in 1 .. len : way[k] = w[k]
      /\ \A k \in 1 .. LineLen : way[len + k] = line[k]
      /\ w = << >> <=> len = 0
      /\ Len(<< >>) = 0 /\ way \in Seq(Unit)
  BY AgentAssumption, OnTheWay, EmptySeq
<1>2. /\ Len(begun) < LineLen
      /\ \A k \in 1 .. Len(begun) : begun[k].part = k /\ begun[k].turn = After(last)
      /\ w # << >> => w[1].part = Len(begun) + 1 /\ w[1].turn = After(last)
      /\ \A k \in 1 .. (len - 1) : Follows(w[k + 1], w[k])
      /\ w = << >> => begun = << >> /\ n = After(last)
      /\ w # << >> => w[len].part = LineLen /\ n = After(w[len].turn)
  BY DEF Gapless
<1>3. way # << >>
  BY <1>1, EmptySeq
<1> HIDE DEF way, len
<1>4. way[1].part = Len(begun) + 1 /\ way[1].turn = After(last)
  <2>1. CASE len = 0
    <3>1. way[0 + 1] = line[1]
      BY <1>1, <2>1
    <3>2. way[1] = line[1] /\ begun = << >>
      BY <1>1, <1>2, <2>1, <3>1
    <3> QED
      BY <1>1, <1>2, <2>1, <3>2
  <2>2. CASE len # 0
    <3>1. 1 \in 1 .. len
      BY <1>1, <2>2
    <3> QED
      BY <1>1, <1>2, <2>2, <3>1
  <2> QED
    BY <2>1, <2>2
<1>5. ASSUME NEW k \in 1 .. (len + LineLen - 1)
      PROVE  Follows(way[k + 1], way[k])
  <2>1. CASE k < len
    <3>1. k \in 1 .. (len - 1) /\ k \in 1 .. len /\ k + 1 \in 1 .. len
      BY <1>1, <2>1
    <3> QED
      BY <1>1, <1>2, <3>1
  <2>2. CASE k = len
    <3>1. k \in 1 .. len /\ w # << >> /\ 1 \in 1 .. LineLen
      BY <1>1, <2>2
    <3>2. way[k] = w[len] /\ way[k + 1] = line[1]
      BY <1>1, <2>2, <3>1
    <3> QED
      BY <1>2, <3>1, <3>2 DEF Follows
  <2>3. CASE k > len
    <3> DEFINE j == k - len
    <3>1. /\ j \in 1 .. LineLen /\ j + 1 \in 1 .. LineLen
          /\ len + j = k /\ len + (j + 1) = k + 1 /\ j # LineLen
      BY <1>1, <2>3
    <3> HIDE DEF j
    <3>2. way[len + j] = line[j] /\ way[len + (j + 1)] = line[j + 1]
      BY <1>1, <3>1
    <3>3. way[k] = line[j] /\ way[k + 1] = line[j + 1]
      BY <3>1, <3>2
    <3> QED
      BY <3>1, <3>3 DEF Follows
  <2>4. k \in Nat /\ len \in Nat
    BY <1>1
  <2> QED
    BY <2>1, <2>2, <2>3, <2>4
<1>6. way[len + LineLen].part = LineLen /\ way[len + LineLen].turn = n
  <2>1. LineLen \in 1 .. LineLen
    BY <1>1
  <2> QED
    BY <1>1, <2>1
<1> QED
  BY <1>1, <1>2, <1>3, <1>4, <1>5, <1>6 DEF Gapless, way, len

(* The host takes the next unit: it goes on with its line, or has it whole  *)
(* and waits for the next.                                                  *)
LEMMA Taken ==
  ASSUME NEW w \in Seq(Unit), NEW begun \in Seq(Unit), NEW last \in Nat, NEW n,
         NEW cut, w # << >>, Gapless(w, begun, last, n, cut)
  PROVE  /\ w[1].part # LineLen => Gapless(Tail(w), Append(begun, w[1]), last, n, cut)
         /\ w[1].part = LineLen => Gapless(Tail(w), << >>, After(last), n, cut)
<1> DEFINE rest == Tail(w)
           more == Append(begun, w[1])
<1>1. /\ Len(w) \in Nat \ {0} /\ rest \in Seq(Unit) /\ Len(rest) = Len(w) - 1
      /\ \A k \in 1 .. Len(rest) : rest[k] = w[k + 1]
      /\ rest = << >> <=> Len(rest) = 0
      /\ Len(<< >>) = 0 /\ LineLen \in Nat \ {0, 1}
  BY AgentAssumption, EmptySeq, LenProperties, HeadTailProperties
<1>2. w[1] \in Unit /\ w[1].part \in 1 .. LineLen
  <2>1. 1 \in 1 .. Len(w)
    BY <1>1
  <2>2. w[1] \in Unit
    BY <2>1, ElementOfSeq
  <2> QED
    BY <2>2 DEF Unit
<1>3. /\ Len(begun) \in Nat /\ Len(more) = Len(begun) + 1
      /\ \A k \in 1 .. Len(begun) : more[k] = begun[k]
      /\ more[Len(begun) + 1] = w[1]
  BY <1>2, AppendProperties, LenProperties
<1>4. /\ Len(begun) < LineLen
      /\ \A k \in 1 .. Len(begun) : begun[k].part = k /\ begun[k].turn = After(last)
      /\ w[1].part = Len(begun) + 1 /\ w[1].turn = After(last)
      /\ \A k \in 1 .. (Len(w) - 1) : Follows(w[k + 1], w[k])
      /\ cut \/ (w[Len(w)].part = LineLen /\ n = After(w[Len(w)].turn))
  BY DEF Gapless
<1> HIDE DEF rest, more
<1>5. ASSUME NEW k \in 1 .. (Len(rest) - 1)
      PROVE  Follows(rest[k + 1], rest[k])
  <2>1. /\ k \in 1 .. Len(rest) /\ k + 1 \in 1 .. Len(rest)
        /\ k + 1 \in 1 .. (Len(w) - 1)
    BY <1>1
  <2>2. rest[k] = w[k + 1] /\ rest[k + 1] = w[(k + 1) + 1]
    BY <1>1, <2>1
  <2> QED
    BY <1>4, <2>1, <2>2
<1>6. rest # << >> => rest[1] = w[2] /\ Follows(w[2], w[1]) /\ rest[Len(rest)] = w[Len(w)]
  <2> SUFFICES ASSUME rest # << >>
               PROVE  rest[1] = w[2] /\ Follows(w[2], w[1]) /\ rest[Len(rest)] = w[Len(w)]
    OBVIOUS
  <2>1. /\ 1 \in 1 .. Len(rest) /\ Len(rest) \in 1 .. Len(rest) /\ 1 \in 1 .. (Len(w) - 1)
        /\ Len(rest) + 1 = Len(w) /\ 1 + 1 = 2
    BY <1>1
  <2> QED
    BY <1>1, <1>4, <2>1
<1>7. rest = << >> => w[Len(w)] = w[1]
  <2>1. rest = << >> => Len(w) = 1
    BY <1>1
  <2> QED
    BY <2>1
<1>8. w[1].part # LineLen => Gapless(rest, more, last, n, cut)
  <2> SUFFICES ASSUME w[1].part # LineLen
               PROVE  Gapless(rest, more, last, n, cut)
    OBVIOUS
  <2>1. Len(more) < LineLen
    BY <1>1, <1>2, <1>3, <1>4
  <2>2. ASSUME NEW k \in 1 .. Len(more)
        PROVE  more[k].part = k /\ more[k].turn = After(last)
    <3>1. k \in 1 .. Len(begun) \/ k = Len(begun) + 1
      BY <1>3
    <3> QED
      BY <1>3, <1>4, <3>1
  <2>3. rest # << >> => rest[1].part = Len(more) + 1 /\ rest[1].turn = After(last)
    BY <1>3, <1>4, <1>6 DEF Follows
  <2>4. cut \/ (IF rest = << >>
                 THEN more = << >> /\ n = After(last)
                 ELSE rest[Len(rest)].part = LineLen /\ n = After(rest[Len(rest)].turn))
    BY <1>4, <1>6, <1>7
  <2> QED
    BY <1>5, <2>1, <2>2, <2>3, <2>4 DEF Gapless
<1>9. w[1].part = LineLen => Gapless(rest, << >>, After(last), n, cut)
  <2> SUFFICES ASSUME w[1].part = LineLen
               PROVE  Gapless(rest, << >>, After(last), n, cut)
    OBVIOUS
  <2>1. 0 < LineLen /\ 1 .. Len(<< >>) = {}
    BY <1>1
  <2>2. rest # << >> => rest[1].part = Len(<< >>) + 1 /\ rest[1].turn = After(After(last))
    BY <1>1, <1>4, <1>6 DEF Follows
  <2>3. cut \/ (IF rest = << >>
                 THEN << >> = << >> /\ n = After(After(last))
                 ELSE rest[Len(rest)].part = LineLen /\ n = After(rest[Len(rest)].turn))
    BY <1>4, <1>6, <1>7
  <2> QED
    BY <1>1, <1>5, <2>1, <2>2, <2>3 DEF Gapless
<1> QED
  BY <1>8, <1>9 DEF rest, more

(* The host reads from the front of what is on the way.                     *)
LEMMA TailOnWay ==
  ASSUME NEW w \in Seq(Unit), NEW l \in Seq(Unit), w # << >>
  PROVE  Tail(w) \o l = Tail(w \o l)
<1>1. /\ Tail(w) \in Seq(Unit) /\ Len(Tail(w)) = Len(w) - 1
      /\ \A k \in 1 .. Len(Tail(w)) : Tail(w)[k] = w[k + 1]
      /\ Len(w) \in Nat \ {0} /\ Len(l) \in Nat
  BY HeadTailProperties, EmptySeq, LenProperties
<1>2. /\ w \o l \in Seq(Unit) /\ Len(w \o l) = Len(w) + Len(l) /\ w \o l # << >>
      /\ \A k \in 1 .. Len(w) + Len(l) :
           (w \o l)[k] = IF k <= Len(w) THEN w[k] ELSE l[k - Len(w)]
  BY OnTheWay, ConcatProperties
<1>3. /\ Tail(w \o l) \in Seq(Unit) /\ Len(Tail(w \o l)) = Len(w) + Len(l) - 1
      /\ \A k \in 1 .. Len(Tail(w \o l)) : Tail(w \o l)[k] = (w \o l)[k + 1]
  BY <1>1, <1>2, HeadTailProperties
<1>4. /\ Tail(w) \o l \in Seq(Unit) /\ Len(Tail(w) \o l) = Len(w) + Len(l) - 1
      /\ \A k \in 1 .. Len(w) + Len(l) - 1 :
           (Tail(w) \o l)[k] = IF k <= Len(w) - 1 THEN Tail(w)[k] ELSE l[k - (Len(w) - 1)]
  <2>1. Len(w) - 1 + Len(l) = Len(w) + Len(l) - 1
    BY <1>1
  <2> QED
    BY <1>1, <2>1, ConcatProperties
<1>5. ASSUME NEW k \in 1 .. Len(w) + Len(l) - 1
      PROVE  (Tail(w) \o l)[k] = Tail(w \o l)[k]
  <2>1. Tail(w \o l)[k] = IF k + 1 <= Len(w) THEN w[k + 1] ELSE l[k + 1 - Len(w)]
    <3>1. k + 1 \in 1 .. Len(w) + Len(l)
      BY <1>1
    <3> QED
      BY <1>2, <1>3, <3>1
  <2>2. /\ k + 1 <= Len(w) <=> k <= Len(w) - 1
        /\ k + 1 - Len(w) = k - (Len(w) - 1)
    BY <1>1
  <2>3. k <= Len(w) - 1 => Tail(w)[k] = w[k + 1]
    BY <1>1
  <2> QED
    BY <1>4, <2>1, <2>2, <2>3
<1> QED
  BY <1>3, <1>4, <1>5, SeqEqual

(* Every step keeps the lines without a gap.                                *)
LEMMA InStepKept ==
  ASSUME IndInv, [Next]_vars
  PROVE  InStep'
<1> USE DEF agent, host, system
<1>1. /\ wire \in Seq(Unit) /\ left \in Seq(Unit) /\ partial \in Seq(Unit)
      /\ turn \in Nat /\ heard \in Nat
      /\ Stages /\ InStep /\ << >> \in Seq(Unit)
  BY EmptySeq DEF IndInv, Typed
<1>2. ASSUME UNCHANGED <<wire, left, partial, heard>>, Upcoming' = Upcoming,
             conn' # "gone" => conn # "gone", exit' = "killed" \/ exit # "killed"
      PROVE  InStep'
  BY <1>1, <1>2 DEF InStep, Gapless
<1>3. CASE Boot("running") \/ Boot("degraded") \/ SigTerm \/ UNCHANGED vars
  BY <1>2, <1>3 DEF Boot, SigTerm, vars, Upcoming
<1>4. CASE Connect \/ Begin \/ IntervalOver \/ SendDone
  BY <1>1, <1>2, <1>4 DEF Connect, Begin, IntervalOver, SendDone, Upcoming, Stages
<1>5. ASSUME NEW r \in Sound, Collect(r)
      PROVE  InStep'
  BY <1>1, <1>2, <1>5 DEF Collect, Upcoming
<1>6. ASSUME NEW how, Exit(how), UNCHANGED <<wire, partial, heard>>,
             phase # "down", phase # "send"
      PROVE  InStep'
  <2>1. left = << >> /\ exit = "none"
    BY <1>1, <1>6 DEF Stages
  <2> QED
    BY <1>1, <1>2, <1>6, <2>1 DEF Exit, Upcoming
<1>7. CASE WriteFails \/ HostHangsUp
  BY <1>7 DEF WriteFails, HostHangsUp, Exit, InStep
<1>8. CASE SigKill /\ phase = "send"
  <2>1. /\ left' = << >> /\ exit' = "killed"
        /\ conn' # "gone" => conn # "gone"
        /\ UNCHANGED <<wire, partial, heard>>
    BY <1>8 DEF SigKill, Exit
  <2>2. wire' \o left' = wire
    BY <1>1, <2>1, OnTheWay
  <2>3. conn # "gone" => Gapless(wire, partial, heard, Upcoming', TRUE)
    BY <1>1, CutOff DEF InStep
  <2> QED
    BY <2>1, <2>2, <2>3 DEF InStep, Gapless
<1>9. CASE Restart
  <2>1. /\ left = << >> /\ left' = left /\ wire' = << >>
        /\ partial' = << >> /\ heard' = 0 /\ turn' = 1 /\ phase' = "connecting"
    BY <1>1, <1>9 DEF Restart, Stages
  <2>2. wire' \o left' = << >> /\ Len(<< >>) = 0
    BY <1>1, <2>1, OnTheWay, EmptySeq
  <2>3. Upcoming' = After(heard')
    BY <2>1, TurnsGoOn DEF Upcoming
  <2>4. 1 .. 0 = {} /\ 1 .. (0 - 1) = {} /\ 0 < LineLen
    BY AgentAssumption
  <2> QED
    BY <2>1, <2>2, <2>3, <2>4 DEF InStep, Gapless
<1>10. CASE StartSend
  <2> DEFINE line == Line(report[1])
  <2>1. /\ left = << >> /\ left' = line /\ exit = "none"
        /\ phase = "collected" /\ phase' = "send"
        /\ UNCHANGED <<wire, partial, heard, conn, exit, turn>>
    BY <1>1, <1>10 DEF StartSend, Stages
  <2>2. line \in Seq(Unit)
    BY <2>1, TypedStep DEF Typed
  <2>3. /\ Len(line) = LineLen
        /\ \A k \in 1..LineLen : line[k].part = k /\ line[k].turn = turn
    <3>1. \A k \in 1..LineLen : line[k].part = k /\ line[k].turn = turn
      BY DEF Line
    <3>2. DOMAIN line = 1..LineLen
      BY DEF Line
    <3>3. Len(line) \in Nat /\ DOMAIN line = 1..Len(line)
      BY <2>2, LenProperties
    <3> QED
      BY AgentAssumption, <3>1, <3>2, <3>3
  <2> HIDE DEF line
  <2>4. wire \o left = wire /\ Upcoming = turn /\ Upcoming' = After(turn)
    BY <1>1, <2>1, OnTheWay DEF Upcoming
  <2>5. ASSUME conn # "gone"
        PROVE  Gapless(wire \o line, partial, heard, After(turn), FALSE)
    <3>1. Gapless(wire, partial, heard, turn, FALSE)
      BY <1>1, <2>1, <2>4, <2>5 DEF InStep, Gapless
    <3> QED
      BY <1>1, <2>2, <2>3, <3>1, Joined
  <2> QED
    BY <2>1, <2>4, <2>5 DEF InStep, Gapless
<1>11. CASE Write
  <2>1. /\ left # << >> /\ wire' = Append(wire, Head(left)) /\ left' = Tail(left)
        /\ UNCHANGED <<partial, heard, conn, exit, turn, phase>>
    BY <1>11 DEF Write
  <2>2. /\ Head(left) \in Unit /\ Tail(left) \in Seq(Unit)
        /\ left = <<Head(left)>> \o Tail(left)
    BY <1>1, <2>1, HeadTailProperties, HeadOnTail
  <2>3. <<Head(left)>> \in Seq(Unit) /\ Append(wire, Head(left)) = wire \o <<Head(left)>>
    BY <1>1, <2>2, AppendIsConcat
  <2>4. (wire \o <<Head(left)>>) \o Tail(left) = wire \o (<<Head(left)>> \o Tail(left))
    BY <1>1, <2>2, <2>3, ConcatAssociative
  <2>5. wire' \o left' = wire \o left /\ Upcoming' = Upcoming
    BY <2>1, <2>2, <2>3, <2>4 DEF Upcoming
  <2> QED
    BY <1>1, <2>1, <2>5 DEF InStep, Gapless
<1>12. CASE HostReads
  <2>1. /\ wire # << >> /\ wire' = Tail(wire)
        /\ UNCHANGED <<left, conn, exit, turn, phase>> /\ conn # "gone"
        /\ wire[1] = Head(wire)
        /\ IF wire[1].part # LineLen
             THEN partial' = Append(partial, wire[1]) /\ heard' = heard
             ELSE partial' = << >> /\ heard' = After(heard)
    BY <1>1, <1>12, HostGets DEF HostReads
  <2>2. /\ wire \o left # << >> /\ wire \o left \in Seq(Unit)
        /\ (wire \o left)[1] = wire[1]
    <3>1. Len(wire) \in Nat /\ Len(wire) # 0
      BY <1>1, <2>1, EmptySeq, LenProperties
    <3>2. 1 \in 1 .. Len(wire)
      BY <3>1
    <3> QED
      BY <1>1, <2>1, <3>2, OnTheWay
  <2>3. wire' \o left' = Tail(wire \o left) /\ Upcoming' = Upcoming
    BY <1>1, <2>1, TailOnWay DEF Upcoming
  <2>4. Gapless(wire \o left, partial, heard, Upcoming, exit = "killed")
    BY <1>1, <2>1 DEF InStep
  <2>5. ASSUME NEW cut, Gapless(wire \o left, partial, heard, Upcoming, cut)
        PROVE  Gapless(wire' \o left', partial', heard', Upcoming, cut)
    BY <1>1, <2>1, <2>2, <2>3, <2>5, Taken
  <2>6. CASE exit = "killed"
    <3>1. Gapless(wire' \o left', partial', heard', Upcoming, TRUE)
      BY <2>4, <2>5, <2>6 DEF Gapless
    <3> QED
      BY <2>1, <2>3, <2>6, <3>1 DEF InStep, Gapless
  <2>7. CASE exit # "killed"
    <3>1. Gapless(wire' \o left', partial', heard', Upcoming, FALSE)
      BY <2>4, <2>5, <2>7 DEF Gapless
    <3> QED
      BY <2>1, <2>3, <2>7, <3>1 DEF InStep, Gapless
  <2> QED
    BY <2>6, <2>7
<1>13. CASE HostSeesEnd
  <2>1. /\ wire = << >> /\ left = << >> /\ wire' = wire /\ left' = left
        /\ partial' = << >> /\ exit' = exit /\ exit = "killed"
    BY <1>1, <1>13, EndsBetween DEF HostSeesEnd, Stages
  <2>2. wire' \o left' = << >> /\ Len(<< >>) = 0
    BY <1>1, <2>1, OnTheWay, EmptySeq
  <2>3. 1 .. 0 = {} /\ 1 .. (0 - 1) = {} /\ 0 < LineLen
    BY AgentAssumption
  <2> QED
    BY <2>1, <2>2, <2>3 DEF InStep, Gapless
<1>14. CASE SigKill
  BY <1>6, <1>8, <1>14 DEF SigKill
<1> QED
  BY <1>3, <1>4, <1>5, <1>6, <1>7, <1>9, <1>10, <1>11, <1>12, <1>13, <1>14
     DEF Next, Agent, Shutdown, Listening, ConnectFails, BeginFails, CollectFails

-----------------------------------------------------------------------------
(* Numbers. *)

(* Whatever a reading says, what is measured is within bounds.              *)
LEMMA MeasuredWithin ==
  ASSUME NEW r \in Readings
  PROVE  /\ Measured[r].stat \in Options(Sample)
         /\ Measured[r].memory \in Options(Usage) /\ Measured[r].swap \in Options(Usage)
         /\ \A d \in Range(Measured[r].disks) : d.usage \in Usage
<1>1. /\ \A file \in {r.stat, r.meminfo, r.mounts} : file \in Seq(Range(file))
      /\ \A line \in Range(r.stat) : line.fields \in Seq(Number)
      /\ \A line \in Range(r.meminfo) : line.kb \in Number
      /\ \A p \in DOMAIN r.fs :
           {r.fs[p].blocks, r.fs[p].bfree, r.fs[p].frsize, r.fs[p].bsize} \subseteq Nat
  BY ReadingsAssumption
<1>2. \A file \in {r.stat, r.meminfo, r.mounts} :
        Len(file) \in Nat /\ DOMAIN file = 1 .. Len(file)
  BY <1>1, LenProperties
<1>3. /\ \A i \in DOMAIN r.stat : r.stat[i].fields \in Seq(Number)
      /\ \A i \in DOMAIN r.meminfo : r.meminfo[i].kb \in Number
  BY <1>1 DEF Range
<1>4. ReadProcStat(r.stat) \in Options(Sample)
  BY <1>2, <1>3, SampleOrNone
<1>5. Memory(r.meminfo) \in Options(Usage) /\ Swap(r.meminfo) \in Options(Usage)
  BY <1>2, <1>3, UsageWithin DEF Memory, Swap
<1>6. \A d \in Range(Disks(r.mounts, r.fs, r.disk)) : d.usage \in Usage
  <2>1. \A p \in DOMAIN r.fs : /\ r.fs[p].blocks \in Nat /\ r.fs[p].bfree \in Nat
                               /\ r.fs[p].frsize \in Nat /\ r.fs[p].bsize \in Nat
    BY <1>1
  <2>2. \A k \in DOMAIN Disks(r.mounts, r.fs, r.disk) :
          Disks(r.mounts, r.fs, r.disk)[k].usage \in Usage
    BY <1>2, <2>1, DisksWithin
  <2> QED
    BY <2>2 DEF Range
<1> QED
  BY <1>4, <1>5, <1>6 DEF Measured

(* A report is made of two samples and a sound reading.                     *)
LEMMA CollectedWithin ==
  ASSUME NumbersInRange, Sampled, NEW r \in Sound, Collect(r)
  PROVE  NumbersInRange' /\ Sampled'
<1>1. /\ r \in Readings /\ Measured[r].stat # None
      /\ Measured[r].memory # None /\ Measured[r].swap # None
  BY DEF Sound
<1>2. \A V, o : o \in Options(V) /\ o # None => o[1] \in V
  BY DEF Options, Some
<1>3. /\ Measured[r].stat[1] \in Sample
      /\ Measured[r].memory[1] \in Usage /\ Measured[r].swap[1] \in Usage
      /\ \A d \in Range(Measured[r].disks) : d.usage \in Usage
  BY <1>1, <1>2, MeasuredWithin
<1>4. cpu # None /\ cpu[1].idle \in 0 .. cpu[1].total /\ cpu[1].total \in 0 .. WordMax
  BY DEF Collect, Sampled, NumbersInRange
<1>5. CpuPercent(cpu[1], Measured[r].stat[1]) \in 0 .. 100
  <2>1. /\ Measured[r].stat[1].total \in 0 .. WordMax
        /\ Measured[r].stat[1].idle \in 0 .. Measured[r].stat[1].total
    BY <1>3, MetricsAssumption DEF Sample
  <2> QED
    BY <1>4, <2>1, ShareOfCpu
<1>6. PICK output \in Systemctl :
        /\ cpu' = Measured[r].stat
        /\ report' = Some([systemd |-> SystemdState(output),
                           cpu_percent |-> CpuPercent(cpu[1], Measured[r].stat[1]),
                           memory |-> Measured[r].memory[1], swap |-> Measured[r].swap[1],
                           disks |-> Measured[r].disks])
  BY DEF Collect
<1>7. \A u \in Usage : u.used \in 0 .. u.total
  BY DEF Usage
<1>8. \A s \in Sample : s.idle \in 0 .. s.total /\ s.total \in 0 .. WordMax
  BY MetricsAssumption DEF Sample
<1>9. /\ report'[1].cpu_percent \in 0 .. 100
      /\ report'[1].memory \in Usage /\ report'[1].swap \in Usage
      /\ \A d \in Range(report'[1].disks) : d.usage \in Usage
  BY <1>3, <1>5, <1>6 DEF Some
<1>10. NumbersInRange'
  BY <1>3, <1>6, <1>7, <1>8, <1>9 DEF NumbersInRange
<1>11. Sampled'
  BY <1>1, <1>6 DEF Sampled
<1> QED
  BY <1>10, <1>11

-----------------------------------------------------------------------------
(* Theorems. *)

(* Before the agent is started, nothing is on the way.                      *)
LEMMA Beginnings ==
  Init => IndInv
<1> SUFFICES ASSUME Init PROVE IndInv
  OBVIOUS
<1>1. << >> \in Seq(Unit) /\ Len(<< >>) = 0 /\ << >> \o << >> = << >>
  BY EmptySeq, ConcatEmptySeq
<1>2. Typed
  BY <1>1 DEF Init, Typed
<1>3. Stages
  BY DEF Init, Stages, None
<1>4. InStep
  <2>1. 1 .. 0 = {} /\ 1 .. (0 - 1) = {} /\ 0 < LineLen
    BY AgentAssumption
  <2>2. Upcoming = After(heard)
    BY TurnsGoOn DEF Init, Upcoming
  <2> QED
    BY <1>1, <2>1, <2>2 DEF Init, InStep, Gapless
<1> QED
  BY <1>2, <1>3, <1>4 DEF IndInv

(* Every report is cut into units that nothing gets between: what the host  *)
(* has of a line and what is on the way always go on without a gap, through *)
(* short writes, restarts and connections that are lost.                    *)
THEOREM Invariant == Spec => []IndInv
<1>1. IndInv /\ [Next]_vars => IndInv'
  BY TypedStep, StagesStep, InStepKept DEF IndInv
<1> QED
  BY <1>1, Beginnings, PTL DEF Spec

(* On a connection the host gets every report, in order, from the first,    *)
(* and nothing but whole ones, unless the agent was killed in the middle of *)
(* one: Tx::send and Rx::recv of liveness/protocol/src/io.rs, and the loop  *)
(* of agent.rs, which never leaves a send to shut down.                     *)
THEOREM ReportsWhole == Spec => WholeReports
<1> DEFINE Whole == /\ heard' \notin {heard, 0} => heard' = After(heard)
                    /\ broken' => exit' = "killed"
<1>1. IndInv /\ [Next]_vars => [Whole]_vars
  <2> SUFFICES ASSUME IndInv, [Next]_vars
               PROVE  Whole
    OBVIOUS
  <2>1. broken' => exit' = "killed"
    BY StagesStep DEF Stages
  <2>2. heard' \in {heard, 0, After(heard)}
    <3>1. CASE UNCHANGED heard
      BY <3>1
    <3>2. CASE Restart
      BY <3>2 DEF Restart
    <3>3. CASE HostReads
      <4>1. conn # "gone" /\ wire # << >>
        BY <3>3 DEF HostReads
      <4> QED
        BY <3>3, <4>1, HostGets DEF HostReads
    <3>4. CASE HostSeesEnd
      BY <3>4, EndsBetween
    <3> QED
      BY <3>1, <3>2, <3>3, <3>4
         DEF Next, Agent, Connect, Begin, StartSend, Write, WriteFails, SendDone, Shutdown,
             IntervalOver, Collect, ConnectFails, BeginFails, CollectFails, SigTerm, SigKill,
             Boot, HostHangsUp, vars, host
  <2> QED
    BY <2>1, <2>2
<1> QED
  BY <1>1, Invariant, PTL DEF Spec, WholeReports

(* No number of a report is out of range, however short or full of garbage  *)
(* the kernel's files are and though counters run backwards: idle is within *)
(* the total of /proc/stat, a share of the CPU is a share, and no memory,   *)
(* swap or disk is used up more than whole (liveness/src/metrics.rs).       *)
THEOREM Numbers == Spec => []NumbersInRange
<1>1. Init => NumbersInRange /\ Sampled
  BY DEF Init, NumbersInRange, Sampled
<1>2. NumbersInRange /\ Sampled /\ [Next]_vars => (NumbersInRange /\ Sampled)'
  <2> SUFFICES ASSUME NumbersInRange, Sampled, [Next]_vars
               PROVE  NumbersInRange' /\ Sampled'
    OBVIOUS
  <2> USE DEF agent, host, system
  <2>1. CASE UNCHANGED <<cpu, report, phase>>
    BY <2>1 DEF NumbersInRange, Sampled
  <2>2. ASSUME NEW how, Exit(how)
        PROVE  NumbersInRange' /\ Sampled'
    BY <2>2 DEF Exit, NumbersInRange, Sampled
  <2>3. CASE Restart \/ Connect
    BY <2>3 DEF Restart, Connect, NumbersInRange, Sampled
  <2>4. CASE Begin
    <3>1. PICK r \in Readings : cpu' = Measured[r].stat /\ cpu' # None
      BY <2>4 DEF Begin, Samples
    <3>2. cpu'[1] \in Sample
      BY <3>1, MeasuredWithin DEF Options, Some
    <3>3. cpu'[1].idle \in 0 .. cpu'[1].total /\ cpu'[1].total \in 0 .. WordMax
      BY <3>2, MetricsAssumption DEF Sample
    <3> QED
      BY <2>4, <3>1, <3>3 DEF Begin, NumbersInRange, Sampled
  <2>5. ASSUME NEW r \in Sound, Collect(r)
        PROVE  NumbersInRange' /\ Sampled'
    BY <2>5, CollectedWithin
  <2>6. CASE StartSend \/ SendDone \/ IntervalOver
    BY <2>6 DEF StartSend, SendDone, IntervalOver, NumbersInRange, Sampled
  <2> QED
    BY <2>1, <2>2, <2>3, <2>4, <2>5, <2>6
       DEF Next, Agent, Write, WriteFails, Shutdown, ConnectFails, BeginFails, CollectFails,
           SigTerm, SigKill, Boot, HostReads, HostSeesEnd, HostHangsUp, vars
<1> QED
  BY <1>1, <1>2, PTL DEF Spec
(* A report is of the reading that is remembered with it, until it is sent. *)
LEMMA FromReading == Spec => []ReadFrom
<1>1. Init => ReadFrom
  BY DEF Init, ReadFrom
<1>2. ReadFrom /\ [Next]_vars => ReadFrom'
  <2> SUFFICES ASSUME ReadFrom, [Next]_vars
               PROVE  ReadFrom'
    OBVIOUS
  <2> USE DEF agent, host, system
  <2>1. CASE UNCHANGED <<reading, report>>
    BY <2>1 DEF ReadFrom
  <2>2. CASE report' = None
    BY <2>2 DEF ReadFrom
  <2>3. ASSUME NEW r \in Sound, Collect(r)
        PROVE  ReadFrom'
    <3>1. r \in Readings /\ reading' = Some(r)
      BY <2>3 DEF Collect, Sound
    <3>2. report'[1].disks = Measured[r].disks
      BY <2>3 DEF Collect, Some
    <3> QED
      BY <3>1, <3>2 DEF ReadFrom
  <2> QED
    BY <2>1, <2>2, <2>3
       DEF Next, Agent, Connect, Begin, StartSend, Write, WriteFails, SendDone, Shutdown,
           IntervalOver, ConnectFails, BeginFails, CollectFails, SigTerm, SigKill,
           Boot, HostReads, HostSeesEnd, HostHangsUp, Restart, Exit, vars
<1> QED
  BY <1>1, <1>2, PTL DEF Spec

(* The disks of a report are the file systems of the machine, each once,    *)
(* under the first of its writable mount points that is no runtime state    *)
(* nor a share of the host, in the order of the mounts and at its true      *)
(* path, whatever is mounted where: disks and unescape_mount_point of       *)
(* liveness/src/metrics.rs.                                                 *)
THEOREM RightDisks == Spec => []DisksRight
<1>1. ReadFrom => DisksRight
  <2> SUFFICES ASSUME ReadFrom, report # None
               PROVE  LET r == reading[1]
                          first == FirstOnes(r.mounts, r.fs)
                      IN [k \in DOMAIN report[1].disks |-> report[1].disks[k].mount_point]
                           = [k \in 1 .. Cardinality(first) |->
                                PathAt(r.mounts, r.fs, Nth(first, k))]
    BY DEF DisksRight
  <2>1. PICK r \in Readings : reading = Some(r) /\ report[1].disks = Measured[r].disks
    BY DEF ReadFrom
  <2>2. reading[1] = r /\ report[1].disks = Disks(r.mounts, r.fs, r.disk)
    BY <2>1 DEF Measured, Some
  <2>3. Mounted(r.mounts, r.fs)
    <3>1. /\ r.mounts \in Seq(Range(r.mounts))
          /\ \A p \in DOMAIN r.fs :
               /\ {r.fs[p].blocks, r.fs[p].bfree, r.fs[p].frsize, r.fs[p].bsize} \subseteq Nat
               /\ p \in Seq(Range(p))
          /\ \A line \in Range(r.mounts) :
               line.whole => Mangle(Unescape(line.point)) = line.point
      BY ReadingsAssumption
    <3>2. Len(r.mounts) \in Nat /\ DOMAIN r.mounts = 1 .. Len(r.mounts)
      BY <3>1, LenProperties
    <3>3. \A i \in DOMAIN r.mounts : r.mounts[i] \in Range(r.mounts)
      BY DEF Range
    <3> QED
      BY <3>1, <3>2, <3>3 DEF Mounted
  <2>4. [k \in DOMAIN Disks(r.mounts, r.fs, r.disk) |->
           Disks(r.mounts, r.fs, r.disk)[k].mount_point]
          = [k \in 1 .. Cardinality(FirstOnes(r.mounts, r.fs)) |->
               PathAt(r.mounts, r.fs, Nth(FirstOnes(r.mounts, r.fs), k))]
    BY <2>3, DisksTrue
  <2> QED
    BY <2>2, <2>4
<1> QED
  BY <1>1, FromReading, PTL
=============================================================================
