--------------------------- MODULE ExecAgentProofs ---------------------------
(***************************************************************************)
(* Proofs about ExecAgent, for any output streams, any messages the host   *)
(* may send and any number of them, any amount of output, and held and a  *)
(* buffer of any size.                                                     *)
(***************************************************************************)
EXTENDS ExecAgent, SequenceLemmas, TLAPS

-----------------------------------------------------------------------------
(* What is said. *)

(* What is said is what the host has read, what the writer works on and     *)
(* what waits in the buffer.                                                *)
LEMMA SaidTyped ==
  ASSUME TypeOK
  PROVE  /\ Said \in Seq(Messages) /\ DOMAIN Said = 1 .. Len(Said)
         /\ Len(Said) = Len(heard) + Len(inflight) + Len(buf)
         /\ Len(heard) \in Nat /\ Len(inflight) \in Nat /\ Len(buf) \in Nat
         /\ \A i \in 1 .. Len(Said) : Said[i] \in Messages
         /\ Said = << >> <=> heard = << >> /\ inflight = << >> /\ buf = << >>
<1>1. heard \in Seq(Messages) /\ inflight \in Seq(Messages) /\ buf \in Seq(Messages)
  BY DEF TypeOK
<1>2. /\ heard \o inflight \in Seq(Messages)
      /\ Len(heard \o inflight) = Len(heard) + Len(inflight)
  BY <1>1, ConcatProperties
<1>3. Said \in Seq(Messages) /\ Len(Said) = Len(heard \o inflight) + Len(buf)
  BY <1>1, <1>2, ConcatProperties DEF Said
<1>4. Len(heard) \in Nat /\ Len(inflight) \in Nat /\ Len(buf) \in Nat
  BY <1>1, LenProperties
<1>5. /\ Said = << >> <=> Len(Said) = 0
      /\ heard = << >> <=> Len(heard) = 0
      /\ inflight = << >> <=> Len(inflight) = 0
      /\ buf = << >> <=> Len(buf) = 0
  BY <1>1, <1>3, EmptySeq
<1>6. DOMAIN Said = 1 .. Len(Said) /\ \A i \in 1 .. Len(Said) : Said[i] \in Messages
  BY <1>3, LenProperties, ElementOfSeq
<1> QED
  BY <1>2, <1>3, <1>4, <1>5, <1>6

(* A batch moves on, from the buffer to the writer or from the writer to    *)
(* the host, and what is said stays the same.                               *)
LEMMA SaidMoves ==
  ASSUME TypeOK,
         \/ /\ Transmit /\ heard' = heard
         \/ heard' = heard \o inflight /\ inflight' = << >> /\ buf' = buf
  PROVE  Said' = Said
<1>1. heard \in Seq(Messages) /\ inflight \in Seq(Messages) /\ buf \in Seq(Messages)
  BY DEF TypeOK
<1>2. heard \o inflight \in Seq(Messages)
  BY <1>1, ConcatProperties
<1>3. CASE heard' = heard \o inflight /\ inflight' = << >> /\ buf' = buf
  <2>1. (heard \o inflight) \o << >> = heard \o inflight
    BY <1>2, ConcatEmptySeq
  <2> QED
    BY <1>3, <2>1 DEF Said
<1>4. CASE Idle /\ Transmit /\ heard' = heard
  <2>1. heard \o << >> = heard /\ (heard \o buf) \o << >> = heard \o buf
    BY <1>1, ConcatProperties, ConcatEmptySeq
  <2>2. inflight = << >> /\ inflight' = buf /\ buf' = << >> /\ heard' = heard
    BY <1>4 DEF Idle, Transmit
  <2> QED
    BY <2>1, <2>2 DEF Said
<1>5. CASE ~Idle /\ Transmit /\ heard' = heard
  BY <1>5 DEF Said, Transmit
<1> QED
  BY <1>3, <1>4, <1>5

(* A message that enters comes after everything said before.                *)
LEMMA SaidGrows ==
  ASSUME TypeOK, NEW a \in Actors, Enter(a)
  PROVE  /\ Said' = Append(Said, msg[a])
         /\ inflight' \in Seq(Messages) /\ buf' \in Seq(Messages)
         /\ Len(buf') <= HighWater
         /\ Said = << >> => buf' = << >> /\ pc' = After(a)
<1>1. /\ heard \in Seq(Messages) /\ inflight \in Seq(Messages) /\ buf \in Seq(Messages)
      /\ msg[a] \in Messages /\ heard' = heard /\ << >> \in Seq(Messages)
      /\ HighWater \in Nat \ {0} /\ Len(buf) \in Nat /\ Len(buf) <= HighWater
  BY AgentAssumption, EmptySeq, LenProperties DEF TypeOK, Enter
<1> DEFINE m == msg[a]
<1>2. \A s, t \in Seq(Messages) : s \o Append(t, m) = Append(s \o t, m)
  <2> SUFFICES ASSUME NEW s \in Seq(Messages), NEW t \in Seq(Messages)
               PROVE  s \o Append(t, m) = Append(s \o t, m)
    OBVIOUS
  <2>1. << >> \in Seq(Messages) /\ <<m>> \in Seq(Messages) /\ s \o t \in Seq(Messages)
    BY <1>1, ConcatProperties, EmptySeq
  <2>2. Append(t, m) = t \o <<m>> /\ Append(s \o t, m) = (s \o t) \o <<m>>
    BY <1>1, <2>1, AppendIsConcat
  <2>3. \A x, y, z \in Seq(Messages) : (x \o y) \o z = x \o (y \o z)
    BY ConcatAssociative
  <2> QED
    BY <2>1, <2>2, <2>3
<1>3. \A s \in Seq(Messages) : s \o << >> = s /\ << >> \o s = s
  BY ConcatEmptySeq
<1>4. \A s \in Seq(Messages) : /\ Append(s, m) \in Seq(Messages)
                               /\ Len(Append(s, m)) = Len(s) + 1
  BY <1>1, AppendProperties
<1>5. \A s, t \in Seq(Messages) : s \o t \in Seq(Messages)
  BY ConcatProperties
<1>6. Said = << >> => inflight = << >> /\ buf = << >>
  BY SaidTyped
<1> HIDE DEF m
<1>7. CASE Idle /\ buf = << >>
  <2>1. /\ inflight = << >> /\ inflight' = Append(<< >>, m) /\ buf' = << >>
        /\ pc' = After(a)
    BY <1>7 DEF Enter, Idle, m
  <2>2. Said' = Append(Said, m)
    <3>1. Said' = (heard \o Append(<< >>, m)) \o << >>
      BY <1>1, <2>1 DEF Said
    <3>2. Said = heard
      BY <1>1, <1>3, <1>7, <2>1 DEF Said
    <3>3. heard \o Append(<< >>, m) = Append(heard, m)
      BY <1>1, <1>2, <1>3
    <3> QED
      BY <1>1, <1>3, <1>4, <3>1, <3>2, <3>3
  <2>3. Len(buf') = 0
    BY <2>1, EmptySeq
  <2> QED
    BY <1>1, <1>4, <2>1, <2>2, <2>3 DEF m
<1>8. CASE Idle /\ buf # << >>
  <2>1. inflight = << >> /\ inflight' = buf /\ buf' = Append(<< >>, m)
    BY <1>8 DEF Enter, Idle, m
  <2>2. Said' = (heard \o buf) \o Append(<< >>, m)
    BY <1>1, <2>1 DEF Said
  <2>3. Said = heard \o buf
    BY <1>1, <1>3, <2>1 DEF Said
  <2>4. Said' = Append(Said, m)
    BY <1>1, <1>2, <1>3, <1>5, <2>2, <2>3
  <2>5. Len(buf') = 1
    BY <1>1, <1>4, <2>1, EmptySeq
  <2> QED
    BY <1>1, <1>4, <1>6, <1>8, <2>1, <2>4, <2>5 DEF m
<1>9. CASE ~Idle
  <2>1. inflight # << >> /\ inflight' = inflight /\ buf' = Append(buf, m)
    BY <1>9 DEF Enter, Idle, m
  <2>2. Len(buf) < HighWater
    BY <1>9 DEF Enter, RoomInBuffer
  <2>3. Said' = Append(Said, m)
    BY <1>1, <1>2, <1>5, <2>1 DEF Said
  <2> QED
    BY <1>1, <1>4, <1>6, <2>1, <2>2, <2>3 DEF m
<1> QED
  BY <1>7, <1>8, <1>9

(* A batch that could not be written is gone: the rest keeps its order.     *)
LEMMA SaidDrops ==
  ASSUME TypeOK, heard' = heard, inflight' = << >>, buf' = buf
  PROVE  /\ Len(Said') = Len(heard) + Len(buf) /\ DOMAIN Said' = 1 .. Len(Said')
         /\ \A j \in 1 .. Len(Said') :
              LET i == IF j <= Len(heard) THEN j ELSE j + Len(inflight)
              IN  i \in 1 .. Len(Said) /\ Said'[j] = Said[i]
         /\ Range(Said') \subseteq Range(Said)
         /\ Said = << >> => Said' = << >>
<1>1. /\ heard \in Seq(Messages) /\ inflight \in Seq(Messages) /\ buf \in Seq(Messages)
      /\ Len(heard) \in Nat /\ Len(inflight) \in Nat /\ Len(buf) \in Nat
      /\ DOMAIN Said = 1 .. Len(Said)
      /\ Len(Said) = Len(heard) + Len(inflight) + Len(buf)
  BY SaidTyped DEF TypeOK
<1>2. Said' = heard \o buf
  <2>1. heard \o << >> = heard
    BY <1>1, ConcatEmptySeq
  <2> QED
    BY <2>1 DEF Said
<1>3. /\ heard \o buf \in Seq(Messages)
      /\ Len(heard \o buf) = Len(heard) + Len(buf)
      /\ \A j \in 1 .. Len(heard) + Len(buf) :
           (heard \o buf)[j] = IF j <= Len(heard) THEN heard[j] ELSE buf[j - Len(heard)]
  BY <1>1, ConcatProperties
<1>4. /\ heard \o inflight \in Seq(Messages)
      /\ Len(heard \o inflight) = Len(heard) + Len(inflight)
      /\ \A j \in 1 .. Len(heard) + Len(inflight) :
           (heard \o inflight)[j] =
             IF j <= Len(heard) THEN heard[j] ELSE inflight[j - Len(heard)]
  BY <1>1, ConcatProperties
<1>5. \A j \in 1 .. Len(heard \o inflight) + Len(buf) :
        Said[j] = IF j <= Len(heard \o inflight)
                    THEN (heard \o inflight)[j]
                    ELSE buf[j - Len(heard \o inflight)]
  BY <1>1, <1>4, ConcatProperties DEF Said
<1>6. ASSUME NEW j \in 1 .. Len(heard) + Len(buf)
      PROVE  LET i == IF j <= Len(heard) THEN j ELSE j + Len(inflight)
             IN  i \in 1 .. Len(Said) /\ (heard \o buf)[j] = Said[i]
  <2>1. CASE j <= Len(heard)
    BY <1>1, <1>3, <1>4, <1>5, <2>1
  <2>2. CASE j > Len(heard)
    <3>1. /\ j + Len(inflight) \in 1 .. Len(heard \o inflight) + Len(buf)
          /\ ~(j + Len(inflight) <= Len(heard \o inflight))
          /\ j + Len(inflight) - Len(heard \o inflight) = j - Len(heard)
      BY <1>1, <1>4, <2>2
    <3>2. Said[j + Len(inflight)] = buf[j - Len(heard)]
      BY <1>5, <3>1
    <3> QED
      BY <1>1, <1>3, <1>4, <2>2, <3>1, <3>2
  <2> QED
    BY <1>1, <2>1, <2>2
<1>7. DOMAIN Said' = 1 .. Len(heard) + Len(buf)
  BY <1>2, <1>3, LenProperties
<1>8. Range(Said') \subseteq Range(Said)
  BY <1>1, <1>2, <1>6, <1>7 DEF Range
<1>9. Said = << >> => Said' = << >>
  <2> SUFFICES ASSUME Said = << >>
               PROVE  Said' = << >>
    OBVIOUS
  <2>1. heard = << >> /\ buf = << >>
    BY SaidTyped
  <2> QED
    BY <1>1, <1>2, <2>1, ConcatEmptySeq
<1> QED
  BY <1>2, <1>3, <1>6, <1>7, <1>8, <1>9

(* The same, element by element.                                            *)
LEMMA GrowsBy ==
  ASSUME TypeOK, NEW m \in Messages, Said' = Append(Said, m)
  PROVE  /\ Len(Said') = Len(Said) + 1 /\ DOMAIN Said' = 1 .. Len(Said) + 1
         /\ \A i \in 1 .. Len(Said) : Said'[i] = Said[i]
         /\ Said'[Len(Said) + 1] = m
         /\ Range(Said') = Range(Said) \cup {m}
         /\ Said' # << >>
<1>1. /\ Said \in Seq(Messages) /\ Len(Said) \in Nat /\ DOMAIN Said = 1 .. Len(Said)
  BY SaidTyped
<1>2. /\ Append(Said, m) \in Seq(Messages) /\ Append(Said, m) # << >>
      /\ Len(Append(Said, m)) = Len(Said) + 1
      /\ \A i \in 1 .. Len(Said) : Append(Said, m)[i] = Said[i]
      /\ Append(Said, m)[Len(Said) + 1] = m
  BY <1>1, AppendProperties
<1>3. DOMAIN Append(Said, m) = 1 .. Len(Said) + 1
  BY <1>2, LenProperties
<1>4. Range(Append(Said, m)) = Range(Said) \cup {m}
  <2>1. \A i \in 1 .. Len(Said) + 1 : i \in 1 .. Len(Said) \/ i = Len(Said) + 1
    BY <1>1
  <2>2. \A i \in 1 .. Len(Said) : i \in 1 .. Len(Said) + 1
    BY <1>1
  <2>3. Len(Said) + 1 \in 1 .. Len(Said) + 1
    BY <1>1
  <2> QED
    BY <1>1, <1>2, <1>3, <2>1, <2>2, <2>3 DEF Range
<1> QED
  BY <1>2, <1>3, <1>4

(* Every step leaves what is said as it is, adds a message an actor is      *)
(* sending, or loses a batch that could not be written.                     *)
LEMMA SaidStep ==
  ASSUME TypeOK, [Next]_vars
  PROVE  \/ Said' = Said /\ ~(\E a \in Actors : Enter(a))
         \/ \E a \in Actors : Enter(a) /\ Said' = Append(Said, msg[a])
         \/ /\ conn = "down" /\ ~(\E a \in Actors : Enter(a))
            /\ heard' = heard /\ inflight' = << >> /\ buf' = buf
<1> USE DEF channel, output, child, held
<1>1. CASE \E a \in Actors : Enter(a)
  BY <1>1, SaidGrows
<1>2. CASE ~(\E a \in Actors : Enter(a))
  <2>1. CASE \/ Transmit /\ heard' = heard
             \/ heard' = heard \o inflight /\ inflight' = << >> /\ buf' = buf
    BY <1>2, <2>1, SaidMoves
  <2>2. CASE UNCHANGED <<heard, inflight, buf>>
    BY <1>2, <2>2 DEF Said
  <2>3. CASE \E a \in Actors : SendFails(a)
    BY <1>2, <2>3 DEF SendFails
  <2>4. CASE Final
    <3>1. conn = "up" \/ conn = "down"
      BY DEF TypeOK
    <3>2. CASE conn = "up"
      BY <2>1, <2>4, <3>2 DEF Final
    <3>3. CASE conn = "down"
      BY <1>2, <2>4, <3>3 DEF Final
    <3> QED
      BY <3>1, <3>2, <3>3
  <2> QED
    BY <1>2, <2>1, <2>2, <2>3, <2>4
       DEF Next, Host, Child, Agent, Sending, MainStep, ExitStep, StdinStep, StreamStep,
           HostSend, HostEnd, HostRead, HostBreak, ChildWrite, ChildClose, ChildRead,
           ChildCloseStdin, ChildExit, Pass, Flush, RecvExec, Spawn, Join, ExitKill,
           ExitFails, ExitWait, ExitWaitFails, StdinRecv, StdinEnds, StdinWrite, ReadChunk, ReadEof,
           CloseRequest, IgnoreAnswer, ReadClosedFd, vars
<1> QED
  BY <1>1, <1>2

-----------------------------------------------------------------------------
(* Where an actor goes on after a message. *)

(* The messages are told apart by their verbs.                              *)
LEMMA Verbs ==
  /\ Started # Exited /\ Started # Error /\ Exited # Error
  /\ \A st : ClosedMsg(st) \notin {Started, Exited, Error}
  /\ \A st, n : DataMsg(st, n) \notin {Started, Exited, Error}
  /\ \A st, x, n : ClosedMsg(st) # DataMsg(x, n)
  /\ \A st, n : DataMsg(st, n)[1] = "data" /\ ClosedMsg(st)[1] = "closed"
  /\ Flushes(Exited) /\ \A st : Flushes(ClosedMsg(st))
  /\ Started[1] # "data" /\ Exited[1] # "data" /\ Error[1] # "data"
  /\ ~Flushes(Started) /\ ~Flushes(Error) /\ \A st, n : ~Flushes(DataMsg(st, n))
BY DEF Started, Exited, Error, ClosedMsg, DataMsg, Flushes

(* main starts the tasks or goes on to its end; a task sends on, or waits   *)
(* until its last message is out.                                           *)
LEMMA Onwards ==
  ASSUME TypeOK, Places, NEW a \in Actors, pc[a] \in {"pre", "post"}
  PROVE  \/ /\ a = "main" /\ msg[a] = Started
            /\ After(a) = [x \in Actors |-> Beginning(x)]
         \/ /\ a = "main" /\ msg[a] = Error
            /\ After(a) = [pc EXCEPT ![a] = "final"]
         \/ /\ a = "exit" /\ msg[a] = Exited
            /\ After(a) = [pc EXCEPT ![a] = "flush"]
         \/ /\ a = "stdin" /\ msg[a] = ClosedMsg("stdin")
            /\ After(a) = [pc EXCEPT ![a] = "flush"]
         \/ /\ a \in Streams /\ msg[a] = ClosedMsg(a)
            /\ After(a) = [pc EXCEPT ![a] = "flush"]
         \/ /\ a \in Streams /\ msg[a] = DataMsg(a, taken[a]) /\ taken[a] > 0
            /\ After(a) = [pc EXCEPT ![a] = "select"]
<1>1. a = "main" \/ a = "exit" \/ a = "stdin" \/ a \in Streams
  BY DEF Actors, Tasks
<1>2. CASE a = "main"
  <2>1. CASE msg[a] = Started
    <3>1. msg[a] # Error /\ msg[a][1] # "data" /\ ~Flushes(msg[a])
      BY <2>1, Verbs
    <3>2. After(a) = [x \in Actors |-> Beginning(x)]
      BY <2>1, <3>1 DEF After
    <3> QED
      BY <1>2, <2>1, <3>2
  <2>2. CASE msg[a] = Error
    <3>1. msg[a] # Started /\ msg[a][1] # "data" /\ ~Flushes(msg[a])
      BY <2>2, Verbs
    <3>2. After(a) = [pc EXCEPT ![a] = "final"]
      BY <2>2, <3>1 DEF After
    <3> QED
      BY <1>2, <2>2, <3>2
  <2> QED
    BY <1>2, <2>1, <2>2 DEF Places, Place, Actors, Tasks
<1>3. CASE a = "exit"
  <2>1. msg[a] = Exited
    BY <1>3 DEF Places, Place, Actors, Tasks
  <2> QED
    BY <1>3, <2>1, Verbs DEF After
<1>4. CASE a = "stdin"
  <2>1. msg[a] = ClosedMsg("stdin")
    BY <1>4 DEF Places, Place, Actors, Tasks
  <2> QED
    BY <1>4, <2>1, Verbs DEF After
<1>5. CASE a \in Streams
  <2>1. CASE msg[a] = ClosedMsg(a)
    <3>1. After(a) = [pc EXCEPT ![a] = "flush"]
      BY <2>1, Verbs DEF After
    <3> QED
      BY <1>5, <2>1, <3>1
  <2>2. CASE msg[a] = DataMsg(a, taken[a]) /\ taken[a] > 0
    <3>1. /\ msg[a] # Started /\ msg[a] # Error
          /\ msg[a][1] = "data" /\ ~Flushes(msg[a])
      BY <2>2, Verbs
    <3>2. After(a) = [pc EXCEPT ![a] = "select"]
      BY <2>2, <3>1 DEF After
    <3> QED
      BY <1>5, <2>2, <3>2
  <2> QED
    BY <1>5, <2>1, <2>2 DEF Places, Place, Actors, Tasks
<1> QED
  BY <1>1, <1>2, <1>3, <1>4, <1>5

(* A batch that could not be written: main reports it, or comes to its end  *)
(* when it is reporting already; a task ends.                               *)
LEMMA Failing ==
  ASSUME TypeOK, Places, NEW a \in Actors, SendFails(a)
  PROVE  \/ /\ a = "main" /\ msg[a] = Started /\ BeginSend(a, Error) /\ KillProcess
         \/ /\ a = "main" /\ msg[a] = Error /\ Goto(a, "final")
            /\ msg' = msg /\ doomed' = doomed
         \/ /\ a = "exit" /\ Goto(a, "failed") /\ KillProcess /\ msg' = msg
         \/ /\ a \in Tasks \ {"exit"} /\ Goto(a, "failed")
            /\ msg' = msg /\ doomed' = doomed
<1>1. a = "main" \/ a = "exit" \/ a \in Tasks \ {"exit"}
  BY DEF Actors, Tasks
<1>2. /\ a = "main" => msg[a] = Started \/ msg[a] = Error
      /\ a # "main" => msg[a] # Started /\ msg[a] # Error
  <2>1. pc[a] \in {"pre", "post", "flush"}
    BY DEF SendFails
  <2>2. CASE a = "main"
    BY <2>1, <2>2 DEF Places, Place, Actors, Tasks
  <2>3. CASE a = "exit" \/ a = "stdin"
    BY <2>1, <2>3, Verbs DEF Places, Place, Actors, Tasks
  <2>4. CASE a \in Streams
    <3>1. msg[a] = ClosedMsg(a) \/ msg[a] = DataMsg(a, taken[a])
      BY <2>1, <2>4 DEF Places, Place, Actors, Tasks
    <3> QED
      BY <2>4, <3>1, Verbs, AgentAssumption
  <2> QED
    BY <2>2, <2>3, <2>4 DEF Actors, Tasks
<1>3. /\ (msg[a] = Started) => BeginSend(a, Error) /\ KillProcess
      /\ (msg[a] # Started /\ msg[a] = Error) =>
           Goto(a, "final") /\ UNCHANGED <<msg, doomed>>
      /\ (msg[a] # Started /\ msg[a] # Error /\ a = "exit") =>
           Goto(a, "failed") /\ KillProcess /\ UNCHANGED msg
      /\ (msg[a] # Started /\ msg[a] # Error /\ a # "exit") =>
           Goto(a, "failed") /\ UNCHANGED <<msg, doomed>>
  <2> DEFINE F1 == BeginSend(a, Error) /\ KillProcess
             F2 == Goto(a, "final") /\ UNCHANGED <<msg, doomed>>
             F3 == Goto(a, "failed") /\ KillProcess /\ UNCHANGED msg
             F4 == Goto(a, "failed") /\ UNCHANGED <<msg, doomed>>
  <2>1. (CASE msg[a] = Started -> F1
           [] msg[a] = Error   -> F2
           [] a = "exit"       -> F3
           [] OTHER            -> F4)
    BY DEF SendFails
  <2>2. "exit" # "main"
    OBVIOUS
  <2> HIDE DEF F1, F2, F3, F4
  <2>3. /\ (msg[a] = Started) => F1
        /\ (msg[a] # Started /\ msg[a] = Error) => F2
        /\ (msg[a] # Started /\ msg[a] # Error /\ a = "exit") => F3
        /\ (msg[a] # Started /\ msg[a] # Error /\ a # "exit") => F4
    BY <1>2, <2>1, <2>2, Verbs
  <2> QED
    BY <2>3 DEF F1, F2, F3, F4
<1> QED
  BY <1>1, <1>2, <1>3, Verbs DEF Tasks

(* The stdin task is given input, the end of it, or a line that does not    *)
(* parse: it writes, acknowledges or ends.                                  *)
LEMMA Input ==
  ASSUME StdinRecv
  PROVE  /\ pc["stdin"] = "recv"
         /\ \/ Goto("stdin", "write") /\ msg' = msg
            \/ BeginSend("stdin", ClosedMsg("stdin"))
            \/ Goto("stdin", "failed") /\ msg' = msg
<1>1. PICK p \in pending :
        /\ Receives("stdin", p)
        /\ (CASE lines[p] = StdinData   -> Goto("stdin", "write") /\ UNCHANGED msg
             [] lines[p] = StdinClosed -> BeginSend("stdin", ClosedMsg("stdin"))
             [] lines[p] = Bad         -> Goto("stdin", "failed") /\ UNCHANGED msg)
  BY DEF StdinRecv
<1>2. lines[p] = StdinData \/ lines[p] = StdinClosed \/ lines[p] = Bad
  <2>1. lines[p] \in Accepts["stdin"] \/ lines[p] = Bad
    BY <1>1 DEF Receives, Chan!Give, Chan!Wanted
  <2>2. Accepts["stdin"] = {StdinData, StdinClosed}
    BY DEF Accepts, Actors, Tasks
  <2> QED
    BY <2>1, <2>2
<1>3. StdinData # StdinClosed /\ StdinData # Bad /\ StdinClosed # Bad
  BY DEF StdinData, StdinClosed, Bad
<1> QED
  BY <1>1, <1>2, <1>3 DEF StdinRecv

-----------------------------------------------------------------------------
(* The types. *)

(* Every step keeps the types: a chunk that is read has been written, and   *)
(* the buffer takes one message when it has room.                           *)
LEMMA TypesStep ==
  ASSUME TypeOK, Places, [Next]_vars
  PROVE  TypeOK'
<1> DEFINE States == {"unborn", "exec", "spawn", "join", "final", "select",
                      "recv", "write", "pre", "post", "flush", "done", "failed"}
<1>1. /\ pc \in [Actors -> States] /\ msg \in [Actors -> Messages]
      /\ buf \in Seq(Messages) /\ inflight \in Seq(Messages)
      /\ heard \in Seq(Messages) /\ << >> \in Seq(Messages)
      /\ Len(buf) <= HighWater /\ Len(<< >>) = 0 /\ 0 <= HighWater
  BY AgentAssumption, EmptySeq DEF TypeOK
<1>2. /\ "main" \in Actors /\ "exit" \in Actors /\ "stdin" \in Actors
      /\ Streams \subseteq Actors
  BY DEF Actors, Tasks
<1>3. /\ Started \in Messages /\ Error \in Messages /\ Exited \in Messages
      /\ ClosedMsg("stdin") \in Messages
      /\ \A st \in Streams : ClosedMsg(st) \in Messages
  BY DEF Messages
<1>4. ASSUME NEW a \in Actors, NEW where \in States, Goto(a, where)
      PROVE  pc' \in [Actors -> States]
  BY <1>1, <1>4 DEF Goto
<1>5. ASSUME NEW a \in Actors, NEW m \in Messages, BeginSend(a, m)
      PROVE  pc' \in [Actors -> States] /\ msg' \in [Actors -> Messages]
  BY <1>1, <1>5 DEF Goto, BeginSend
<1>6. ASSUME NEW a \in Actors, pc[a] \in {"pre", "post"}
      PROVE  After(a) \in [Actors -> States]
  <2>1. [x \in Actors |-> Beginning(x)] \in [Actors -> States]
    BY DEF Beginning
  <2>2. \A where \in States : [pc EXCEPT ![a] = where] \in [Actors -> States]
    BY <1>1
  <2> QED
    BY <1>6, <2>1, <2>2, Onwards
<1>7. Transmit => inflight' \in Seq(Messages) /\ buf' \in Seq(Messages) /\ Len(buf') <= HighWater
  BY <1>1 DEF Transmit
<1>8. heard \o inflight \in Seq(Messages)
  BY <1>1, ConcatProperties
<1> DEFINE Control == pc \in [Actors -> States] /\ msg \in [Actors -> Messages]
           Sent    == /\ buf \in Seq(Messages) /\ Len(buf) <= HighWater
                      /\ inflight \in Seq(Messages) /\ heard \in Seq(Messages)
           Child1  == /\ proc \in {"none", "running", "zombie", "reaped"}
                      /\ doomed \in BOOLEAN /\ reader \in BOOLEAN
                      /\ open \in [Streams -> BOOLEAN]
                      /\ piped \in 0 .. PipeSize
           Reads   == /\ deaf \in [Streams -> BOOLEAN]
                      /\ fd \in [Streams -> {"open", "closed"}]
                      /\ fault \in BOOLEAN
           Chunks  == /\ written \in [Streams -> 0 .. MaxChunks]
                      /\ taken \in [Streams -> 0 .. MaxChunks]
                      /\ \A st \in Streams : taken[st] <= written[st]
<1>9. Control /\ Sent /\ Child1 /\ Reads /\ Chunks /\ conn \in {"up", "down"}
  BY DEF TypeOK
<1>10. Control'
  <2>1. CASE \E a \in Actors, where \in States : Goto(a, where) /\ UNCHANGED msg
    BY <1>1, <1>4, <2>1
  <2>2. CASE \E a \in Actors, m \in Messages : BeginSend(a, m)
    BY <1>5, <2>2
  <2>3. CASE UNCHANGED <<pc, msg>>
    BY <1>1, <2>3
  <2>4. CASE \E a \in Actors : Enter(a) \/ Pass(a)
    BY <1>1, <1>4, <1>6, <2>4 DEF Enter, Pass
  <2>5. CASE \E a \in Actors : Flush(a)
    BY <1>1, <1>4, <2>5 DEF Flush, AfterFlush
  <2>6. ASSUME NEW a \in Actors, SendFails(a)
        PROVE  Control'
    <3>1. \/ BeginSend(a, Error)
          \/ (Goto(a, "final") \/ Goto(a, "failed")) /\ UNCHANGED msg
      BY <2>6, Failing
    <3>2. CASE BeginSend(a, Error)
      BY <1>3, <1>5, <3>2
    <3>3. CASE (Goto(a, "final") \/ Goto(a, "failed")) /\ UNCHANGED msg
      BY <1>1, <1>4, <3>3
    <3> QED
      BY <3>1, <3>2, <3>3
  <2>7. CASE MainStep \/ ExitStep \/ StdinStep
    BY <1>2, <1>3, <2>1, <2>2, <2>3, <2>7, Input
       DEF MainStep, ExitStep, StdinStep, RecvExec, Spawn, ReportStarted, Join, Final,
           ExitKill, ExitFails, ExitWait, ExitWaitFails, StdinEnds, EndOfInput, StdinWrite
  <2>8. ASSUME NEW st \in Streams, ReadChunk(st)
        PROVE  Control'
    <3>1. taken[st] + 1 \in 1 .. MaxChunks
      BY <2>8, AgentAssumption DEF ReadChunk, TypeOK
    <3>2. DataMsg(st, taken[st] + 1) \in Messages
      BY <3>1 DEF Messages
    <3> QED
      BY <1>2, <2>2, <2>8, <3>2 DEF ReadChunk
  <2>9. CASE \E st \in Streams :
               ReadEof(st) \/ CloseRequest(st) \/ IgnoreAnswer(st) \/ ReadClosedFd(st)
    BY <1>2, <1>3, <2>1, <2>2, <2>3, <2>9
       DEF ReadEof, CloseRequest, IgnoreAnswer, ReadClosedFd
  <2>10. CASE Host \/ Child \/ UNCHANGED vars
    BY <2>3, <2>10 DEF Host, Child, HostSend, HostEnd, HostRead, HostBreak, ChildWrite,
           ChildClose, ChildRead, ChildCloseStdin, ChildExit, vars
  <2> QED
    BY <2>4, <2>5, <2>6, <2>7, <2>8, <2>9, <2>10 DEF Next, Agent, Sending, StreamStep
<1>11. Sent'
  <2>1. CASE Transmit /\ UNCHANGED heard
    BY <1>1, <1>7, <2>1
  <2>2. CASE UNCHANGED <<buf, inflight, heard>>
    BY <1>1, <2>2
  <2>3. CASE inflight' = << >> /\ UNCHANGED <<buf, heard>>
    BY <1>1, <2>3
  <2>4. CASE inflight' = << >> /\ heard' = heard \o inflight /\ UNCHANGED buf
    BY <1>1, <1>8, <2>4
  <2>5. CASE \E a \in Actors : Enter(a)
    BY <1>1, <2>5, SaidGrows DEF Enter
  <2> QED
    BY <2>1, <2>2, <2>3, <2>4, <2>5
       DEF Next, Host, Child, Agent, Sending, MainStep, ExitStep, StdinStep, StreamStep,
           HostSend, HostEnd, HostRead, HostBreak, ChildWrite, ChildClose, ChildRead,
           ChildCloseStdin, ChildExit, Pass, Flush, SendFails, RecvExec, Spawn, Join, Final,
           ExitKill, ExitFails, ExitWait, ExitWaitFails, StdinRecv, StdinEnds, StdinWrite, ReadChunk,
           ReadEof, CloseRequest, IgnoreAnswer, ReadClosedFd, vars, output
<1>12. conn' \in {"up", "down"}
  BY <1>9 DEF Next, Host, Child, Agent, Sending, MainStep, ExitStep, StdinStep, StreamStep,
           HostSend, HostEnd, HostRead, HostBreak, ChildWrite, ChildClose, ChildRead,
           ChildCloseStdin, ChildExit, Enter, Pass, Flush, SendFails, RecvExec, Spawn, Join, Final,
           ExitKill, ExitFails, ExitWait, ExitWaitFails, StdinRecv, StdinEnds, StdinWrite, ReadChunk,
           ReadEof, CloseRequest, IgnoreAnswer, ReadClosedFd, vars, output
<1>13. Reads'
  <2>1. CASE UNCHANGED <<deaf, fd, fault>>
    BY <1>9, <2>1
  <2>2. CASE \E st \in Streams : ReadChunk(st) \/ CloseRequest(st) \/ IgnoreAnswer(st)
    BY <1>9, <2>2 DEF ReadChunk, CloseRequest, IgnoreAnswer
  <2>3. CASE ExitWaitFails
    BY <1>9, <2>3 DEF ExitWaitFails
  <2> QED
    BY <2>1, <2>2, <2>3
       DEF Next, Host, Child, Agent, Sending, MainStep, ExitStep, StdinStep, StreamStep,
           HostSend, HostEnd, HostRead, HostBreak, ChildWrite, ChildClose, ChildRead,
           ChildCloseStdin, ChildExit, Enter, Pass, Flush, SendFails, RecvExec, Spawn, Join, Final,
           ExitKill, ExitFails, ExitWait, ExitWaitFails, StdinRecv, StdinEnds, StdinWrite, ReadChunk,
           ReadEof, CloseRequest, IgnoreAnswer, ReadClosedFd, vars, held
<1>14. Chunks'
  <2>1. CASE UNCHANGED <<written, taken>>
    BY <1>9, <2>1
  <2>2. ASSUME NEW st \in Streams, ReadChunk(st)
        PROVE  Chunks'
    <3>1. /\ taken' = [taken EXCEPT ![st] = @ + 1] /\ written' = written
          /\ taken[st] + 1 <= written[st]
      BY <1>9, <2>2, AgentAssumption DEF ReadChunk, child
    <3> QED
      BY <1>9, <3>1, AgentAssumption
  <2>3. ASSUME NEW st \in Streams, ChildWrite(st)
        PROVE  Chunks'
    <3>1. /\ written' = [written EXCEPT ![st] = @ + 1] /\ taken' = taken
          /\ written[st] + 1 <= MaxChunks
      BY <1>9, <2>3, AgentAssumption DEF ChildWrite, held
    <3> QED
      BY <1>9, <3>1, AgentAssumption
  <2> QED
    BY <2>1, <2>2, <2>3
       DEF Next, Host, Child, Agent, Sending, MainStep, ExitStep, StdinStep, StreamStep,
           HostSend, HostEnd, HostRead, HostBreak, ChildWrite, ChildClose, ChildRead,
           ChildCloseStdin, ChildExit, Enter, Pass, Flush, SendFails, RecvExec, Spawn, Join, Final,
           ExitKill, ExitFails, ExitWait, ExitWaitFails, StdinRecv, StdinEnds, StdinWrite, ReadChunk,
           ReadEof, CloseRequest, IgnoreAnswer, ReadClosedFd, vars, held, child
<1>15. Child1'
  <2>1. CASE UNCHANGED <<proc, doomed, reader, open, piped>>
    BY <1>9, <2>1
  <2>2. CASE UNCHANGED <<proc, reader, open, piped>> /\ KillProcess
    BY <1>9, <2>2 DEF KillProcess
  <2>3. ASSUME NEW a \in Actors, SendFails(a)
        PROVE  Child1'
    <3>1. KillProcess \/ doomed' = doomed
      BY <2>3, Failing
    <3>2. UNCHANGED <<proc, reader, open, piped>>
      BY <2>3 DEF SendFails
    <3> QED
      BY <2>1, <2>2, <3>1, <3>2
  <2>4. CASE Spawn \/ \E st \in Streams : ChildClose(st)
    BY <1>9, <2>4 DEF Spawn, ChildClose
  <2>5. CASE ChildRead \/ StdinWrite
    <3>1. piped' \in 0 .. PipeSize
      BY <1>9, <2>5, AgentAssumption DEF ChildRead, StdinWrite
    <3> QED
      BY <1>9, <2>5, <3>1 DEF ChildRead, StdinWrite
  <2>6. CASE ChildCloseStdin \/ ChildExit \/ ExitWait
    BY <1>9, <2>6 DEF ChildCloseStdin, ChildExit, ExitWait
  <2> QED
    BY <2>1, <2>2, <2>3, <2>4, <2>5, <2>6
       DEF Next, Host, Child, Agent, Sending, MainStep, ExitStep, StdinStep, StreamStep,
           HostSend, HostEnd, HostRead, HostBreak, ChildWrite, Enter, Pass, Flush, RecvExec,
           Join, Final, ExitKill, ExitFails, ExitWaitFails, StdinRecv, StdinEnds, ReadChunk,
           ReadEof, CloseRequest, IgnoreAnswer, ReadClosedFd, vars, child
<1> QED
  BY <1>10, <1>11, <1>12, <1>13, <1>14, <1>15 DEF TypeOK

-----------------------------------------------------------------------------
(* Where the actors go. *)

(* Nobody else moves. *)
Elsewhere(a) ==
  /\ \A x \in Actors \ {a} : pc'[x] = pc[x] /\ msg'[x] = msg[x]
  /\ \A st \in Streams \ {a} : taken'[st] = taken[st]

(* Where the message an actor sends takes it. *)
Goal(a) ==
  IF a = "main" THEN "final" ELSE IF msg[a][1] = "data" THEN "select" ELSE "flush"

(* An actor moves with the message it has. *)
Moves(a, from, to) ==
  /\ Elsewhere(a)
  /\ pc[a] \in from /\ pc'[a] \in to /\ msg'[a] = msg[a]
  /\ taken' = taken

(* An actor begins to send. *)
Begins(a, from, m) ==
  /\ Elsewhere(a)
  /\ pc[a] \in from /\ pc'[a] = "pre" /\ msg'[a] = m

(* A step of an actor that adds nothing to what is said. *)
Quiet(a) ==
  \/ a = "main" /\ RecvExec /\ Moves(a, {"exec"}, {"spawn"})
  \/ a = "main" /\ RecvExec /\ Begins(a, {"exec"}, Error)
  \/ a = "main" /\ Spawn /\ (Begins(a, {"spawn"}, Started) \/ Begins(a, {"spawn"}, Error))
  \/ a = "main" /\ Join /\ Settled /\ Begins(a, {"join"}, Error)
  \/ a = "main" /\ Join /\ (\A t \in Tasks : pc[t] = "done") /\ Moves(a, {"join"}, {"final"})
  \/ a = "main" /\ Final /\ Moves(a, {"final"}, {"final", "done"})
  \/ a = "main" /\ SendFails(a) /\ msg[a] = Error /\ Moves(a, {"pre", "post"}, {"final"})
  \/ a \in Tasks /\ SendFails(a) /\ Moves(a, {"pre", "post", "flush"}, {"failed"})
  \/ Pass(a) /\ Moves(a, {"post"}, {Goal(a)})
  \/ a \in Tasks /\ Flush(a) /\ Moves(a, {"flush"}, {"flush", "done"})
  \/ a = "exit" /\ (ExitFails \/ ExitWaitFails) /\ Moves(a, {"select"}, {"failed"})
  \/ a = "exit" /\ ExitWait /\ taken' = taken /\ Begins(a, {"select"}, Exited)
  \/ a = "stdin" /\ (StdinRecv \/ StdinWrite \/ StdinEnds)
       /\ Moves(a, {"recv", "write"}, {"recv", "write", "failed"})
  \/ a = "stdin" /\ (StdinRecv \/ StdinEnds) /\ taken' = taken
       /\ Begins(a, {"recv"}, ClosedMsg(a))
  \/ a \in Streams /\ ReadChunk(a) /\ taken'[a] = taken[a] + 1
       /\ Begins(a, {"select"}, DataMsg(a, taken'[a]))
  \/ a \in Streams /\ ReadEof(a) /\ taken' = taken /\ Begins(a, {"select"}, ClosedMsg(a))
  \/ a \in Streams /\ (CloseRequest(a) \/ ReadClosedFd(a)) /\ Moves(a, {"select"}, {"failed"})

(* main begins the tasks when it has said that the child has started.       *)
Begun ==
  /\ msg["main"] = Started /\ Fresh /\ Unborn /\ Said = << >>
  /\ pc' = [x \in Actors |-> Beginning(x)] /\ msg' = msg /\ taken' = taken

(* An actor whose message enters begins the tasks, or moves on itself, at   *)
(* once or after a wait; main does not wait before the tasks are there.     *)
LEMMA Entering ==
  ASSUME TypeOK, Places, Phases, Words, NEW a \in Actors, Enter(a)
  PROVE  /\ pc[a] = "pre"
         /\ \/ a = "main" /\ Begun
            \/ /\ Moves(a, {"pre"}, {"post", Goal(a)})
               /\ a = "main" => msg[a] = Error /\ (Unborn => pc'[a] = "final")
<1>1. /\ pc[a] = "pre" /\ msg' = msg /\ taken' = taken
      /\ pc' = After(a) \/ pc' = [pc EXCEPT ![a] = "post"]
  BY DEF Enter, Goto, held
<1>2. pc \in [Actors -> {"unborn", "exec", "spawn", "join", "final", "select",
                        "recv", "write", "pre", "post", "flush", "done", "failed"}]
  BY DEF TypeOK
<1>3. a = "main" /\ Unborn => /\ Fresh /\ Said = << >>
                              /\ pc' = After(a) /\ pc' # [pc EXCEPT ![a] = "post"]
  <2> SUFFICES ASSUME a = "main", Unborn
               PROVE  /\ Fresh /\ Said = << >>
                      /\ pc' = After(a) /\ pc' # [pc EXCEPT ![a] = "post"]
    OBVIOUS
  <2>1. Fresh /\ Said = << >>
    BY <1>1 DEF Fresh, Words
  <2>2. pc' = After(a)
    BY <2>1, SaidGrows
  <2>3. After(a)[a] \in {"join", "final"}
    BY <1>1, <1>2, Onwards, AgentAssumption DEF Beginning
  <2> QED
    BY <1>2, <2>1, <2>2, <2>3
<1>4. a = "main" /\ msg[a] = Started => Unborn
  BY <1>1, Verbs DEF Phases
<1>5. CASE a = "main" /\ msg[a] = Started
  BY <1>1, <1>3, <1>4, <1>5, Onwards, Verbs, AgentAssumption DEF Begun
<1>6. CASE ~(a = "main" /\ msg[a] = Started)
  <2>1. a = "main" => msg[a] = Error
    BY <1>1, <1>6 DEF Places, Place
  <2>2. After(a) = [pc EXCEPT ![a] = Goal(a)]
    <3>1. msg[a] = ClosedMsg(a) \/ msg[a] = Exited => msg[a][1] # "data"
      BY Verbs
    <3>2. \A n : msg[a] = DataMsg(a, n) => msg[a][1] = "data"
      BY Verbs
    <3> QED
      BY <1>1, <1>6, <3>1, <3>2, Onwards, AgentAssumption DEF Goal
  <2>3. Elsewhere(a) /\ pc'[a] \in {"post", Goal(a)}
    BY <1>1, <1>2, <2>2 DEF Elsewhere
  <2>4. a = "main" /\ Unborn => pc'[a] = "final"
    BY <1>1, <1>2, <1>3, <2>2 DEF Goal
  <2> QED
    BY <1>1, <2>1, <2>3, <2>4 DEF Moves
<1> QED
  BY <1>1, <1>5, <1>6

(* Any other step moves one actor at most, and tells nothing.  main can     *)
(* always report the start: nothing has been said before that could fail.   *)
LEMMA Course ==
  ASSUME TypeOK, Places, Phases, Words, [Next]_vars, ~(\E a \in Actors : Enter(a))
  PROVE  UNCHANGED <<pc, msg, taken>> \/ \E a \in Actors : Quiet(a)
<1> DEFINE States == {"unborn", "exec", "spawn", "join", "final", "select",
                      "recv", "write", "pre", "post", "flush", "done", "failed"}
<1>1. /\ pc \in [Actors -> States] /\ msg \in [Actors -> Messages]
      /\ "main" \in Actors /\ Streams \subseteq Actors /\ Tasks \subseteq Actors
      /\ "exit" \in Tasks /\ "stdin" \in Tasks /\ Streams \subseteq Tasks
      /\ taken \in [Streams -> 0 .. MaxChunks] /\ "main" \notin Tasks
  BY AgentAssumption DEF TypeOK, Actors, Tasks
<1>2. ASSUME NEW a \in Actors, NEW w, Goto(a, w), msg' = msg, taken' = taken
      PROVE  Moves(a, {pc[a]}, {w})
  BY <1>1, <1>2 DEF Moves, Elsewhere, Goto
<1>3. ASSUME NEW a \in Actors, UNCHANGED <<pc, msg, taken>>
      PROVE  Moves(a, {pc[a]}, {pc[a]})
  BY <1>3 DEF Moves, Elsewhere
<1>4. ASSUME NEW a \in Actors, NEW m, BeginSend(a, m), taken' = taken
      PROVE  Begins(a, {pc[a]}, m)
  BY <1>1, <1>4 DEF Begins, Elsewhere, Goto, BeginSend
<1>5. ASSUME NEW a \in Actors, Pass(a)
      PROVE  Quiet(a)
  <2>1. pc[a] = "post" /\ pc' = After(a) /\ msg' = msg /\ taken' = taken
    BY <1>5 DEF Pass, held
  <2>2. ~(a = "main" /\ msg[a] = Started)
    BY <2>1, Verbs DEF Phases
  <2>3. After(a) = [pc EXCEPT ![a] = Goal(a)]
    <3>1. msg[a] = ClosedMsg(a) \/ msg[a] = Exited => msg[a][1] # "data"
      BY Verbs
    <3>2. \A n : msg[a] = DataMsg(a, n) => msg[a][1] = "data"
      BY Verbs
    <3> QED
      BY <2>1, <2>2, <3>1, <3>2, Onwards, AgentAssumption DEF Goal
  <2>4. Moves(a, {pc[a]}, {Goal(a)})
    BY <1>2, <2>1, <2>3 DEF Goto
  <2> QED
    BY <1>5, <2>1, <2>4 DEF Quiet
<1>6. ASSUME NEW a \in Actors, Flush(a)
      PROVE  Quiet(a)
  <2>1. a \in Tasks
    BY <1>6 DEF Flush, Places, Place, Actors, Tasks
  <2>2. Moves(a, {"flush"}, {"flush", "done"})
    BY <1>2, <1>3, <1>6 DEF Flush, AfterFlush, Moves, held
  <2> QED
    BY <1>6, <2>1, <2>2 DEF Quiet
<1>7. ASSUME NEW a \in Actors, SendFails(a)
      PROVE  Quiet(a)
  <2>1. pc[a] \in {"pre", "post", "flush"} /\ taken' = taken /\ inflight # << >>
    BY <1>7 DEF SendFails, held, Idle
  <2>2. CASE a = "main"
    <3>1. pc[a] \in {"pre", "post"}
      BY <2>1, <2>2 DEF Places, Place
    <3>2. msg[a] # Started
      <4>1. msg[a] = Started => Fresh
        BY <2>2, <3>1, Verbs DEF Phases, Fresh
      <4> QED
        BY <2>1, <4>1, SaidTyped DEF Words
    <3>3. Goto(a, "final") /\ msg' = msg /\ msg[a] = Error
      BY <1>1, <1>7, <2>2, <3>2, Failing
    <3>4. Moves(a, {"pre", "post"}, {"final"})
      BY <1>2, <2>1, <3>1, <3>3 DEF Moves
    <3> QED
      BY <1>7, <2>2, <3>3, <3>4 DEF Quiet
  <2>3. CASE a \in Tasks
    <3>1. Goto(a, "failed") /\ msg' = msg
      BY <1>1, <1>7, <2>3, Failing
    <3>2. Moves(a, {"pre", "post", "flush"}, {"failed"})
      BY <1>2, <2>1, <3>1 DEF Moves
    <3> QED
      BY <1>7, <2>3, <3>2 DEF Quiet
  <2> QED
    BY <2>2, <2>3 DEF Actors
<1>8. CASE RecvExec
  <2>1. /\ pc["main"] = "exec" /\ taken' = taken
        /\ (Goto("main", "spawn") /\ msg' = msg) \/ BeginSend("main", Error)
    BY <1>8 DEF RecvExec, held
  <2> QED
    BY <1>1, <1>2, <1>4, <1>8, <2>1 DEF Quiet
<1>9. CASE Spawn
  <2>1. /\ pc["main"] = "spawn" /\ taken' = taken
        /\ BeginSend("main", Started) \/ BeginSend("main", Error)
    BY <1>9 DEF Spawn, ReportStarted, held
  <2> QED
    BY <1>1, <1>4, <1>9, <2>1 DEF Quiet
<1>10. CASE Join
  <2>1. /\ pc["main"] = "join" /\ taken' = taken /\ Settled
        /\ \/ BeginSend("main", Error)
           \/ (\A t \in Tasks : pc[t] = "done") /\ Goto("main", "final") /\ msg' = msg
    BY <1>10 DEF Join, JoinReady, Settled, held
  <2> QED
    BY <1>1, <1>2, <1>4, <1>10, <2>1 DEF Quiet
<1>11. CASE Final
  <2>1. /\ pc["main"] = "final" /\ taken' = taken /\ msg' = msg
        /\ pc' = pc \/ Goto("main", "done")
    BY <1>11 DEF Final, held
  <2>2. Moves("main", {"final"}, {"final", "done"})
    BY <1>1, <1>2, <1>3, <2>1 DEF Moves
  <2> QED
    BY <1>1, <1>11, <2>2 DEF Quiet
<1>12. CASE ExitFails \/ ExitWaitFails
  <2>1. pc["exit"] = "select" /\ taken' = taken /\ msg' = msg /\ Goto("exit", "failed")
    BY <1>12 DEF ExitFails, ExitWaitFails, held
  <2> QED
    BY <1>1, <1>2, <1>12, <2>1 DEF Quiet
<1>13. CASE ExitWait
  <2>1. pc["exit"] = "select" /\ taken' = taken /\ BeginSend("exit", Exited)
    BY <1>13 DEF ExitWait, held
  <2> QED
    BY <1>1, <1>4, <1>13, <2>1 DEF Quiet
<1>14. CASE StdinRecv \/ StdinWrite \/ StdinEnds
  <2>1. taken' = taken
    BY <1>14 DEF StdinRecv, StdinWrite, StdinEnds, held
  <2>2. CASE BeginSend("stdin", ClosedMsg("stdin")) /\ pc["stdin"] = "recv" /\ ~StdinWrite
    BY <1>1, <1>4, <1>14, <2>1, <2>2 DEF Quiet
  <2>3. CASE /\ \/ Goto("stdin", "recv") \/ Goto("stdin", "write") \/ Goto("stdin", "failed")
                \/ pc' = pc
             /\ msg' = msg /\ pc["stdin"] \in {"recv", "write"}
    <3>1. Moves("stdin", {"recv", "write"}, {"recv", "write", "failed"})
      BY <1>1, <1>2, <1>3, <2>1, <2>3 DEF Moves
    <3> QED
      BY <1>1, <1>14, <3>1 DEF Quiet
  <2>4. pc["stdin"] = "recv" => ~StdinWrite
    BY DEF StdinWrite
  <2> QED
    BY <1>14, <2>2, <2>3, <2>4, Input DEF StdinWrite, StdinEnds, EndOfInput
<1>15. ASSUME NEW st \in Streams, ReadChunk(st)
       PROVE  Quiet(st)
  <2>1. /\ pc[st] = "select" /\ taken' = [taken EXCEPT ![st] = @ + 1]
        /\ BeginSend(st, DataMsg(st, taken[st] + 1))
    BY <1>15 DEF ReadChunk
  <2>2. taken'[st] = taken[st] + 1 /\ \A x \in Streams \ {st} : taken'[x] = taken[x]
    BY <1>1, <2>1
  <2>3. Begins(st, {"select"}, DataMsg(st, taken'[st]))
    BY <1>1, <2>1, <2>2 DEF Begins, Elsewhere, BeginSend, Goto
  <2> QED
    BY <1>15, <2>2, <2>3 DEF Quiet
<1>16. ASSUME NEW st \in Streams, ReadEof(st)
       PROVE  Quiet(st)
  <2>1. pc[st] = "select" /\ taken' = taken /\ BeginSend(st, ClosedMsg(st))
    BY <1>16 DEF ReadEof, held
  <2> QED
    BY <1>1, <1>4, <1>16, <2>1 DEF Quiet
<1>17. ASSUME NEW st \in Streams, CloseRequest(st) \/ ReadClosedFd(st)
       PROVE  UNCHANGED <<pc, msg, taken>> \/ Quiet(st)
  <2>1. /\ pc[st] = "select" /\ taken' = taken /\ msg' = msg
        /\ pc' = pc \/ Goto(st, "failed")
    BY <1>17 DEF CloseRequest, ReadClosedFd, held
  <2> QED
    BY <1>1, <1>2, <1>17, <2>1 DEF Quiet
<1>18. CASE Host \/ Child \/ ExitKill \/ (\E st \in Streams : IgnoreAnswer(st)) \/ UNCHANGED vars
  BY <1>18 DEF Host, Child, HostSend, HostEnd, HostRead, HostBreak, ChildWrite,
         ChildClose, ChildRead, ChildCloseStdin, ChildExit, ExitKill, IgnoreAnswer, vars, held
<1> HIDE DEF States
<1> QED
  BY <1>1, <1>5, <1>6, <1>7, <1>8, <1>9, <1>10, <1>11, <1>12, <1>13, <1>14, <1>15, <1>16,
     <1>17, <1>18
     DEF Next, Agent, Sending, MainStep, ExitStep, StdinStep, StreamStep

(* Everybody stays where he may be.                                         *)
LEMMA PlacesStep ==
  ASSUME TypeOK, Places, Phases, Words, [Next]_vars
  PROVE  Places'
<1>1. /\ "main" \in Actors /\ "main" \notin Tasks /\ Streams \subseteq Tasks
      /\ Tasks \subseteq Actors /\ "exit" \notin Streams /\ "stdin" \notin Streams
      /\ "exit" \in Tasks /\ "stdin" \in Tasks
      /\ taken \in [Streams -> Nat]
  BY AgentAssumption DEF TypeOK, Actors, Tasks
<1>2. ASSUME NEW a \in Actors, Elsewhere(a), Place(a)'
      PROVE  Places'
  <2> SUFFICES ASSUME NEW x \in Actors, x # a
               PROVE  Place(x)'
    BY <1>2 DEF Places
  <2>1. pc'[x] = pc[x] /\ msg'[x] = msg[x] /\ (x \in Streams => taken'[x] = taken[x])
    BY <1>2 DEF Elsewhere
  <2>2. Place(x)
    BY DEF Places
  <2> QED
    BY <2>1, <2>2, Zenon DEF Place
<1>3. CASE Begun
  <2>1. \A x \in Actors : pc'[x] = Beginning(x) /\ msg'[x] = msg[x]
    BY <1>3 DEF Begun
  <2>2. \A x \in Tasks : Beginning(x) \in {"recv", "select"}
    BY <1>1 DEF Beginning
  <2>3. Beginning("main") = "join"
    BY DEF Beginning
  <2> SUFFICES ASSUME NEW x \in Actors
               PROVE  Place(x)'
    BY DEF Places
  <2>4. CASE x = "main"
    BY <1>1, <2>1, <2>3, <2>4 DEF Place
  <2>5. CASE x \in Tasks
    BY <1>1, <2>1, <2>2, <2>5 DEF Place
  <2> QED
    BY <2>4, <2>5 DEF Actors
<1>4. ASSUME NEW a \in Actors, Enter(a), Moves(a, {"pre"}, {"post", Goal(a)})
      PROVE  Places'
  <2>1. /\ Elsewhere(a) /\ pc[a] = "pre" /\ pc'[a] \in {"post", Goal(a)}
        /\ msg'[a] = msg[a] /\ taken' = taken /\ Place(a)
    BY <1>4 DEF Moves, Places
  <2>2. Goal(a) # "flush" => (a = "main" /\ Goal(a) = "final") \/ Goal(a) = "select"
    BY DEF Goal
  <2>3. a # "main" /\ Goal(a) = "flush" => msg[a][1] # "data"
    BY DEF Goal
  <2>4. \A n : DataMsg(a, n)[1] = "data"
    BY DEF DataMsg
  <2>5. a = "main" => Goal(a) = "final"
    BY DEF Goal
  <2>6. Place(a)'
    BY <1>1, <2>1, <2>2, <2>3, <2>4, <2>5 DEF Place
  <2> QED
    BY <1>2, <2>1, <2>6
<1>5. ASSUME NEW a \in Actors, Quiet(a)
      PROVE  Places'
  <2>1. Place(a)
    BY DEF Places
  <2>2. Elsewhere(a)
    BY <1>5 DEF Quiet, Moves, Begins
  <2>3. /\ (a # "main" /\ Goal(a) = "flush" => msg[a][1] # "data")
        /\ Goal(a) \in {"final", "select", "flush"}
        /\ (a = "main" <=> Goal(a) = "final")
        /\ \A n : DataMsg(a, n)[1] = "data"
    BY DEF Goal, DataMsg
  <2>4. Place(a)'
    BY <1>1, <1>5, <2>1, <2>3 DEF Quiet, Moves, Begins, Place
  <2> QED
    BY <1>2, <2>2, <2>4
<1>6. CASE UNCHANGED <<pc, msg, taken>>
  BY <1>6 DEF Places, Place
<1> QED
  BY <1>3, <1>4, <1>5, <1>6, Entering, Course

(* The tasks move only while main waits for them, and main only while they  *)
(* do not.                                                                  *)
LEMMA PhasesStep ==
  ASSUME TypeOK, Places, Phases, Words, [Next]_vars
  PROVE  Phases'
<1>1. /\ "main" \in Actors /\ "main" \notin Tasks /\ Tasks \subseteq Actors
      /\ "exit" \in Tasks /\ Streams \subseteq Tasks /\ \A x \in Actors : x = "main" \/ x \in Tasks
  BY AgentAssumption DEF Actors, Tasks
<1>2. ASSUME NEW a \in Tasks, Elsewhere(a), pc'[a] # "unborn",
             pc[a] \notin {"unborn", "done", "failed"}
      PROVE  Phases'
  <2>1. ~Unborn /\ ~Settled
    BY <1>2 DEF Unborn, Settled
  <2>2. pc["main"] = "join"
    BY <1>1, <2>1 DEF Phases, Places, Place
  <2>3. pc'["main"] = "join" /\ \A t \in Tasks : pc'[t] # "unborn"
    BY <1>1, <1>2, <2>1, <2>2 DEF Elsewhere, Phases, Unborn
  <2> QED
    BY <1>1, <2>3 DEF Phases, Unborn
<1>3. CASE Begun
  <2>1. pc'["main"] = "join" /\ \A t \in Tasks : pc'[t] # "unborn"
    BY <1>1, <1>3 DEF Begun, Beginning
  <2> QED
    BY <1>1, <2>1 DEF Phases, Unborn
<1>4. ASSUME Elsewhere("main")
      PROVE  \A t \in Tasks : pc'[t] = pc[t]
  BY <1>1, <1>4 DEF Elsewhere
<1>5. ASSUME NEW a \in Actors, Enter(a), Moves(a, {"pre"}, {"post", Goal(a)}),
             a = "main" => msg[a] = Error /\ (Unborn => pc'[a] = "final")
      PROVE  Phases'
  <2>1. CASE a \in Tasks
    BY <1>2, <1>5, <2>1 DEF Moves, Goal
  <2>2. CASE a = "main"
    <3>1. /\ pc[a] = "pre" /\ pc'[a] \in {"post", "final"} /\ msg'[a] = Error
          /\ \A t \in Tasks : pc'[t] = pc[t]
      BY <1>4, <1>5, <2>2 DEF Moves, Goal
    <3> QED
      BY <1>5, <2>2, <3>1 DEF Phases, Unborn, Settled
  <2> QED
    BY <1>1, <2>1, <2>2
<1>6. ASSUME NEW a \in Actors, Quiet(a)
      PROVE  Phases'
  <2>1. CASE a \in Tasks
    <3>1. /\ Elsewhere(a) /\ pc'[a] # "unborn"
          /\ pc[a] \notin {"unborn", "done", "failed"}
      BY <1>1, <1>6, <2>1 DEF Quiet, Moves, Begins, Goal
    <3> QED
      BY <1>2, <2>1, <3>1
  <2>2. CASE a = "main"
    <3>1. \A t \in Tasks : pc'[t] = pc[t]
      BY <1>4, <1>6, <2>2 DEF Quiet, Moves, Begins
    <3>2. \/ pc["main"] = "exec" /\ pc'["main"] = "spawn"
          \/ pc["main"] \in {"exec", "spawn"} /\ pc'["main"] = "pre"
          \/ pc["main"] = "join" /\ Settled /\ pc'["main"] = "pre" /\ msg'["main"] = Error
          \/ pc["main"] = "join" /\ Settled /\ pc'["main"] = "final"
          \/ pc["main"] \in {"pre", "post", "final"} /\ pc'["main"] \in {"final", "done"}
      BY <1>1, <1>6, <2>2 DEF Quiet, Moves, Begins, Goal, Settled
    <3>3. /\ Unborn => Unborn'
          /\ Unborn' => Unborn
          /\ Settled => Settled'
          /\ (\A t \in Tasks : pc[t] # "unborn") => (\A t \in Tasks : pc[t] # "unborn")'
      BY <3>1 DEF Unborn, Settled
    <3> QED
      BY <3>2, <3>3 DEF Phases
  <2> QED
    BY <1>1, <2>1, <2>2
<1>7. CASE UNCHANGED <<pc, msg, taken>>
  BY <1>7 DEF Phases, Unborn, Settled
<1> QED
  BY <1>3, <1>5, <1>6, <1>7, Entering, Course

-----------------------------------------------------------------------------
(* What has been said. *)

(* A connection that is down stays down, and while it is up no batch is     *)
(* lost; an empty buffer and an idle writer stay so until something enters. *)
LEMMA Wires ==
  ASSUME [Next]_vars
  PROVE  /\ conn' = "up" => conn = "up"
         /\ conn' = "up" => ~(\E a \in Actors : SendFails(a))
         /\ inflight = << >> /\ buf = << >> /\ ~(\E a \in Actors : Enter(a)) =>
              inflight' = << >> /\ buf' = << >>
<1> USE DEF Next, Host, Child, Agent, Sending, MainStep, ExitStep, StdinStep, StreamStep,
           HostSend, HostEnd, HostRead, HostBreak, ChildWrite, ChildClose, ChildRead,
           ChildCloseStdin, ChildExit, Pass, Flush, SendFails, RecvExec, Spawn, Join, Final,
           ExitKill, ExitFails, ExitWait, ExitWaitFails, StdinRecv, StdinEnds, StdinWrite, ReadChunk,
           ReadEof, CloseRequest, IgnoreAnswer, ReadClosedFd, vars, output
<1>1. conn' = "up" => conn = "up"
  BY DEF Enter
<1>2. conn' = "up" => ~(\E a \in Actors : SendFails(a))
  BY DEF SendFails
<1>3. inflight = << >> /\ buf = << >> /\ ~(\E a \in Actors : Enter(a)) =>
        inflight' = << >> /\ buf' = << >>
  BY DEF Transmit
<1> QED
  BY <1>1, <1>2, <1>3

(* A message that enters is the next word of the one who sends it.          *)
LEMMA WordsGrow ==
  ASSUME TypeOK, Places, Phases, Words, [Next]_vars, Phases',
         NEW a \in Actors, Enter(a)
  PROVE  Words'
<1>1. /\ "main" \in Actors /\ "main" \notin Tasks /\ Streams \subseteq Tasks
      /\ "exit" \in Tasks /\ "stdin" \in Tasks /\ "exit" \notin Streams
      /\ "stdin" \notin Streams /\ \A x \in Actors : x = "main" \/ x \in Tasks
      /\ msg[a] \in Messages /\ \A x \in Tasks : x = "exit" \/ x = "stdin" \/ x \in Streams
  BY AgentAssumption DEF Actors, Tasks, TypeOK
<1>2. /\ Range(Said') = Range(Said) \cup {msg[a]} /\ Said' # << >>
      /\ conn' = conn /\ pc[a] = "pre"
  BY <1>1, SaidGrows, GrowsBy DEF Enter
<1>3. Place(a)
  BY DEF Places
<1>4. CASE Begun
  <2>1. /\ pc'["main"] = "join" /\ pc'["exit"] = "select" /\ pc'["stdin"] = "recv"
        /\ msg["main"] = Started /\ a = "main"
    <3>1. a = "main"
      BY <1>1, <1>2, <1>4 DEF Begun, Unborn
    <3> QED
      BY <1>1, <1>4, <3>1 DEF Begun, Beginning, Actors, Tasks
  <2>2. Range(Said') = {Started}
    <3>1. Said = << >>
      BY <1>4 DEF Begun
    <3>2. Range(<< >>) = {}
      BY DEF Range
    <3> QED
      BY <1>2, <2>1, <3>1, <3>2
  <2> QED
    BY <1>2, <2>1, <2>2, Verbs DEF Words, Fresh
<1>5. CASE /\ Moves(a, {"pre"}, {"post", Goal(a)})
           /\ a = "main" => msg[a] = Error /\ (Unborn => pc'[a] = "final")
  <2>1. /\ pc'[a] \in {"post", Goal(a)}
        /\ \A x \in Actors \ {a} : pc'[x] = pc[x]
    BY <1>5 DEF Moves, Elsewhere
  <2>2. CASE a = "main"
    <3>1. pc'["main"] \in {"post", "final"} /\ \A t \in Tasks : pc'[t] = pc[t]
      BY <1>1, <2>1, <2>2 DEF Goal, Actors
    <3>2. Exited \in Range(Said') <=> Exited \in Range(Said)
      BY <1>2, <1>5, <2>2, Verbs
    <3>3. Error \in Range(Said') /\ ClosedMsg("stdin") # Error
      BY <1>2, <1>5, <2>2, Verbs
    <3> QED
      BY <1>1, <1>2, <3>1, <3>2, <3>3 DEF Words, Fresh
  <2>3. CASE a \in Tasks
    <3>1. /\ pc'["main"] = pc["main"] /\ pc'[a] \in {"post", "flush", "select"}
          /\ ~Unborn /\ ~Settled /\ ~(\A t \in Tasks : pc[t] = "done")
      BY <1>1, <1>2, <2>1, <2>3 DEF Unborn, Settled, Goal
    <3>2. pc["main"] = "join"
      BY <1>1, <3>1 DEF Phases, Places, Place
    <3>3. ~Fresh /\ ~Fresh'
      BY <3>1, <3>2 DEF Fresh
    <3>4. msg[a] # Error
      BY <1>1, <1>2, <1>3, <2>3, Verbs DEF Place
    <3>5. msg[a] = Exited => a = "exit"
      BY <1>1, <1>2, <1>3, <2>3, Verbs DEF Place
    <3>6. a = "exit" => msg[a] = Exited /\ pc'[a] \in {"post", "flush"}
      BY <1>1, <1>2, <1>3, <2>1, <2>3, Verbs DEF Place, Goal
    <3>7. a = "stdin" => msg[a] = ClosedMsg("stdin")
      BY <1>2, <1>3 DEF Place
    <3>8. Error \notin Range(Said')
      BY <1>2, <3>2, <3>4 DEF Words
    <3>9. Exited \in Range(Said') => pc'["exit"] \in {"post", "flush", "done", "failed"}
      BY <1>1, <1>2, <2>1, <3>5, <3>6 DEF Words, Actors
    <3>10. conn = "up" /\ pc'["exit"] \in {"post", "flush", "done"} => Exited \in Range(Said')
      BY <1>1, <1>2, <2>1, <3>6 DEF Words, Actors
    <3>11. conn = "up" /\ pc'["stdin"] \in {"post", "flush", "done"} =>
             ClosedMsg("stdin") \in Range(Said')
      BY <1>1, <1>2, <2>1, <3>7 DEF Words, Actors
    <3> QED
      BY <1>2, <3>1, <3>2, <3>3, <3>8, <3>9, <3>10, <3>11 DEF Words
  <2> QED
    BY <1>1, <2>2, <2>3
<1> QED
  BY <1>4, <1>5, Entering

(* When nothing enters, nobody is further in what he has said.              *)
LEMMA WordsKeep ==
  ASSUME TypeOK, Places, Phases, Words, [Next]_vars, Phases',
         ~(\E a \in Actors : Enter(a))
  PROVE  Words'
<1>1. /\ "main" \in Actors /\ "main" \notin Tasks /\ Streams \subseteq Tasks
      /\ "exit" \in Tasks /\ "stdin" \in Tasks /\ "exit" \notin Streams
      /\ "stdin" \notin Streams /\ \A x \in Actors : x = "main" \/ x \in Tasks
      /\ Tasks \subseteq Actors
  BY AgentAssumption DEF Actors, Tasks
<1>2. /\ Range(Said') \subseteq Range(Said)
      /\ Said = << >> => Said' = << >>
      /\ conn' = "up" => Said' = Said /\ conn = "up" /\ ~(\E a \in Actors : SendFails(a))
      /\ inflight = << >> /\ buf = << >> => inflight' = << >> /\ buf' = << >>
  BY SaidStep, SaidDrops, Wires
<1>3. CASE UNCHANGED <<pc, msg, taken>>
  <2>1. Fresh' <=> Fresh
    BY <1>3 DEF Fresh, Unborn
  <2> QED
    BY <1>2, <1>3, <2>1 DEF Words
<1>4. ASSUME NEW a \in Tasks, Quiet(a)
      PROVE  Words'
  <2>1. /\ Elsewhere(a) /\ pc'[a] # "unborn"
        /\ pc[a] \notin {"unborn", "done", "failed"}
    BY <1>1, <1>4 DEF Quiet, Moves, Begins, Goal
  <2>2. ~Unborn /\ ~Settled /\ pc'["main"] = pc["main"]
    BY <1>1, <2>1 DEF Unborn, Settled, Elsewhere
  <2>3. pc["main"] = "join"
    BY <1>1, <2>2 DEF Phases, Places, Place
  <2>4. ~Fresh /\ ~Fresh'
    BY <2>2, <2>3 DEF Fresh
  <2>5. pc["exit"] \in {"post", "flush", "done", "failed"} =>
          pc'["exit"] \in {"post", "flush", "done", "failed"}
    <3>1. CASE a = "exit"
      <4>1. pc[a] = "post" => Goal(a) = "flush"
        BY <1>1, <3>1, Verbs DEF Places, Place, Goal
      <4> QED
        BY <1>1, <1>4, <3>1, <4>1 DEF Quiet, Moves, Begins
    <3>2. CASE a # "exit"
      BY <1>1, <2>1, <3>2 DEF Elsewhere
    <3> QED
      BY <3>1, <3>2
  <2>6. ASSUME conn' = "up", NEW x \in {"exit", "stdin"}, pc'[x] \in {"post", "flush", "done"}
        PROVE  pc[x] \in {"post", "flush", "done"}
    <3>1. CASE x = a
      <4>1. pc'[a] # "pre" /\ pc'[a] # "failed" /\ a \notin Streams
        BY <1>1, <2>6, <3>1
      <4> QED
        BY <1>1, <1>4, <2>6, <3>1, <4>1 DEF Quiet, Moves, Begins
    <3>2. CASE x # a
      BY <1>1, <2>1, <2>6, <3>2 DEF Elsewhere
    <3> QED
      BY <3>1, <3>2
  <2> QED
    BY <1>2, <2>2, <2>3, <2>4, <2>5, <2>6 DEF Words
<1>5. CASE Quiet("main")
  <2>1. \A t \in Tasks : pc'[t] = pc[t]
    BY <1>1, <1>5 DEF Quiet, Moves, Begins, Elsewhere
  <2>2. Unborn' <=> Unborn
    BY <2>1 DEF Unborn
  <2>3. \/ pc["main"] = "exec" /\ pc'["main"] = "spawn"
        \/ pc["main"] \in {"exec", "spawn"} /\ pc'["main"] = "pre"
        \/ pc["main"] = "join" /\ Settled /\ pc'["main"] = "pre"
        \/ /\ pc["main"] = "join" /\ (\A t \in Tasks : pc[t] = "done")
           /\ pc'["main"] = "final"
        \/ pc["main"] = "final" /\ pc'["main"] \in {"final", "done"} /\ Final
        \/ pc["main"] \in {"pre", "post"} /\ pc'["main"] = "final" /\ SendFails("main")
        \/ pc["main"] = "post" /\ pc'["main"] = "final"
    BY <1>1, <1>5 DEF Quiet, Moves, Begins, Goal
  <2>4. Settled => ~Unborn
    BY <1>1 DEF Settled, Unborn
  <2>5. Fresh' => Fresh
    BY <2>2, <2>3, <2>4 DEF Fresh
  <2>6. conn' = "up" /\ Fresh => Fresh'
    BY <1>1, <1>2, <2>2, <2>3 DEF Fresh, Phases
  <2>7. conn' = "up" /\ pc'["main"] = "done" => inflight' = << >> /\ buf' = << >>
    <3>1. ASSUME Final, conn' = "up", pc["main"] = "final", pc'["main"] = "done"
          PROVE  inflight' = << >> /\ buf' = << >>
      <4>1. conn = "up" /\ Idle /\ Transmit
        BY <1>2, <3>1 DEF Final
      <4>2. ~MoreToFlush
        BY <3>1 DEF Final
      <4> QED
        BY <4>1, <4>2 DEF MoreToFlush, Idle, Transmit
    <3> QED
      BY <1>1, <1>2, <2>3, <3>1
  <2>8. /\ Error \in Range(Said') => pc'["main"] \in {"post", "final", "done"}
        /\ conn' = "up" /\ pc'["main"] = "post" => Error \in Range(Said')
    BY <1>2, <2>3 DEF Words
  <2>9. conn' = "up" /\ pc'["main"] \in {"final", "done"} =>
          Error \in Range(Said') \/ \A t \in Tasks : pc'[t] = "done"
    BY <1>1, <1>2, <2>1, <2>3 DEF Words
  <2> QED
    BY <1>1, <1>2, <2>1, <2>5, <2>6, <2>7, <2>8, <2>9 DEF Words
<1> QED
  BY <1>1, <1>3, <1>4, <1>5, Course

(* Every step keeps the account of what has been said.                      *)
LEMMA WordsStep ==
  ASSUME TypeOK, Places, Phases, Words, [Next]_vars
  PROVE  Words'
BY PhasesStep, WordsGrow, WordsKeep

-----------------------------------------------------------------------------
(* The child. *)

(* A stream that is closed and read to the end stays so.                    *)
LEMMA Dry ==
  ASSUME TypeOK, [Next]_vars, NEW st \in Streams,
         taken[st] = written[st], ~open[st], ~Spawn
  PROVE  taken'[st] = written'[st] /\ ~open'[st]
<1>1. /\ taken \in [Streams -> 0 .. MaxChunks] /\ written \in [Streams -> 0 .. MaxChunks]
      /\ open \in [Streams -> BOOLEAN]
  BY DEF TypeOK
<1>2. CASE UNCHANGED <<taken, written, open>>
  BY <1>2
<1>3. ASSUME NEW x \in Streams, ReadChunk(x)
      PROVE  taken'[st] = written'[st] /\ ~open'[st]
  <2>1. x # st
    BY <1>1, <1>3, AgentAssumption DEF ReadChunk
  <2>2. taken' = [taken EXCEPT ![x] = @ + 1] /\ written' = written /\ open' = open
    BY <1>3 DEF ReadChunk, child
  <2> QED
    BY <1>1, <2>1, <2>2
<1>4. ASSUME NEW x \in Streams, ChildWrite(x)
      PROVE  taken'[st] = written'[st] /\ ~open'[st]
  <2>1. /\ x # st /\ taken' = taken /\ open' = open
        /\ written' = [written EXCEPT ![x] = @ + 1]
    BY <1>4 DEF ChildWrite, held
  <2> QED
    BY <1>1, <2>1
<1>5. ASSUME NEW x \in Streams, ChildClose(x)
      PROVE  taken'[st] = written'[st] /\ ~open'[st]
  BY <1>1, <1>5 DEF ChildClose, held
<1> QED
  BY <1>2, <1>3, <1>4, <1>5
     DEF Next, Host, Child, Agent, Sending, MainStep, ExitStep, StdinStep, StreamStep,
         HostSend, HostEnd, HostRead, HostBreak, ChildRead, ChildCloseStdin, ChildExit,
         Enter, Pass, Flush, SendFails, RecvExec, Join, Final, ExitKill, ExitFails,
         ExitWait, ExitWaitFails, StdinRecv, StdinEnds, StdinWrite, ReadEof, CloseRequest, IgnoreAnswer,
         ReadClosedFd, vars, child, held

(* A child is born by Spawn, dies by its exit and is waited for by the exit *)
(* task; a signal once sent is never taken back, nor a wait that failed.    *)
LEMMA Lives ==
  ASSUME TypeOK, Places, [Next]_vars
  PROVE  /\ proc' = proc \/ (Spawn /\ proc' = "running") \/ (ChildExit /\ proc = "running")
              \/ (ExitWait /\ proc' = "reaped")
         /\ doomed => doomed'
         /\ fault => fault'
<1>1. doomed \in BOOLEAN
  BY DEF TypeOK
<1>2. \A a \in Actors : SendFails(a) => proc' = proc /\ (doomed => doomed')
  BY <1>1, Failing DEF SendFails, KillProcess
<1>3. ExitKill \/ ExitFails => proc' = proc /\ (doomed => doomed')
  BY <1>1 DEF ExitKill, ExitFails, KillProcess
<1>4. doomed => doomed'
  BY <1>1, <1>2, <1>3
     DEF Next, Host, Child, Agent, Sending, MainStep, ExitStep, StdinStep, StreamStep,
         HostSend, HostEnd, HostRead, HostBreak, ChildWrite, ChildClose, ChildRead,
         ChildCloseStdin, ChildExit, Enter, Pass, Flush, RecvExec, Spawn, Join, Final,
         ExitWait, ExitWaitFails, StdinRecv, StdinEnds, StdinWrite, ReadChunk, ReadEof,
         CloseRequest, IgnoreAnswer, ReadClosedFd, vars, child, held
<1>5. \/ proc' = proc \/ (Spawn /\ proc' = "running") \/ (ChildExit /\ proc = "running")
      \/ (ExitWait /\ proc' = "reaped")
  BY <1>2, <1>3
     DEF Next, Host, Child, Agent, Sending, MainStep, ExitStep, StdinStep, StreamStep,
         HostSend, HostEnd, HostRead, HostBreak, ChildWrite, ChildClose, ChildRead,
         ChildCloseStdin, ChildExit, Enter, Pass, Flush, RecvExec, Spawn, Join, Final,
         ExitWait, ExitWaitFails, StdinRecv, StdinEnds, StdinWrite, ReadChunk, ReadEof,
         CloseRequest, IgnoreAnswer, ReadClosedFd, vars, child, held
<1>6. fault => fault'
  BY DEF Next, Host, Child, Agent, Sending, MainStep, ExitStep, StdinStep, StreamStep,
         HostSend, HostEnd, HostRead, HostBreak, ChildWrite, ChildClose, ChildRead,
         ChildCloseStdin, ChildExit, Enter, Pass, Flush, SendFails, RecvExec, Spawn, Join,
         Final, ExitKill, ExitFails, ExitWait, ExitWaitFails, StdinRecv, StdinEnds,
         StdinWrite, ReadChunk, ReadEof, CloseRequest, IgnoreAnswer, ReadClosedFd, vars, held
<1> QED
  BY <1>4, <1>5, <1>6

(* The exit task keeps a running child until it is waited for, or else has  *)
(* it killed, unless its wait fails; a stream is announced closed when it   *)
(* is.                                                                      *)
LEMMA FateStep ==
  ASSUME TypeOK, Places, Phases, Words, Fate, [Next]_vars
  PROVE  Fate'
<1>1. /\ "main" \in Actors /\ "main" \notin Tasks /\ Streams \subseteq Tasks
      /\ "exit" \in Tasks /\ "stdin" \in Tasks /\ "exit" \notin Streams
      /\ "stdin" \notin Streams /\ \A x \in Actors : x = "main" \/ x \in Tasks
      /\ Tasks \subseteq Actors
  BY AgentAssumption DEF Actors, Tasks
<1>2. Spawn => pc["main"] = "spawn" /\ Unborn
  BY DEF Spawn, Phases
<1>3. /\ \/ proc' = proc \/ (Spawn /\ proc' = "running") \/ (ChildExit /\ proc = "running")
         \/ (ExitWait /\ proc' = "reaped")
      /\ doomed => doomed'
      /\ fault => fault'
  BY Lives
<1>4. \A t \in Tasks : pc[t] \in {"pre", "post", "flush", "done"} => ~Spawn
  BY <1>2 DEF Unborn
<1>5. pc'["exit"] \in {"pre", "post", "flush", "done"} => proc' = "reaped"
  <2>1. pc["exit"] \in {"pre", "post", "flush", "done"} => proc' = "reaped"
    BY <1>1, <1>3, <1>4 DEF Fate
  <2>2. CASE Begun
    BY <1>1, <2>2 DEF Begun, Beginning
  <2>3. ASSUME NEW a \in Actors, Enter(a), Moves(a, {"pre"}, {"post", Goal(a)})
        PROVE  pc'["exit"] \in {"pre", "post", "flush", "done"} => proc' = "reaped"
    BY <1>1, <2>1, <2>3 DEF Moves, Elsewhere
  <2>4. ASSUME NEW a \in Actors, Quiet(a)
        PROVE  pc'["exit"] \in {"pre", "post", "flush", "done"} => proc' = "reaped"
    <3>1. CASE a = "exit"
      <4>1. ExitWait => proc' = "reaped"
        BY DEF ExitWait
      <4> QED
        BY <1>1, <2>1, <2>4, <3>1, <4>1 DEF Quiet, Moves, Begins
    <3>2. CASE a # "exit"
      BY <1>1, <2>1, <2>4, <3>2 DEF Quiet, Moves, Begins, Elsewhere
    <3> QED
      BY <3>1, <3>2
  <2>5. CASE UNCHANGED <<pc, msg, taken>>
    BY <2>1, <2>5
  <2> QED
    BY <2>2, <2>3, <2>4, <2>5, Entering, Course
<1>6. proc' = "running" => \/ doomed'
                           \/ fault'
                           \/ pc'["main"] = "pre" /\ msg'["main"] = Started
                           \/ pc'["main"] = "join" /\ pc'["exit"] = "select"
  <2> DEFINE Kept == \/ doomed'
                     \/ fault'
                     \/ pc'["main"] = "pre" /\ msg'["main"] = Started
                     \/ pc'["main"] = "join" /\ pc'["exit"] = "select"
  <2> SUFFICES ASSUME proc' = "running"
               PROVE  Kept
    OBVIOUS
  <2>1. CASE Spawn /\ proc' = "running" /\ proc' # proc
    <3>1. BeginSend("main", Started)
      BY <2>1 DEF Spawn, ReportStarted
    <3> QED
      BY <1>1, <3>1 DEF BeginSend, Goto, TypeOK
  <2>2. CASE proc = "running"
    <3>1. ~ExitWait
      BY <2>2 DEF ExitWait
    <3>2. CASE doomed \/ fault
      BY <1>3, <3>2
    <3>3. CASE pc["main"] = "pre" /\ msg["main"] = Started
      <4>1. Unborn
        BY <3>3, Verbs DEF Phases
      <4>2. ASSUME NEW a \in Actors, Enter(a)
            PROVE  Kept
        <5>1. a = "main"
          BY <1>1, <4>1, <4>2 DEF Enter, Unborn
        <5>2. Begun
          BY <3>3, <4>2, <5>1, Entering, Verbs
        <5> QED
          BY <1>1, <5>2 DEF Begun, Beginning
      <4>3. ASSUME NEW a \in Actors, Quiet(a)
            PROVE  Kept
        <5>1. a \notin Tasks
          BY <1>1, <4>1, <4>3 DEF Quiet, Moves, Begins, Unborn
        <5> QED
          BY <1>1, <3>3, <4>3, <5>1, Verbs DEF Quiet, Moves, Begins
      <4> QED
        BY <3>3, <4>2, <4>3, Course
    <3>4. CASE pc["main"] = "join" /\ pc["exit"] = "select"
      <4>1. ~Settled /\ ~Fresh
        BY <1>1, <3>4 DEF Settled, Fresh
      <4>2. ASSUME NEW a \in Actors, Enter(a)
            PROVE  Kept
        <5>1. a # "main" /\ a # "exit"
          BY <3>4, <4>2 DEF Enter
        <5>2. Moves(a, {"pre"}, {"post", Goal(a)})
          BY <4>2, <5>1, Entering
        <5> QED
          BY <1>1, <3>4, <5>1, <5>2 DEF Moves, Elsewhere
      <4>3. ASSUME NEW a \in Actors, Quiet(a)
            PROVE  Kept
        <5>1. (ExitFails => doomed') /\ (ExitWaitFails => fault')
          BY <2>2 DEF ExitFails, ExitWaitFails, KillProcess
        <5>2. CASE a = "exit"
          BY <1>1, <3>1, <3>4, <4>3, <5>1, <5>2 DEF Quiet, Moves, Begins
        <5>3. CASE a = "main"
          BY <1>1, <3>4, <4>1, <4>3, <5>3 DEF Quiet, Moves, Begins, Settled
        <5>4. CASE a # "exit" /\ a # "main"
          BY <1>1, <3>4, <4>3, <5>4 DEF Quiet, Moves, Begins, Elsewhere
        <5> QED
          BY <5>2, <5>3, <5>4
      <4> QED
        BY <3>4, <4>2, <4>3, Course
    <3> QED
      BY <2>2, <3>2, <3>3, <3>4 DEF Fate
  <2>3. CASE proc # "running" /\ ~(Spawn /\ proc' = "running" /\ proc' # proc)
    BY <1>3, <2>3
  <2> QED
    BY <2>1, <2>2, <2>3
<1>7. ASSUME NEW st \in Streams, pc'[st] \in {"pre", "post", "flush", "done"},
             msg'[st] = ClosedMsg(st)
      PROVE  taken'[st] = written'[st] /\ ~open'[st]
  <2>1. CASE pc[st] \in {"pre", "post", "flush", "done"} /\ msg[st] = ClosedMsg(st)
    BY <1>1, <1>4, <2>1, Dry DEF Fate
  <2>2. CASE ReadEof(st)
    BY <2>2 DEF ReadEof, AtEof, child, held
  <2>3. \/ pc[st] \in {"pre", "post", "flush", "done"} /\ msg[st] = ClosedMsg(st)
        \/ ReadEof(st)
    <3>1. CASE Begun
      BY <1>1, <1>7, <3>1 DEF Begun, Beginning
    <3>2. ASSUME NEW a \in Actors, Moves(a, {"pre"}, {"post", Goal(a)})
          PROVE  pc[st] \in {"pre", "post", "flush", "done"} /\ msg[st] = ClosedMsg(st)
      BY <1>1, <1>7, <3>2 DEF Moves, Elsewhere
    <3>3. ASSUME NEW a \in Actors, Quiet(a)
          PROVE  \/ pc[st] \in {"pre", "post", "flush", "done"} /\ msg[st] = ClosedMsg(st)
                 \/ ReadEof(st)
      <4>1. CASE a = st
        <5>1. \A n : DataMsg(st, n) # ClosedMsg(st)
          BY Verbs
        <5> QED
          BY <1>1, <1>7, <3>3, <4>1, <5>1 DEF Quiet, Moves, Begins
      <4>2. CASE a # st
        BY <1>1, <1>7, <3>3, <4>2 DEF Quiet, Moves, Begins, Elsewhere
      <4> QED
        BY <4>1, <4>2
    <3>4. CASE UNCHANGED <<pc, msg, taken>>
      BY <1>7, <3>4
    <3> QED
      BY <3>1, <3>2, <3>3, <3>4, Entering, Course
  <2> QED
    BY <2>1, <2>2, <2>3
<1> QED
  BY <1>5, <1>6, <1>7 DEF Fate

(* What is announced closed stays closed.                                   *)
LEMMA ClosedStep ==
  ASSUME TypeOK, Places, Phases, Words, Fate, ClosedMeansAll, [Next]_vars
  PROVE  ClosedMeansAll'
<1> SUFFICES ASSUME NEW st \in Streams, ClosedMsg(st) \in Range(Said')
             PROVE  taken'[st] = written'[st] /\ ~open'[st]
  BY DEF ClosedMeansAll
<1>1. st \in Tasks /\ st \in Actors
  BY DEF Actors, Tasks
<1>2. CASE ClosedMsg(st) \in Range(Said)
  <2>1. ~Spawn
    <3>1. Range(<< >>) = {}
      BY DEF Range
    <3> QED
      BY <1>2, <3>1 DEF Words, Fresh, Spawn
  <2> QED
    BY <1>2, <2>1, Dry DEF ClosedMeansAll
<1>3. CASE ClosedMsg(st) \notin Range(Said)
  <2>1. PICK a \in Actors : Enter(a) /\ Said' = Append(Said, msg[a])
    BY <1>3, SaidStep, SaidDrops
  <2>2. msg[a] = ClosedMsg(st) /\ pc[a] = "pre"
    <3>1. msg[a] \in Messages
      BY DEF TypeOK
    <3> QED
      BY <1>3, <2>1, <3>1, GrowsBy DEF Enter
  <2>3. a = st
    <3>1. Place(a)
      BY DEF Places
    <3>2. \A x : ClosedMsg(x) = ClosedMsg(st) => x = st
      BY DEF ClosedMsg
    <3> QED
      BY <2>2, <3>1, <3>2, Verbs DEF Place, Actors, Tasks
  <2>4. ~Spawn
    BY <1>1, <2>2, <2>3 DEF Spawn, Phases, Unborn
  <2> QED
    BY <2>2, <2>3, <2>4, Dry DEF Fate
<1> QED
  BY <1>2, <1>3

-----------------------------------------------------------------------------
(* The order of what is said. *)

(* The first to speak is main, and nobody speaks after its error; the exit  *)
(* task speaks once, of a child it has waited for.                          *)
LEMMA Speaking ==
  ASSUME TypeOK, Places, Phases, Words, Fate, NEW a \in Actors, Enter(a)
  PROVE  /\ Error \notin Range(Said)
         /\ conn = "up" /\ Said = << >> => msg[a] \in {Started, Error}
         /\ msg[a] = Started => Said = << >>
         /\ msg[a] = Exited => Exited \notin Range(Said) /\ proc = "reaped"
<1>1. /\ "main" \in Actors /\ "main" \notin Tasks /\ "exit" \in Tasks
      /\ "exit" \notin Streams /\ "stdin" \notin Streams
      /\ \A x \in Actors : x = "main" \/ x \in Tasks
      /\ \A x \in Tasks : x = "exit" \/ x = "stdin" \/ x \in Streams
  BY AgentAssumption DEF Actors, Tasks
<1>2. pc[a] = "pre" /\ Place(a)
  BY DEF Enter, Places
<1>3. Error \notin Range(Said)
  BY <1>1, <1>2 DEF Words, Phases, Unborn, Settled
<1>4. /\ msg[a] = Started => a = "main"
      /\ msg[a] = Exited => a = "exit"
      /\ a = "main" => msg[a] \in {Started, Error}
  BY <1>1, <1>2, Verbs DEF Place
<1>5. Fresh => a = "main"
  BY <1>1, <1>2 DEF Fresh, Phases, Unborn
<1>6. conn = "up" /\ Said = << >> => msg[a] \in {Started, Error}
  BY <1>4, <1>5 DEF Words
<1>7. msg[a] = Started => Said = << >>
  BY <1>1, <1>2, <1>4, Verbs DEF Phases, Fresh, Words
<1>8. msg[a] = Exited => Exited \notin Range(Said) /\ proc = "reaped"
  BY <1>2, <1>4 DEF Words, Fate
<1> QED
  BY <1>3, <1>6, <1>7, <1>8

(* A session keeps its course as it goes on.                                *)
LEMMA OrderStep ==
  ASSUME TypeOK, Places, Phases, Words, Fate, SessionOrder, [Next]_vars
  PROVE  SessionOrder'
<1>1. DOMAIN Said = 1 .. Len(Said) /\ Len(Said) \in Nat
  BY SaidTyped
<1>2. Said # << >> /\ proc = "reaped" => proc' = "reaped"
  <2>1. Spawn => Said = << >>
    BY DEF Spawn, Words, Fresh
  <2> QED
    BY <2>1, Lives
<1>3. \A i \in DOMAIN Said : Said # << >> /\ Said[i] \in Range(Said)
  BY <1>1, EmptySeq DEF Range
<1>4. CASE Said' = Said
  <2>1. StartedFirst'
    BY <1>4, Wires DEF SessionOrder, StartedFirst
  <2>2. ExitedOnce'
    BY <1>2, <1>3, <1>4 DEF SessionOrder, ExitedOnce
  <2>3. ErrorLast'
    BY <1>4 DEF SessionOrder, ErrorLast
  <2> QED
    BY <2>1, <2>2, <2>3 DEF SessionOrder
<1>5. ASSUME NEW a \in Actors, Enter(a), Said' = Append(Said, msg[a])
      PROVE  SessionOrder'
  <2> DEFINE n == Len(Said) + 1
  <2>1. /\ Len(Said') = n /\ DOMAIN Said' = 1 .. n
        /\ \A i \in 1 .. Len(Said) : Said'[i] = Said[i]
        /\ Said'[n] = msg[a]
    <3>1. msg[a] \in Messages
      BY DEF TypeOK
    <3> QED
      BY <1>5, <3>1, GrowsBy
  <2>2. /\ Error \notin Range(Said)
        /\ conn = "up" /\ Said = << >> => msg[a] \in {Started, Error}
        /\ msg[a] = Started => Said = << >>
        /\ msg[a] = Exited => Exited \notin Range(Said) /\ proc = "reaped"
    BY <1>5, Speaking
  <2>3. conn' = conn /\ proc' = proc
    BY <1>5 DEF Enter, child
  <2>4. Said = << >> <=> n = 1
    BY <1>1, EmptySeq, SaidTyped
  <2>5. \A i \in 1 .. n : i = n \/ i \in 1 .. Len(Said)
    BY <1>1
  <2>6. StartedFirst'
    BY <1>1, <2>1, <2>2, <2>3, <2>4, <2>5, Verbs DEF SessionOrder, StartedFirst
  <2>7. ExitedOnce'
    BY <1>1, <1>3, <2>1, <2>2, <2>3, <2>5 DEF SessionOrder, ExitedOnce
  <2>8. ErrorLast'
    BY <1>1, <1>3, <2>1, <2>2, <2>5 DEF SessionOrder, ErrorLast
  <2> QED
    BY <2>6, <2>7, <2>8 DEF SessionOrder
<1>6. CASE conn = "down" /\ heard' = heard /\ inflight' = << >> /\ buf' = buf
  <2> DEFINE f(j) == IF j <= Len(heard) THEN j ELSE j + Len(inflight)
  <2>1. /\ Len(Said') = Len(heard) + Len(buf) /\ DOMAIN Said' = 1 .. Len(Said')
        /\ \A j \in 1 .. Len(Said') : f(j) \in 1 .. Len(Said) /\ Said'[j] = Said[f(j)]
        /\ Len(Said) = Len(heard) + Len(inflight) + Len(buf)
        /\ Len(heard) \in Nat /\ Len(inflight) \in Nat /\ Len(buf) \in Nat
    BY <1>6, SaidDrops, SaidTyped
  <2>2. \A i, j \in 1 .. Len(Said') : f(i) = f(j) => i = j
    BY <2>1
  <2>3. \A j \in 1 .. Len(Said') : f(j) = Len(Said) => j = Len(Said')
    BY <2>1
  <2> HIDE DEF f
  <2>4. StartedFirst'
    BY <1>6, Wires DEF StartedFirst
  <2>5. ExitedOnce'
    BY <1>1, <1>2, <1>3, <2>1, <2>2 DEF SessionOrder, ExitedOnce
  <2>6. ErrorLast'
    BY <1>1, <2>1, <2>3 DEF SessionOrder, ErrorLast
  <2> QED
    BY <2>4, <2>5, <2>6 DEF SessionOrder
<1> QED
  BY <1>4, <1>5, <1>6, SaidStep

-----------------------------------------------------------------------------
(* The order of the output. *)

(* How far a stream has got changes with what enters and with nothing else, *)
(* while the connection is up.                                              *)
LEMMA StandsStill ==
  ASSUME TypeOK, Places, Phases, Words, [Next]_vars, conn' = "up",
         NEW st \in Streams,
         \/ ~(\E a \in Actors : Enter(a))
         \/ \E a \in Actors \ {st} : Enter(a)
  PROVE  Passed(st)' = Passed(st) /\ Ended(st)' = Ended(st)
<1>1. /\ st \in Tasks /\ st \in Actors /\ st # "main" /\ st # "exit" /\ st # "stdin"
      /\ taken[st] \in Nat
  BY AgentAssumption DEF Actors, Tasks, TypeOK
<1>2. CASE pc'[st] = pc[st] /\ msg'[st] = msg[st] /\ taken'[st] = taken[st]
  BY <1>2 DEF Passed, Ended
<1>3. CASE Begun
  <2>1. pc[st] = "unborn" /\ pc'[st] = "select" /\ taken' = taken
    BY <1>1, <1>3 DEF Begun, Unborn, Beginning
  <2> QED
    BY <2>1 DEF Passed, Ended
<1>4. ASSUME NEW a \in Actors \ {st}, Moves(a, {"pre"}, {"post", Goal(a)})
      PROVE  Passed(st)' = Passed(st) /\ Ended(st)' = Ended(st)
  BY <1>1, <1>2, <1>4 DEF Moves, Elsewhere
<1>5. ASSUME NEW a \in Actors, Quiet(a)
      PROVE  Passed(st)' = Passed(st) /\ Ended(st)' = Ended(st)
  <2>1. CASE a # st
    BY <1>1, <1>2, <1>5, <2>1 DEF Quiet, Moves, Begins, Elsewhere
  <2>2. CASE a = st
    <3>1. Place(st) /\ ~SendFails(st)
      BY <1>1, Wires DEF Places
    <3>2. \A n : /\ DataMsg(st, n)[1] = "data" /\ ClosedMsg(st)[1] = "closed"
                 /\ DataMsg(st, n) # ClosedMsg(st)
      BY Verbs
    <3>3. CASE /\ pc[st] = "select" /\ pc'[st] = "pre" /\ taken'[st] = taken[st] + 1
               /\ msg'[st][1] = "data"
      <4>1. taken'[st] - 1 = taken[st]
        BY <1>1, <3>3
      <4> QED
        BY <3>3, <4>1 DEF Passed, Ended
    <3>4. CASE pc[st] = "select" /\ pc'[st] = "pre" /\ taken' = taken /\ msg'[st] = ClosedMsg(st)
      BY <3>2, <3>4 DEF Passed, Ended
    <3>5. CASE /\ pc[st] = "select" /\ pc'[st] = "failed" /\ taken' = taken
      BY <3>5 DEF Passed, Ended
    <3>6. CASE /\ pc[st] = "post" /\ pc'[st] = Goal(st) /\ taken' = taken /\ msg'[st] = msg[st]
      BY <1>1, <3>1, <3>2, <3>6 DEF Passed, Ended, Goal, Place
    <3>7. CASE /\ pc[st] = "flush" /\ pc'[st] \in {"flush", "done"} /\ taken' = taken
               /\ msg'[st] = msg[st]
      BY <3>7 DEF Passed, Ended
    <3> QED
      BY <1>1, <1>5, <2>2, <3>1, <3>2, <3>3, <3>4, <3>5, <3>6, <3>7 DEF Quiet, Moves, Begins
  <2> QED
    BY <2>1, <2>2
<1>6. CASE UNCHANGED <<pc, msg, taken>>
  BY <1>2, <1>6
<1> QED
  BY <1>3, <1>4, <1>5, <1>6, Entering, Course, AgentAssumption

(* The chunks of a stream, and its end, are said in their order.            *)
LEMMA OutputStep ==
  ASSUME TypeOK, Places, Phases, Words, OutputInOrder, [Next]_vars
  PROVE  OutputInOrder'
<1> SUFFICES ASSUME conn' = "up", NEW st \in Streams
             PROVE
      LET About == {i \in DOMAIN Said : Said[i][2] = st}'
      IN  /\ {Said'[i] : i \in About} =
               {DataMsg(st, n) : n \in 1 .. Passed(st)'}
                 \cup (IF Ended(st)' THEN {ClosedMsg(st)} ELSE {})
          /\ \A i, j \in About : i < j =>
               /\ Said'[i][1] = "data"
               /\ Said'[j][1] = "data" => Said'[i][3] < Said'[j][3]
  BY DEF OutputInOrder
<1> DEFINE About == {i \in DOMAIN Said : Said[i][2] = st}
           Told  == {DataMsg(st, n) : n \in 1 .. Passed(st)}
                      \cup (IF Ended(st) THEN {ClosedMsg(st)} ELSE {})
<1>1. /\ conn = "up"
      /\ {Said[i] : i \in About} = Told
      /\ \A i, j \in About : i < j =>
           /\ Said[i][1] = "data"
           /\ Said[j][1] = "data" => Said[i][3] < Said[j][3]
  BY Wires DEF OutputInOrder
<1>2. /\ DOMAIN Said = 1 .. Len(Said) /\ Len(Said) \in Nat
      /\ st \in Tasks /\ st \in Actors /\ st # "main" /\ st # "exit" /\ st # "stdin"
      /\ taken[st] \in Nat
  BY SaidTyped, AgentAssumption DEF Actors, Tasks, TypeOK
<1>3. CASE Said' = Said /\ ~(\E a \in Actors : Enter(a))
  <2>1. Passed(st)' = Passed(st) /\ Ended(st)' = Ended(st)
    BY <1>3, StandsStill
  <2> QED
    BY <1>1, <1>3, <2>1
<1>4. ASSUME NEW a \in Actors, Enter(a), Said' = Append(Said, msg[a])
      PROVE  LET Now == {i \in DOMAIN Said : Said[i][2] = st}'
             IN  /\ {Said'[i] : i \in Now} =
                      {DataMsg(st, n) : n \in 1 .. Passed(st)'}
                        \cup (IF Ended(st)' THEN {ClosedMsg(st)} ELSE {})
                 /\ \A i, j \in Now : i < j =>
                      /\ Said'[i][1] = "data"
                      /\ Said'[j][1] = "data" => Said'[i][3] < Said'[j][3]
  <2> DEFINE n == Len(Said) + 1
             Now == {i \in DOMAIN Said' : Said'[i][2] = st}
  <2>1. /\ DOMAIN Said' = 1 .. n /\ Said'[n] = msg[a]
        /\ \A i \in 1 .. Len(Said) : Said'[i] = Said[i]
        /\ \A i \in 1 .. n : i = n \/ i \in 1 .. Len(Said)
        /\ n \in 1 .. n /\ n \notin 1 .. Len(Said)
        /\ \A i \in 1 .. Len(Said) : i \in 1 .. n /\ i < n
    <3>1. msg[a] \in Messages
      BY DEF TypeOK
    <3> QED
      BY <1>2, <1>4, <3>1, GrowsBy
  <2>2. pc[a] = "pre" /\ Place(a)
    BY <1>4 DEF Enter, Places
  <2>3. CASE a # st
    <3>1. msg[a][2] # st
      BY <1>2, <2>2, <2>3
         DEF Place, Actors, Tasks, Started, Error, Exited, ClosedMsg, DataMsg
    <3>2. Now = About /\ \A i \in About : Said'[i] = Said[i]
      BY <1>2, <2>1, <3>1
    <3>3. Passed(st)' = Passed(st) /\ Ended(st)' = Ended(st)
      BY <1>4, <2>3, StandsStill
    <3> HIDE DEF Now, About
    <3>4. {Said'[i] : i \in Now} = {Said[i] : i \in About}
      BY <3>2
    <3>5. \A i, j \in Now : i < j =>
            /\ Said'[i][1] = "data"
            /\ Said'[j][1] = "data" => Said'[i][3] < Said'[j][3]
      BY <1>1, <3>2
    <3> QED
      BY <1>1, <3>3, <3>4, <3>5 DEF Now
  <2>4. CASE a = st
    <3>1. /\ msg'[st] = msg[st] /\ taken'[st] = taken[st] /\ pc'[st] \in {"post", Goal(st)}
      BY <1>2, <1>4, <2>4, Entering DEF Moves
    <3>2. msg[st][2] = st
      BY <1>2, <2>2, <2>4 DEF Place, ClosedMsg, DataMsg
    <3>3. /\ Now = About \cup {n} /\ \A i \in About : Said'[i] = Said[i] /\ i < n
          /\ About \subseteq Nat /\ n \in Nat
          /\ \A i, j \in Now : i < j => i \in About
      BY <1>2, <2>1, <2>4, <3>2
    <3>4. ~Ended(st) /\ Told = {DataMsg(st, k) : k \in 1 .. Passed(st)}
      BY <2>2, <2>4 DEF Ended
    <3>5. /\ \A k : DataMsg(st, k)[1] = "data" /\ DataMsg(st, k)[3] = k
                    /\ DataMsg(st, k) # ClosedMsg(st)
          /\ ClosedMsg(st)[1] = "closed"
      BY Verbs DEF DataMsg
    <3>6. ASSUME NEW i \in About
          PROVE  \E k \in 1 .. Passed(st) : Said[i] = DataMsg(st, k)
      BY <1>1, <3>4
    <3> HIDE DEF Now, About
    <3>7. CASE msg[st] = ClosedMsg(st)
      <4>1. Passed(st) = taken[st] /\ Passed(st)' = taken[st] /\ Ended(st)'
        BY <1>2, <2>2, <2>4, <3>1, <3>5, <3>7 DEF Passed, Ended, Goal
      <4>2. {Said'[i] : i \in Now} = {Said[i] : i \in About} \cup {ClosedMsg(st)}
        BY <2>1, <2>4, <3>3, <3>7
      <4>3. \A i, j \in Now : i < j =>
              /\ Said'[i][1] = "data"
              /\ Said'[j][1] = "data" => Said'[i][3] < Said'[j][3]
        <5>1. Said'[n][1] # "data"
          BY <2>1, <2>4, <3>5, <3>7
        <5>2. ASSUME NEW i \in About, NEW j \in About, i < j
              PROVE  /\ Said'[i][1] = "data"
                     /\ Said'[j][1] = "data" => Said'[i][3] < Said'[j][3]
          BY <1>1, <3>3, <5>2
        <5>3. ASSUME NEW i \in About
              PROVE  Said'[i][1] = "data"
          BY <3>3, <3>5, <3>6
        <5> QED
          BY <3>3, <5>1, <5>2, <5>3
      <4> QED
        BY <1>1, <3>4, <4>1, <4>2, <4>3 DEF Now
    <3>8. CASE msg[st] = DataMsg(st, taken[st]) /\ taken[st] > 0
      <4>1. Passed(st) = taken[st] - 1 /\ Passed(st)' = taken[st] /\ ~Ended(st)'
        BY <1>2, <2>2, <2>4, <3>1, <3>5, <3>8 DEF Passed, Ended, Goal
      <4>2. {Said'[i] : i \in Now} = {Said[i] : i \in About} \cup {DataMsg(st, taken[st])}
        BY <2>1, <2>4, <3>3, <3>8
      <4>3. {DataMsg(st, k) : k \in 1 .. taken[st]} =
              {DataMsg(st, k) : k \in 1 .. taken[st] - 1} \cup {DataMsg(st, taken[st])}
        BY <1>2, <3>8
      <4>4. \A i \in About : Said[i][1] = "data" /\ Said[i][3] < taken[st]
        <5>1. \A k \in 1 .. taken[st] - 1 : k < taken[st]
          BY <1>2
        <5> QED
          BY <3>5, <3>6, <4>1, <5>1
      <4>5. \A i, j \in Now : i < j =>
              /\ Said'[i][1] = "data"
              /\ Said'[j][1] = "data" => Said'[i][3] < Said'[j][3]
        <5>1. Said'[n][3] = taken[st]
          BY <2>1, <2>4, <3>5, <3>8
        <5>2. ASSUME NEW i \in About, NEW j \in About, i < j
              PROVE  /\ Said'[i][1] = "data"
                     /\ Said'[j][1] = "data" => Said'[i][3] < Said'[j][3]
          BY <1>1, <3>3, <5>2
        <5>3. ASSUME NEW i \in About
              PROVE  Said'[i][1] = "data" /\ Said'[i][3] < Said'[n][3]
          BY <3>3, <4>4, <5>1
        <5> QED
          BY <3>3, <5>2, <5>3
      <4> QED
        BY <1>1, <3>4, <4>1, <4>2, <4>3, <4>5 DEF Now
    <3> QED
      BY <1>2, <2>2, <2>4, <3>7, <3>8 DEF Place
  <2> QED
    BY <2>3, <2>4
<1>5. ~(conn = "down")
  BY <1>1
<1> QED
  BY <1>3, <1>4, <1>5, SaidStep

-----------------------------------------------------------------------------
(* The theorems. *)

(* At first nobody has moved and nothing has been said.                     *)
LEMMA Beginnings ==
  Init => IndInv
<1> SUFFICES ASSUME Init
             PROVE  IndInv
  OBVIOUS
<1>1. Said = << >> /\ << >> \in Seq(Messages) /\ Len(<< >>) = 0 /\ Range(<< >>) = {}
      /\ DOMAIN << >> = {}
  <2>1. << >> \in Seq(Messages) /\ Len(<< >>) = 0
    BY EmptySeq
  <2>2. << >> \o << >> = << >>
    BY <2>1, ConcatEmptySeq
  <2>3. DOMAIN << >> = {}
    BY <2>1, LenProperties
  <2> QED
    BY <2>1, <2>2, <2>3 DEF Init, Said, Range
<1>2. /\ "main" \notin Tasks /\ Tasks \subseteq Actors /\ "exit" \in Tasks /\ "stdin" \in Tasks
      /\ Streams \subseteq Tasks /\ "main" \in Actors
      /\ \A x \in Actors : x = "main" \/ x \in Tasks
  BY AgentAssumption DEF Actors, Tasks
<1>3. pc["main"] = "exec" /\ (\A t \in Tasks : pc[t] = "unborn") /\ Fresh
  BY <1>2 DEF Init, Fresh
<1>4. TypeOK
  <2>1. /\ pc \in [Actors -> {"unborn", "exec", "spawn", "join", "final", "select",
                        "recv", "write", "pre", "post", "flush", "done", "failed"}]
        /\ msg \in [Actors -> Messages]
    BY DEF Init, Messages
  <2>2. /\ written \in [Streams -> 0 .. MaxChunks] /\ taken \in [Streams -> 0 .. MaxChunks]
        /\ piped \in 0 .. PipeSize /\ \A st \in Streams : taken[st] <= written[st]
        /\ Len(buf) <= HighWater
    BY <1>1, AgentAssumption DEF Init
  <2>3. /\ buf \in Seq(Messages) /\ inflight \in Seq(Messages) /\ heard \in Seq(Messages)
        /\ conn \in {"up", "down"} /\ proc \in {"none", "running", "zombie", "reaped"}
    BY <1>1 DEF Init
  <2>4. /\ doomed \in BOOLEAN /\ reader \in BOOLEAN
        /\ open \in [Streams -> BOOLEAN] /\ deaf \in [Streams -> BOOLEAN]
        /\ fd \in [Streams -> {"open", "closed"}] /\ fault \in BOOLEAN
    BY DEF Init
  <2> QED
    BY <2>1, <2>2, <2>3, <2>4 DEF TypeOK
<1>5. Places
  BY <1>2, <1>3 DEF Places, Place
<1>6. Phases
  BY <1>2, <1>3 DEF Phases, Unborn
<1>7. Words
  BY <1>1, <1>2, <1>3 DEF Words, Init
<1>8. Fate
  BY <1>2, <1>3 DEF Fate, Init
<1>9. SessionOrder
  BY <1>1 DEF SessionOrder, StartedFirst, ExitedOnce, ErrorLast
<1>10. OutputInOrder
  <2> SUFFICES ASSUME NEW st \in Streams
               PROVE
        LET About == {i \in DOMAIN Said : Said[i][2] = st}
        IN  /\ {Said[i] : i \in About} =
                 {DataMsg(st, n) : n \in 1 .. Passed(st)}
                   \cup (IF Ended(st) THEN {ClosedMsg(st)} ELSE {})
            /\ \A i, j \in About : i < j =>
                 /\ Said[i][1] = "data"
                 /\ Said[j][1] = "data" => Said[i][3] < Said[j][3]
    BY DEF OutputInOrder
  <2>1. Passed(st) = 0 /\ ~Ended(st)
    BY <1>2, <1>3 DEF Passed, Ended, Init
  <2>2. 1 .. 0 = {}
    OBVIOUS
  <2> QED
    BY <1>1, <2>1, <2>2
<1>11. ClosedMeansAll
  BY <1>1 DEF ClosedMeansAll
<1> QED
  BY <1>4, <1>5, <1>6, <1>7, <1>8, <1>9, <1>10, <1>11 DEF IndInv

(* Every step of the host, the child and the agent keeps the inductive      *)
(* invariant: who may be where and with which message, which phase the      *)
(* session is in, what has been said, and the fate of the child.            *)
THEOREM Invariant == Spec => []IndInv
<1>1. IndInv /\ [Next]_vars => IndInv'
  BY TypesStep, PlacesStep, PhasesStep, WordsStep, FateStep, OrderStep, OutputStep, ClosedStep
     DEF IndInv
<1> QED
  BY Beginnings, <1>1, PTL DEF Spec

(* The variables keep their types, the buffer its high water mark.          *)
THEOREM Typing == Spec => []TypeOK
<1>1. IndInv => TypeOK
  BY DEF IndInv
<1> QED
  BY Invariant, <1>1, PTL

(* The host hears of started or an error first, of the exit once and truly, *)
(* and of nothing after an error, whichever task gets to the buffer first.  *)
THEOREM InOrder == Spec => []SessionOrder
<1>1. IndInv => SessionOrder
  BY DEF IndInv
<1> QED
  BY Invariant, <1>1, PTL

(* The host hears the chunks of each stream in order, each once.            *)
THEOREM ChunksInOrder == Spec => []OutputInOrder
<1>1. IndInv => OutputInOrder
  BY DEF IndInv
<1> QED
  BY Invariant, <1>1, PTL

(* A stream that is reported closed has been reported in full.              *)
THEOREM ClosedTrue == Spec => []ClosedMeansAll
<1>1. IndInv => ClosedMeansAll
  BY DEF IndInv
<1> QED
  BY Invariant, <1>1, PTL

(* No child is left running unless it is being killed, or the agent was     *)
(* told that it cannot be waited for (the error of Process::wait, after     *)
(* which Process::drop kills nothing).                                      *)
THEOREM ChildFollows == Spec => []NoOrphan
<1>1. IndInv => NoOrphan
  BY DEF IndInv, Fate, NoOrphan
<1> QED
  BY Invariant, <1>1, PTL

(* A host that still reads when the agent leaves has heard it all.          *)
THEOREM AllSaid == Spec => []NothingUnsaid
<1>1. IndInv => NothingUnsaid
  <2> SUFFICES ASSUME IndInv, pc["main"] = "done", conn = "up"
               PROVE  /\ Said = heard
                      /\ \/ Error \in Range(heard)
                         \/ {Exited, ClosedMsg("stdin")} \cup {ClosedMsg(st) : st \in Streams}
                               \subseteq Range(heard)
    BY DEF NothingUnsaid
  <2>1. Said = heard
    <3>1. inflight = << >> /\ buf = << >> /\ heard \in Seq(Messages)
      BY DEF IndInv, Words, TypeOK
    <3>2. heard \o << >> = heard
      BY <3>1, ConcatEmptySeq
    <3> QED
      BY <3>1, <3>2 DEF Said
  <2>2. CASE \A t \in Tasks : pc[t] = "done"
    <3>1. Exited \in Range(Said) /\ ClosedMsg("stdin") \in Range(Said)
      BY <2>2 DEF IndInv, Words, Tasks
    <3>2. ASSUME NEW st \in Streams
          PROVE  ClosedMsg(st) \in Range(Said)
      <4>1. Ended(st)
        BY <2>2 DEF IndInv, Places, Place, Ended, Tasks, Actors
      <4>2. ClosedMsg(st) \in {Said[i] : i \in {i \in DOMAIN Said : Said[i][2] = st}}
        BY <4>1 DEF IndInv, OutputInOrder
      <4> QED
        BY <4>2 DEF Range
    <3> QED
      BY <2>1, <3>1, <3>2
  <2> QED
    BY <2>1, <2>2 DEF IndInv, Words
<1> QED
  BY Invariant, <1>1, PTL
=============================================================================
