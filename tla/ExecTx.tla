------------------------------- MODULE ExecTx -------------------------------
(***************************************************************************)
(* The shared sender of the exec protocol, protocol/src/io/tx.rs.          *)
(*                                                                         *)
(* Tasks hold clones of one Tx.  A send turns each of its messages into a  *)
(* line, appends the line to a buffer all clones share, and reports        *)
(* success when the buffer is below its high-water mark, whether or not    *)
(* the connection has taken the line; send_and_flush also waits until the  *)
(* buffer is empty and the connection flushed.  The mutex is held for one  *)
(* poll of one message, so the messages of a batch interleave with those   *)
(* of other clones.  close flushes, takes the buffer and the connection    *)
(* away from the clones, writes what is left and shuts the connection      *)
(* down, all in one future: a caller who drops it drops the connection     *)
(* with it.  Dropping the last clone leaves the same work to a task in     *)
(* the background, which lives as long as the runtime does.                *)
(*                                                                         *)
(* A message is the pair of its sender and its number.  Its line is        *)
(* written in units, of which the connection may take any number at once.  *)
(***************************************************************************)
EXTENDS Naturals, FiniteSets, SequencesExt

CONSTANTS Senders,    \* the clones of Tx, one send at a time each
          Tasks,      \* the tasks that poll them
          TaskOf,     \* the task that polls each sender
          Nobody,     \* no sender, no task
          LineLen,    \* units in a line, its newline included
          HighWater,  \* units in the buffer from which a send waits (1 MiB)
          Window,     \* units the connection takes ahead of its peer
          MaxMessages,\* bound: messages each sender sends
          MaxBatch    \* bound: messages in one send

ASSUME TxAssumption ==
  /\ TaskOf \in [Senders -> Tasks]
  /\ Nobody \notin Senders \cup Tasks
  /\ LineLen \in Nat \ {0}
  /\ HighWater \in Nat \ {0}
  /\ Window \in Nat \ {0}
  /\ MaxMessages \in Nat
  /\ MaxBatch \in Nat

VARIABLES
  buf,       \* TxLocal.transmitting; as it was left once tx is over
  wire,      \* units the connection has taken
  flushed,   \* how many of them its peer has
  conn,      \* "up" or "down"
  tx,        \* "open": shared by the clones; "draining": taken by a close;
             \* "background": taken by the task the last handle leaves;
             \* "shut": shut down; "lost": dropped without a shutdown
  holder,    \* the sender whose poll holds the mutex
  waker,     \* the task whose waker the connection holds
  toPoll,    \* the senders that will be polled
  pc,        \* where each sender is in DoSend::poll
  next,      \* DoSend.msgs: the messages next[s] .. last[s] are left,
  last,      \* the first of them
  taken,     \*   already in the buffer if taken[s]
  flush,     \* DoSend.flush
  closing,   \* the senders whose handle is being closed
  gone,      \* the senders whose handle has been closed or dropped
  accepted,  \* messages of sends that returned Ok
  promised   \* messages that a flush returning Ok covers

vars == <<buf, wire, flushed, conn, tx, holder, waker, toPoll, pc, next, last,
          taken, flush, closing, gone, accepted, promised>>

(* Groups of variables that steps leave alone together. *)
batch == <<next, last, taken, flush>>
connection == <<wire, flushed, conn>>
handles == <<closing, gone>>
results == <<accepted, promised>>

-----------------------------------------------------------------------------

Messages == Senders \X (1 .. MaxMessages)

Units == Messages \X (1 .. LineLen)

(* "waiting": between polls; "next": in a poll, between two messages;       *)
(* "pre", "post", "flush": in a poll, the mutex held; "take": close after   *)
(* its flush; "drain": in a poll of TxLocal::close; "parked": between two.  *)
PCs == {"idle", "waiting", "next", "pre", "post", "flush", "take", "drain",
        "parked"}

TxStates == {"open", "draining", "background", "shut", "lost"}

(* The types of the variables. *)
TypeOK ==
  /\ buf \in Seq(Units)
  /\ wire \in Seq(Units)
  /\ flushed \in 0 .. Len(wire)
  /\ conn \in {"up", "down"}
  /\ tx \in TxStates
  /\ holder \in Senders \cup {Nobody}
  /\ waker \in Tasks \cup {Nobody}
  /\ toPoll \subseteq Senders
  /\ pc \in [Senders -> PCs]
  /\ next \in [Senders -> 1 .. MaxMessages + 1]
  /\ last \in [Senders -> 0 .. MaxMessages]
  /\ taken \in [Senders -> BOOLEAN]
  /\ flush \in [Senders -> BOOLEAN]
  /\ closing \subseteq Senders
  /\ gone \subseteq Senders
  /\ accepted \subseteq Messages
  /\ promised \subseteq Messages

Init ==
  /\ buf = << >> /\ wire = << >> /\ flushed = 0
  /\ conn = "up" /\ tx = "open"
  /\ holder = Nobody /\ waker = Nobody /\ toPoll = {}
  /\ pc = [s \in Senders |-> "idle"]
  /\ next = [s \in Senders |-> 1]
  /\ last = [s \in Senders |-> 0]
  /\ taken = [s \in Senders |-> FALSE]
  /\ flush = [s \in Senders |-> FALSE]
  /\ closing = {} /\ gone = {}
  /\ accepted = {} /\ promised = {}

(* The units of a message's line: its JSON text and the newline. *)
Line(m) == [i \in 1 .. LineLen |-> <<m, i>>]

Room == Window - (Len(wire) - flushed)

-----------------------------------------------------------------------------
(* The connection and its peer. *)

Wake ==
  /\ toPoll' = toPoll \cup {s \in Senders : TaskOf[s] = waker /\ pc[s] # "idle"}
  /\ waker' = Nobody

(* The peer takes n units: the connection has room for them again. *)
Deliver(n) ==
  /\ conn = "up"
  /\ flushed' = flushed + n
  /\ Wake
  /\ UNCHANGED <<buf, wire, conn, tx, holder, pc, batch, handles, results>>

(* The connection breaks; every later write fails or takes nothing. *)
Break ==
  /\ conn = "up"
  /\ conn' = "down"
  /\ Wake
  /\ UNCHANGED <<buf, wire, flushed, tx, holder, pc, batch, handles, results>>

-----------------------------------------------------------------------------
(* TxLocal::poll_transmit, poll_flush and poll_flush_in_bg. *)

(* As a mutant: a short write counts as a complete one. *)
NothingAfter(n) == << >>

(* transmitting.drain(..n). *)
BufferAfter(n) == SubSeq(buf, n + 1, Len(buf))

(* poll_write takes n units. *)
Transmit(n) ==
  /\ conn = "up"
  /\ n <= Len(buf) /\ n <= Room
  /\ wire' = wire \o SubSeq(buf, 1, n)
  /\ buf' = BufferAfter(n)
  /\ UNCHANGED <<flushed, conn>>

(* As a mutant: what is written counts as flushed. *)
FlushReadyUnflushed == buf = << >>

(* What poll_flush answers once it can write no more. *)
FlushReady == buf = << >> /\ flushed = Len(wire)

FlushPending ==
  /\ conn = "up"
  /\ IF buf = << >> THEN flushed < Len(wire) ELSE Room = 0

FlushFails == conn = "down" /\ ~FlushReady

(* As a mutant: nobody is told when the connection has room again. *)
LeaveNoWaker(s) == waker' = waker

(* A Pending answer leaves the waker of the poller with the connection. *)
LeaveWaker(s) == waker' = IF FlushPending THEN TaskOf[s] ELSE waker

(* As a mutant: the flush in the background never pushes back. *)
GoesOnRegardless == FlushReady \/ FlushPending

(* poll_flush_in_bg answers Ready although the buffer may not be empty ... *)
GoesOn == FlushReady \/ (FlushPending /\ Len(buf) < HighWater)

(* ... unless there is too much in it. *)
PushesBack == FlushPending /\ Len(buf) >= HighWater

-----------------------------------------------------------------------------
(* The handles. *)

HandleGoes(s) ==
  /\ gone' = gone \cup {s}
  /\ closing' = closing \ {s}

(* As a mutant: nothing happens when the last handle goes. *)
ReleaseOnly(s) == HandleGoes(s) /\ UNCHANGED tx

(* A handle goes.  The last one to go leaves the connection, unless a close *)
(* has taken it, to a task that closes it in the background.                *)
Release(s) ==
  /\ HandleGoes(s)
  /\ tx' = IF tx = "open" /\ gone' = Senders THEN "background" ELSE tx

(* A call of s ends; a failed or cancelled close takes its handle with it.  *)
Return(s) ==
  /\ pc' = [pc EXCEPT ![s] = "idle"]
  /\ toPoll' = toPoll \ {s}

ReturnError(s) ==
  /\ Return(s)
  /\ IF s \in closing THEN Release(s) ELSE UNCHANGED <<tx, handles>>

-----------------------------------------------------------------------------
(* One send: DoSend and Tx::poll_send. *)

(* send, send_and_flush and flush create a future, which does nothing until *)
(* it is polled.  close begins with a flush.                                *)
Start(s, n, withFlush) ==
  /\ pc[s] = "idle"
  /\ s \notin closing \cup gone
  /\ last[s] + n <= MaxMessages
  /\ n = 0 => withFlush
  /\ next' = [next EXCEPT ![s] = last[s] + 1]
  /\ last' = [last EXCEPT ![s] = last[s] + n]
  /\ taken' = [taken EXCEPT ![s] = FALSE]
  /\ flush' = [flush EXCEPT ![s] = withFlush]
  /\ pc' = [pc EXCEPT ![s] = "waiting"]
  /\ toPoll' = toPoll \cup {s}
  /\ UNCHANGED <<buf, connection, tx, holder, waker, gone, results>>

StartSend(s, n, withFlush) ==
  /\ Start(s, n, withFlush)
  /\ UNCHANGED closing

StartClose(s) ==
  /\ Start(s, 0, TRUE)
  /\ closing' = closing \cup {s}

(* The sender is being polled and about to take the mutex. *)
CanPoll(s) ==
  /\ pc[s] = "next" \/ (pc[s] = "waiting" /\ s \in toPoll)
  /\ holder = Nobody

(* msgs.first_mut() is Some. *)
MessageLeft(s) == next[s] <= last[s]

(* For the first message left, or for the flush. *)
Lock(s) ==
  /\ CanPoll(s)
  /\ tx = "open"
  /\ holder' = s
  /\ pc' = [pc EXCEPT ![s] = IF MessageLeft(s) THEN "pre" ELSE "flush"]
  /\ toPoll' = toPoll \ {s}
  /\ UNCHANGED <<buf, connection, tx, waker, batch, handles, results>>

(* close has left an error in place of the connection. *)
LockClosed(s) ==
  /\ CanPoll(s)
  /\ tx # "open"
  /\ ReturnError(s)
  /\ UNCHANGED <<buf, connection, holder, waker, batch, results>>

WriteSome(s, n) ==
  /\ holder = s
  /\ Transmit(n)
  /\ UNCHANGED <<tx, holder, waker, toPoll, pc, batch, handles, results>>

(* As a mutant: a send that is polled again appends its line again. *)
LineAgain(s) == Line(<<s, next[s]>>)

(* What the message has still to put into the buffer: nothing, if an earlier *)
(* poll has taken its line already (msg.0.take()).                           *)
LineLeft(s) == IF taken[s] THEN << >> ELSE Line(<<s, next[s]>>)

(* The first flush in the background lets the message in. *)
AppendLine(s) ==
  /\ holder = s /\ pc[s] = "pre"
  /\ GoesOn
  /\ buf' = buf \o LineLeft(s)
  /\ taken' = [taken EXCEPT ![s] = TRUE]
  /\ pc' = [pc EXCEPT ![s] = "post"]
  /\ LeaveWaker(s)
  /\ UNCHANGED <<connection, tx, holder, toPoll, next, last, flush, handles,
                 results>>

(* The second one lets it go: the message leaves the batch and the mutex is *)
(* released.  The poll goes on with the rest, or send returns Ok.           *)
PassMessage(s) ==
  /\ holder = s /\ pc[s] = "post"
  /\ GoesOn
  /\ next' = [next EXCEPT ![s] = @ + 1]
  /\ taken' = [taken EXCEPT ![s] = FALSE]
  /\ holder' = Nobody
  /\ accepted' = accepted \cup {<<s, next[s]>>}
  /\ IF next[s] < last[s] \/ flush[s]
       THEN pc' = [pc EXCEPT ![s] = "next"] /\ UNCHANGED toPoll
       ELSE Return(s)
  /\ LeaveWaker(s)
  /\ UNCHANGED <<buf, connection, tx, last, flush, handles, promised>>

(* The final flush is complete: send_and_flush returns Ok, or close goes on *)
(* to take the connection.                                                  *)
FlushDone(s) ==
  /\ holder = s /\ pc[s] = "flush"
  /\ FlushReady
  /\ holder' = Nobody
  /\ promised' = promised \cup accepted
  /\ IF s \in closing
       THEN pc' = [pc EXCEPT ![s] = "take"] /\ UNCHANGED toPoll
       ELSE Return(s)
  /\ UNCHANGED <<buf, connection, tx, waker, batch, handles, accepted>>

(* The poll answers Pending. *)
Park(s) ==
  /\ holder = s
  /\ IF pc[s] = "flush" THEN FlushPending ELSE PushesBack
  /\ holder' = Nobody
  /\ pc' = [pc EXCEPT ![s] = "waiting"]
  /\ LeaveWaker(s)
  /\ UNCHANGED <<buf, connection, tx, toPoll, batch, handles, results>>

(* A write or a flush fails.  A message already in the buffer stays there.  *)
Fail(s) ==
  /\ holder = s
  /\ FlushFails
  /\ holder' = Nobody
  /\ ReturnError(s)
  /\ UNCHANGED <<buf, connection, waker, batch, results>>

(* The caller drops the future between two polls. *)
Cancel(s) ==
  /\ pc[s] = "waiting"
  /\ ReturnError(s)
  /\ UNCHANGED <<buf, connection, holder, waker, batch, results>>

DropHandle(s) ==
  /\ pc[s] = "idle"
  /\ s \notin gone
  /\ Release(s)
  /\ UNCHANGED <<buf, connection, holder, waker, toPoll, pc, batch, results>>

-----------------------------------------------------------------------------
(* Tx::close after its flush, and TxLocal::close. *)

(* mem::replace: from here on the other clones find an error.  One that     *)
(* another close has left makes this close fail.                            *)
TakeLocal(s) ==
  /\ pc[s] = "take"
  /\ holder = Nobody
  /\ IF tx = "open"
       THEN /\ tx' = "draining"
            /\ pc' = [pc EXCEPT ![s] = "drain"]
            /\ UNCHANGED <<toPoll, handles>>
       ELSE ReturnError(s)
  /\ UNCHANGED <<buf, connection, holder, waker, batch, results>>

DrainSome(s, n) ==
  /\ pc[s] = "drain"
  /\ Transmit(n)
  /\ UNCHANGED <<tx, holder, waker, toPoll, pc, batch, handles, results>>

(* The connection takes nothing now, or is not through with its shutdown.   *)
DrainParks(s) ==
  /\ pc[s] = "drain"
  /\ FlushPending
  /\ pc' = [pc EXCEPT ![s] = "parked"]
  /\ LeaveWaker(s)
  /\ UNCHANGED <<buf, connection, tx, holder, toPoll, batch, handles, results>>

DrainAgain(s) ==
  /\ pc[s] = "parked" /\ s \in toPoll
  /\ pc' = [pc EXCEPT ![s] = "drain"]
  /\ toPoll' = toPoll \ {s}
  /\ UNCHANGED <<buf, connection, tx, holder, waker, batch, handles, results>>

(* As a mutant: the rest of the buffer is not written. *)
DrainedAtOnce == TRUE

(* The loop of TxLocal::close ends and the shutdown is complete, which has  *)
(* flushed; or the connection is broken, and what is left is given up.      *)
Drained == FlushReady \/ conn = "down"

Shutdown(s) ==
  /\ pc[s] = "drain"
  /\ Drained
  /\ tx' = "shut"
  /\ Return(s)
  /\ HandleGoes(s)
  /\ UNCHANGED <<buf, connection, holder, waker, batch, results>>

(* The caller drops a close that has taken the connection: nobody has it    *)
(* now.                                                                     *)
DropClose(s) ==
  /\ pc[s] = "parked"
  /\ tx' = "lost"
  /\ Return(s)
  /\ HandleGoes(s)
  /\ UNCHANGED <<buf, connection, holder, waker, batch, results>>

(* The task spawned by TxLocalDrop::drop, alone with the connection. *)
BackgroundSome(n) ==
  /\ tx = "background"
  /\ Transmit(n)
  /\ UNCHANGED <<tx, holder, waker, toPoll, pc, batch, handles, results>>

BackgroundShutdown ==
  /\ tx = "background"
  /\ Drained
  /\ tx' = "shut"
  /\ UNCHANGED <<buf, connection, holder, waker, toPoll, pc, batch, handles,
                 results>>

(* The runtime stops, as it does when main returns, and the task with it.   *)
RuntimeStops ==
  /\ tx = "background"
  /\ tx' = "lost"
  /\ UNCHANGED <<buf, connection, holder, waker, toPoll, pc, batch, handles,
                 results>>

-----------------------------------------------------------------------------

InPoll(s) ==
  \/ \E n \in 1 .. Len(buf) : WriteSome(s, n)
  \/ AppendLine(s)
  \/ PassMessage(s)
  \/ FlushDone(s)
  \/ Park(s)
  \/ Fail(s)
  \/ \E n \in 1 .. Len(buf) : DrainSome(s, n)
  \/ DrainParks(s)
  \/ Shutdown(s)

Background ==
  \/ \E n \in 1 .. Len(buf) : BackgroundSome(n)
  \/ BackgroundShutdown

Next ==
  \/ \E n \in 1 .. Len(wire) - flushed : Deliver(n)
  \/ Break
  \/ \E s \in Senders :
       \/ \E n \in 0 .. MaxBatch, f \in BOOLEAN : StartSend(s, n, f)
       \/ StartClose(s)
       \/ Lock(s)
       \/ LockClosed(s)
       \/ InPoll(s)
       \/ TakeLocal(s)
       \/ DrainAgain(s)
       \/ Cancel(s)
       \/ DropClose(s)
       \/ DropHandle(s)
  \/ Background
  \/ RuntimeStops

Spec == Init /\ [][Next]_vars

(* The peer reads, the tasks run, every woken sender is polled.  Nothing    *)
(* makes a caller drop its future, nor the runtime stop.                    *)
Fairness ==
  /\ WF_vars(\E n \in 1 .. Len(wire) - flushed : Deliver(n))
  /\ \A s \in Senders :
       /\ SF_vars(Lock(s) \/ LockClosed(s) \/ TakeLocal(s) \/ DrainAgain(s))
       /\ WF_vars(InPoll(s))
  /\ WF_vars(Background)

FairSpec == Spec /\ Fairness

-----------------------------------------------------------------------------
(* Properties. *)

(* All that has ever been put into the buffer, as long as nothing is lost. *)
Stream == wire \o buf

(* A message whose whole line is in the stream. *)
Sent(m) == \A i \in 1 .. LineLen : <<m, i>> \in Range(Stream)

(* Lines go out whole and one at a time, whatever is written at once and    *)
(* whoever else sends, waits or is cancelled: each begins where the one     *)
(* before it has ended.                                                     *)
WholeLines ==
  \A i \in DOMAIN Stream :
    LET part == ((i - 1) % LineLen) + 1
    IN  /\ Stream[i][2] = part
        /\ part > 1 => Stream[i][1] = Stream[i - 1][1]

(* No message is repeated, though a send is polled again after it has put   *)
(* its message into the buffer, and each sender's messages keep their order. *)
SenderOrder ==
  \A i, j \in DOMAIN Stream :
    i < j /\ Stream[i][1][1] = Stream[j][1][1] =>
      \/ Stream[i][1][2] < Stream[j][1][2]
      \/ Stream[i][1] = Stream[j][1] /\ j - i = Stream[j][2] - Stream[i][2]

AcceptedSent == \A m \in accepted : Sent(m)

PromisesKept ==
  \A m \in promised, i \in 1 .. LineLen : \E j \in 1 .. flushed : wire[j] = <<m, i>>

(* A message that a send has reported as sent is in the buffer or on the    *)
(* wire, until the connection is shut down or dropped; and one that a flush *)
(* has covered is flushed through the connection, whatever is cancelled,    *)
(* fails, is closed or dropped afterwards.                                  *)
Kept ==
  /\ tx \notin {"shut", "lost"} => AcceptedSent
  /\ PromisesKept

(* The buffer does not grow beyond one line above its mark, however many    *)
(* senders there are.                                                       *)
Bounded == Len(buf) < HighWater + LineLen

(* Once the connection is shut down, everything that was accepted has been  *)
(* flushed through it, unless it broke: a message another clone appends     *)
(* between the flush of close and the moment it takes the connection is     *)
(* written as well.                                                         *)
ClosedClean ==
  tx = "shut" /\ conn = "up" =>
    /\ buf = << >>
    /\ \A m \in accepted, i \in 1 .. LineLen :
         \E j \in 1 .. flushed : wire[j] = <<m, i>>

(* The inductive invariant behind these properties, in four parts.  The     *)
(* mutex: whoever holds it is in a poll, of an open connection, and one     *)
(* close at most has taken the connection from under it.                    *)
InMutex == {"pre", "post", "flush"}

Held ==
  /\ \A s \in Senders : holder = s <=> pc[s] \in InMutex
  /\ holder # Nobody => tx = "open"
  /\ \A s \in Senders : pc[s] # "idle" => s \notin gone
  /\ \A s \in Senders : pc[s] \in {"drain", "parked"} => tx = "draining"
  /\ \A s, r \in Senders : pc[s] \in {"drain", "parked"} /\ pc[r] \in {"drain", "parked"}
                             => s = r

(* The batch: a message is in a poll, or taken, only if there is one left,  *)
(* and it is taken once the first flush has let it in.                      *)
Turns ==
  /\ \A s \in Senders : next[s] <= last[s] + 1
  /\ \A s \in Senders : pc[s] \in {"pre", "post"} \/ taken[s] => MessageLeft(s)
  /\ \A s \in Senders : pc[s] = "post" => taken[s]

(* The stream is a number of whole lines.                                   *)
WholeStream == Len(Stream) % LineLen = 0

(* A message is in the stream only if its turn has passed, or has come and  *)
(* the send remembers that it is there; then all of it is.                  *)
InStream ==
  /\ \A s \in Senders : taken[s] => Sent(<<s, next[s]>>)
  /\ \A i \in DOMAIN Stream :
       LET s == Stream[i][1][1]
       IN  Stream[i][1][2] < next[s] \/ (taken[s] /\ Stream[i][1][2] = next[s])

IndInv ==
  /\ TypeOK
  /\ Held
  /\ Turns
  /\ WholeStream /\ WholeLines
  /\ InStream /\ SenderOrder
  /\ AcceptedSent /\ PromisesKept
  /\ Bounded
  /\ tx = "shut" /\ conn = "up" => FlushReady

(* With a peer that reads, a send ends, one way or another. *)
SendEnds == \A s \in Senders : pc[s] = "waiting" ~> pc[s] = "idle"

(* Once a close has taken the connection, or the last handle has gone, the  *)
(* connection is shut down, unless whoever is at it is dropped: the close   *)
(* by its caller, the task in the background by a runtime that stops.       *)
EventuallyShut ==
  (tx # "open" \/ gone = Senders) ~> tx \in {"shut", "lost"}
=============================================================================
