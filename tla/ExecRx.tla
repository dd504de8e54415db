------------------------------- MODULE ExecRx -------------------------------
(***************************************************************************)
(* The typed receiver of the exec protocol, protocol/src/io/rx.rs.         *)
(*                                                                         *)
(* Several tasks hold clones of one Rx and each waits for the message      *)
(* types it can use.  A poll takes the mutex for its whole length: it      *)
(* first looks into the buffer of messages that others have read and not   *)
(* wanted, and otherwise reads lines from the connection, putting aside    *)
(* the messages of other types, until it meets one of its own, a line that *)
(* does not parse, the end of the stream, or nothing more to read.  Only   *)
(* in the last case does it leave a waker behind, and the connection has   *)
(* room for one waker.                                                     *)
(*                                                                         *)
(* A line is known by its position in the stream.  How bytes become lines  *)
(* is not part of this module.                                             *)
(***************************************************************************)
EXTENDS Naturals, FiniteSets, SequencesExt

CONSTANTS Kinds,      \* kinds of message a receiver can ask for
          Bad,        \* a line that does not parse as a message
          Receivers,  \* the Recv futures in use
          Accepts,    \* Accepts[r]: the kinds for which r's from_message is Ok
          Tasks,      \* the tasks that poll the receivers
          TaskOf,     \* the task that polls each receiver
          Nobody,     \* no receiver holds the mutex, no waker is registered
          MaxLines    \* bound: lines the host sends

ASSUME RxAssumption ==
  /\ Bad \notin Kinds
  /\ Accepts \in [Receivers -> SUBSET Kinds]
  /\ TaskOf \in [Receivers -> Tasks]
  /\ Nobody \notin Receivers \cup Tasks
  /\ MaxLines \in Nat

VARIABLES
  lines,    \* every line the host has written, in order
  stream,   \* "open", or how the host's side ended: "eof", "failed"
  read,     \* how many of them MsgReader has parsed
  queue,    \* MsgBuffer.queue: positions read and put aside
  lock,     \* the receiver whose poll holds the mutex
  waker,    \* the task whose waker the connection holds
  toPoll,   \* the receivers that will be polled (first poll, or woken)
  got,      \* what recv has returned to each receiver, in order
  outcome,  \* "end" after Ok(None), "error" after a read error
  drained,  \* what close has returned, as a set of positions
  closed    \* Rx::close has been called

vars == <<lines, stream, read, queue, lock, waker, toPoll, got, outcome,
          drained, closed>>

-----------------------------------------------------------------------------

TypeOK ==
  /\ lines \in Seq(Kinds \cup {Bad})
  /\ stream \in {"open", "eof", "failed"}
  /\ read \in 0..Len(lines)
  /\ queue \in Seq(Nat)
  /\ lock \in Receivers \cup {Nobody}
  /\ waker \in Tasks \cup {Nobody}
  /\ toPoll \subseteq Receivers
  /\ got \in [Receivers -> Seq(Nat)]
  /\ outcome \in [Receivers -> {"none", "end", "error"}]
  /\ drained \subseteq Nat
  /\ closed \in BOOLEAN

Init ==
  /\ lines = << >>
  /\ stream = "open"
  /\ read = 0
  /\ queue = << >>
  /\ lock = Nobody
  /\ waker = Nobody
  /\ toPoll = Receivers
  /\ got = [r \in Receivers |-> << >>]
  /\ outcome = [r \in Receivers |-> "none"]
  /\ drained = {}
  /\ closed = FALSE

(* M::from_message succeeds for the message at position p. *)
Matches(r, p) == lines[p] \in Accepts[r]

(* The indexes at which MsgBuffer::pop would find a message for r. *)
Hits(r) == {i \in DOMAIN queue : Matches(r, queue[i])}

(* The receivers that are polled again when the connection becomes          *)
(* readable: all those of the task whose waker it holds.                    *)
Woken == {r \in Receivers : TaskOf[r] = waker}

(* The connection becomes readable: its waker, if any, is used up. *)
Wake ==
  /\ toPoll' = toPoll \cup Woken
  /\ waker' = Nobody

-----------------------------------------------------------------------------
(* The host. *)

HostWrite(k) ==
  /\ stream = "open"
  /\ Len(lines) < MaxLines
  /\ lines' = Append(lines, k)
  /\ Wake
  /\ UNCHANGED <<stream, read, queue, lock, got, outcome, drained, closed>>

HostEnd(how) ==
  /\ stream = "open"
  /\ stream' = how
  /\ Wake
  /\ UNCHANGED <<lines, read, queue, lock, got, outcome, drained, closed>>

-----------------------------------------------------------------------------
(* A poll of recv, first half: RxLocal::poll_recv up to its loop. *)

(* Rx has no such guard: that no receiver is polled after a close is how   *)
(* the agent uses it, which never closes while it receives.                *)
CanPoll(r) == r \in toPoll /\ lock = Nobody /\ ~closed

(* As a mutant: the buffer is searched from its end. *)
IsLastHit(r, i) == \A j \in Hits(r) : i >= j

(* MsgBuffer::pop stops at the first buffered message of a type r asks for. *)
IsFirstHit(r, i) == \A j \in Hits(r) : i <= j

TakeBuffered(r) ==
  /\ CanPoll(r)
  /\ \E i \in Hits(r) :
       /\ IsFirstHit(r, i)
       /\ got' = [got EXCEPT ![r] = Append(@, queue[i])]
       /\ queue' = RemoveAt(queue, i)
  /\ UNCHANGED <<lines, stream, read, lock, waker, toPoll, outcome, drained,
                 closed>>

(* As a mutant: the buffer is not searched before reading. *)
PopSkipped(r) == TRUE

(* pop answers None. *)
PopFindsNothing(r) == Hits(r) = {}

(* Nothing buffered for r: the poll goes on to read. *)
BeginRead(r) ==
  /\ CanPoll(r)
  /\ PopFindsNothing(r)
  /\ lock' = r
  /\ toPoll' = toPoll \ {r}
  /\ UNCHANGED <<lines, stream, read, queue, waker, got, outcome, drained,
                 closed>>

-----------------------------------------------------------------------------
(* A poll of recv, second half: the loop around MsgReader. *)

HasLine(r) == lock = r /\ read < Len(lines)

(* The poll returns Ready; the caller's loop will call recv again. *)
Return(r) ==
  /\ lock' = Nobody
  /\ toPoll' = toPoll \cup {r}

ReadOwn(r) ==
  /\ HasLine(r)
  /\ Matches(r, read + 1)
  /\ read' = read + 1
  /\ got' = [got EXCEPT ![r] = Append(@, read + 1)]
  /\ Return(r)
  /\ UNCHANGED <<lines, stream, queue, waker, outcome, drained, closed>>

(* The line is consumed and the caller gets its parse error. *)
ReadBad(r) ==
  /\ HasLine(r)
  /\ lines[read + 1] = Bad
  /\ read' = read + 1
  /\ got' = [got EXCEPT ![r] = Append(@, read + 1)]
  /\ Return(r)
  /\ UNCHANGED <<lines, stream, queue, waker, outcome, drained, closed>>

(* As a mutant: a message of another type is thrown away. *)
Discard(p) == UNCHANGED queue

(* MsgBuffer::push. *)
PutAside(p) == queue' = Append(queue, p)

ReadOther(r) ==
  /\ HasLine(r)
  /\ lines[read + 1] # Bad
  /\ ~Matches(r, read + 1)
  /\ read' = read + 1
  /\ PutAside(read + 1)
  /\ UNCHANGED <<lines, stream, lock, waker, toPoll, got, outcome, drained,
                 closed>>

(* As a mutant: Pending is answered without asking the connection. *)
LeaveNoWaker(r) == UNCHANGED waker

(* A Pending read leaves the waker of the poller with the connection. *)
LeaveWaker(r) == waker' = TaskOf[r]

(* Nothing to read: the poll returns Pending. *)
ReadPending(r) ==
  /\ lock = r
  /\ read = Len(lines)
  /\ stream = "open"
  /\ lock' = Nobody
  /\ LeaveWaker(r)
  /\ UNCHANGED <<lines, stream, read, queue, toPoll, got, outcome, drained,
                 closed>>

(* Ok(None).  The receiver does not come back unless it chooses to. *)
ReadEnd(r) ==
  /\ lock = r
  /\ read = Len(lines)
  /\ stream = "eof"
  /\ lock' = Nobody
  /\ outcome' = [outcome EXCEPT ![r] = "end"]
  /\ UNCHANGED <<lines, stream, read, queue, waker, toPoll, got, drained,
                 closed>>

(* A failed read; the kernel may have thrown away lines not read yet. *)
ReadFailed(r) ==
  /\ lock = r
  /\ stream = "failed"
  /\ lock' = Nobody
  /\ outcome' = [outcome EXCEPT ![r] = "error"]
  /\ UNCHANGED <<lines, stream, read, queue, waker, toPoll, got, drained,
                 closed>>

-----------------------------------------------------------------------------

(* The Recv future is dropped (a select! in which another branch won) and a *)
(* new one is created: it keeps no state, so all that happens is one more   *)
(* poll.  A receiver that has seen the end may ask again as well.           *)
Recall(r) ==
  /\ r \notin toPoll
  /\ lock # r
  /\ ~closed
  /\ toPoll' = toPoll \cup {r}
  /\ UNCHANGED <<lines, stream, read, queue, lock, waker, got, outcome,
                 drained, closed>>

(* As a mutant: one line too many. *)
FetchedOneMore == read .. Len(lines) + 1

(* How far the bytes that MsgReader has fetched may reach. *)
Fetched == read .. Len(lines)

(* Rx::close hands back the buffered messages and the bytes that have been  *)
(* fetched and not parsed, here the next lines up to n.                     *)
Close(n) ==
  /\ lock = Nobody
  /\ ~closed
  /\ closed' = TRUE
  /\ drained' = drained \cup Range(queue) \cup (read + 1 .. n)
  /\ queue' = << >>
  /\ read' = n
  /\ UNCHANGED <<lines, stream, lock, waker, toPoll, got, outcome>>

-----------------------------------------------------------------------------

Reading(r) ==
  \/ ReadOwn(r)
  \/ ReadBad(r)
  \/ ReadOther(r)
  \/ ReadPending(r)
  \/ ReadEnd(r)
  \/ ReadFailed(r)

Next ==
  \/ \E k \in Kinds \cup {Bad} : HostWrite(k)
  \/ \E how \in {"eof", "failed"} : HostEnd(how)
  \/ \E r \in Receivers :
       \/ TakeBuffered(r)
       \/ BeginRead(r)
       \/ Reading(r)
       \/ Recall(r)
  \/ \E n \in Fetched : Close(n)

Spec == Init /\ [][Next]_vars

(* A poll runs to its end without waiting.  A receiver in toPoll is polled  *)
(* whatever the others do: join! polls every branch each time the task      *)
(* runs, so no branch is passed over forever.                               *)
Fairness ==
  \A r \in Receivers : /\ SF_vars(TakeBuffered(r) \/ BeginRead(r))
                       /\ WF_vars(Reading(r))

FairSpec == Spec /\ Fairness

-----------------------------------------------------------------------------
(* Properties. *)

(* Positions handed to some receiver. *)
Delivered == UNION {Range(got[r]) : r \in Receivers}

(* Positions the host has sent and nobody has been handed. *)
Unclaimed == Range(queue) \cup (read + 1 .. Len(lines))

StrictlyIncreasing(s) == \A i, j \in DOMAIN s : i < j => s[i] < s[j]

(* Each line that has been parsed is in one place only. *)
Places ==
  /\ Range(queue) \cup Delivered \cup drained = 1 .. read
  /\ Range(queue) \cap Delivered = {}
  /\ Range(queue) \cap drained = {}
  /\ Delivered \cap drained = {}
  /\ \A r, s \in Receivers : r # s => Range(got[r]) \cap Range(got[s]) = {}

(* A line that has been parsed is in exactly one place: still buffered, or  *)
(* handed to one receiver, once, or handed back by close.  Putting aside,   *)
(* searching and removing in MsgBuffer neither loses nor repeats a message. *)
ExactlyOnce ==
  /\ Places
  /\ IsInjective(queue)
  /\ \A r \in Receivers : IsInjective(got[r])

(* Every receiver gets what it gets in the order the host sent it, buffered *)
(* or read directly, parse errors included.                                 *)
InOrder == \A r \in Receivers : StrictlyIncreasing(got[r])

(* Across receivers that share a kind: a message is never handed out while  *)
(* an earlier one of the same kind is still to be claimed.                  *)
NoOvertaking ==
  \A p \in Unclaimed, q \in Delivered :
     lines[p] = lines[q] /\ lines[p] # Bad => q < p

(* recv answers None only when everything the host sent for this receiver   *)
(* has been handed out: the end of the stream does not hide messages that   *)
(* are still buffered.                                                      *)
EndMeansAll ==
  \A r \in Receivers : outcome[r] = "end" =>
     \A p \in Unclaimed : ~Matches(r, p) /\ lines[p] # Bad

(* A receiver whose last poll was Pending and that nothing will poll. *)
Asleep(r) == r \notin toPoll /\ lock # r /\ outcome[r] = "none"

(* When one task polls all the receivers, the single waker slot of the      *)
(* connection loses no wake-up: nothing is buffered or readable, and the    *)
(* stream has not ended, while a receiver sleeps, although another receiver *)
(* may have read its message for it or taken over the waker slot.           *)
NoLostWakeup ==
  \A r \in Receivers : Asleep(r) /\ ~closed =>
     Hits(r) = {} /\ read = Len(lines) /\ stream = "open"

(* The inductive invariant behind these properties.  The buffer is sorted   *)
(* and holds no unparsable line; the holder of the mutex has found nothing  *)
(* in it; what is buffered for a receiver is newer than all it was given.   *)
IndInv ==
  /\ TypeOK
  /\ Places
  /\ StrictlyIncreasing(queue)
  /\ \A p \in Range(queue) : lines[p] # Bad
  /\ \A r \in Receivers : lock = r => \A p \in Range(queue) : ~Matches(r, p)
  /\ InOrder
  /\ \A r \in Receivers : \A p \in Range(queue), q \in Range(got[r]) :
       Matches(r, p) => q < p
  /\ \A p \in Range(queue), q \in Delivered : lines[p] = lines[q] => q < p
  /\ \A r \in Receivers : outcome[r] = "end" => stream = "eof"
  /\ EndMeansAll

(* The receiver implements the abstract channel. *)
Channel == INSTANCE TypedChannel WITH pending <- Unclaimed

ChannelSpec == Channel!Spec

(* What somebody asks for reaches somebody, unless the connection fails or  *)
(* the receiver is closed.                                                  *)
Asked(p) == \E r \in Receivers : Matches(r, p)

EventuallyDelivered ==
  \A p \in 1 .. MaxLines :
    (p <= Len(lines) /\ Asked(p)) ~>
      (p \in Delivered \/ stream = "failed" \/ closed)

(* Every receiver learns that the stream ended. *)
EventuallyEnded ==
  \A r \in Receivers : stream = "eof" ~> (outcome[r] = "end" \/ closed)
=============================================================================
