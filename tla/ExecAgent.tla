------------------------------ MODULE ExecAgent ------------------------------
(***************************************************************************)
(* One exec session: agent/src/main.rs with the process handle of          *)
(* agent/src/process.rs, between a host and a child process.               *)
(*                                                                         *)
(* The agent waits for the exec message, spawns the child, reports that it *)
(* has started, and joins four tasks: exit (kill requests and the exit     *)
(* status), stdin, and one for each output stream.  When all of them have  *)
(* ended it reports the first error, flushes and leaves.                   *)
(*                                                                         *)
(* What the host sends goes through TypedChannel, which ExecRx implements. *)
(* What the agent sends goes through the buffer of ExecTx, here in whole   *)
(* messages: a poll moves the buffer to the writer when the writer is      *)
(* idle, and nothing else does.  The writer, tokio's stdout, works on one  *)
(* batch at a time and is done when the host has read it.                  *)
(***************************************************************************)
EXTENDS Naturals, FiniteSets, SequencesExt

CONSTANTS Streams,    \* the output streams of the child
          HostKinds,  \* the messages the host may send
          MaxLines,   \* bound: lines from the host
          MaxChunks,  \* bound: chunks the child writes to each stream
          PipeSize,   \* chunks a pipe holds
          HighWater   \* messages in the buffer from which a send waits

(* A message from the host is its verb and its stream. *)
Exec == <<"exec", "main">>
Kill == <<"kill", "main">>
StdinData == <<"data", "stdin">>
StdinClosed == <<"closed", "stdin">>
Close(st) == <<"closed", st>>
Data(st) == <<"data", st>>
Bad == <<"bad", "main">>

ASSUME AgentAssumption ==
  /\ Streams \subseteq {"stdout", "stderr"}
  /\ HostKinds \subseteq {Exec, Kill, StdinData, StdinClosed, Bad}
                           \cup {Close(st) : st \in Streams}
                           \cup {Data(st) : st \in Streams}
  /\ {MaxLines, MaxChunks} \subseteq Nat
  /\ {PipeSize, HighWater} \subseteq Nat \ {0}

Tasks == {"exit", "stdin"} \cup Streams
Actors == {"main"} \cup Tasks

(* The message types the receivers ask for: Exec, Kill, Stdin<Option<Bytes>> *)
(* and, for an output stream, Stdout<Stdio>.                                 *)
Accepts ==
  [a \in Actors |->
     CASE a = "main"  -> {Exec}
       [] a = "exit"  -> {Kill}
       [] a = "stdin" -> {StdinData, StdinClosed}
       [] OTHER       -> {Close(a), Data(a)}]

VARIABLES
  lines, stream, pending,   \* the channel from the host
  pc,        \* where each actor is
  msg,       \* the message it is sending
  buf,       \* TxLocal.transmitting, in messages
  inflight,  \* the batch the writer is working on
  heard,     \* what the host has read
  conn,      \* the way to the host: "up" or "down"
  proc,      \* the child: "none", "running", "zombie", "reaped"
  doomed,    \* SIGKILL has been sent to the running child
  open,      \* open[st]: some process holds the write end of the stream
  written,   \* chunks written to each stream
  taken,     \* chunks the agent has read from it
  fd,        \* fd[st]: the agent's read end: "open" or "closed"
  deaf,      \* deaf[st]: the close-request branch of the select! is disabled
  fault,     \* a wait for the child has failed: the handle holds its error
  piped,     \* chunks in the child's stdin pipe
  reader     \* some process holds the read end of that pipe

channel == <<lines, stream, pending>>
output == <<buf, inflight, heard, conn>>
child == <<proc, doomed, open, written, piped, reader>>
held == <<taken, fd, deaf, fault>>

vars == <<channel, pc, msg, output, child, held>>

(* The channel without its history, which nothing here reads. *)
Chan == INSTANCE TypedChannel
          WITH Kinds <- HostKinds, Receivers <- Actors,
               got <- << >>, outcome <- << >>, drained <- {}

Started == <<"started", "main", 0>>
Exited == <<"exited", "main", 0>>
Error == <<"error", "main", 0>>
ClosedMsg(st) == <<"closed", st, 0>>
DataMsg(st, n) == <<"data", st, n>>

(* As a mutant: exited is sent with send. *)
FlushesClosed(m) == m[1] = "closed"

(* The messages sent with send_and_flush; the others are sent with send. *)
Flushes(m) == m[1] \in {"exited", "closed"}

Idle == inflight = << >>

-----------------------------------------------------------------------------

Init ==
  /\ lines = << >> /\ stream = "open" /\ pending = {}
  /\ pc = [a \in Actors |-> IF a = "main" THEN "exec" ELSE "unborn"]
  /\ msg = [a \in Actors |-> Started]
  /\ buf = << >> /\ inflight = << >> /\ heard = << >> /\ conn = "up"
  /\ proc = "none" /\ doomed = FALSE
  /\ open = [st \in Streams |-> FALSE]
  /\ written = [st \in Streams |-> 0]
  /\ taken = [st \in Streams |-> 0]
  /\ fd = [st \in Streams |-> "open"]
  /\ deaf = [st \in Streams |-> FALSE]
  /\ fault = FALSE
  /\ piped = 0 /\ reader = FALSE

-----------------------------------------------------------------------------
(* The host. *)

HostSend(k) ==
  /\ Len(lines) < MaxLines
  /\ Chan!Put(k)
  /\ UNCHANGED <<pc, msg, output, child, held>>

HostEnd(how) ==
  /\ Chan!End(how)
  /\ UNCHANGED <<pc, msg, output, child, held>>

(* The host reads the batch the writer holds. *)
HostRead ==
  /\ conn = "up" /\ ~Idle
  /\ heard' = heard \o inflight
  /\ inflight' = << >>
  /\ UNCHANGED <<channel, pc, msg, buf, conn, child, held>>

(* The host will read nothing more. *)
HostBreak ==
  /\ conn = "up"
  /\ conn' = "down"
  /\ UNCHANGED <<channel, pc, msg, buf, inflight, heard, child, held>>

-----------------------------------------------------------------------------
(* The child and what it leaves behind. *)

(* The agent holds the read end of a stream until its task ends, or until   *)
(* the session gives up before the tasks have started.                      *)
Reading(st) ==
  fd[st] = "open" /\ pc[st] \notin {"done", "failed"} /\ msg["main"] # Error

ChildWrite(st) ==
  /\ open[st] /\ Reading(st)
  /\ written[st] < MaxChunks
  /\ written[st] - taken[st] < PipeSize
  /\ written' = [written EXCEPT ![st] = @ + 1]
  /\ UNCHANGED <<channel, pc, msg, output, proc, doomed, open, piped, reader,
                 held>>

ChildClose(st) ==
  /\ open[st]
  /\ open' = [open EXCEPT ![st] = FALSE]
  /\ UNCHANGED <<channel, pc, msg, output, proc, doomed, written, piped,
                 reader, held>>

ChildRead ==
  /\ reader /\ piped > 0
  /\ piped' = piped - 1
  /\ UNCHANGED <<channel, pc, msg, output, proc, doomed, open, written, reader,
                 held>>

ChildCloseStdin ==
  /\ reader
  /\ reader' = FALSE
  /\ UNCHANGED <<channel, pc, msg, output, proc, doomed, open, written, piped,
                 held>>

(* The child exits, or the signal takes effect.  Its ends of the pipes are  *)
(* closed by the steps above, at once or when the processes it has started, *)
(* which inherit them, are gone.                                            *)
ChildExit ==
  /\ proc = "running"
  /\ proc' = "zombie"
  /\ UNCHANGED <<channel, pc, msg, output, doomed, open, written, piped,
                 reader, held>>

-----------------------------------------------------------------------------
(* Sending: DoSend over the buffer.                                         *)

(* As a mutant: the buffer is emptied though the writer is busy. *)
TransmitLossy == inflight' = (IF Idle THEN buf ELSE inflight) /\ buf' = << >>

(* poll_flush_in_bg lets a send go on. *)
RoomInBuffer == Idle \/ Len(buf) < HighWater

(* poll_transmit: an idle writer takes the whole buffer. *)
Transmit ==
  IF Idle THEN inflight' = buf /\ buf' = << >>
          ELSE UNCHANGED <<inflight, buf>>

(* As a mutant: the signal is never sent. *)
KillNothing == doomed' = doomed

(* Process::signal with SIGKILL, and Process::drop: the signal is sent      *)
(* unless the child has been waited for, and matters while it runs.  A wait *)
(* that has failed leaves nothing to signal; the exit task ends with it.    *)
KillProcess == doomed' = (doomed \/ proc = "running")

Goto(a, where) == pc' = [pc EXCEPT ![a] = where]

BeginSend(a, m) ==
  /\ Goto(a, "pre")
  /\ msg' = [msg EXCEPT ![a] = m]

(* Where each actor is when join! begins. *)
Beginning(a) ==
  CASE a = "main"  -> "join"
    [] a = "stdin" -> "recv"
    [] OTHER       -> "select"

(* Where the actors go on when a has sent its message. *)
After(a) ==
  CASE msg[a] = Started   -> [x \in Actors |-> Beginning(x)]
    [] msg[a] = Error     -> [pc EXCEPT ![a] = "final"]
    [] msg[a][1] = "data" -> [pc EXCEPT ![a] = "select"]
    [] Flushes(msg[a])    -> [pc EXCEPT ![a] = "flush"]
    [] OTHER              -> [pc EXCEPT ![a] = "done"]

(* A poll of a send: the first flush in the background, the message enters  *)
(* the buffer, and the second flush, which ends a plain send or waits.      *)
Enter(a) ==
  /\ pc[a] = "pre"
  /\ conn = "up" \/ Idle
  /\ RoomInBuffer
  /\ LET behind == IF Idle THEN buf ELSE inflight
         ahead  == Append(IF Idle THEN << >> ELSE buf, msg[a])
     IN  /\ IF behind = << >> THEN inflight' = ahead /\ buf' = << >>
                              ELSE inflight' = behind /\ buf' = ahead
         /\ IF behind = << >> \/ Len(ahead) < HighWater
              THEN pc' = After(a) ELSE Goto(a, "post")
  /\ UNCHANGED <<channel, msg, heard, conn, child, held>>

(* A later poll of the second flush. *)
Pass(a) ==
  /\ pc[a] = "post"
  /\ conn = "up" \/ Idle
  /\ RoomInBuffer
  /\ Transmit
  /\ pc' = After(a)
  /\ UNCHANGED <<channel, msg, heard, conn, child, held>>

(* Where an actor goes on after send_and_flush: its task ends. *)
AfterFlush(a) == "done"

(* The final poll_flush of send_and_flush: hand the buffer to the writer    *)
(* and wait until it is idle again.                                         *)
Flush(a) ==
  /\ pc[a] = "flush"
  /\ Idle
  /\ IF buf = << >> THEN Goto(a, AfterFlush(a)) ELSE UNCHANGED pc
  /\ Transmit
  /\ UNCHANGED <<channel, msg, heard, conn, child, held>>

(* The batch could not be written: the next poll of the writer gets the     *)
(* error.  The task ends with it; the exit task takes the process along.    *)
SendFails(a) ==
  /\ pc[a] \in {"pre", "post", "flush"}
  /\ conn = "down" /\ ~Idle
  /\ inflight' = << >>
  /\ CASE msg[a] = Started -> BeginSend(a, Error) /\ KillProcess
       [] msg[a] = Error   -> Goto(a, "final") /\ UNCHANGED <<msg, doomed>>
       [] a = "exit"       -> Goto(a, "failed") /\ KillProcess /\ UNCHANGED msg
       [] OTHER            -> Goto(a, "failed") /\ UNCHANGED <<msg, doomed>>
  /\ UNCHANGED <<channel, buf, heard, conn, proc, open, written, piped, reader,
                 held>>

-----------------------------------------------------------------------------
(* main, up to the tasks. *)

(* The receiver of a gets the line at position p. *)
Receives(a, p) == Chan!Give(a, p)

(* recv of a answers None, or a read error. *)
AtEnd(a) == Chan!AtEnd(a) /\ UNCHANGED channel
AtFailure(a) == stream = "failed" /\ UNCHANGED channel

RecvExec ==
  /\ pc["main"] = "exec"
  /\ \/ \E p \in pending :
          /\ Receives("main", p)
          /\ IF lines[p] = Exec THEN Goto("main", "spawn") /\ UNCHANGED msg
                                ELSE BeginSend("main", Error)
     \/ (AtEnd("main") \/ AtFailure("main")) /\ BeginSend("main", Error)
  /\ UNCHANGED <<output, child, held>>

(* As a mutant: the tasks start without a word to the host. *)
StartTasks == pc' = [a \in Actors |-> Beginning(a)] /\ UNCHANGED msg

ReportStarted == BeginSend("main", Started)

(* process::spawn succeeds, or fails and leaves nothing behind. *)
Spawn ==
  /\ pc["main"] = "spawn"
  /\ \/ /\ proc' = "running"
        /\ open' = [st \in Streams |-> TRUE]
        /\ reader' = TRUE
        /\ ReportStarted
     \/ /\ BeginSend("main", Error)
        /\ UNCHANGED <<proc, open, reader>>
  /\ UNCHANGED <<channel, output, doomed, written, piped, held>>

-----------------------------------------------------------------------------
(* The exit task. *)

(* A kill request: Process::signal finds the child not waited for. *)
ExitKill ==
  /\ pc["exit"] = "select"
  /\ \E p \in pending : Receives("exit", p) /\ lines[p] = Kill
  /\ KillProcess
  /\ UNCHANGED <<pc, msg, output, proc, open, written, piped, reader, held>>

(* A line that does not parse, or a read error: the task ends and takes the *)
(* process handle with it.  The end of the stream is neither: the select!   *)
(* is entered again, with nothing changed.                                  *)
ExitFails ==
  /\ pc["exit"] = "select"
  /\ \/ \E p \in pending : Receives("exit", p) /\ lines[p] = Bad
     \/ AtFailure("exit")
  /\ Goto("exit", "failed")
  /\ KillProcess
  /\ UNCHANGED <<msg, output, proc, open, written, piped, reader, held>>

(* Process::wait: the child is waited for, or has been already. *)
ExitWait ==
  /\ pc["exit"] = "select"
  /\ proc \in {"zombie", "reaped"}
  /\ proc' = "reaped"
  /\ BeginSend("exit", Exited)
  /\ UNCHANGED <<channel, output, doomed, open, written, piped, reader, held>>

(* wait fails: its error takes the child's place in the handle, and the     *)
(* task ends at exit? before it has said anything.  The drop of the handle  *)
(* finds no child and kills nothing.                                        *)
ExitWaitFails ==
  /\ pc["exit"] = "select"
  /\ fault' = TRUE
  /\ Goto("exit", "failed")
  /\ UNCHANGED <<channel, msg, output, child, taken, fd, deaf>>

-----------------------------------------------------------------------------
(* The stdin task. *)

StdinRecv ==
  /\ pc["stdin"] = "recv"
  /\ \E p \in pending :
       /\ Receives("stdin", p)
       /\ CASE lines[p] = StdinData   -> Goto("stdin", "write") /\ UNCHANGED msg
            [] lines[p] = StdinClosed -> BeginSend("stdin", ClosedMsg("stdin"))
            [] lines[p] = Bad         -> Goto("stdin", "failed") /\ UNCHANGED msg
  /\ UNCHANGED <<output, child, held>>

(* As a mutant: the stdin task asks again at the end of the stream. *)
AskAgain == AtEnd("stdin") /\ UNCHANGED <<pc, msg>>

(* None ends the input as closed does. *)
EndOfInput == AtEnd("stdin") /\ BeginSend("stdin", ClosedMsg("stdin"))

StdinEnds ==
  /\ pc["stdin"] = "recv"
  /\ \/ EndOfInput
     \/ AtFailure("stdin") /\ Goto("stdin", "failed") /\ UNCHANGED msg
  /\ UNCHANGED <<output, child, held>>

(* write_all waits for room, for each part of the data, which may be more   *)
(* than the pipe holds, and fails when nobody can read.                     *)
StdinWrite ==
  /\ pc["stdin"] = "write"
  /\ IF reader
       THEN /\ piped < PipeSize /\ piped' = piped + 1
            /\ Goto("stdin", "recv") \/ UNCHANGED pc
       ELSE UNCHANGED piped /\ Goto("stdin", "failed")
  /\ UNCHANGED <<channel, msg, output, proc, doomed, open, written, reader,
                 held>>

-----------------------------------------------------------------------------
(* The stdout and stderr tasks. *)

ReadChunk(st) ==
  /\ pc[st] = "select" /\ fd[st] = "open"
  /\ taken[st] < written[st]
  /\ taken' = [taken EXCEPT ![st] = @ + 1]
  /\ deaf' = [deaf EXCEPT ![st] = FALSE]
  /\ BeginSend(st, DataMsg(st, taken[st] + 1))
  /\ UNCHANGED <<channel, output, child, fd, fault>>

(* As a mutant: the end of the process is taken for the end of its output. *)
AtEofOnExit(st) == proc = "zombie"

(* read_buf answers 0. *)
AtEof(st) == taken[st] = written[st] /\ ~open[st]

ReadEof(st) ==
  /\ pc[st] = "select" /\ fd[st] = "open"
  /\ AtEof(st)
  /\ BeginSend(st, ClosedMsg(st))
  /\ UNCHANGED <<channel, output, child, held>>

(* The host asks for no more: the descriptor is closed behind the back of   *)
(* the reader that owns it.  A second request finds it closed already.      *)
CloseRequest(st) ==
  /\ pc[st] = "select" /\ ~deaf[st]
  /\ \E p \in pending : Receives(st, p) /\ lines[p] = Close(st)
  /\ IF fd[st] = "open"
       THEN fd' = [fd EXCEPT ![st] = "closed"] /\ UNCHANGED pc
       ELSE Goto(st, "failed") /\ UNCHANGED fd
  /\ UNCHANGED <<msg, output, child, taken, deaf, fault>>

(* Any other answer does not match the pattern: it is dropped, and the      *)
(* branch is out of the select! until the other one has fired.              *)
IgnoreAnswer(st) ==
  /\ pc[st] = "select" /\ ~deaf[st]
  /\ \/ \E p \in pending : Receives(st, p) /\ lines[p] # Close(st)
     \/ AtEnd(st)
     \/ AtFailure(st)
  /\ deaf' = [deaf EXCEPT ![st] = TRUE]
  /\ UNCHANGED <<pc, msg, output, child, taken, fd, fault>>

(* The reader tries a descriptor that is closed: EBADF, if the runtime      *)
(* still believes it readable (a read that filled its buffer leaves it so). *)
(* It is never woken otherwise.                                             *)
ReadClosedFd(st) ==
  /\ pc[st] = "select" /\ fd[st] = "closed"
  /\ Goto(st, "failed")
  /\ UNCHANGED <<channel, msg, output, child, held>>

-----------------------------------------------------------------------------
(* main, after the tasks. *)

(* As a mutant: the first task that fails ends the join. *)
JoinReadyAtFailure ==
  \/ \E t \in Tasks : pc[t] = "failed"
  \/ \A t \in Tasks : pc[t] = "done"

(* join! waits for all tasks, failed or not. *)
JoinReady == \A t \in Tasks : pc[t] \in {"done", "failed"}

Join ==
  /\ pc["main"] = "join"
  /\ JoinReady
  /\ IF \E t \in Tasks : pc[t] = "failed"
       THEN BeginSend("main", Error)
       ELSE Goto("main", "final") /\ UNCHANGED msg
  /\ UNCHANGED <<channel, output, child, held>>

(* As a mutant: the agent leaves without a flush. *)
NothingToFlush == FALSE

(* The flush has something to hand to the writer. *)
MoreToFlush == conn = "up" /\ buf # << >>

(* tx.flush and tx.close. *)
Final ==
  /\ pc["main"] = "final"
  /\ Idle \/ conn = "down"
  /\ IF MoreToFlush THEN UNCHANGED pc ELSE Goto("main", "done")
  /\ IF conn = "up" THEN Transmit ELSE inflight' = << >> /\ UNCHANGED buf
  /\ UNCHANGED <<channel, msg, heard, conn, child, held>>

-----------------------------------------------------------------------------

Sending(a) == Enter(a) \/ Pass(a) \/ Flush(a) \/ SendFails(a)

MainStep == RecvExec \/ Spawn \/ Join \/ Final
ExitStep == ExitKill \/ ExitFails \/ ExitWait \/ ExitWaitFails
StdinStep == StdinRecv \/ StdinEnds \/ StdinWrite
StreamStep(st) ==
  \/ ReadChunk(st)
  \/ ReadEof(st)
  \/ CloseRequest(st)
  \/ IgnoreAnswer(st)

Host ==
  \/ \E k \in HostKinds : HostSend(k)
  \/ \E how \in {"eof", "failed"} : HostEnd(how)
  \/ HostRead
  \/ HostBreak

Child ==
  \/ \E st \in Streams : ChildWrite(st) \/ ChildClose(st)
  \/ ChildRead
  \/ ChildCloseStdin
  \/ ChildExit

Agent ==
  \/ MainStep
  \/ ExitStep
  \/ StdinStep
  \/ \E st \in Streams : StreamStep(st) \/ ReadClosedFd(st)
  \/ \E a \in Actors : Sending(a)

Next == Host \/ Child \/ Agent

Spec == Init /\ [][Next]_vars

(* A task that can go on is polled, since join! polls them all; a child     *)
(* that has been sent SIGKILL dies.  The host and the child owe nothing     *)
(* else, and no wait has to fail.  What the host and the child give is      *)
(* bounded, so a task does not go from one thing to the next for ever and   *)
(* one fairness for all it does is enough.                                  *)
AgentFairness ==
  /\ WF_vars(MainStep \/ Sending("main"))
  /\ WF_vars(ExitKill \/ ExitFails \/ ExitWait \/ Sending("exit"))
  /\ WF_vars(StdinStep \/ Sending("stdin"))
  /\ \A st \in Streams : WF_vars(StreamStep(st) \/ Sending(st))
  /\ WF_vars(doomed /\ ChildExit)

(* A host that reads. *)
FairSpec == Spec /\ AgentFairness /\ WF_vars(HostRead)

-----------------------------------------------------------------------------
(* Properties. *)

(* What the agent may say. *)
Messages ==
  {Started, Exited, Error, ClosedMsg("stdin")}
    \cup {ClosedMsg(st) : st \in Streams}
    \cup {DataMsg(st, n) : st \in Streams, n \in 1 .. MaxChunks}

(* The types of the variables. *)
TypeOK ==
  /\ pc \in [Actors -> {"unborn", "exec", "spawn", "join", "final", "select",
                        "recv", "write", "pre", "post", "flush", "done", "failed"}]
  /\ msg \in [Actors -> Messages]
  /\ buf \in Seq(Messages) /\ Len(buf) <= HighWater
  /\ inflight \in Seq(Messages)
  /\ heard \in Seq(Messages)
  /\ conn \in {"up", "down"}
  /\ proc \in {"none", "running", "zombie", "reaped"}
  /\ doomed \in BOOLEAN /\ reader \in BOOLEAN /\ fault \in BOOLEAN
  /\ open \in [Streams -> BOOLEAN]
  /\ deaf \in [Streams -> BOOLEAN]
  /\ fd \in [Streams -> {"open", "closed"}]
  /\ written \in [Streams -> 0 .. MaxChunks]
  /\ taken \in [Streams -> 0 .. MaxChunks]
  /\ \A st \in Streams : taken[st] <= written[st]
  /\ piped \in 0 .. PipeSize

(* All that the agent has said and not lost, in the order it said it. *)
Said == heard \o inflight \o buf

(* The first thing the host hears is started, or error; started once.       *)
(* (protocol/SPECIFICATION.md, "This or error must be the first message".)  *)
StartedFirst ==
  conn = "up" =>
    \A i \in DOMAIN Said : /\ i = 1 => Said[i] \in {Started, Error}
                           /\ Said[i] = Started => i = 1

(* Chunks of a stream that are in what is said, and whether closed is. *)
Passed(st) ==
  IF pc[st] = "pre" /\ msg[st][1] = "data" THEN taken[st] - 1 ELSE taken[st]
Ended(st) == pc[st] \in {"post", "flush", "done"} /\ msg[st] = ClosedMsg(st)

(* The host hears the chunks of a stream in the order they were read, each  *)
(* once, and closed when there is nothing more: whatever the other tasks    *)
(* send in between, and however long the connection was blocked.            *)
OutputInOrder ==
  conn = "up" =>
    \A st \in Streams :
      LET About == {i \in DOMAIN Said : Said[i][2] = st}
      IN  /\ {Said[i] : i \in About} =
               {DataMsg(st, n) : n \in 1 .. Passed(st)}
                 \cup (IF Ended(st) THEN {ClosedMsg(st)} ELSE {})
          /\ \A i, j \in About : i < j =>
               /\ Said[i][1] = "data"
               /\ Said[j][1] = "data" => Said[i][3] < Said[j][3]

(* closed is the truth: every chunk the child wrote has been sent, and      *)
(* nobody can write another.                                                *)
ClosedMeansAll ==
  \A st \in Streams :
    ClosedMsg(st) \in Range(Said) => taken[st] = written[st] /\ ~open[st]

(* exited is said once, of a child that has exited and been waited for.     *)
ExitedOnce ==
  \A i, j \in DOMAIN Said :
    Said[i] = Exited => proc = "reaped" /\ (Said[j] = Exited => i = j)

(* Nothing is said after an error, and it is said once. *)
ErrorLast == \A i \in DOMAIN Said : Said[i] = Error => i = Len(Said)

(* The course of a session as the host hears it, whichever of the four      *)
(* tasks gets to the buffer first, and whichever fail: it begins with       *)
(* started or error, tells of the exit once and truly, and an error ends it. *)
SessionOrder == StartedFirst /\ ExitedOnce /\ ErrorLast

(* When the agent leaves, a host that still reads has heard everything, and *)
(* has been told how the session ended: the exit status and the end of all  *)
(* streams, or an error.                                                    *)
NothingUnsaid ==
  pc["main"] = "done" /\ conn = "up" =>
    /\ Said = heard
    /\ \/ Error \in Range(heard)
       \/ {Exited, ClosedMsg("stdin")} \cup {ClosedMsg(st) : st \in Streams}
             \subseteq Range(heard)

(* The agent leaves no child running: it has exited, or is being killed.    *)
(* The one exception is a wait that has failed (Process::wait, exit? in     *)
(* main.rs): the error is in the child's place, and nothing kills it.       *)
NoOrphan ==
  pc["main"] \in {"final", "done"} /\ proc = "running" => doomed \/ fault

(* The inductive invariant behind these properties, in five parts.  Where   *)
(* each actor may be, and with which message.                               *)
Place(a) ==
  /\ a = "main" =>
       /\ pc[a] \in {"exec", "spawn", "pre", "post", "join", "final", "done"}
       /\ pc[a] \in {"pre", "post"} => msg[a] \in {Started, Error}
  /\ a \in Tasks => pc[a] \notin {"exec", "spawn", "join", "final"}
  /\ a = "exit" /\ pc[a] \in {"pre", "post", "flush", "done"} => msg[a] = Exited
  /\ a = "stdin" /\ pc[a] \in {"pre", "post", "flush", "done"} => msg[a] = ClosedMsg(a)
  /\ a \in Streams /\ pc[a] \in {"pre", "post"} =>
       msg[a] = ClosedMsg(a) \/ (msg[a] = DataMsg(a, taken[a]) /\ taken[a] > 0)
  /\ a \in Streams /\ pc[a] \in {"flush", "done"} => msg[a] = ClosedMsg(a)
Places == \A a \in Actors : Place(a)

(* The tasks live while main waits for them, and have ended after it.       *)
Unborn == \A t \in Tasks : pc[t] = "unborn"
Settled == \A t \in Tasks : pc[t] \in {"done", "failed"}

Phases ==
  /\ Unborn \/ \A t \in Tasks : pc[t] # "unborn"
  /\ pc["main"] \in {"exec", "spawn"} => Unborn
  /\ pc["main"] = "join" => ~Unborn
  /\ pc["main"] = "pre" => Unborn \/ (Settled /\ msg["main"] = Error)
  /\ pc["main"] = "post" => Settled /\ msg["main"] = Error
  /\ pc["main"] \in {"final", "done"} => Unborn \/ Settled

(* Nothing has been said yet. *)
Fresh == pc["main"] \in {"exec", "spawn"} \/ (pc["main"] = "pre" /\ Unborn)

(* What has been said, by how far everybody has got.                        *)
Words ==
  /\ Fresh => Said = << >>
  /\ Exited \in Range(Said) => pc["exit"] \in {"post", "flush", "done", "failed"}
  /\ Error \in Range(Said) => pc["main"] \in {"post", "final", "done"}
  /\ conn = "up" =>
       /\ ~Fresh => Said # << >>
       /\ pc["exit"] \in {"post", "flush", "done"} => Exited \in Range(Said)
       /\ pc["stdin"] \in {"post", "flush", "done"} => ClosedMsg("stdin") \in Range(Said)
       /\ pc["main"] = "post" => Error \in Range(Said)
       /\ pc["main"] \in {"final", "done"} =>
            Error \in Range(Said) \/ \A t \in Tasks : pc[t] = "done"
       /\ pc["main"] = "done" => inflight = << >> /\ buf = << >>

(* What is said of the child is true, and the exit task keeps it till then, *)
(* unless its wait has failed: then it has ended and the child may run on.  *)
Fate ==
  /\ pc["exit"] \in {"pre", "post", "flush", "done"} => proc = "reaped"
  /\ proc = "running" =>
       \/ doomed
       \/ fault
       \/ pc["main"] = "pre" /\ msg["main"] = Started
       \/ pc["main"] = "join" /\ pc["exit"] = "select"
  /\ \A st \in Streams :
       pc[st] \in {"pre", "post", "flush", "done"} /\ msg[st] = ClosedMsg(st) =>
         taken[st] = written[st] /\ ~open[st]

IndInv ==
  /\ TypeOK
  /\ Places /\ Phases
  /\ Words /\ Fate
  /\ SessionOrder
  /\ OutputInOrder
  /\ ClosedMeansAll

(* The exit status reaches a host that reads, even if it has not read for a *)
(* while, nothing else is said, and a process the child left behind keeps   *)
(* its pipes open.                                                          *)
ExitedReported ==
  (proc = "zombie" /\ pc["exit"] = "select") ~>
    (Exited \in Range(heard) \/ conn = "down" \/ pc["exit"] = "failed")

(* A kill request stops the child, whatever the other tasks are waiting for *)
(* and whatever else the host has sent, before it or after it.  If a wait   *)
(* has failed, nobody is left to hear the request.                          *)
KillStops ==
  ((\E p \in pending : lines[p] = Kill) /\ proc = "running")
    ~> (proc # "running" \/ fault)

(* The session ends when the child has exited, the pipes are free and the   *)
(* host has ended its side.                                                 *)
SessionEnds ==
  (proc = "reaped" /\ stream # "open" /\ ~reader /\ \A st \in Streams : ~open[st])
    ~> pc["main"] = "done"
-----------------------------------------------------------------------------
(* What protocol/SPECIFICATION.md asks for and main.rs does not do: each of *)
(* these is refuted by a run of its own.                                    *)

(* "VM should flush stdout/stderr as available" (296): what is in the       *)
(* buffer reaches a host that reads.  The stream tasks use send, and a      *)
(* message behind a busy writer moves only when somebody sends again.       *)
OutputFlushed ==
  \A st \in Streams : \A n \in 1 .. MaxChunks :
    (DataMsg(st, n) \in Range(buf)) ~>
      (DataMsg(st, n) \in Range(heard) \/ conn = "down")

(* "must send a closed to acknowledge" (33): after a close request the host *)
(* hears closed for that stream.                                            *)
CloseAcknowledged ==
  \A st \in Streams :
    (fd[st] = "closed") ~> (ClosedMsg(st) \in Range(heard) \/ conn = "down")

(* "Any side closes/closed connection: VM kills processes immediately"      *)
(* (254): a process does not outlive the host's side of the connection.     *)
KilledOnClose == (stream # "open") ~> (proc # "running")
=============================================================================
