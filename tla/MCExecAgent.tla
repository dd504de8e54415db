----------------------------- MODULE MCExecAgent -----------------------------
(* Instances of ExecAgent: what the host may send, and when.                  *)
EXTENDS ExecAgent

(* Everything the agent reads, and output, which it does not expect. *)
EveryKind ==
  {Exec, Kill, StdinData, StdinClosed, Bad}
    \cup {Close(st) : st \in Streams} \cup {Data(st) : st \in Streams}

(* A host that starts the process and waits. *)
JustExec == {Exec}

(* Requests to the process and its input; the end of the input is the end   *)
(* of the stream.  Without the request to close a stream, after which a     *)
(* session may not end: see CloseAcknowledged.                              *)
Requests == {Exec, Kill, StdinData, Bad}

(* A host that asks for the output streams to be closed. *)
ExecAndClose == {Exec} \cup {Close(st) : st \in Streams}

(* A session that begins with exec, its only one.  A request sent before    *)
(* it would be pending when the process has been spawned, as one sent after *)
(* it is.                                                                   *)
ExecFirst == lines' # lines => (Last(lines') = Exec <=> lines = << >>)

(* MaxLines events from the host: a line, or a failure of the connection,   *)
(* one way or the other.                                                    *)
One(b) == IF b THEN 1 ELSE 0
Events ==
  Len(lines') + One(conn' = "down") + One(stream' = "failed") <= MaxLines

Session ==
  /\ Init /\ [][Next /\ ExecFirst /\ Events]_vars
  /\ AgentFairness /\ WF_vars(HostRead)

(* A state without its history: of the lines from the host those that wait, *)
(* in their order, and how many there were; of what the host has heard      *)
(* whether it was exited; of the messages those being sent, and main's.     *)
(* Nothing in Session or its properties reads the rest.                     *)
InOrder == SelectSeq([p \in DOMAIN lines |-> p], LAMBDA p : p \in pending)
Present ==
  <<Len(lines), [i \in DOMAIN InOrder |-> lines[InOrder[i]]], stream, pc,
    [a \in Actors |-> IF pc[a] \in {"pre", "post", "flush"} \/ a = "main"
                        THEN msg[a] ELSE Started],
    buf, inflight, Exited \in Range(heard), conn, child, held>>
=============================================================================
