---------------------------- MODULE TypedChannel ----------------------------
(***************************************************************************)
(* What the receiving half of the exec protocol promises to its callers,   *)
(* without buffers, readers or locks: the host appends lines to a stream,  *)
(* and several receivers, each asking for some kinds of message only, take *)
(* lines out of it.  A line is known by its position in the stream.        *)
(*                                                                         *)
(* ExecRx implements this specification.                                   *)
(***************************************************************************)
EXTENDS Naturals, Sequences

CONSTANTS Kinds,      \* kinds of message a receiver can ask for
          Bad,        \* a line that does not parse as a message
          Receivers,  \* the callers of recv
          Accepts     \* the kinds each receiver asks for

VARIABLES lines,      \* every line the host has sent, in order
          stream,     \* "open", or how the host's side ended: "eof", "failed"
          pending,    \* positions sent and not handed out yet
          got,        \* positions handed to each receiver, in order
          outcome,    \* what ended each receiver: "none", "end", "error"
          drained     \* positions handed back when the channel was closed

vars == <<lines, stream, pending, got, outcome, drained>>

Init ==
  /\ lines = << >>
  /\ stream = "open"
  /\ pending = {}
  /\ got = [r \in Receivers |-> << >>]
  /\ outcome = [r \in Receivers |-> "none"]
  /\ drained = {}

(* The host sends a line. *)
Put(k) ==
  /\ stream = "open"
  /\ lines' = Append(lines, k)
  /\ pending' = pending \cup {Len(lines) + 1}
  /\ UNCHANGED <<stream, got, outcome, drained>>

(* The host's side ends. *)
End(how) ==
  /\ stream = "open"
  /\ how \in {"eof", "failed"}
  /\ stream' = how
  /\ UNCHANGED <<lines, pending, got, outcome, drained>>

(* The lines a receiver could be given now. *)
Wanted(r) == {p \in pending : lines[p] \in Accepts[r]}

(* The receiver is given the oldest pending message it asks for, or, when   *)
(* there is none, is told of the oldest line that does not parse.           *)
Give(r, p) ==
  /\ p \in pending
  /\ \/ /\ p \in Wanted(r)
        /\ \A q \in Wanted(r) : p <= q
     \/ /\ lines[p] = Bad
        /\ \A q \in pending : q < p => q \notin Wanted(r) /\ lines[q] # Bad
  /\ pending' = pending \ {p}
  /\ UNCHANGED <<lines, stream>>

Take(r, p) ==
  /\ Give(r, p)
  /\ got' = [got EXCEPT ![r] = Append(@, p)]
  /\ UNCHANGED <<outcome, drained>>

(* Nothing more will come for the receiver: no line that it could be given  *)
(* is left.                                                                 *)
AtEnd(r) ==
  /\ stream = "eof"
  /\ \A p \in pending : p \notin Wanted(r) /\ lines[p] # Bad

(* The receiver is told so. *)
SeeEnd(r) ==
  /\ AtEnd(r)
  /\ outcome' = [outcome EXCEPT ![r] = "end"]
  /\ UNCHANGED <<lines, stream, pending, got, drained>>

(* The receiver is told that the connection failed. *)
SeeFailure(r) ==
  /\ stream = "failed"
  /\ outcome' = [outcome EXCEPT ![r] = "error"]
  /\ UNCHANGED <<lines, stream, pending, got, drained>>

(* Closing hands back some of the lines nobody took, each once. *)
Drain(ps) ==
  /\ ps \subseteq pending
  /\ pending' = pending \ ps
  /\ drained' = drained \cup ps
  /\ UNCHANGED <<lines, stream, got, outcome>>

Next ==
  \/ \E k \in Kinds \cup {Bad} : Put(k)
  \/ \E how \in {"eof", "failed"} : End(how)
  \/ \E r \in Receivers :
       \/ \E p \in pending : Take(r, p)
       \/ SeeEnd(r)
       \/ SeeFailure(r)
  \/ \E ps \in SUBSET pending : Drain(ps)

Spec == Init /\ [][Next]_vars
=============================================================================
