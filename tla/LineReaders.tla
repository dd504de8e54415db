----------------------------- MODULE LineReaders -----------------------------
(***************************************************************************)
(* How the three readers of the repository cut a stream of bytes:          *)
(*                                                                         *)
(*   "messages"  MsgReader::poll_read_message, protocol/src/io/rx.rs       *)
(*   "lines"     read_line_or_chunk with line_buffered, agent/src/main.rs  *)
(*   "chunks"    read_line_or_chunk without                                *)
(*   "statuses"  Rx::recv, liveness/protocol/src/io.rs                     *)
(*                                                                         *)
(* The bytes come in pieces of any size, a read may be dropped and begun   *)
(* again, and the stream ends or fails anywhere.  In ExecRx and ExecAgent  *)
(* a line, or a chunk, is one element.                                     *)
(***************************************************************************)
EXTENDS Naturals, SequencesExt, FiniteSetsExt

CONSTANTS Readers,    \* those to look at
          Inputs,     \* the streams
          MaxCancels  \* bound: how often a read is dropped

Newline == "\n"
Garbage == "x"        \* a byte no message has

ASSUME ReadersAssumption ==
  /\ Readers \subseteq {"messages", "lines", "chunks", "statuses"}
  /\ \A bytes \in Inputs : bytes \in Seq(Range(bytes))
  /\ MaxCancels \in Nat

VARIABLES
  reader,
  input,   \* what the stream holds until it ends
  pos,     \* how much of it has been read
  buffer,  \* read, and not handed out
  out,     \* what has been handed out
  done,    \* "no", "end" or "failed"
  cancels

vars == <<reader, input, pos, buffer, out, done, cancels>>

Init ==
  /\ reader \in Readers /\ input \in Inputs
  /\ pos = 0 /\ buffer = << >> /\ out = << >> /\ done = "no" /\ cancels = 0

Goes(r) == reader = r /\ done = "no"

(* serde_json: a message, or an error for the caller, who may go on.        *)
Bad == <<"bad">>
Parse(line) == IF line = << >> \/ Garbage \in Range(line) THEN Bad ELSE line

-----------------------------------------------------------------------------

(* As mutants: the newline is looked for at the end only; what a dropped    *)
(* read has found is dropped with it; a rest without a newline stays where  *)
(* it is.                                                                   *)
LastOnly == IF buffer # << >> /\ Last(buffer) = Newline THEN Len(buffer) ELSE 0
LostOnCancel == << >>
RestStays(line) == line

(* The place of the first newline, or 0.                                    *)
NewlineAt == SelectInSeq(buffer, LAMBDA b : b = Newline)

Line == SubSeq(buffer, 1, NewlineAt - 1)
AfterLine == SubSeq(buffer, NewlineAt + 1, Len(buffer))

(* The buffer belongs to the reader, or to its caller, not to the future.   *)
KeptOnCancel == buffer

IsBlank == NewlineAt = 1

(* What lets the loop find the rest of a stream that ends without newline.  *)
Closed(rest) == Append(rest, Newline)

NoRest == buffer = << >>

-----------------------------------------------------------------------------

(* Without a newline in the buffer a reader asks for more.                  *)
Fill(n) ==
  /\ done = "no" /\ reader # "chunks"
  /\ NewlineAt = 0 /\ pos + n <= Len(input)
  /\ buffer' = buffer \o SubSeq(input, pos + 1, pos + n)
  /\ pos' = pos + n
  /\ UNCHANGED <<reader, input, out, done, cancels>>

ReadError ==
  /\ done = "no" /\ NewlineAt = 0
  /\ done' = "failed"
  /\ UNCHANGED <<reader, input, pos, buffer, out, cancels>>

(* select! drops the future that waits for more.                            *)
Cancel ==
  /\ done = "no" /\ NewlineAt = 0 /\ cancels < MaxCancels
  /\ cancels' = cancels + 1
  /\ buffer' = KeptOnCancel
  /\ UNCHANGED <<reader, input, pos, out, done>>

AtEof(r) == Goes(r) /\ NewlineAt = 0 /\ pos = Len(input)

End == done' = "end" /\ UNCHANGED <<reader, input, pos, buffer, out, cancels>>

Gives(data, rest) ==
  /\ out' = Append(out, data) /\ buffer' = rest
  /\ UNCHANGED <<reader, input, pos, done, cancels>>

(* poll_read_message: an empty line is skipped, another is parsed.          *)
MessageLine ==
  /\ Goes("messages") /\ NewlineAt # 0
  /\ IF IsBlank
       THEN buffer' = AfterLine /\ UNCHANGED <<reader, input, pos, out, done, cancels>>
       ELSE Gives(Parse(Line), AfterLine)

MessageEof ==
  /\ AtEof("messages")
  /\ IF NoRest
       THEN End
       ELSE buffer' = Closed(buffer) /\ UNCHANGED <<reader, input, pos, out, done, cancels>>

(* read_line_or_chunk hands out the newline too.                            *)
OutputLine ==
  /\ Goes("lines") /\ NewlineAt # 0
  /\ Gives(Append(Line, Newline), AfterLine)

OutputEof == AtEof("lines") /\ IF NoRest THEN End ELSE Gives(buffer, << >>)

(* A chunk is what one read brings.                                         *)
OutputChunk(n) ==
  /\ Goes("chunks") /\ pos + n <= Len(input)
  /\ out' = Append(out, buffer \o SubSeq(input, pos + 1, pos + n))
  /\ buffer' = << >> /\ pos' = pos + n
  /\ UNCHANGED <<reader, input, done, cancels>>

ChunkEof == AtEof("chunks") /\ End

(* Rx::recv: Lines hands out every line, and the rest at the end.           *)
StatusLine ==
  \/ Goes("statuses") /\ NewlineAt # 0 /\ Gives(Parse(Line), AfterLine)
  \/ AtEof("statuses") /\ buffer # << >> /\ Gives(Parse(buffer), << >>)

StatusEof == AtEof("statuses") /\ buffer = << >> /\ End

-----------------------------------------------------------------------------

Step ==
  \/ \E n \in 1..Len(input) : Fill(n) \/ OutputChunk(n)
  \/ MessageLine \/ MessageEof \/ OutputLine \/ OutputEof \/ ChunkEof
  \/ StatusLine \/ StatusEof

Next == Step \/ ReadError \/ Cancel

Spec == Init /\ [][Next]_vars

(* A reader whose stream has more, or has ended, is polled.                 *)
FairSpec == Spec /\ WF_vars(Step)

-----------------------------------------------------------------------------
(* Properties. *)

(* What a reader owes for its bytes if they come one by one: out, and the   *)
(* rest since the last newline.                                             *)
Whole(r, line) ==
  CASE r = "messages" -> IF line = << >> THEN << >> ELSE <<Parse(line)>>
    [] r = "statuses" -> <<Parse(line)>>
    [] OTHER          -> <<Append(line, Newline)>>

Advance(r, sofar, b) ==
  IF b = Newline THEN [out |-> sofar.out \o Whole(r, sofar.rest), rest |-> << >>]
                 ELSE [out |-> sofar.out, rest |-> Append(sofar.rest, b)]

Scan(r, bytes) ==
  FoldLeft(LAMBDA sofar, b : Advance(r, sofar, b), [out |-> << >>, rest |-> << >>], bytes)

(* And if they are all there is. *)
Owed(r, bytes) ==
  LET end == Scan(r, bytes)
  IN IF end.rest = << >> THEN end.out
     ELSE Append(end.out, IF r = "lines" THEN end.rest ELSE Parse(end.rest))

(* However the bytes come and whatever is dropped: what has been handed out *)
(* is the beginning of what the stream holds, and all of it at the end.     *)
Framed ==
  IF reader = "chunks"
    THEN FlattenSeq(out) = SubSeq(input, 1, pos)
    ELSE IsPrefix(out, Owed(reader, input)) /\ (done = "end" => out = Owed(reader, input))

(* A reader of lines asks for more only when it has handed out all the      *)
(* lines it has: nobody waits for a message that is here.                   *)
NothingHeld ==
  [][pos' # pos /\ reader # "chunks" => out = Scan(reader, SubSeq(input, 1, pos)).out]_vars

(* What makes them inductive.  The lines of the first k bytes are handed    *)
(* out, the next ones wait; at the end with the newline that was missing.   *)
Between(k) ==
  /\ Scan(reader, SubSeq(input, 1, k)) = [out |-> out, rest |-> << >>]
  /\ \/ buffer = SubSeq(input, k + 1, pos)
     \/ /\ reader = "messages" /\ k < pos /\ pos = Len(input)
        /\ \A i \in k + 1..pos : input[i] # Newline
        /\ buffer = Append(SubSeq(input, k + 1, pos), Newline)

(* Nothing is left to hand out. *)
Exhausted == pos = Len(input) /\ buffer = << >> /\ out = Owed(reader, input)

(* What is handed out is made of. *)
Bytes == {Newline, "bad"} \cup UNION {Range(bytes) : bytes \in Inputs}

Reading ==
  /\ out \in Seq(Seq(Bytes))
  /\ reader \in Readers /\ input \in Inputs /\ pos \in 0..Len(input)
  /\ reader = "chunks" => buffer = << >> /\ FlattenSeq(out) = SubSeq(input, 1, pos)
  /\ reader # "chunks" => Exhausted \/ \E k \in 0..pos : Between(k)
  /\ reader # "chunks" /\ done = "end" => Exhausted

(* A stream that ends is read to its end, with or without a last newline.   *)
Ends == <>(done # "no")
=============================================================================
