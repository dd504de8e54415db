------------------------------ MODULE MCExecRx ------------------------------
(* Instances of ExecRx: the exit and stdin tasks of the agent, which ask for *)
(* one kind each, and a receiver that asks for both, as Message::from does.  *)
EXTENDS ExecRx

CONSTANTS kill, stdin, exitTask, stdinTask, anyTask

MCAccepts == [r \in Receivers |->
                CASE r = exitTask  -> {kill}
                  [] r = stdinTask -> {stdin}
                  [] r = anyTask   -> {kill, stdin}]

(* One task polls everything, as join! does in the agent. *)
OneTask == [r \in Receivers |-> "main"]
=============================================================================
