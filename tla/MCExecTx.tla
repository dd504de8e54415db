------------------------------ MODULE MCExecTx ------------------------------
(* Instances of ExecTx: two clones, polled by one task as in the agent or by *)
(* a task each.                                                              *)
EXTENDS ExecTx

CONSTANTS exitTask, outTask

OneTask == [s \in Senders |-> "main"]

TwoTasks == [s \in Senders |-> IF s = outTask THEN "other" ELSE "main"]
=============================================================================
