--------------------------- MODULE MCProcessHandle ---------------------------
(* Instances of ProcessHandle: the users of a machine.                        *)
EXTENDS ProcessHandle

CONSTANTS w1, w2, w3, success, failure, user, root

MCUidOf == [n \in Names |-> IF n = root THEN Root ELSE 1]
=============================================================================
