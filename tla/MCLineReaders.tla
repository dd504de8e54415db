---------------------------- MODULE MCLineReaders ----------------------------
(* Instances of LineReaders: every short stream of three kinds of bytes.      *)
EXTENDS LineReaders

CONSTANT MaxLen

MCInputs == BoundedSeq({"a", Garbage, Newline}, MaxLen)
=============================================================================
