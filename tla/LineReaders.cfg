\* Every stream of up to five bytes, and a read that is dropped twice.
SPECIFICATION FairSpec
CONSTANTS
  Readers = {"messages", "lines", "chunks", "statuses"}
  MaxLen = 5
  Inputs <- MCInputs
  MaxCancels = 2
INVARIANT Framed
PROPERTIES NothingHeld Ends
\* Nothing happens once the stream has ended.
CHECK_DEADLOCK FALSE
