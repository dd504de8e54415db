\* Two lines of any kinds from the host, in any order, and one output stream
\* with more chunks than its pipe holds.
SPECIFICATION Spec
CONSTANTS
  Streams = {"stdout"}
  HostKinds <- EveryKind
  MaxLines = 2
  MaxChunks = 2
  PipeSize = 1
  HighWater = 2
INVARIANTS
  OutputInOrder
  ClosedMeansAll
  NothingUnsaid
  SessionOrder
  NoOrphan
\* The agent may wait for its host or child forever, and ends otherwise.
CHECK_DEADLOCK FALSE
