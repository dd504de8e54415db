\* A close request that is never answered.
SPECIFICATION FairSpec
CONSTANTS
  Streams = {"stdout"}
  HostKinds <- ExecAndClose
  MaxLines = 2
  MaxChunks = 1
  PipeSize = 1
  HighWater = 2
PROPERTY
  CloseAcknowledged
\* The agent may wait for its host or child forever, and ends otherwise.
CHECK_DEADLOCK FALSE
