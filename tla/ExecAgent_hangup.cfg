\* The host hangs up and the process runs on.
SPECIFICATION FairSpec
CONSTANTS
  Streams = {"stdout"}
  HostKinds <- JustExec
  MaxLines = 1
  MaxChunks = 0
  PipeSize = 1
  HighWater = 2
PROPERTY
  KilledOnClose
\* The agent may wait for its host or child forever, and ends otherwise.
CHECK_DEADLOCK FALSE
