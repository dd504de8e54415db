\* Output left in the buffer behind a busy writer.
SPECIFICATION FairSpec
CONSTANTS
  Streams = {"stdout"}
  HostKinds <- JustExec
  MaxLines = 1
  MaxChunks = 1
  PipeSize = 1
  HighWater = 2
PROPERTY
  OutputFlushed
\* The agent may wait for its host or child forever, and ends otherwise.
CHECK_DEADLOCK FALSE
