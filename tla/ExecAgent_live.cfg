\* exec and two more lines: requests, input and a line that does not parse, in
\* any order, to a child that writes a chunk.  The host may end its side at any
\* point; two failures of the connection, one each way, are counted as lines.
\* With a buffer of two messages the exit status may wait behind a busy writer,
\* nothing sent after.
SPECIFICATION Session
CONSTANTS
  Streams = {"stdout"}
  HostKinds <- Requests
  MaxLines = 3
  MaxChunks = 1
  PipeSize = 1
  HighWater = 2
VIEW Present
PROPERTIES
  KillStops
  ExitedReported
  SessionEnds
\* The agent may wait for its host or child forever, and ends otherwise.
CHECK_DEADLOCK FALSE
