\* One task polls both clones, as in the agent; the connection takes one unit
\* at a time, and a line is enough for a send to wait.
SPECIFICATION FairSpec
CONSTANTS
  exitTask = exitTask
  outTask = outTask
  Nobody = Nobody
  Senders = {exitTask, outTask}
  Tasks = {"main"}
  TaskOf <- OneTask
  LineLen = 2
  HighWater = 1
  Window = 1
  MaxMessages = 1
  MaxBatch = 1
PROPERTIES
  SendEnds
  EventuallyShut
\* Nothing happens once the connection is shut down and the senders are done.
CHECK_DEADLOCK FALSE
