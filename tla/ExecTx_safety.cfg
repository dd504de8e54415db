\* Two clones of Tx on two tasks, each sending up to two lines of two units,
\* in batches of up to two, over a connection that takes one unit ahead.
SPECIFICATION Spec
CONSTANTS
  exitTask = exitTask
  outTask = outTask
  Nobody = Nobody
  Senders = {exitTask, outTask}
  Tasks = {"main", "other"}
  TaskOf <- TwoTasks
  LineLen = 2
  HighWater = 2
  Window = 1
  MaxMessages = 2
  MaxBatch = 2
INVARIANTS
  WholeLines
  SenderOrder
  Kept
  Bounded
  ClosedClean
\* Nothing happens once the connection is shut down and the senders are done.
CHECK_DEADLOCK FALSE
