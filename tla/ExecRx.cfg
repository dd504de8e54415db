\* Three receivers of overlapping kinds, polled by one task as in the agent.
SPECIFICATION FairSpec
CONSTANTS
  kill = kill
  stdin = stdin
  exitTask = exitTask
  stdinTask = stdinTask
  anyTask = anyTask
  Bad = Bad
  Nobody = Nobody
  Kinds = {kill, stdin}
  Receivers = {exitTask, stdinTask, anyTask}
  Accepts <- MCAccepts
  Tasks = {"main"}
  TaskOf <- OneTask
  MaxLines = 3
INVARIANTS
  TypeOK
  ExactlyOnce
  InOrder
  NoOvertaking
  EndMeansAll
  NoLostWakeup
PROPERTIES
  ChannelSpec
  EventuallyDelivered
  EventuallyEnded
\* A receiver that has been closed does nothing more.
CHECK_DEADLOCK FALSE
