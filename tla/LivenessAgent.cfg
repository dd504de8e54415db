\* Lines of three units over a connection that takes one ahead, and a fault.
SPECIFICATION FairSpec
CONSTANTS
  WordMax = 31
  Readings <- MCReadings
  LineLen = 3
  Window = 1
  MaxFaults = 1
INVARIANTS NumbersInRange DisksRight
PROPERTIES WholeReports BootSeen KeepsReporting StopsOnTerm
\* An agent that was told to stop stays down.
CHECK_DEADLOCK FALSE
