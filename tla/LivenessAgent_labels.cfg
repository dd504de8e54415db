\* A disk that udev has labelled.
SPECIFICATION Spec
CONSTANTS
  WordMax = 31
  Readings <- MCReadings
  LineLen = 3
  Window = 1
  MaxFaults = 1
INVARIANT Labelled

\* An agent that was told to stop stays down.
CHECK_DEADLOCK FALSE
