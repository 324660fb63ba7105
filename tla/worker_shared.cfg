SPECIFICATION Spec
CONSTANTS
  NIrq = 1
  MaxArgs = 1
  QueueLen <- MCRoomy
  BufSize = 3
  Dests <- MCBoth
  MaxCalls = 2
INVARIANT
  ArgsIntactOnBothLevels
CHECK_DEADLOCK FALSE
