SPECIFICATION Spec
CONSTANTS
  NIrq = 1
  MaxArgs = 1
  QueueLen <- MCTight
  BufSize = 3
  Dests <- MCBoth
  MaxCalls = 4
INVARIANT
  ArgsIntactOrStopped
CHECK_DEADLOCK FALSE
