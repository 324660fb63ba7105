SPECIFICATION FairSpec
CONSTANTS
  NIrq = 2
  MaxArgs = 2
  QueueLen <- MCRoomy
  BufSize = 8
  Dests <- MCHighOnly
  MaxCalls = 3
INVARIANTS
  ArgsIntact
PROPERTIES
  HighIsMailbox
  HighDelivers
CHECK_DEADLOCK FALSE
