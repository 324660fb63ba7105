SPECIFICATION FairSpec
CONSTANTS
  NIrq = 2
  MaxArgs = 2
  QueueLen <- MCLowRoomy
  BufSize = 8
  Dests <- MCBoth
  MaxCalls = 3
INVARIANTS
  TypeOK
  IInv
  ArgsIntact
  StackInBounds
  NothingLeftBehind
PROPERTIES
  LowIsMailbox
  LowDelivers
CHECK_DEADLOCK FALSE
