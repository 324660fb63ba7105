SPECIFICATION FairSpec
CONSTANTS
  Objects = {o1, o2}
  o1 = o1
  o2 = o2
  Handles = {h1, h2}
  h1 = h1
  h2 = h2
  NULL = NULL
  Seconds <- MCSeconds
  Idle = Idle
  Posted = Posted
  Off = Off
INVARIANTS
  TypeOK
  ReferencesCounted
PROPERTIES
  StoppedIsSilent
  HighQueueServed
  UnreferencedIsFreed
