SPECIFICATION Spec
CONSTANTS
  a = a
  b = b
  c = c
  Timers = {a, c}
  M = 10
  Delays = {1, 2}
  Modes <- MCOrder
  Movers = {"high"}
  MaxBusy = 1
  MaxInbox = 1
  IntervalBits <- MCIntervalBits
  HighTimes <- MCHighTimes
  Forever = Forever
  Nothing = Nothing
INVARIANTS
  TypeOK
  ListsMatchFlags
  ListsSorted
PROPERTY
  IsTimerService
