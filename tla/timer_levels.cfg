SPECIFICATION FairSpec
CONSTANTS
  a = a
  b = b
  c = c
  Timers = {a, b}
  M = 8
  Delays = {1}
  Modes <- MCLevels
  Movers = {"high"}
  MaxBusy = 1
  MaxInbox = 1
  IntervalBits <- MCIntervalBits
  HighTimes <- MCHighTimes
  Forever = Forever
  Nothing = Nothing
INVARIANTS
  ListsMatchFlags
  WakesInTime
PROPERTIES
  IsTimerService
  RunningTimersFire
