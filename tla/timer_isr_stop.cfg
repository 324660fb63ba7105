SPECIFICATION SpecStops
CONSTANTS
  a = a
  b = b
  c = c
  Timers = {a}
  M = 8
  Delays = {1}
  Modes <- MCOnce
  Movers = {"high"}
  MaxBusy = 1
  MaxInbox = 1
  IntervalBits <- MCIntervalBits
  HighTimes <- MCHighTimes
  Forever = Forever
  Nothing = Nothing
INVARIANT
  StopStartsNone
