SPECIFICATION Spec
CONSTANTS
  a = a
  b = b
  c = c
  Timers = {b}
  M = 8
  Delays = {1}
  Modes <- MCOnce
  Movers = {"high", "low", "isr"}
  MaxBusy = 1
  MaxInbox = 1
  IntervalBits <- MCIntervalBits
  HighTimes <- MCHighTimes
  Forever = Forever
  Nothing = Nothing
INVARIANT
  HighExecuted
