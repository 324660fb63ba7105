SPECIFICATION FairSpec
CONSTANTS
  a = a
  b = b
  c = c
  Timers = {a, b}
  M = 10
  Delays <- MCUneven
  Modes <- MCOnce
  User <- MCUser
  MaxBusy = 1
  Nothing = Nothing
INVARIANTS
  ListMatchesFlags
  CompareArmed
PROPERTY
  RunningTimersFire
