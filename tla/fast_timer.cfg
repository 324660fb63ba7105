SPECIFICATION Spec
CONSTANTS
  a = a
  b = b
  c = c
  Timers = {a, c}
  M = 12
  Delays <- MCShort
  Modes <- MCModes
  User <- MCUser
  MaxBusy = 1
  Nothing = Nothing
INVARIANTS
  TypeOK
  ListMatchesFlags
  ListSorted
  CompareArmed
PROPERTY
  IsTimerService
