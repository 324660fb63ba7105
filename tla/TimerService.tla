---------------------------- MODULE TimerService ----------------------------
(***************************************************************************)
(* What app/timer.cpp and app/fast_timer.cpp (one level, the interrupt     *)
(* handler's) promise: a timer is armed with the time left until           *)
(* it is due, and with a period if it repeats.  It fires on its level once *)
(* it is due, never before a timer of that level that was due earlier, one *)
(* at a time, and never later than MaxLate ticks; a repeating timer is due *)
(* again a period after it was due, not after it fired.                    *)
(***************************************************************************)
EXTENDS Integers

CONSTANTS
  Timers,
  Levels,
  MaxLate,   \* a natural number
  Off,       \* not an integer
  Nothing    \* not a timer

VARIABLES
  left,    \* left[x]: ticks until x is due, or Off
  period,  \* period[x]: 0 for a timer that fires once
  level,   \* level[x]: the worker that executes x
  firing   \* firing[l]: the timer whose callback worker l executes, or Nothing

vars == <<left, period, level, firing>>

Armed(x) == left[x] # Off
Due(x)   == Armed(x) /\ left[x] <= 0

Init ==
  /\ left = [x \in Timers |-> Off]
  /\ period \in [Timers -> Nat]
  /\ level \in [Timers -> Levels]
  /\ firing = [l \in Levels |-> Nothing]

Tick ==
  /\ \A x \in Timers : Armed(x) => left[x] > -MaxLate
  /\ left' = [x \in Timers |-> IF Armed(x) THEN left[x] - 1 ELSE Off]
  /\ UNCHANGED <<period, level, firing>>

(* start, whether or not the timer is armed *)
Arm(x) ==
  /\ left'[x] \in Int
  /\ period'[x] \in Nat
  /\ level'[x] \in Levels
  /\ left' = [left EXCEPT ![x] = left'[x]]
  /\ period' = [period EXCEPT ![x] = period'[x]]
  /\ level' = [level EXCEPT ![x] = level'[x]]
  /\ UNCHANGED firing

(* stop, or a start that is not completed; the period of a timer that is off means nothing *)
Disarm(x) ==
  /\ left' = [left EXCEPT ![x] = Off]
  /\ period'[x] \in Nat
  /\ period' = [period EXCEPT ![x] = period'[x]]
  /\ UNCHANGED <<level, firing>>

Fire(x) ==
  LET l == level[x] IN
  /\ Due(x)
  /\ \A y \in Timers : Armed(y) /\ level[y] = l => left[x] <= left[y]
  /\ firing[l] = Nothing
  /\ firing' = [firing EXCEPT ![l] = x]
  /\ left' = [left EXCEPT ![x] = IF period[x] = 0 THEN Off ELSE @ + period[x]]
  /\ UNCHANGED <<period, level>>

Return(l) ==
  /\ firing' = [firing EXCEPT ![l] = Nothing]
  /\ UNCHANGED <<left, period, level>>

Next ==
  \/ Tick
  \/ \E x \in Timers : Arm(x) \/ Disarm(x) \/ Fire(x)
  \/ \E l \in Levels : Return(l)

Spec == Init /\ [][Next]_vars
=============================================================================
