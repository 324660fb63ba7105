------------------------------- MODULE MCTimer -------------------------------
(* Instances of Timer for TLC. *)
EXTENDS TimerStopFromISR

CONSTANTS a, b, c

(* Once, or every `interval' ticks, on a level. *)
Once(high) == [repeat |-> FALSE, high |-> high, interval |-> 0]
Every(n, high) == [repeat |-> TRUE, high |-> high, interval |-> n]

(* FLAG_INTERVAL_MAX covers the lower half of the times, FLAG_HIGH is the bit above it. *)
MCIntervalBits == [t \in Ticks |-> t % (M \div 2)]
MCHighTimes == M \div 2 .. M - 1

(* a and c on LEVEL_LOW, b on LEVEL_HIGH. *)
MCOnce == [x \in Timers |-> {Once(x = b)}]

(* Two of LEVEL_LOW in one list, where one repeats. *)
MCOrder == [x \in Timers |-> IF x = a THEN {Once(FALSE), Every(2, FALSE)} ELSE {Once(FALSE)}]

(* One of each level; the one that waits for the other to sleep repeats. *)
MCLevels == [x \in Timers |-> {IF x = b THEN Every(1, TRUE) ELSE Once(FALSE)}]
=============================================================================
