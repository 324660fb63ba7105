----------------------------- MODULE MCFastTimer -----------------------------
(* Instances of FastTimer for TLC. *)
EXTENDS FastTimer

CONSTANTS a, b, c

Once     == [repeat |-> FALSE, interval |-> 0]
Every(n) == [repeat |-> TRUE, interval |-> n]

(* Both tasks have a timer; c is started and stopped by callbacks only. *)
MCUser == [x \in Timers |-> IF x = a THEN "low" ELSE IF x = b THEN "high" ELSE "irq"]

MCModes  == [x \in Timers |-> IF x = a THEN {Once, Every(2)} ELSE {Once}]
MCOnce   == [x \in Timers |-> {Once}]
MCShort  == [x \in Timers |-> {1, 2}]
MCUneven == [x \in Timers |-> IF x = a THEN {1} ELSE {2}]
=============================================================================
