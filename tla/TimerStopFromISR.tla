--------------------------- MODULE TimerStopFromISR ---------------------------
(***************************************************************************)
(* Timer in a program that starts no timer, and whose interrupt handlers   *)
(* call stopFromISR.                                                       *)
(***************************************************************************)
EXTENDS Timer

(***************************************************************************)
(* stopFromISR posts startFW with one argument; startFW reads two more,    *)
(* whatever the argument buffer holds above it.                            *)
(***************************************************************************)
stopFromISR(x) ==
  \E time \in Ticks, m \in Modes[x] : FromISR(getLevel(x), StartFW(x, time, m))

NextStops == (\E x \in Timers : stopFromISR(x)) \/ MainLoop \/ Tick

SpecStops == Init /\ [][NextStops]_vars

(***************************************************************************)
(* Stopping timers (timer.h:77-80) starts none.                            *)
(***************************************************************************)
StopStartsNone == \A x \in Timers : ~flags[x].running
=============================================================================
