---------------------------- MODULE Measurements ----------------------------
(***************************************************************************)
(* What app/dht22.cpp promises to the code that calls Dht22::measure:      *)
(* measurements are made one at a time, in the order in which they were    *)
(* asked for.  When one has ended, its sensor has its outcome and its      *)
(* callback is called, once; the callback may ask for another one.         *)
(***************************************************************************)
EXTENDS Integers, Sequences

CONSTANTS
  Sensors,
  Sends,    \* Sends[s]: the readings [humidity, temperature] that s may send
  Nobody    \* not a sensor

VARIABLES
  waiting,  \* the sensors to be measured, in order
  serving,  \* the sensor whose callback runs, or Nobody
  reading   \* reading[s]: whether the last measurement was valid; the last valid one

vars == <<waiting, serving, reading>>

Unread == [valid |-> FALSE, humidity |-> 0, temperature |-> 0]

Init ==
  /\ waiting = <<>>
  /\ serving = Nobody
  /\ reading = [s \in Sensors |-> Unread]

Measure(s) ==
  /\ waiting' = Append(waiting, s)
  /\ UNCHANGED <<serving, reading>>

Outcomes(s) ==
  {[reading[s] EXCEPT !.valid = FALSE]} \cup
  {[valid |-> TRUE, humidity |-> r.humidity, temperature |-> r.temperature] : r \in Sends[s]}

Answer ==
  /\ serving = Nobody
  /\ waiting # <<>>
  /\ serving' = Head(waiting)
  /\ waiting' = Tail(waiting)
  /\ \E o \in Outcomes(Head(waiting)) : reading' = [reading EXCEPT ![Head(waiting)] = o]

Return ==
  /\ serving # Nobody
  /\ serving' = Nobody
  /\ UNCHANGED <<waiting, reading>>

Next ==
  \/ \E s \in Sensors : Measure(s)
  \/ Answer
  \/ Return

Spec == Init /\ [][Next]_vars

(* Whatever is asked for is answered. *)
Answered ==
  \A s \in Sensors : (\E k \in DOMAIN waiting : waiting[k] = s) ~> (serving = s)
=============================================================================
