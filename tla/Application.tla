---------------------------- MODULE Application ----------------------------
(***************************************************************************)
(* The program app/test1.cpp, on the driver Dht22: one sensor is measured  *)
(* again and again, a second after its last answer; what it sends goes     *)
(* through two windows (Win).  Other code of LEVEL_HIGH measures the other *)
(* sensors.                                                                *)
(***************************************************************************)
EXTENDS Dht22, Win

CONSTANT sens   \* the sensor of test1.cpp

(* dht22ToFloat gives eleven bits and a sign; Limit is beyond that. *)
ASSUME ApplicationAssumption == sens \in Sensors /\ Limit > 2047

VARIABLES
  hw, tw,   \* the windows
  hu, te,   \* what the application reports
  due,      \* testSens is about to be called: by start2, or by the timeout
  fed       \* history: the last WinSize values that hw and tw were given

app   == <<hw, tw, hu, te, due, fed>>
avars == <<vars, app>>

(* main: the startup callback of LEVEL_HIGH is start2, which calls testSens. *)
AInit ==
  /\ Init
  /\ hw = EmptyWin /\ tw = EmptyWin
  /\ hu = 0 /\ te = 0
  /\ due = TRUE
  /\ fed = <<>>

testSens ==
  /\ due
  /\ measure(sens)
  /\ due' = FALSE
  /\ UNCHANGED <<hw, tw, hu, te, fed>>

Recent(s) == IF Len(s) <= WinSize THEN s ELSE Tail(s)

sensCallback_Once ==
  /\ calling = sens
  /\ callbackReturns
  /\ hw' = add(hw, sensor[sens].humidity)
  /\ tw' = add(tw, sensor[sens].temperature)
  /\ hu' = sensor[sens].temperature
  /\ te' = tw'.v
  /\ due' = (~due /\ sensor[sens].valid)
  /\ fed' = Recent(Append(fed, [humidity |-> sensor[sens].humidity, temperature |-> sensor[sens].temperature]))

(* The callback of testSens, to its return to done.  Values go into the windows whether or *)
(* not the measurement was valid; hu is given the temperature.                             *)
sensCallback ==
  /\ calling = sens
  /\ callbackReturns
  /\ hw' = add(hw, sensor[sens].humidity)
  /\ tw' = add(tw, sensor[sens].temperature)
  /\ hu' = sensor[sens].temperature
  /\ te' = tw'.v
  /\ due' = TRUE
  /\ fed' = Recent(Append(fed, [humidity |-> sensor[sens].humidity, temperature |-> sensor[sens].temperature]))

(* Other sensors have one place less than the queue, so that sens always finds one. *)
MeasuresOther(s) ==
  /\ s # sens
  /\ Cardinality({k \in 1 .. fifo.len : Elements(fifo)[k] # sens}) < Size - 1
  /\ measure(s)

ANext ==
  \/ testSens
  \/ sensCallback
  \/ /\ \/ start \/ startSampling \/ acquired \/ stopSampling \/ EndOfTransfer
        \/ finalizeAndParse \/ done
        \/ calling # sens /\ callbackReturns
        \/ \E s \in Sensors : MeasuresOther(s)
     /\ UNCHANGED app

ASpec == AInit /\ [][ANext]_avars

(* The driver goes on, a callback of the application included; and the timeout fires, since    *)
(* other code of LEVEL_HIGH leaves the level's worker time for it.                             *)
AFairSpec == ASpec /\ Fairness /\ SF_avars(testSens)

-----------------------------------------------------------------------------
(* Properties *)

AtPlaces(m) ==
  [i \in Places |-> LET k == Len(fed) - WinSize + i + 1 IN IF k < 1 THEN m[1] ELSE m[k]]

(* The temperature reported is the trimmed mean of the last WinSize values that the sensor   *)
(* object had when its callback was called, the first one repeated while there are less.     *)
ReportsTrimmedMean ==
  fed # <<>> =>
    /\ te = TrimmedSum(AtPlaces([k \in DOMAIN fed |-> fed[k].temperature]))
    /\ hw.v = TrimmedSum(AtPlaces([k \in DOMAIN fed |-> fed[k].humidity]))

(* The application never runs dry, whatever its sensor sends and though transfers may not *)
(* end: its sensor is answered again and again, unless the driver waits for ever in the   *)
(* interrupt after a transfer whose end was not seen.                                     *)
MeasuresAgain == []<>(calling = sens) \/ <>[]Hangs
=============================================================================
