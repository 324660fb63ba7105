-------------------------------- MODULE Dht22 --------------------------------
(***************************************************************************)
(* The sensor driver app/dht22.cpp.  A measurement is a chain of functions *)
(* of different contexts, each of which has the next one called: start     *)
(* (LEVEL_LOW), startSampling and stopSampling (fast timer interrupt),     *)
(* finalizeAndParse and done (LEVEL_HIGH).  The line of the sensor is      *)
(* sampled by an SPI slave, which writes into `buffer' by itself.          *)
(*                                                                         *)
(* The levels deliver calls as Mailbox says and the fast timer fires as    *)
(* TimerService says, once for each start.  LEVEL_LOW preempts LEVEL_HIGH; *)
(* interrupts preempt both.                                                *)
(***************************************************************************)
EXTENDS Fifo, Dht22Parse, FiniteSets

CONSTANTS
  Sensors,   \* the objects of class Dht22, which have different pins
  Signals,   \* what a sensor may send: with the data that it means, if `good'
  Waveform,  \* Waveform[g]: the bytes of samples that signal g gives
  Sends,     \* Sends[s]: the signals that sensor s may send
  Heap,      \* the addresses that new may return
  NULL, Nobody

Bytes(g) == Cardinality(DOMAIN Waveform[g])

(* The members of a signal tell what its waveform says. *)
Tells(g) ==
  LET w == Waveform[g]
      n == Bytes(g)
  IN  /\ n \in Nat /\ w \in [0 .. n - 1 -> Byte]
      /\ g.good <=> IsProper(w, n)
      /\ g.good => /\ g.humidity = Signed(DataOf(w, n, 0), DataOf(w, n, 1))
                   /\ g.temperature = Signed(DataOf(w, n, 2), DataOf(w, n, 3))

ASSUME Dht22Assumption ==
  /\ \A g \in Signals : g.good \in BOOLEAN /\ g.humidity \in Int /\ g.temperature \in Int
  /\ Sends \in [Sensors -> SUBSET Signals]
  /\ NULL \notin Heap /\ Nobody \notin Sensors

ASSUME SignalAssumption == \A g \in Signals : Tells(g)

VARIABLES
  fifo,          \* the measurements asked for, the one in progress first
  buffer,        \* the address of the sample buffer, or NULL
  initialized,
  currentPin,    \* currentPinNumber, as the sensor at that pin
  fastTimer,     \* the callback that the fast timer will call, "acquiring" in startSampling, or "off"
  lowCalls,      \* calls of start that wait for LEVEL_LOW: their arguments
  highCalls,     \* calls that wait for LEVEL_HIGH
  spis,          \* the SPI slave: whether it is wired to its clock, phase, and rx, where it writes
  clock,         \* its clock runs and it is selected: OW_TIMER, PPI, CSN
  received,      \* what is in the buffer: the signal, and the sensor that sent it
  sensor,        \* the members of each Dht22
  calling        \* done is calling the callback of this sensor, or Nobody

control  == <<initialized, currentPin, fastTimer>>
hardware == <<spis, clock, received>>
vars == <<fifo, buffer, initialized, currentPin, fastTimer, lowCalls, highCalls, spis, clock,
          received, sensor, calling>>

NoSignal == [good |-> FALSE, humidity |-> 0, temperature |-> 0]
NotReceived == [from |-> Nobody, signal |-> NoSignal]
Results == [valid : BOOLEAN, h : Word, t : Word]
NoResult == [valid |-> FALSE, h |-> 0, t |-> 0]
Calls == [fn : {"finalizeAndParse", "done"}, result : Results]
Call(f, r) == [fn |-> f, result |-> r]

(* The members of a Dht22, and what its constructor leaves of a static one *)
Members == [valid : BOOLEAN, humidity : Int, temperature : Int]
Constructed == [valid |-> FALSE, humidity |-> 0, temperature |-> 0]

TypeOK ==
  /\ fifo \in FifoOf(Sensors \cup {Nobody})
  /\ buffer \in Heap \cup {NULL}
  /\ initialized \in BOOLEAN
  /\ currentPin \in Sensors \cup {Nobody}
  /\ fastTimer \in {"off", "startSampling", "acquiring", "stopSampling"}
  /\ lowCalls \in Seq(Sensors) /\ highCalls \in Seq(Calls)
  /\ spis \in [wired : BOOLEAN, phase : {"off", "receiving", "released", "end"}, rx : Heap \cup {NULL}]
  /\ clock \in BOOLEAN
  /\ received \in [from : Sensors \cup {Nobody}, signal : Signals \cup {NoSignal}]
  /\ sensor \in [Sensors -> Members]
  /\ calling \in Sensors \cup {Nobody}

(* Objects of static storage are zeros. *)
Init ==
  /\ fifo = Empty(Nobody) /\ buffer = NULL
  /\ initialized = FALSE /\ currentPin = Nobody /\ fastTimer = "off"
  /\ lowCalls = <<>> /\ highCalls = <<>>
  /\ spis = [wired |-> FALSE, phase |-> "off", rx |-> NULL] /\ clock = FALSE /\ received = NotReceived
  /\ sensor = [s \in Sensors |-> Constructed]
  /\ calling = Nobody

-----------------------------------------------------------------------------
(* The interrupt waits in startSampling, in a critical section: no level runs. *)
Interrupted == fastTimer = "acquiring"

(* LEVEL_HIGH executes nothing while LEVEL_LOW has something to do. *)
HighRuns == lowCalls = <<>> /\ ~Interrupted

(* The next call of worker LEVEL_HIGH *)
HighCalls(f) ==
  /\ HighRuns /\ calling = Nobody
  /\ highCalls # <<>> /\ Head(highCalls).fn = f

(* worker::addToLow(start, 1, fifo.peek()->dht22->pinNumber) *)
PostStart(f) == lowCalls' = Append(lowCalls, peek(f))

measure_NewIfAlone(s) ==
  /\ HighRuns
  /\ fifo' = push(fifo, s)
  /\ IF fifo.len = 0
     THEN (\E b \in Heap : buffer' = b) /\ PostStart(fifo')
     ELSE UNCHANGED <<buffer, lowCalls>>
  /\ UNCHANGED <<initialized, currentPin, fastTimer, highCalls, spis, clock, received, sensor, calling>>

(* Dht22::measure, called by the callback of a measurement or by other code of LEVEL_HIGH *)
measure(s) ==
  /\ HighRuns
  /\ fifo' = push(fifo, s)
  /\ IF buffer = NULL
     THEN (\E b \in Heap : buffer' = b) /\ PostStart(fifo')
     ELSE UNCHANGED <<buffer, lowCalls>>
  /\ UNCHANGED <<initialized, currentPin, fastTimer, highCalls, spis, clock, received, sensor, calling>>

(* init: the timer OW_TIMER is made to drive the clock pin, through PPI and GPIOTE, and the SPI *)
(* slave to take its clock and select from pins that are looped back.                           *)
init ==
  /\ initialized' = TRUE
  /\ spis' = [spis EXCEPT !.wired = TRUE]

(* start.  The line is pulled low for 2 ms. *)
start ==
  /\ lowCalls # <<>> /\ ~Interrupted
  /\ lowCalls' = Tail(lowCalls)
  /\ IF initialized THEN UNCHANGED <<initialized, spis>> ELSE init
  /\ currentPin' = Head(lowCalls)
  /\ fastTimer' = "startSampling"
  /\ UNCHANGED <<fifo, buffer, highCalls, clock, received, sensor, calling>>

(* startSampling, to the loop in which it waits for the semaphore of the SPI slave *)
startSampling ==
  /\ fastTimer = "startSampling"
  /\ fastTimer' = "acquiring"
  /\ UNCHANGED <<fifo, buffer, initialized, currentPin, lowCalls, highCalls, hardware, sensor, calling>>

acquired_BufferOnce ==
  /\ fastTimer = "acquiring"
  /\ spis' = [spis EXCEPT !.phase = "receiving", !.rx = IF @ = NULL THEN buffer ELSE @]
  /\ clock' = TRUE
  /\ fastTimer' = "stopSampling"
  /\ UNCHANGED <<fifo, buffer, initialized, currentPin, lowCalls, highCalls, received, sensor, calling>>

(* startSampling, from EVENTS_ACQUIRED on.  The SPI slave is given the buffer and selected,  *)
(* and its clock started; the line is released, so that the sensor answers, for 8 ms.  A     *)
(* slave that has not seen the end of its last transfer may still grant the semaphore, or    *)
(* never (FairSpec).                                                                         *)
acquired ==
  /\ fastTimer = "acquiring"
  /\ spis' = [spis EXCEPT !.phase = "receiving", !.rx = buffer]
  /\ clock' = TRUE
  /\ fastTimer' = "stopSampling"
  /\ UNCHANGED <<fifo, buffer, initialized, currentPin, lowCalls, highCalls, received, sensor, calling>>

(* stopSampling; by now the buffer holds what the sensor sent. *)
stopSampling ==
  /\ fastTimer = "stopSampling"
  /\ fastTimer' = "off"
  /\ clock' = FALSE
  /\ spis' = [spis EXCEPT !.phase = "released"]
  /\ \E g \in Sends[currentPin] : received' = [from |-> currentPin, signal |-> g]
  /\ highCalls' = Append(highCalls, Call("finalizeAndParse", NoResult))
  /\ UNCHANGED <<fifo, buffer, initialized, currentPin, lowCalls, sensor, calling>>

(* The SPI slave sees that it is deselected, unless the wire for that is broken. *)
EndOfTransfer ==
  /\ spis.phase = "released"
  /\ spis' = [spis EXCEPT !.phase = "end"]
  /\ UNCHANGED <<fifo, buffer, initialized, currentPin, fastTimer, lowCalls, highCalls, clock,
                 received, sensor, calling>>

(* parseSamples of each signal, in a buffer of its own *)
Parsed == [g \in Signals |-> parseSamples(Waveform[g], Bytes(g))]

ParseOf(g) == IF g = NoSignal THEN NoResult ELSE Parsed[g]

finalizeAndParse_NoTimeout ==
  /\ HighCalls("finalizeAndParse")
  /\ spis.phase = "end"
  /\ spis' = [spis EXCEPT !.phase = "off"]
  /\ highCalls' = Append(Tail(highCalls), Call("done", ParseOf(received.signal)))
  /\ UNCHANGED <<fifo, buffer, initialized, currentPin, fastTimer, lowCalls, clock, received,
                 sensor, calling>>

(* finalizeAndParse.  It polls for the end of the transfer; if that does not come, the     *)
(* measurement ends as not valid, and the SPI slave stays enabled.                        *)
finalizeAndParse ==
  /\ HighCalls("finalizeAndParse")
  /\ \/ /\ spis.phase = "end"
        /\ spis' = [spis EXCEPT !.phase = "off"]
        /\ highCalls' = Append(Tail(highCalls), Call("done", ParseOf(received.signal)))
     \/ /\ spis.phase # "end"
        /\ highCalls' = Append(Tail(highCalls), Call("done", NoResult))
        /\ UNCHANGED spis
  /\ UNCHANGED <<fifo, buffer, initialized, currentPin, fastTimer, lowCalls, clock, received,
                 sensor, calling>>

done_Peek ==
  /\ HighCalls("done")
  /\ fifo' = [fifo EXCEPT !.len = @ - 1]
  /\ calling' = peek(fifo)
  /\ sensor' = [sensor EXCEPT ![peek(fifo)] =
       LET r == Head(highCalls).result IN
       IF r.valid
       THEN [valid |-> TRUE, humidity |-> dht22ToFloat(r.h), temperature |-> dht22ToFloat(r.t)]
       ELSE [@ EXCEPT !.valid = FALSE]]
  /\ highCalls' = Tail(highCalls)
  /\ UNCHANGED <<buffer, initialized, currentPin, fastTimer, lowCalls, spis, clock, received>>

(* done, up to the call of the callback *)
done ==
  /\ HighCalls("done")
  /\ fifo' = pop(fifo)
  /\ calling' = peek(fifo)
  /\ sensor' = [sensor EXCEPT ![peek(fifo)] =
       LET r == Head(highCalls).result IN
       IF r.valid
       THEN [valid |-> TRUE, humidity |-> dht22ToFloat(r.h), temperature |-> dht22ToFloat(r.t)]
       ELSE [@ EXCEPT !.valid = FALSE]]
  /\ highCalls' = Tail(highCalls)
  /\ UNCHANGED <<buffer, initialized, currentPin, fastTimer, lowCalls, spis, clock, received>>

(* done, from the return of the callback on *)
callbackReturns ==
  /\ HighRuns /\ calling # Nobody
  /\ calling' = Nobody
  /\ received' = NotReceived
  /\ IF fifo.len > 0
     THEN PostStart(fifo) /\ UNCHANGED buffer
     ELSE buffer' = NULL /\ UNCHANGED lowCalls
  /\ UNCHANGED <<fifo, initialized, currentPin, fastTimer, highCalls, spis, clock, sensor>>

-----------------------------------------------------------------------------
(* A program that never has more than Size measurements waiting, as the assertion in push says *)

(* The chain of a measurement, but for the answer of the SPI slave: at most one of these steps *)
(* is possible at a time (OneInProgress).                                                       *)
Chain == start \/ startSampling \/ stopSampling \/ finalizeAndParse \/ done \/ callbackReturns

Next ==
  \/ Chain
  \/ acquired
  \/ EndOfTransfer
  \/ \E s \in Sensors : fifo.len < Size /\ measure(s)

Spec == Init /\ [][Next]_vars

(* Calls are delivered, the fast timer fires, and callbacks return.  The end of a transfer may *)
(* never come.  The SPI slave grants its semaphore unless the last transfer has not ended.     *)
Fairness == WF_vars(Chain) /\ WF_vars(spis.phase # "released" /\ acquired)

FairSpec == Spec /\ Fairness

-----------------------------------------------------------------------------
(* Properties *)

(* A measurement in progress is one call that waits or one timer that runs: the chain of    *)
(* start, startSampling, stopSampling, finalizeAndParse and done neither forks nor breaks.  *)
(* There is a buffer exactly while measurements are asked for or a callback runs.           *)
OneInProgress ==
  /\ buffer = NULL <=> fifo.len = 0 /\ calling = Nobody
  /\ Len(lowCalls) + Len(highCalls) + (IF fastTimer = "off" THEN 0 ELSE 1)
       = IF buffer = NULL \/ calling # Nobody THEN 0 ELSE 1

(* While samples are taken they are written to the buffer that is allocated, and they are of *)
(* the sensor whose measurement is in progress; so is what waits to be parsed.               *)
SamplesIntoBuffer ==
  /\ clock => /\ buffer # NULL /\ spis = [wired |-> TRUE, phase |-> "receiving", rx |-> buffer]
              /\ currentPin = peek(fifo)
  /\ highCalls # <<>> => buffer # NULL /\ spis.rx = buffer /\ received.from = peek(fifo)

(* The decoder tells a proper signal from others, and finds the reading in a proper one: what *)
(* was received is taken bit by bit through getBits, parseSamples and dht22ToFloat.           *)
DecoderRight ==
  received.from # Nobody =>
    LET g == received.signal
        r == ParseOf(g)
    IN  /\ r \in Results
        /\ r.valid <=> g.good
        /\ g.good => dht22ToFloat(r.h) = g.humidity /\ dht22ToFloat(r.t) = g.temperature

(* When a callback runs, its sensor has what this very sensor sent in this measurement, bit  *)
(* by bit through parseSamples and dht22ToFloat; it is valid exactly if the signal was       *)
(* proper and the end of the transfer was seen in time.                                      *)
AnswersAreSent ==
  calling # Nobody =>
    LET g == received.signal
        m == sensor[calling]
    IN  /\ received.from = calling
        /\ m.valid <=> g.good /\ spis.phase = "off"
        /\ m.valid => m.humidity = g.humidity /\ m.temperature = g.temperature

Service == INSTANCE Measurements WITH
  Sends <- [s \in Sensors |-> {[humidity |-> g.humidity, temperature |-> g.temperature] :
                                 g \in {f \in Sends[s] : f.good}}],
  waiting <- Elements(fifo), serving <- calling, reading <- sensor

(* The driver implements the measurement service: no request is lost, doubled, overtaken or *)
(* answered to another sensor, whatever the callbacks of measurements ask for.              *)
IsMeasurements == Service!Spec

(* startSampling waits for a slave that has not seen the end of its last transfer. *)
Hangs == Interrupted /\ spis.phase = "released"

(* Each measurement asked for ends and is answered, valid or not, though the end of a transfer *)
(* may never be seen.  One thing can stop this: that the slave, after such a transfer, keeps   *)
(* its semaphore from startSampling, which waits for it without a bound.                       *)
EveryMeasurementAnswered == Service!Answered \/ <>[]Hangs
=============================================================================
