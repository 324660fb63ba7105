----------------------------- MODULE Dht22Proofs -----------------------------
(***************************************************************************)
(* The life of a measurement in Dht22, for any sensors, signals, addresses *)
(* and size of the queue: one at a time, its samples in the buffer that is *)
(* allocated, of the sensor that is asked.                                 *)
(***************************************************************************)
EXTENDS Dht22, Dht22ParseProofs

-----------------------------------------------------------------------------
(* The inductive invariant: the queue holds sensors, and a measurement is in one of its stages. *)

Queue ==
  /\ fifo \in FifoOf(Sensors \cup {Nobody})
  /\ \A k \in 0 .. fifo.len - 1 : fifo.array[(fifo.start + k) % Size] \in Sensors

Nowhere == lowCalls = <<>> /\ highCalls = <<>> /\ fastTimer = "off" /\ ~clock

Allocated == buffer \in Heap /\ calling = Nobody /\ fifo.len > 0

Resting == Nowhere /\ buffer = NULL /\ calling = Nobody /\ fifo.len = 0

Answering == Nowhere /\ buffer \in Heap /\ calling \in Sensors

Requested ==
  /\ Allocated
  /\ lowCalls = <<peek(fifo)>> /\ highCalls = <<>> /\ fastTimer = "off" /\ ~clock

Started ==
  /\ Allocated
  /\ lowCalls = <<>> /\ highCalls = <<>> /\ fastTimer \in {"startSampling", "acquiring"} /\ ~clock
  /\ initialized /\ currentPin = peek(fifo)

Sampling ==
  /\ Allocated
  /\ lowCalls = <<>> /\ highCalls = <<>> /\ fastTimer = "stopSampling" /\ clock
  /\ initialized /\ currentPin = peek(fifo)
  /\ spis.phase = "receiving" /\ spis.rx = buffer

Sampled ==
  /\ Allocated
  /\ lowCalls = <<>> /\ fastTimer = "off" /\ ~clock
  /\ \E f \in {"finalizeAndParse", "done"} : \E r : highCalls = <<Call(f, r)>>
  /\ spis.rx = buffer /\ received.from = peek(fifo)

Slave ==
  /\ spis \in [wired : BOOLEAN, phase : {"off", "receiving", "released", "end"}, rx : Heap \cup {NULL}]
  /\ initialized \in BOOLEAN /\ clock \in BOOLEAN
  /\ currentPin \in Sensors \cup {Nobody}
  /\ initialized => spis.wired

Stage == Resting \/ Requested \/ Started \/ Sampling \/ Sampled \/ Answering

IInv == Queue /\ Slave /\ Stage

-----------------------------------------------------------------------------
(* The ring *)

(* Positions in the ring, k places after start *)
LEMMA Position ==
  ASSUME NEW s \in 0 .. Size - 1, NEW k \in 0 .. Size
  PROVE  (s + k) % Size = IF s + k < Size THEN s + k ELSE s + k - Size
  BY FifoAssumption

(* push keeps the queue, and what is first if there is something. *)
LEMMA PushKeepsQueue ==
  ASSUME Queue, fifo.len < Size, NEW s \in Sensors, fifo' = push(fifo, s)
  PROVE  /\ Queue'
         /\ fifo'.len = fifo.len + 1
         /\ fifo.len > 0 => peek(fifo') = peek(fifo)
         /\ fifo.len = 0 => peek(fifo') = s
<1> DEFINE n == fifo.len
           b == fifo.start
           P(k) == (b + k) % Size
<1>1. /\ Size \in Nat \ {0}
      /\ b \in 0 .. Size - 1 /\ n \in 0 .. Size - 1
      /\ fifo.array \in [0 .. Size - 1 -> Sensors \cup {Nobody}]
  BY FifoAssumption DEF Queue, FifoOf
<1>2. \A k \in 0 .. Size : P(k) = IF b + k < Size THEN b + k ELSE b + k - Size
  BY <1>1, Position
<1>3. fifo' = [start |-> b, len |-> n + 1, array |-> [fifo.array EXCEPT ![P(n)] = s]]
  BY <1>1 DEF push, Queue, FifoOf
<1>4. \A k \in 0 .. n - 1 : fifo.array[P(k)] \in Sensors
  BY DEF Queue
<1> HIDE DEF P
<1>5. /\ \A k \in 0 .. n : P(k) \in 0 .. Size - 1
      /\ \A k \in 0 .. n - 1 : P(k) # P(n)
      /\ P(0) = b
  <2> HIDE DEF b, n
  <2>1. \A k \in 0 .. n : k \in 0 .. Size /\ n \in 0 .. n /\ 0 \in 0 .. n
    BY <1>1
  <2>2. ASSUME NEW k \in 0 .. n
        PROVE  P(k) = IF b + k < Size THEN b + k ELSE b + k - Size
    BY <1>2, <2>1
  <2>3. ASSUME NEW k \in 0 .. n
        PROVE  P(k) \in 0 .. Size - 1
    BY <1>1, <2>2
  <2>4. ASSUME NEW k \in 0 .. n - 1
        PROVE  P(k) # P(n)
    <3>1. P(k) = IF b + k < Size THEN b + k ELSE b + k - Size
      BY <1>1, <2>2
    <3>2. P(n) = IF b + n < Size THEN b + n ELSE b + n - Size
      BY <1>1, <2>2
    <3>3. QED
      BY <1>1, <3>1, <3>2
  <2>5. P(0) = b
    <3>1. P(0) = IF b + 0 < Size THEN b + 0 ELSE b + 0 - Size
      BY <1>1, <2>2
    <3>2. QED
      BY <1>1, <3>1
  <2>6. QED
    BY <2>3, <2>4, <2>5
<1>6. fifo'.array[P(n)] = s /\ \A k \in 0 .. n - 1 : fifo'.array[P(k)] = fifo.array[P(k)]
  <2>1. \A i \in 0 .. Size - 1 : fifo'.array[i] = IF i = P(n) THEN s ELSE fifo.array[i]
    BY <1>1, <1>3
  <2>2. \A k \in 0 .. n - 1 : k \in 0 .. n
    BY <1>1
  <2>3. n \in 0 .. n
    BY <1>1
  <2>4. QED
    BY <1>5, <2>1, <2>2, <2>3
<1>7. fifo' \in FifoOf(Sensors \cup {Nobody})
  <2>1. [fifo.array EXCEPT ![P(n)] = s] \in [0 .. Size - 1 -> Sensors \cup {Nobody}]
    BY <1>1
  <2>2. n + 1 \in 0 .. Size
    BY <1>1
  <2>3. QED
    BY <1>1, <1>3, <2>1, <2>2 DEF FifoOf
<1>8. \A k \in 0 .. fifo'.len - 1 : fifo'.array[P(k)] \in Sensors
  <2>1. \A k \in 0 .. fifo'.len - 1 : k \in 0 .. n - 1 \/ k = n
    BY <1>1, <1>3
  <2>2. QED
    BY <1>4, <1>6, <2>1
<1>9. Queue'
  BY <1>3, <1>7, <1>8 DEF Queue, P
<1>10. peek(fifo') = fifo'.array[P(0)] /\ peek(fifo) = fifo.array[P(0)]
  BY <1>3, <1>5 DEF peek
<1>11. n > 0 => peek(fifo') = peek(fifo)
  BY <1>1, <1>6, <1>10
<1>12. n = 0 => peek(fifo') = s
  BY <1>6, <1>10
<1>13. QED
  BY <1>3, <1>9, <1>11, <1>12

(* What is first in a queue that is not empty is a sensor. *)
LEMMA FirstIsSensor ==
  ASSUME Queue, fifo.len > 0
  PROVE  peek(fifo) \in Sensors
<1>1. Size \in Nat \ {0} /\ fifo.start \in 0 .. Size - 1 /\ fifo.len \in 1 .. Size
  BY FifoAssumption DEF Queue, FifoOf
<1>2. 0 \in 0 .. Size /\ 0 \in 0 .. fifo.len - 1
  BY <1>1
<1>3. (fifo.start + 0) % Size = IF fifo.start + 0 < Size THEN fifo.start + 0 ELSE fifo.start + 0 - Size
  BY <1>1, <1>2, Position
<1>4. (fifo.start + 0) % Size = fifo.start
  BY <1>1, <1>3
<1>5. fifo.array[(fifo.start + 0) % Size] \in Sensors
  BY <1>2 DEF Queue
<1>6. QED
  BY <1>4, <1>5 DEF peek

(* pop keeps the queue; what it returns is a sensor. *)
LEMMA PopKeepsQueue ==
  ASSUME Queue, fifo.len > 0, fifo' = pop(fifo)
  PROVE  /\ Queue'
         /\ fifo'.len = fifo.len - 1
         /\ peek(fifo) \in Sensors
<1> DEFINE n == fifo.len
           b == fifo.start
<1>1. /\ Size \in Nat \ {0}
      /\ b \in 0 .. Size - 1 /\ n \in 1 .. Size
      /\ fifo.array \in [0 .. Size - 1 -> Sensors \cup {Nobody}]
  BY FifoAssumption DEF Queue, FifoOf
<1>2. fifo' = [start |-> (b + 1) % Size, len |-> n - 1, array |-> fifo.array]
  BY <1>1 DEF pop, Queue, FifoOf
<1>3. (b + 1) % Size = IF b + 1 < Size THEN b + 1 ELSE b + 1 - Size
  <2>1. 1 \in 0 .. Size
    BY <1>1
  <2>2. QED
    BY <1>1, <2>1, Position
<1>4. (b + 1) % Size \in 0 .. Size - 1
  BY <1>1, <1>3
<1>5. ASSUME NEW k \in 0 .. n - 2
      PROVE  (((b + 1) % Size) + k) % Size = (b + (k + 1)) % Size
  <2> DEFINE c == (b + 1) % Size
             u == (c + k) % Size
             v == (b + (k + 1)) % Size
  <2>1. k \in 0 .. Size /\ k + 1 \in 0 .. Size
    BY <1>1
  <2>2. v = IF b + (k + 1) < Size THEN b + (k + 1) ELSE b + (k + 1) - Size
    BY <1>1, <2>1, Position
  <2>3. u = IF c + k < Size THEN c + k ELSE c + k - Size
    BY <1>4, <2>1, Position
  <2>4. c = IF b + 1 < Size THEN b + 1 ELSE b + 1 - Size
    BY <1>3
  <2> HIDE DEF b, n, c, u, v
  <2>5. u = v
    BY <1>1, <2>1, <2>2, <2>3, <2>4
  <2>6. QED
    BY <2>5 DEF c, u, v
<1>6. \A k \in 0 .. n - 1 : fifo.array[(b + k) % Size] \in Sensors
  BY DEF Queue
<1>7. \A k \in 0 .. fifo'.len - 1 : fifo'.array[(fifo'.start + k) % Size] \in Sensors
  <2>1. ASSUME NEW k \in 0 .. n - 2
        PROVE  fifo.array[(((b + 1) % Size) + k) % Size] \in Sensors
    <3>1. k + 1 \in 0 .. n - 1
      BY <1>1
    <3>2. fifo.array[(b + (k + 1)) % Size] \in Sensors
      BY <1>6, <3>1
    <3>3. QED
      BY <1>5, <3>2
  <2>2. fifo'.len - 1 = n - 2 /\ fifo'.start = (b + 1) % Size /\ fifo'.array = fifo.array
    BY <1>1, <1>2
  <2>3. QED
    BY <2>1, <2>2
<1>8. fifo' \in FifoOf(Sensors \cup {Nobody})
  BY <1>1, <1>2, <1>4 DEF FifoOf
<1>9. peek(fifo) \in Sensors
  BY <1>1, FirstIsSensor
<1>10. QED
  BY <1>1, <1>2, <1>7, <1>8, <1>9 DEF Queue

-----------------------------------------------------------------------------
(* The invariant is inductive. *)

LEMMA InitIInv == Init => IInv
<1> SUFFICES ASSUME Init PROVE IInv
  OBVIOUS
<1>1. Queue
  BY FifoAssumption DEF Init, Queue, FifoOf, Empty
<1>2. Slave
  BY DEF Init, Slave
<1>3. Resting
  BY DEF Init, Resting, Nowhere, Empty
<1>4. QED
  BY <1>1, <1>2, <1>3 DEF IInv, Stage

LEMMA measureKeeps ==
  ASSUME IInv, NEW s \in Sensors, fifo.len < Size, measure(s)
  PROVE  IInv'
<1>1. /\ Queue'
      /\ fifo'.len = fifo.len + 1 /\ fifo.len \in Nat
      /\ fifo.len > 0 => peek(fifo') = peek(fifo)
      /\ fifo.len = 0 => peek(fifo') = s
  BY PushKeepsQueue, FifoAssumption DEF IInv, Queue, FifoOf, measure
<1>2. Slave'
  BY DEF IInv, Slave, measure
<1>3. CASE Resting
  <2>1. buffer' \in Heap /\ lowCalls' = <<peek(fifo')>>
    BY <1>3 DEF measure, Resting, Nowhere, PostStart
  <2>2. Requested'
    BY <1>1, <1>3, <2>1 DEF measure, Resting, Nowhere, Requested, Allocated
  <2>3. QED
    BY <1>1, <1>2, <2>2 DEF IInv, Stage
<1>4. CASE buffer \in Heap
  <2>1. UNCHANGED <<buffer, lowCalls>>
    BY <1>4, Dht22Assumption DEF measure
  <2>2. Allocated => Allocated' /\ peek(fifo') = peek(fifo)
    BY <1>1, <2>1 DEF Allocated, measure
  <2>3. Requested => Requested'
    BY <2>1, <2>2 DEF Requested, measure
  <2>4. Started => Started'
    BY <2>1, <2>2 DEF Started, measure
  <2>5. Sampling => Sampling'
    BY <2>1, <2>2 DEF Sampling, measure
  <2>6. Sampled => Sampled'
    BY <2>1, <2>2 DEF Sampled, measure
  <2>7. Answering => Answering'
    BY <2>1 DEF Answering, Nowhere, measure
  <2>8. Stage'
    BY <1>3, <1>4, <2>3, <2>4, <2>5, <2>6, <2>7, Dht22Assumption DEF IInv, Stage, Resting
  <2>9. QED
    BY <1>1, <1>2, <2>8 DEF IInv
<1>5. QED
  BY <1>3, <1>4 DEF IInv, Stage, Requested, Started, Sampling, Sampled, Allocated, Answering

LEMMA startKeeps ==
  ASSUME IInv, start
  PROVE  IInv'
<1>1. Requested
  BY DEF IInv, Stage, Resting, Nowhere, Requested, Started, Sampling, Sampled, Answering, start
<1>2. lowCalls' = <<>> /\ currentPin' = peek(fifo)
  BY <1>1 DEF Requested, start
<1>3. Slave' /\ initialized'
  <2>1. currentPin' \in Sensors
    BY <1>1, <1>2, FirstIsSensor DEF IInv, Requested, Allocated
  <2>2. QED
    BY <2>1 DEF IInv, Slave, start, init
<1>4. Started'
  BY <1>1, <1>2, <1>3 DEF Requested, Started, Allocated, start
<1>5. QED
  BY <1>3, <1>4 DEF IInv, Stage, Queue, start

LEMMA startSamplingKeeps ==
  ASSUME IInv, startSampling
  PROVE  IInv'
<1>1. Started
  BY DEF IInv, Stage, Resting, Nowhere, Requested, Started, Sampling, Sampled, Answering, startSampling
<1>2. Slave'
  BY DEF IInv, Slave, hardware, startSampling
<1>3. Started'
  BY <1>1 DEF Started, Allocated, hardware, startSampling
<1>4. QED
  BY <1>2, <1>3 DEF IInv, Stage, Queue, startSampling

LEMMA acquiredKeeps ==
  ASSUME IInv, acquired
  PROVE  IInv'
<1>1. Started
  BY DEF IInv, Stage, Resting, Nowhere, Requested, Started, Sampling, Sampled, Answering, acquired
<1>2. Slave' /\ spis'.phase = "receiving" /\ spis'.rx = buffer
  BY <1>1 DEF IInv, Slave, Started, Allocated, acquired
<1>3. Sampling'
  BY <1>1, <1>2 DEF Started, Sampling, Allocated, acquired
<1>4. QED
  BY <1>2, <1>3 DEF IInv, Stage, Queue, acquired

LEMMA stopSamplingKeeps ==
  ASSUME IInv, stopSampling
  PROVE  IInv'
<1>1. Sampling
  BY DEF IInv, Stage, Resting, Nowhere, Requested, Started, Sampling, Sampled, Answering, stopSampling
<1>2. highCalls' = <<Call("finalizeAndParse", NoResult)>>
  BY <1>1 DEF Sampling, stopSampling
<1>3. received'.from = peek(fifo)
  BY <1>1 DEF Sampling, stopSampling
<1>4. Slave' /\ spis'.rx = buffer
  BY <1>1 DEF IInv, Slave, Sampling, stopSampling
<1>5. Sampled'
  BY <1>1, <1>2, <1>3, <1>4 DEF Sampling, Sampled, Allocated, stopSampling
<1>6. QED
  BY <1>4, <1>5 DEF IInv, Stage, Queue, stopSampling

LEMMA EndOfTransferKeeps ==
  ASSUME IInv, EndOfTransfer
  PROVE  IInv'
<1>1. Slave' /\ spis'.rx = spis.rx
  BY DEF IInv, Slave, EndOfTransfer
<1>2. ~Sampling
  BY DEF Sampling, EndOfTransfer
<1>3. Stage'
  BY <1>1, <1>2 DEF IInv, Stage, Resting, Nowhere, Requested, Started, Sampled, Answering, Allocated, EndOfTransfer
<1>4. QED
  BY <1>1, <1>3 DEF IInv, Queue, EndOfTransfer

(* In stage Sampled one call waits, whose function may be called. *)
LEMMA SampledCall ==
  ASSUME IInv, highCalls # <<>>
  PROVE  Sampled /\ Tail(highCalls) = <<>>
<1>1. Sampled
  BY DEF IInv, Stage, Resting, Nowhere, Requested, Started, Sampling, Answering
<1>2. QED
  BY <1>1 DEF Sampled

LEMMA finalizeKeeps ==
  ASSUME IInv, finalizeAndParse
  PROVE  IInv'
<1>1. Sampled /\ Tail(highCalls) = <<>>
  BY SampledCall DEF finalizeAndParse, HighCalls
<1>2. \E r : highCalls' = <<Call("done", r)>>
  <2>1. \/ highCalls' = Append(<<>>, Call("done", ParseOf(received.signal)))
        \/ highCalls' = Append(<<>>, Call("done", NoResult))
    BY <1>1, Zenon DEF finalizeAndParse
  <2>2. ASSUME NEW r PROVE Append(<<>>, r) = <<r>>
    OBVIOUS
  <2>3. QED
    BY <2>1, <2>2, Zenon
<1>3. Slave' /\ spis'.rx = spis.rx
  BY DEF IInv, Slave, finalizeAndParse
<1>4. Sampled'
  BY <1>1, <1>2, <1>3 DEF Sampled, Allocated, finalizeAndParse
<1>5. QED
  BY <1>3, <1>4 DEF IInv, Stage, Queue, finalizeAndParse

LEMMA doneKeeps ==
  ASSUME IInv, done
  PROVE  IInv'
<1>1. Sampled /\ Tail(highCalls) = <<>>
  BY SampledCall DEF done, HighCalls
<1>2. Queue' /\ peek(fifo) \in Sensors
  BY <1>1, PopKeepsQueue DEF IInv, done, Sampled, Allocated
<1>3. Answering'
  BY <1>1, <1>2 DEF Sampled, Allocated, Answering, Nowhere, done
<1>4. Slave'
  BY DEF IInv, Slave, done
<1>5. QED
  BY <1>2, <1>3, <1>4 DEF IInv, Stage

LEMMA callbackReturnsKeeps ==
  ASSUME IInv, callbackReturns
  PROVE  IInv'
<1>1. Answering
  BY DEF IInv, Stage, Resting, Requested, Started, Sampling, Sampled, Allocated, callbackReturns
<1>2. Queue' /\ Slave' /\ fifo.len \in Nat
  BY FifoAssumption DEF IInv, Queue, FifoOf, Slave, callbackReturns
<1>3. CASE fifo.len > 0
  <2>1. lowCalls' = <<peek(fifo)>>
    BY <1>1, <1>3 DEF Answering, Nowhere, callbackReturns, PostStart
  <2>2. Requested'
    BY <1>1, <1>3, <2>1 DEF Answering, Nowhere, Requested, Allocated, callbackReturns
  <2>3. QED
    BY <1>2, <2>2 DEF IInv, Stage
<1>4. CASE fifo.len = 0
  <2>1. Resting'
    BY <1>1, <1>4 DEF Answering, Nowhere, Resting, callbackReturns
  <2>2. QED
    BY <1>2, <2>1 DEF IInv, Stage
<1>5. QED
  BY <1>2, <1>3, <1>4

LEMMA NextIInv == IInv /\ [Next]_vars => IInv'
<1> SUFFICES ASSUME IInv, [Next]_vars PROVE IInv'
  OBVIOUS
<1>1. ASSUME NEW s \in Sensors, fifo.len < Size, measure(s) PROVE IInv'
  BY <1>1, measureKeeps
<1>2. CASE start
  BY <1>2, startKeeps
<1>3. CASE startSampling
  BY <1>3, startSamplingKeeps
<1>4. CASE stopSampling
  BY <1>4, stopSamplingKeeps
<1>5. CASE EndOfTransfer
  BY <1>5, EndOfTransferKeeps
<1>6. CASE finalizeAndParse
  BY <1>6, finalizeKeeps
<1>7. CASE done
  BY <1>7, doneKeeps
<1>8. CASE callbackReturns
  BY <1>8, callbackReturnsKeeps
<1>9. CASE acquired
  BY <1>9, acquiredKeeps
<1>10. CASE UNCHANGED vars
  BY <1>10 DEF vars, IInv, Queue, Slave, Stage, Resting, Nowhere, Requested, Started, Sampling,
               Sampled, Answering, Allocated
<1>11. QED
  BY <1>1, <1>2, <1>3, <1>4, <1>5, <1>6, <1>7, <1>8, <1>9, <1>10 DEF Next, Chain

-----------------------------------------------------------------------------
(* The theorems *)

(* IInv is an invariant of the driver. *)
THEOREM InvariantHolds == Spec => []IInv
<1>1. Init => IInv
  BY InitIInv
<1>2. IInv /\ [Next]_vars => IInv'
  BY NextIInv
<1>3. QED
  BY <1>1, <1>2, PTL DEF Spec

(* The chain of a measurement (dht22.cpp:154-296) neither forks nor breaks, and there is a  *)
(* buffer exactly while measurements are asked for or a callback runs.                      *)
THEOREM MeasurementsOneByOne == Spec => []OneInProgress
<1>1. IInv => OneInProgress
  <2> SUFFICES ASSUME IInv PROVE OneInProgress
    OBVIOUS
  <2>1. fifo.len \in Nat
    BY FifoAssumption DEF IInv, Queue, FifoOf
  <2>2. CASE Resting
    BY <2>2 DEF Resting, Nowhere, OneInProgress
  <2>3. CASE Answering
    BY <2>3, Dht22Assumption DEF Answering, Nowhere, OneInProgress
  <2>4. CASE Requested
    BY <2>1, <2>4, Dht22Assumption DEF Requested, Allocated, OneInProgress
  <2>5. CASE Started
    BY <2>1, <2>5, Dht22Assumption DEF Started, Allocated, OneInProgress
  <2>6. CASE Sampling
    BY <2>1, <2>6, Dht22Assumption DEF Sampling, Allocated, OneInProgress
  <2>7. CASE Sampled
    BY <2>1, <2>7, Dht22Assumption DEF Sampled, Allocated, OneInProgress
  <2>8. QED
    BY <2>2, <2>3, <2>4, <2>5, <2>6, <2>7 DEF IInv, Stage
<1>2. QED
  BY <1>1, InvariantHolds, PTL

(* The SPI slave writes into the buffer that is allocated, and what is parsed was sent by    *)
(* the sensor whose measurement is in progress (dht22.cpp:154-240).                          *)
THEOREM SamplesAreSafe == Spec => []SamplesIntoBuffer
<1>1. IInv => SamplesIntoBuffer
  <2> SUFFICES ASSUME IInv PROVE SamplesIntoBuffer
    OBVIOUS
  <2>1. ASSUME clock
        PROVE  buffer # NULL /\ spis = [wired |-> TRUE, phase |-> "receiving", rx |-> buffer]
               /\ currentPin = peek(fifo)
    <3>1. Sampling
      BY <2>1 DEF IInv, Stage, Resting, Nowhere, Requested, Started, Sampled, Answering
    <3>2. spis.wired = TRUE
      BY <3>1 DEF IInv, Slave, Sampling
    <3>3. QED
      BY <3>1, <3>2, Dht22Assumption DEF IInv, Slave, Sampling, Allocated
  <2>2. ASSUME highCalls # <<>>
        PROVE  buffer # NULL /\ spis.rx = buffer /\ received.from = peek(fifo)
    BY <2>2, SampledCall, Dht22Assumption DEF Sampled, Allocated
  <2>3. QED
    BY <2>1, <2>2 DEF SamplesIntoBuffer
<1>2. QED
  BY <1>1, InvariantHolds, PTL

-----------------------------------------------------------------------------
(* From the signal to the answer.  While a call waits for LEVEL_HIGH, received has what the *)
(* sensor sent; what done is to be called with has been parsed of it, if the SPI slave has  *)
(* been turned off since the transfer, and is not valid otherwise.                          *)

Verdict == IF spis.phase = "off" THEN ParseOf(received.signal) ELSE NoResult

Waits(call) ==
  /\ call \in Calls
  /\ received.signal \in Sends[received.from]
  /\ call.fn = "finalizeAndParse" => spis.phase \in {"released", "end"}
  /\ call.fn = "done" => call.result = Verdict

Reading ==
  /\ sensor \in [Sensors -> Members]
  /\ received \in [from : Sensors \cup {Nobody}, signal : Signals \cup {NoSignal}]
  /\ \A call : highCalls = <<call>> => Waits(call)
  /\ AnswersAreSent

(* What is parsed of a signal of a sensor is what the signal means. *)
LEMMA SignalParsed ==
  ASSUME NEW g \in Signals \cup {NoSignal}, NEW r, r = ParseOf(g)
  PROVE  /\ r \in Results
         /\ r.valid <=> g.good
         /\ g.good => dht22ToFloat(r.h) = g.humidity /\ dht22ToFloat(r.t) = g.temperature
<1>1. CASE g = NoSignal
  BY <1>1 DEF NoSignal, ParseOf, NoResult, Results, Word
<1>2. CASE g # NoSignal
  <2>1. g \in Signals /\ r = parseSamples(Waveform[g], Bytes(g))
    BY <1>2 DEF ParseOf, Parsed
  <2>2. PICK w, n : w = Waveform[g] /\ n = Bytes(g)
    OBVIOUS
  <2>3. /\ n \in Nat /\ w \in [0 .. n - 1 -> Byte]
        /\ g.good <=> IsProper(w, n)
        /\ g.good => /\ g.humidity = Signed(DataOf(w, n, 0), DataOf(w, n, 1))
                     /\ g.temperature = Signed(DataOf(w, n, 2), DataOf(w, n, 3))
    BY <2>1, <2>2, SignalAssumption, Zenon DEF Tells
  <2>4. r = parseSamples(w, n)
    BY <2>1, <2>2, Zenon
  <2>5. /\ r \in [valid : BOOLEAN, h : Word, t : Word]
        /\ r.valid <=> IsProper(w, n)
        /\ r.valid => /\ dht22ToFloat(r.h) = Signed(DataOf(w, n, 0), DataOf(w, n, 1))
                      /\ dht22ToFloat(r.t) = Signed(DataOf(w, n, 2), DataOf(w, n, 3))
    BY <2>3, <2>4, ParseIs, Zenon
  <2>6. QED
    BY <2>3, <2>5, Zenon DEF Results
<1>3. QED
  BY <1>1, <1>2

LEMMA ReadingDecodes == Reading => DecoderRight
<1> SUFFICES ASSUME Reading PROVE DecoderRight
  OBVIOUS
<1>1. received.signal \in Signals \cup {NoSignal}
  BY DEF Reading
<1>2. PICK g, r : g = received.signal /\ r = ParseOf(g) /\ g \in Signals \cup {NoSignal}
  BY <1>1
<1>3. /\ r \in Results
      /\ r.valid <=> g.good
      /\ g.good => dht22ToFloat(r.h) = g.humidity /\ dht22ToFloat(r.t) = g.temperature
  BY <1>2, SignalParsed, Zenon
<1>4. QED
  BY <1>2, <1>3, Zenon DEF DecoderRight

LEMMA InitReading == Init => Reading
<1> SUFFICES ASSUME Init PROVE Reading
  OBVIOUS
<1>1. sensor \in [Sensors -> Members]
  BY DEF Init, Constructed, Members
<1>2. received \in [from : Sensors \cup {Nobody}, signal : Signals \cup {NoSignal}]
  BY DEF Init, NotReceived
<1>3. \A call : highCalls # <<call>>
  BY DEF Init
<1>4. AnswersAreSent
  BY DEF Init, AnswersAreSent
<1>5. QED
  BY <1>1, <1>2, <1>3, <1>4 DEF Reading

(* A step that leaves all this alone *)
LEMMA ReadingSame ==
  ASSUME Reading, UNCHANGED <<sensor, received, highCalls, calling>>,
         \/ spis'.phase = spis.phase
         \/ spis.phase = "released" /\ spis'.phase = "end"
         \/ highCalls = <<>> /\ calling = Nobody
  PROVE  Reading'
<1>1. \A call : Waits(call) /\ highCalls = <<call>> => Waits(call)'
  BY DEF Waits, Verdict
<1>2. AnswersAreSent'
  BY DEF Reading, AnswersAreSent
<1>3. QED
  BY <1>1, <1>2 DEF Reading

LEMMA stopSamplingReads ==
  ASSUME IInv, Reading, stopSampling
  PROVE  Reading'
<1>1. Sampling
  BY DEF IInv, Stage, Resting, Nowhere, Requested, Started, Sampling, Sampled, Answering, stopSampling
<1>2. PICK g \in Sends[currentPin] : received' = [from |-> currentPin, signal |-> g]
  BY DEF stopSampling
<1>3. currentPin \in Sensors
  BY <1>1, FirstIsSensor DEF IInv, Sampling, Allocated
<1>4. g \in Signals
  BY <1>2, <1>3, Dht22Assumption
<1>5. highCalls' = <<Call("finalizeAndParse", NoResult)>>
  BY <1>1 DEF Sampling, stopSampling
<1>6. spis'.phase = "released"
  BY DEF IInv, Slave, stopSampling
<1>7. Waits(Call("finalizeAndParse", NoResult))'
  BY <1>2, <1>6 DEF Waits, Call, Calls, NoResult, Results, Word
<1>8. AnswersAreSent'
  BY <1>1 DEF Sampling, Allocated, AnswersAreSent, stopSampling
<1>9. received' \in [from : Sensors \cup {Nobody}, signal : Signals \cup {NoSignal}]
  BY <1>2, <1>3, <1>4
<1>10. \A call : highCalls' = <<call>> => call = Call("finalizeAndParse", NoResult)
  BY <1>5
<1>11. QED
  BY <1>7, <1>8, <1>9, <1>10 DEF Reading, stopSampling

LEMMA finalizeReads ==
  ASSUME IInv, Reading, finalizeAndParse
  PROVE  Reading'
<1>1. Sampled /\ Tail(highCalls) = <<>> /\ Head(highCalls).fn = "finalizeAndParse"
  BY SampledCall DEF finalizeAndParse, HighCalls
<1>2. PICK call : highCalls = <<call>>
  BY <1>1 DEF Sampled
<1>3. Waits(call) /\ call.fn = "finalizeAndParse"
  BY <1>1, <1>2 DEF Reading
<1>4. received.from \in Sensors /\ received.from # Nobody /\ received.signal \in Signals
  <2>1. received.from \in Sensors /\ received.from # Nobody
    BY <1>1, FirstIsSensor, Dht22Assumption DEF IInv, Sampled, Allocated
  <2>2. QED
    BY <1>3, <2>1, Dht22Assumption DEF Waits
<1>5. PICK r \in Results : highCalls' = <<Call("done", r)>> /\ r = Verdict'
  <2>1. CASE spis.phase = "end"
    <3>1. highCalls' = Append(<<>>, Call("done", ParseOf(received.signal)))
      BY <1>1, <2>1, Zenon DEF finalizeAndParse
    <3>2. spis'.phase = "off" /\ received' = received
      BY <2>1 DEF finalizeAndParse, IInv, Slave
    <3>3. ParseOf(received.signal) \in Results /\ Verdict' = ParseOf(received.signal)
      BY <1>4, <3>2, ReadingDecodes DEF DecoderRight, Verdict
    <3>4. QED
      BY <3>1, <3>3
  <2>2. CASE spis.phase # "end"
    <3>1. highCalls' = Append(<<>>, Call("done", NoResult))
      BY <1>1, <2>2, Zenon DEF finalizeAndParse
    <3>2. spis'.phase # "off" /\ received' = received
      BY <1>3, <2>2 DEF finalizeAndParse, Waits
    <3>3. NoResult \in Results /\ Verdict' = NoResult
      BY <3>2 DEF Verdict, NoResult, Results, Word
    <3>4. QED
      BY <3>1, <3>3
  <2>3. QED
    BY <2>1, <2>2
<1>6. Waits(Call("done", r))'
  BY <1>3, <1>5 DEF Waits, Call, Calls, finalizeAndParse
<1>7. AnswersAreSent'
  BY <1>1 DEF Sampled, Allocated, AnswersAreSent, finalizeAndParse
<1>8. \A c : highCalls' = <<c>> => c = Call("done", r)
  BY <1>5
<1>9. QED
  BY <1>6, <1>7, <1>8 DEF Reading, finalizeAndParse

(* What done makes of a sensor, for the call that waits *)
LEMMA doneReads ==
  ASSUME IInv, Reading, done
  PROVE  Reading'
<1>1. Sampled /\ Tail(highCalls) = <<>> /\ Head(highCalls).fn = "done"
  BY SampledCall DEF done, HighCalls
<1>2. PICK call : highCalls = <<call>>
  BY <1>1 DEF Sampled
<1>3. Waits(call) /\ call.fn = "done" /\ call = Head(highCalls)
  BY <1>1, <1>2 DEF Reading
<1>4. /\ peek(fifo) \in Sensors /\ received.from = peek(fifo) /\ received.signal \in Sends[peek(fifo)]
      /\ received.signal \in Signals /\ received.from # Nobody
  BY <1>1, <1>3, FirstIsSensor, Dht22Assumption DEF IInv, Sampled, Allocated, Waits
<1>5. call.result = Verdict /\ call.result \in Results
  BY <1>3 DEF Waits, Calls
<1> DEFINE r == call.result
           g == received.signal
           m == IF r.valid
                THEN [valid |-> TRUE, humidity |-> dht22ToFloat(r.h), temperature |-> dht22ToFloat(r.t)]
                ELSE [sensor[peek(fifo)] EXCEPT !.valid = FALSE]
<1>6. sensor' = [sensor EXCEPT ![peek(fifo)] = m]
  BY <1>3 DEF done
<1>7. r.valid <=> g.good /\ spis.phase = "off"
  BY <1>4, <1>5, ReadingDecodes DEF DecoderRight, Verdict, NoResult
<1>8. r.valid => dht22ToFloat(r.h) = g.humidity /\ dht22ToFloat(r.t) = g.temperature
  BY <1>4, <1>5, <1>7, ReadingDecodes DEF DecoderRight, Verdict
<1>9. m \in Members /\ (m.valid <=> r.valid) /\ (r.valid => m.humidity = g.humidity /\ m.temperature = g.temperature)
  <2>1. g.humidity \in Int /\ g.temperature \in Int
    BY <1>4, Dht22Assumption
  <2>2. CASE r.valid
    BY <1>8, <2>1, <2>2 DEF Members
  <2>3. CASE ~r.valid
    <3>1. sensor[peek(fifo)] \in Members
      BY <1>4 DEF Reading
    <3>2. m = [sensor[peek(fifo)] EXCEPT !.valid = FALSE]
      BY <2>3
    <3>3. m \in Members /\ m.valid = FALSE
      BY <3>1, <3>2 DEF Members
    <3>4. QED
      BY <2>3, <3>3
  <2>4. QED
    BY <2>2, <2>3
<1> HIDE DEF m
<1>10. sensor' \in [Sensors -> Members] /\ sensor'[peek(fifo)] = m
  BY <1>4, <1>6, <1>9 DEF Reading
<1>11. calling' = peek(fifo) /\ received' = received /\ spis' = spis /\ highCalls' = <<>>
  BY <1>1 DEF done
<1>12. AnswersAreSent'
  BY <1>4, <1>7, <1>9, <1>10, <1>11 DEF AnswersAreSent
<1>13. QED
  BY <1>10, <1>11, <1>12 DEF Reading

(* The invariant of the values is inductive, on that of the stages. *)
LEMMA NextReading == IInv /\ Reading /\ [Next]_vars => Reading'
<1> SUFFICES ASSUME IInv, Reading, [Next]_vars PROVE Reading'
  OBVIOUS
<1>1. ASSUME NEW s \in Sensors, measure(s) PROVE Reading'
  BY <1>1, ReadingSame DEF measure
<1>2. CASE start
  <2>1. Requested
    BY <1>2 DEF IInv, Stage, Resting, Nowhere, Requested, Started, Sampling, Sampled, Answering, start
  <2>2. QED
    BY <1>2, <2>1, ReadingSame DEF Requested, Allocated, start
<1>3. CASE startSampling
  <2>1. spis' = spis /\ received' = received
    BY <1>3 DEF startSampling, hardware
  <2>2. QED
    BY <1>3, <2>1, ReadingSame DEF startSampling
<1>4. CASE stopSampling
  BY <1>4, stopSamplingReads
<1>5. CASE EndOfTransfer
  <2>1. spis.phase = "released" /\ spis'.phase = "end"
    BY <1>5 DEF EndOfTransfer, IInv, Slave
  <2>2. QED
    BY <1>5, <2>1, ReadingSame DEF EndOfTransfer
<1>6. CASE finalizeAndParse
  BY <1>6, finalizeReads
<1>7. CASE done
  BY <1>7, doneReads
<1>8. CASE callbackReturns
  <2>1. Answering
    BY <1>8 DEF IInv, Stage, Resting, Requested, Started, Sampling, Sampled, Allocated, callbackReturns
  <2>2. highCalls' = <<>> /\ calling' = Nobody /\ sensor' = sensor /\ received' = NotReceived
    BY <1>8, <2>1 DEF Answering, Nowhere, callbackReturns
  <2>3. AnswersAreSent'
    BY <2>2 DEF AnswersAreSent
  <2>4. QED
    BY <2>2, <2>3 DEF Reading, NotReceived
<1>9. CASE acquired
  <2>1. Started
    BY <1>9 DEF IInv, Stage, Resting, Nowhere, Requested, Started, Sampling, Sampled, Answering, acquired
  <2>2. QED
    BY <1>9, <2>1, ReadingSame DEF Started, Allocated, acquired
<1>10. CASE UNCHANGED vars
  BY <1>10, ReadingSame DEF vars
<1>11. QED
  BY <1>1, <1>2, <1>3, <1>4, <1>5, <1>6, <1>7, <1>8, <1>9, <1>10 DEF Next, Chain

(* Reading is an invariant, too. *)
LEMMA ReadingHolds == Spec => [](IInv /\ Reading)
<1>1. Init => IInv /\ Reading
  BY InitIInv, InitReading
<1>2. IInv /\ Reading /\ [Next]_vars => IInv' /\ Reading'
  BY NextIInv, NextReading
<1>3. QED
  BY <1>1, <1>2, PTL DEF Spec

(* The decoder accepts exactly the proper signals, and finds in a proper one the values that *)
(* the sensor meant (getBits, parseSamples and dht22ToFloat, dht22.cpp:77-151, 243-249), of  *)
(* any number of samples and whatever the lengths of the pulses are.                         *)
THEOREM DecoderIsRight == Spec => []DecoderRight
<1>1. QED
  BY ReadingDecodes, ReadingHolds, PTL

(* When a callback is called, the sensor object has what the sensor sent in this measurement *)
(* (dht22.cpp:200-296): no measurement is given the samples, the slave's buffer or the       *)
(* parsed words of another one, and decoding loses nothing.                                  *)
THEOREM AnswersAreRight == Spec => []AnswersAreSent
<1>1. Reading => AnswersAreSent
  BY DEF Reading
<1>2. QED
  BY <1>1, ReadingHolds, PTL

(* Each variable of the driver keeps its type. *)
THEOREM TypeCorrect == Spec => []TypeOK
<1>1. IInv /\ Reading => TypeOK
  <2> SUFFICES ASSUME IInv, Reading PROVE TypeOK
    OBVIOUS
  <2>1. /\ fifo.len > 0 => peek(fifo) \in Sensors
        /\ fifo \in FifoOf(Sensors \cup {Nobody})
    BY FirstIsSensor DEF IInv, Queue
  <2>2. highCalls \in Seq(Calls)
    <3>1. CASE highCalls = <<>>
      BY <3>1
    <3>2. CASE highCalls # <<>>
      <4>1. PICK call : highCalls = <<call>>
        BY <3>2, SampledCall DEF Sampled
      <4>2. call \in Calls
        BY <4>1 DEF Reading, Waits
      <4>3. QED
        BY <4>1, <4>2
    <3>3. QED
      BY <3>1, <3>2
  <2>3. /\ lowCalls = <<>> \/ (Allocated /\ lowCalls = <<peek(fifo)>>)
        /\ fastTimer \in {"off", "startSampling", "acquiring", "stopSampling"}
        /\ buffer \in Heap \cup {NULL}
        /\ calling \in Sensors \cup {Nobody}
    BY DEF IInv, Stage, Resting, Nowhere, Requested, Started, Sampling, Sampled, Answering, Allocated
  <2>4. lowCalls \in Seq(Sensors)
    <3>1. CASE lowCalls = <<>>
      BY <3>1
    <3>2. CASE Allocated /\ lowCalls = <<peek(fifo)>>
      BY <2>1, <3>2 DEF Allocated
    <3>3. QED
      BY <2>3, <3>1, <3>2
  <2>5. QED
    BY <2>1, <2>2, <2>3, <2>4 DEF TypeOK, IInv, Slave, Reading
<1>2. QED
  BY <1>1, ReadingHolds, PTL

-----------------------------------------------------------------------------
(* The driver implements Measurements: the ring is the queue of the sensors that wait. *)

LEMMA ElementsProperties ==
  ASSUME Queue
  PROVE  /\ Elements(fifo) \in Seq(Sensors) /\ Len(Elements(fifo)) = fifo.len
         /\ \A k \in 1 .. fifo.len : Elements(fifo)[k] = fifo.array[(fifo.start + (k - 1)) % Size]
<1>1. fifo.len \in Nat /\ fifo.start \in Int
  BY FifoAssumption DEF Queue, FifoOf
<1>2. \A k \in 1 .. fifo.len : k - 1 \in 0 .. fifo.len - 1 /\ fifo.start + k - 1 = fifo.start + (k - 1)
  BY <1>1
<1>3. \A k \in 1 .. fifo.len : fifo.array[(fifo.start + k - 1) % Size] = fifo.array[(fifo.start + (k - 1)) % Size]
  BY <1>2
<1>4. \A k \in 1 .. fifo.len : fifo.array[(fifo.start + k - 1) % Size] \in Sensors
  BY <1>2, <1>3 DEF Queue
<1>5. Elements(fifo) \in [1 .. fifo.len -> Sensors]
  BY <1>4 DEF Elements
<1>6. Elements(fifo) \in Seq(Sensors)
  BY <1>1, <1>5, SeqDef
<1>7. Len(Elements(fifo)) = fifo.len
  <2>1. DOMAIN Elements(fifo) = 1 .. fifo.len
    BY <1>5
  <2>2. Len(Elements(fifo)) \in Nat /\ DOMAIN Elements(fifo) = 1 .. Len(Elements(fifo))
    BY <1>6, LenProperties
  <2>3. QED
    BY <1>1, <2>1, <2>2
<1>8. \A k \in 1 .. fifo.len : Elements(fifo)[k] = fifo.array[(fifo.start + k - 1) % Size]
  BY DEF Elements
<1>9. QED
  BY <1>3, <1>6, <1>7, <1>8

(* The same of the next state *)
LEMMA ElementsPropertiesNext ==
  Queue' => /\ Elements(fifo)' \in Seq(Sensors) /\ Len(Elements(fifo)') = fifo'.len
            /\ \A k \in 1 .. fifo'.len : Elements(fifo)'[k] = fifo'.array[(fifo'.start + (k - 1)) % Size]
<1> DEFINE P == /\ Elements(fifo) \in Seq(Sensors) /\ Len(Elements(fifo)) = fifo.len
                /\ \A k \in 1 .. fifo.len : Elements(fifo)[k] = fifo.array[(fifo.start + (k - 1)) % Size]
<1>1. Queue => P
  BY ElementsProperties
<1>2. Queue' => P'
  <2> HIDE DEF P
  <2>1. QED
    BY <1>1, PTL
<1>3. QED
  BY <1>2

LEMMA PushAppends ==
  ASSUME Queue, fifo.len < Size, NEW s \in Sensors, fifo' = push(fifo, s)
  PROVE  Elements(fifo)' = Append(Elements(fifo), s)
<1> DEFINE n == fifo.len
           b == fifo.start
           e == Elements(fifo)
           f == Elements(fifo)'
           P(k) == (b + k) % Size
<1>1. Queue' /\ fifo'.len = n + 1 /\ n \in 0 .. Size - 1 /\ Size \in Nat \ {0} /\ b \in 0 .. Size - 1
  BY PushKeepsQueue, FifoAssumption DEF Queue, FifoOf
<1>2. /\ e \in Seq(Sensors) /\ Len(e) = n
      /\ \A k \in 1 .. n : e[k] = fifo.array[P(k - 1)]
  BY ElementsProperties
<1>3. /\ f \in Seq(Sensors) /\ Len(f) = n + 1
      /\ \A k \in 1 .. n + 1 : f[k] = fifo'.array[(fifo'.start + (k - 1)) % Size]
  BY <1>1, ElementsPropertiesNext
<1>4. fifo'.start = b /\ fifo'.array = [fifo.array EXCEPT ![P(n)] = s]
      /\ fifo.array \in [0 .. Size - 1 -> Sensors \cup {Nobody}]
  BY <1>1 DEF push, Queue, FifoOf
<1>5. \A k \in 1 .. n + 1 : f[k] = fifo'.array[P(k - 1)]
  BY <1>3, <1>4
<1>6. \A k \in 0 .. Size : P(k) = IF b + k < Size THEN b + k ELSE b + k - Size
  BY <1>1, Position
<1> HIDE DEF P, e, f
<1>7. \A i \in 0 .. Size - 1 : fifo'.array[i] = IF i = P(n) THEN s ELSE fifo.array[i]
  BY <1>4
<1>8. ASSUME NEW k \in 0 .. n
      PROVE  P(k) \in 0 .. Size - 1 /\ (P(k) = P(n) => k = n)
  <2> HIDE DEF b, n
  <2>1. k \in 0 .. Size /\ n \in 0 .. Size
    BY <1>1
  <2>2. P(k) = IF b + k < Size THEN b + k ELSE b + k - Size
    BY <1>6, <2>1
  <2>3. P(n) = IF b + n < Size THEN b + n ELSE b + n - Size
    BY <1>6, <2>1
  <2>4. QED
    BY <1>1, <2>1, <2>2, <2>3
<1>9. f[n + 1] = s
  <2>1. n + 1 \in 1 .. n + 1 /\ (n + 1) - 1 = n /\ n \in 0 .. n
    BY <1>1
  <2>2. QED
    BY <1>5, <1>7, <1>8, <2>1
<1>10. ASSUME NEW k \in 1 .. n
       PROVE  f[k] = e[k]
  <2>1. k \in 1 .. n + 1 /\ k - 1 \in 0 .. n /\ k - 1 # n
    BY <1>1
  <2>2. QED
    BY <1>2, <1>5, <1>7, <1>8, <2>1
<1>11. /\ Append(e, s) \in Seq(Sensors) /\ Len(Append(e, s)) = n + 1
       /\ \A k \in 1 .. n : Append(e, s)[k] = e[k]
       /\ Append(e, s)[n + 1] = s
  BY <1>1, <1>2, AppendProperties
<1>12. \A k \in 1 .. n + 1 : k \in 1 .. n \/ k = n + 1
  BY <1>1
<1>13. f = Append(e, s)
  BY <1>3, <1>9, <1>10, <1>11, <1>12, SeqEqual
<1>14. QED
  BY <1>13 DEF e, f

LEMMA PopTakesHead ==
  ASSUME Queue, fifo.len > 0, fifo' = pop(fifo)
  PROVE  /\ Elements(fifo) # <<>> /\ Head(Elements(fifo)) = peek(fifo)
         /\ Elements(fifo)' = Tail(Elements(fifo))
<1> DEFINE n == fifo.len
           b == fifo.start
           c == (b + 1) % Size
           e == Elements(fifo)
           f == Elements(fifo)'
           P(k) == (b + k) % Size
           R(k) == (c + k) % Size
<1>1. Queue' /\ fifo'.len = n - 1 /\ n \in 1 .. Size /\ Size \in Nat \ {0} /\ b \in 0 .. Size - 1
  BY PopKeepsQueue, FifoAssumption DEF Queue, FifoOf
<1>2. /\ e \in Seq(Sensors) /\ Len(e) = n
      /\ \A k \in 1 .. n : e[k] = fifo.array[P(k - 1)]
  BY ElementsProperties
<1>3. /\ f \in Seq(Sensors) /\ Len(f) = n - 1
      /\ \A k \in 1 .. n - 1 : f[k] = fifo'.array[(fifo'.start + (k - 1)) % Size]
  BY <1>1, ElementsPropertiesNext
<1>4. fifo'.start = c /\ fifo'.array = fifo.array
  BY <1>1 DEF pop, Queue, FifoOf
<1>5. \A k \in 1 .. n - 1 : f[k] = fifo.array[R(k - 1)]
  BY <1>3, <1>4
<1>6. \A k \in 0 .. Size : P(k) = IF b + k < Size THEN b + k ELSE b + k - Size
  BY <1>1, Position
<1>7. c = IF b + 1 < Size THEN b + 1 ELSE b + 1 - Size
  <2>1. 1 \in 0 .. Size
    BY <1>1
  <2>2. QED
    BY <1>1, <2>1, Position
<1>8. c \in 0 .. Size - 1
  <2> HIDE DEF b, c
  <2>1. QED
    BY <1>1, <1>7
<1>9. \A k \in 0 .. Size : R(k) = IF c + k < Size THEN c + k ELSE c + k - Size
  BY <1>8, Position
<1> HIDE DEF P, R, e, f, c
<1>10. e # <<>> /\ Head(e) = peek(fifo)
  <2>1. P(0) = b
    <3>1. P(0) = IF b + 0 < Size THEN b + 0 ELSE b + 0 - Size
      BY <1>1, <1>6
    <3>2. QED
      BY <1>1, <3>1
  <2>2. e[1] = fifo.array[P(0)]
    BY <1>1, <1>2
  <2>3. e # <<>> /\ Head(e) = e[1]
    BY <1>1, <1>2, EmptySeq
  <2>4. QED
    BY <2>1, <2>2, <2>3 DEF peek
<1>11. ASSUME NEW k \in 1 .. n - 1
       PROVE  f[k] = e[k + 1]
  <2> HIDE DEF b, n
  <2>1. /\ k \in 1 .. n /\ k + 1 \in 1 .. n /\ (k + 1) - 1 = k
        /\ k - 1 \in 0 .. Size /\ k \in 0 .. Size
    BY <1>1
  <2>2. P(k) = IF b + k < Size THEN b + k ELSE b + k - Size
    BY <1>6, <2>1
  <2>3. R(k - 1) = IF c + (k - 1) < Size THEN c + (k - 1) ELSE c + (k - 1) - Size
    BY <1>9, <2>1
  <2>4. R(k - 1) = P(k)
    BY <1>1, <1>7, <2>1, <2>2, <2>3
  <2>5. QED
    BY <1>2, <1>5, <2>1, <2>4
<1>12. /\ Tail(e) \in Seq(Sensors) /\ Len(Tail(e)) = n - 1
       /\ \A k \in 1 .. n - 1 : Tail(e)[k] = e[k + 1]
  BY <1>2, <1>10, HeadTailProperties
<1>13. f = Tail(e)
  BY <1>3, <1>11, <1>12, SeqEqual
<1>14. QED
  BY <1>10, <1>13 DEF e, f

LEMMA InitMeasurements == Init => Service!Init
<1> SUFFICES ASSUME Init PROVE Service!Init
  OBVIOUS
<1>1. Queue /\ fifo.len = 0
  BY InitIInv DEF Init, IInv, Empty
<1>2. Elements(fifo) \in Seq(Sensors) /\ Len(Elements(fifo)) = 0
  BY <1>1, ElementsProperties
<1>3. Elements(fifo) = <<>>
  BY <1>2, EmptySeq
<1>4. QED
  BY <1>3 DEF Init, Constructed, Service!Init, Service!Unread

LEMMA Stutters ==
  ASSUME UNCHANGED <<fifo, calling, sensor>>
  PROVE  UNCHANGED Service!vars
BY DEF Service!vars, Elements

LEMMA measureServes ==
  ASSUME IInv, NEW s \in Sensors, fifo.len < Size, measure(s)
  PROVE  Service!Measure(s)
<1>1. Elements(fifo)' = Append(Elements(fifo), s)
  BY PushAppends DEF IInv, measure
<1>2. QED
  BY <1>1 DEF Service!Measure, measure

(* What a sensor sends that is proper is one of the readings that it may send. *)
LEMMA doneServes ==
  ASSUME IInv, Reading, done
  PROVE  Service!Answer
<1>1. Sampled /\ Head(highCalls).fn = "done" /\ calling = Nobody
  BY SampledCall DEF done, HighCalls
<1>2. /\ Elements(fifo) # <<>> /\ Head(Elements(fifo)) = peek(fifo)
      /\ Elements(fifo)' = Tail(Elements(fifo))
  BY <1>1, PopTakesHead DEF done, IInv, Sampled, Allocated
<1>3. AnswersAreSent' /\ calling' = peek(fifo) /\ received' = received /\ peek(fifo) \in Sensors
  BY <1>1, doneReads, FirstIsSensor DEF Reading, done, IInv, Sampled, Allocated
<1>4. received.signal \in Sends[peek(fifo)]
  BY <1>1 DEF Sampled, Reading, Waits
<1> DEFINE r == Head(highCalls).result
           old == sensor[peek(fifo)]
           new == IF r.valid
                  THEN [valid |-> TRUE, humidity |-> dht22ToFloat(r.h), temperature |-> dht22ToFloat(r.t)]
                  ELSE [old EXCEPT !.valid = FALSE]
           g == received.signal
<1>5. sensor' = [sensor EXCEPT ![peek(fifo)] = new]
  BY DEF done
<1>6. sensor'[peek(fifo)] = new
  BY <1>3, <1>5 DEF Reading
<1>7. new.valid => g.good /\ new.humidity = g.humidity /\ new.temperature = g.temperature
  <2> HIDE DEF new
  <2>1. calling' # Nobody
    BY <1>3, Dht22Assumption
  <2>2. QED
    BY <1>3, <1>6, <2>1 DEF AnswersAreSent
<1>8. new \in Service!Outcomes(peek(fifo))
  <2>1. CASE r.valid
    <3>1. new = [valid |-> TRUE, humidity |-> g.humidity, temperature |-> g.temperature] /\ g.good
      BY <1>7, <2>1
    <3> DEFINE w == [humidity |-> g.humidity, temperature |-> g.temperature]
               readings == [s \in Sensors |-> {[humidity |-> f.humidity, temperature |-> f.temperature] :
                                                f \in {f \in Sends[s] : f.good}}]
    <3> HIDE DEF new
    <3>2. g \in {f \in Sends[peek(fifo)] : f.good}
      BY <1>4, <3>1
    <3>3. w \in readings[peek(fifo)]
      BY <1>3, <3>2
    <3>4. new = [valid |-> TRUE, humidity |-> w.humidity, temperature |-> w.temperature]
      BY <3>1
    <3> HIDE DEF w
    <3>5. new \in {[valid |-> TRUE, humidity |-> f.humidity, temperature |-> f.temperature] :
                      f \in readings[peek(fifo)]}
      BY <3>3, <3>4
    <3>6. QED
      BY <3>5 DEF Service!Outcomes
  <2>2. CASE ~r.valid
    BY <2>2 DEF Service!Outcomes
  <2>3. QED
    BY <2>1, <2>2
<1> HIDE DEF new
<1>9. QED
  BY <1>1, <1>2, <1>3, <1>5, <1>8 DEF Service!Answer

LEMMA ServiceSteps ==
  IInv /\ Reading /\ [Next]_vars => [Service!Next]_(Service!vars)
<1> SUFFICES ASSUME IInv, Reading, [Next]_vars
             PROVE  [Service!Next]_(Service!vars)
  OBVIOUS
<1>1. ASSUME NEW s \in Sensors, fifo.len < Size, measure(s) PROVE Service!Next
  BY <1>1, measureServes DEF Service!Next
<1>2. CASE done
  BY <1>2, doneServes DEF Service!Next
<1>3. CASE callbackReturns
  <2>1. Service!Return
    BY <1>3 DEF callbackReturns, Service!Return, Elements
  <2>2. QED
    BY <2>1 DEF Service!Next
<1>4. CASE \/ start \/ startSampling \/ acquired \/ stopSampling
           \/ EndOfTransfer \/ finalizeAndParse \/ UNCHANGED vars
  <2>1. UNCHANGED <<fifo, calling, sensor>>
    BY <1>4 DEF start, startSampling, acquired, stopSampling, EndOfTransfer, finalizeAndParse, vars
  <2>2. QED
    BY <2>1, Stutters
<1>5. QED
  BY <1>1, <1>2, <1>3, <1>4 DEF Next, Chain

(* The driver is the measurement service: whatever is asked for, and whatever signals come,  *)
(* measurements are answered in the order in which they were asked for, each to its sensor,  *)
(* with an outcome that this sensor may have (dht22.cpp:142-296, fifo.hpp).                  *)
THEOREM ImplementsMeasurements == Spec => IsMeasurements
<1>1. Init => Service!Init
  BY InitMeasurements
<1>2. IInv /\ Reading /\ [Next]_vars => [Service!Next]_(Service!vars)
  BY ServiceSteps
<1>3. QED
  BY <1>1, <1>2, ReadingHolds, PTL DEF Spec, IsMeasurements, Service!Spec
=============================================================================
