-------------------------- MODULE ApplicationProofs --------------------------
(***************************************************************************)
(* Proofs about Application: it keeps the driver's contract, so that the   *)
(* theorems of Dht22Proofs are about the program as it runs; its sensor    *)
(* never drops out of its loop; and it reports trimmed means, of windows   *)
(* of any size.  The sections on the windows are about Win alone.          *)
(***************************************************************************)
EXTENDS Application, Dht22Proofs, FiniteSetTheorems

-----------------------------------------------------------------------------
(* The loop of the application: its sensor is about to be asked for, or waits in the queue,  *)
(* once, or is being answered.  While it does not wait, the queue has a place left for it.   *)

Waiting(q) == \E k \in 1 .. Len(q) : q[k] = sens

AtMostOnce(q) == \A j, k \in 1 .. Len(q) : q[j] = sens /\ q[k] = sens => j = k

Others(q) == {k \in 1 .. Len(q) : q[k] # sens}

InLoop(q) ==
  /\ due \in BOOLEAN
  /\ AtMostOnce(q)
  /\ due => calling # sens /\ ~Waiting(q)
  /\ calling = sens => ~Waiting(q)
  /\ due \/ calling = sens \/ Waiting(q)
  /\ ~Waiting(q) => Len(q) < Size

Loop == InLoop(Elements(fifo))

LEMMA AppendedSens ==
  ASSUME NEW q \in Seq(Sensors), ~Waiting(q)
  PROVE  AtMostOnce(Append(q, sens)) /\ Waiting(Append(q, sens))
<1> DEFINE r == Append(q, sens)
<1>1. /\ Len(q) \in Nat /\ Len(r) = Len(q) + 1 /\ r[Len(q) + 1] = sens
      /\ \A k \in 1 .. Len(q) : r[k] = q[k]
  BY ApplicationAssumption
<1> HIDE DEF r
<1>2. \A k \in 1 .. Len(r) : r[k] = sens => k = Len(q) + 1
  BY <1>1 DEF Waiting
<1>3. QED
  BY <1>1, <1>2 DEF AtMostOnce, Waiting, r

LEMMA AppendedOther ==
  ASSUME NEW q \in Seq(Sensors), NEW s \in Sensors, s # sens, AtMostOnce(q)
  PROVE  AtMostOnce(Append(q, s)) /\ (Waiting(Append(q, s)) <=> Waiting(q))
<1> DEFINE r == Append(q, s)
<1>1. /\ Len(q) \in Nat /\ Len(r) = Len(q) + 1 /\ r[Len(q) + 1] = s
      /\ \A k \in 1 .. Len(q) : r[k] = q[k]
  OBVIOUS
<1> HIDE DEF r
<1>2. \A k \in 1 .. Len(r) : r[k] = sens => k \in 1 .. Len(q) /\ q[k] = sens
  BY <1>1
<1>3. \A k \in 1 .. Len(q) : k \in 1 .. Len(r)
  BY <1>1
<1>4. AtMostOnce(r)
  BY <1>2 DEF AtMostOnce
<1>5. Waiting(r) <=> Waiting(q)
  BY <1>1, <1>2, <1>3 DEF Waiting
<1>6. QED
  BY <1>4, <1>5 DEF r

LEMMA TailOf ==
  ASSUME NEW q \in Seq(Sensors), q # <<>>, AtMostOnce(q)
  PROVE  /\ AtMostOnce(Tail(q))
         /\ Waiting(Tail(q)) <=> Waiting(q) /\ Head(q) # sens
<1> DEFINE r == Tail(q)
<1>1. /\ Len(q) \in Nat \ {0} /\ Len(r) = Len(q) - 1 /\ Head(q) = q[1]
      /\ \A k \in 1 .. Len(r) : r[k] = q[k + 1]
  OBVIOUS
<1> HIDE DEF r
<1>2. \A k \in 1 .. Len(r) : k + 1 \in 1 .. Len(q) /\ k \in Int
  BY <1>1
<1>3. AtMostOnce(r)
  <2>1. ASSUME NEW j \in 1 .. Len(r), NEW k \in 1 .. Len(r), r[j] = sens, r[k] = sens
        PROVE  j = k
    <3>1. j + 1 = k + 1
      BY <1>1, <1>2, <2>1 DEF AtMostOnce
    <3>2. QED
      BY <3>1
  <2>2. QED
    BY <2>1 DEF AtMostOnce
<1>4. ASSUME Waiting(r)
      PROVE  Waiting(q) /\ Head(q) # sens
  <2>1. PICK k \in 1 .. Len(r) : r[k] = sens
    BY <1>4 DEF Waiting
  <2>2. k + 1 \in 1 .. Len(q) /\ q[k + 1] = sens /\ k + 1 # 1 /\ 1 \in 1 .. Len(q)
    BY <1>1, <1>2, <2>1
  <2>3. QED
    BY <1>1, <2>2 DEF Waiting, AtMostOnce
<1>5. ASSUME Waiting(q), Head(q) # sens
      PROVE  Waiting(r)
  <2>1. PICK k \in 1 .. Len(q) : q[k] = sens
    BY <1>5 DEF Waiting
  <2>2. k - 1 \in 1 .. Len(r) /\ k = (k - 1) + 1
    BY <1>1, <1>5, <2>1
  <2>3. r[k - 1] = sens
    BY <1>1, <2>1, <2>2
  <2>4. QED
    BY <2>2, <2>3 DEF Waiting
<1>6. QED
  BY <1>3, <1>4, <1>5 DEF r

(* The others leave a place in the queue, for themselves and for sens. *)
LEMMA OthersLeaveRoom ==
  ASSUME NEW q \in Seq(Sensors), AtMostOnce(q), Cardinality(Others(q)) < Size - 1
  PROVE  Len(q) < Size /\ (~Waiting(q) => Len(q) < Size - 1)
<1> DEFINE P == 1 .. Len(q)
<1>1. Len(q) \in Nat /\ Size \in Nat
  BY FifoAssumption
<1>2. IsFiniteSet(P) /\ Cardinality(P) = Len(q)
  <2>1. Cardinality(P) = IF 1 > Len(q) THEN 0 ELSE Len(q) - 1 + 1
    BY <1>1, FS_Interval, SMTT(30)
  <2>2. IsFiniteSet(P)
    BY <1>1, FS_Interval
  <2>3. QED
    BY <1>1, <2>1, <2>2
<1>3. CASE ~Waiting(q)
  <2>1. Others(q) = P
    BY <1>3 DEF Others, Waiting
  <2>2. QED
    BY <1>1, <1>2, <2>1
<1>4. CASE Waiting(q)
  <2>1. PICK k \in P : q[k] = sens
    BY <1>4 DEF Waiting
  <2>2. Others(q) = P \ {k}
    BY <2>1 DEF Others, AtMostOnce
  <2> HIDE DEF P
  <2>3. Cardinality(P \ {k}) = Cardinality(P) - 1
    BY <1>2, <2>1, FS_RemoveElement
  <2>4. QED
    BY <1>1, <1>2, <1>4, <2>2, <2>3
<1>5. QED
  BY <1>3, <1>4

-----------------------------------------------------------------------------
(* The steps *)

LEMMA InitLoop == AInit => IInv /\ Loop
<1> SUFFICES ASSUME AInit PROVE IInv /\ Loop
  OBVIOUS
<1>1. IInv /\ fifo.len = 0
  BY InitIInv DEF AInit, Init, Empty
<1>2. Len(Elements(fifo)) = 0
  BY <1>1, ElementsProperties DEF IInv
<1>3. AtMostOnce(Elements(fifo)) /\ ~Waiting(Elements(fifo))
  BY <1>2 DEF AtMostOnce, Waiting
<1>4. due = TRUE /\ calling # sens
  BY ApplicationAssumption, Dht22Assumption DEF AInit, Init
<1>5. Loop
  BY <1>2, <1>3, <1>4, FifoAssumption DEF Loop, InLoop
<1>6. QED
  BY <1>1, <1>5

LEMMA LoopSame ==
  ASSUME Loop, UNCHANGED <<fifo, calling, due>>
  PROVE  Loop'
<1>1. Elements(fifo)' = Elements(fifo)
  BY DEF Elements
<1>2. QED
  BY <1>1 DEF Loop, InLoop, AtMostOnce, Waiting

LEMMA testSensLoops ==
  ASSUME IInv, Loop, testSens
  PROVE  fifo.len < Size /\ Loop'
<1>1. Queue
  BY DEF IInv
<1>2. PICK q : q = Elements(fifo)
  OBVIOUS
<1>3. q \in Seq(Sensors) /\ Len(q) = fifo.len
  BY <1>1, <1>2, ElementsProperties
<1>4. InLoop(q)
  BY <1>2 DEF Loop
<1>5. fifo.len < Size /\ ~Waiting(q)
  BY <1>3, <1>4 DEF InLoop, testSens
<1>6. Elements(fifo)' = Append(q, sens)
  BY <1>1, <1>2, <1>5, PushAppends, ApplicationAssumption DEF testSens, measure
<1>7. AtMostOnce(Append(q, sens)) /\ Waiting(Append(q, sens))
  BY <1>3, <1>5, AppendedSens
<1>8. due' = FALSE /\ calling' # sens
  BY <1>4 DEF testSens, measure, InLoop
<1>9. AtMostOnce(Elements(fifo)') /\ Waiting(Elements(fifo)')
  BY <1>6, <1>7
<1>10. Loop'
  BY <1>8, <1>9 DEF Loop, InLoop, AtMostOnce, Waiting
<1>11. QED
  BY <1>5, <1>10

LEMMA MeasuresOtherLoops ==
  ASSUME IInv, Loop, NEW s \in Sensors, MeasuresOther(s), UNCHANGED app
  PROVE  fifo.len < Size /\ Loop'
<1>1. Queue
  BY DEF IInv
<1>2. PICK q : q = Elements(fifo)
  OBVIOUS
<1>3. q \in Seq(Sensors) /\ Len(q) = fifo.len
  BY <1>1, <1>2, ElementsProperties
<1>4. InLoop(q) /\ AtMostOnce(q)
  BY <1>2 DEF Loop, InLoop
<1>5. Cardinality(Others(q)) < Size - 1
  BY <1>2, <1>3 DEF MeasuresOther, Others
<1>6. Len(q) < Size /\ (~Waiting(q) => Len(q) < Size - 1)
  BY <1>3, <1>4, <1>5, OthersLeaveRoom
<1>7. Elements(fifo)' = Append(q, s)
  BY <1>1, <1>2, <1>3, <1>6, PushAppends DEF MeasuresOther, measure
<1>8. PICK r : r = Append(q, s)
  OBVIOUS
<1>9. AtMostOnce(r) /\ (Waiting(r) <=> Waiting(q)) /\ Len(r) = Len(q) + 1
  BY <1>3, <1>4, <1>8, AppendedOther DEF MeasuresOther
<1>10. due' = due /\ calling' = calling
  BY DEF app, MeasuresOther, measure
<1>11. ~Waiting(r) => Len(r) < Size
  BY <1>3, <1>6, <1>9, FifoAssumption
<1>12. InLoop(r)'
  BY <1>4, <1>9, <1>10, <1>11 DEF InLoop, AtMostOnce, Waiting
<1>13. Loop'
  BY <1>7, <1>8, <1>12 DEF Loop, InLoop, AtMostOnce, Waiting
<1>14. QED
  BY <1>3, <1>6, <1>13

LEMMA doneLoops ==
  ASSUME IInv, Loop, done, UNCHANGED app
  PROVE  Loop'
<1>1. Queue /\ fifo.len > 0 /\ calling = Nobody /\ fifo' = pop(fifo)
  BY SampledCall DEF IInv, done, HighCalls, Sampled, Allocated
<1>2. PICK q : q = Elements(fifo)
  OBVIOUS
<1>3. q \in Seq(Sensors) /\ Len(q) = fifo.len /\ Len(q) \in Nat
  BY <1>1, <1>2, ElementsProperties
<1>4. InLoop(q) /\ AtMostOnce(q)
  BY <1>2 DEF Loop, InLoop
<1>5. q # <<>> /\ Head(q) = peek(fifo) /\ Elements(fifo)' = Tail(q)
  BY <1>1, <1>2, PopTakesHead
<1>6. PICK r : r = Tail(q)
  OBVIOUS
<1>7. AtMostOnce(r) /\ (Waiting(r) <=> Waiting(q) /\ Head(q) # sens)
  BY <1>3, <1>4, <1>5, <1>6, TailOf
<1>8. due' = due /\ calling' = Head(q) /\ calling # sens
  BY <1>1, <1>5, ApplicationAssumption, Dht22Assumption DEF app, done
<1>9. Len(r) < Size
  BY <1>1, <1>3, <1>5, <1>6, FifoAssumption DEF Queue, FifoOf
<1>10. Head(q) = sens => Waiting(q)
  BY <1>3, <1>5 DEF Waiting
<1>11. InLoop(r)'
  BY <1>4, <1>7, <1>8, <1>9, <1>10, SMTT(30) DEF InLoop, AtMostOnce, Waiting
<1>12. QED
  BY <1>5, <1>6, <1>11 DEF Loop, InLoop, AtMostOnce, Waiting

LEMMA sensCallbackLoops ==
  ASSUME Loop, sensCallback
  PROVE  Loop'
<1>1. calling = sens /\ calling' # sens /\ due' = TRUE /\ fifo' = fifo
  BY ApplicationAssumption, Dht22Assumption DEF sensCallback, callbackReturns
<1>2. QED
  BY <1>1 DEF Loop, InLoop, Elements, AtMostOnce, Waiting

(* A step of the application is a step of the driver: the queue is never pushed when it is full. *)
LEMMA NextLoop == IInv /\ Loop /\ [ANext]_avars => [Next]_vars /\ Loop'
<1> SUFFICES ASSUME IInv, Loop, [ANext]_avars PROVE [Next]_vars /\ Loop'
  OBVIOUS
<1>1. CASE testSens
  <2>1. fifo.len < Size /\ Loop'
    BY <1>1, testSensLoops
  <2>2. measure(sens) /\ sens \in Sensors
    BY <1>1, ApplicationAssumption DEF testSens
  <2>3. QED
    BY <2>1, <2>2 DEF Next
<1>2. CASE sensCallback
  <2>1. callbackReturns
    BY <1>2 DEF sensCallback
  <2>2. QED
    BY <1>2, <2>1, sensCallbackLoops DEF Next, Chain
<1>3. ASSUME UNCHANGED app, NEW s \in Sensors, MeasuresOther(s)
      PROVE  [Next]_vars /\ Loop'
  <2>1. fifo.len < Size /\ Loop' /\ measure(s)
    BY <1>3, MeasuresOtherLoops DEF MeasuresOther
  <2>2. QED
    BY <2>1 DEF Next
<1>4. CASE UNCHANGED app /\ done
  BY <1>4, doneLoops DEF Next, Chain
<1>5. CASE UNCHANGED app /\ calling # sens /\ callbackReturns
  <2>1. calling # sens /\ calling' # sens /\ due' = due /\ fifo' = fifo
    BY <1>5, ApplicationAssumption, Dht22Assumption DEF app, callbackReturns
  <2>2. Elements(fifo)' = Elements(fifo)
    BY <2>1 DEF Elements
  <2>3. Loop'
    BY <2>1, <2>2 DEF Loop, InLoop, AtMostOnce, Waiting
  <2>4. QED
    BY <1>5, <2>3 DEF Next, Chain
<1>6. CASE UNCHANGED app /\ (\/ start \/ startSampling \/ acquired \/ stopSampling
                             \/ EndOfTransfer \/ finalizeAndParse)
  <2>1. UNCHANGED <<fifo, calling, due>>
    BY <1>6 DEF app, start, startSampling, acquired, stopSampling, EndOfTransfer, finalizeAndParse
  <2>2. QED
    BY <1>6, <2>1, LoopSame DEF Next, Chain
<1>7. CASE UNCHANGED avars
  <2>1. UNCHANGED vars /\ UNCHANGED app
    BY <1>7 DEF avars
  <2>2. UNCHANGED <<fifo, calling, due>>
    BY <2>1 DEF vars, app
  <2>3. QED
    BY <2>1, <2>2, LoopSame
<1>8. QED
  BY <1>1, <1>2, <1>3, <1>4, <1>5, <1>6, <1>7 DEF ANext

LEMMA LoopHolds == ASpec => [](IInv /\ Loop)
<1>1. IInv /\ [Next]_vars => IInv'
  BY NextIInv
<1>2. QED
  BY <1>1, InitLoop, NextLoop, PTL DEF ASpec

(* The application keeps the driver's contract: whenever it or other code of its level asks *)
(* for a measurement, the queue has a place left.  So what is proved of the driver is true  *)
(* of it as the application uses it.                                                        *)
THEOREM KeepsContract == ASpec => Spec
<1>1. AInit => Init
  BY DEF AInit
<1>2. QED
  BY <1>1, LoopHolds, NextLoop, PTL DEF ASpec, Spec

(* In the application (test1.cpp:111-134) the driver does all that it promises: types, one   *)
(* measurement at a time, samples into the buffer, decoding, answers, and the service.       *)
COROLLARY DriverServesApplication ==
  ASpec => /\ [](TypeOK /\ OneInProgress /\ SamplesIntoBuffer /\ DecoderRight /\ AnswersAreSent)
           /\ IsMeasurements
<1>1. QED
  BY KeepsContract, TypeCorrect, MeasurementsOneByOne, SamplesAreSafe, DecoderIsRight,
     AnswersAreRight, ImplementsMeasurements, PTL

(* The sensor of the application never drops out of its loop: at any time its next          *)
(* measurement is due, waits in the queue, once, or is being answered.                      *)
THEOREM StaysInLoop == ASpec => []Loop
  BY LoopHolds, PTL

-----------------------------------------------------------------------------
(* The sums of the windows *)

One(s) == CHOOSE x \in s : TRUE

(* f is the sum of b over the subsets of S. *)
IsSum(b, S, f) ==
  f = [s \in SUBSET S |-> IF s = {} THEN 0 ELSE b[One(s)] + f[s \ {One(s)}]]

LEMMA SumDef ==
  ASSUME NEW b, NEW S
  PROVE  SumAt(b, S) = (CHOOSE f : IsSum(b, S, f))[S]
BY DEF SumAt, MapThenSumSet, MapThenFoldSet, IsSum, One

LEMMA OneElement ==
  ASSUME NEW s, s # {}
  PROVE  One(s) \in s
BY DEF One

LEMMA SumExists ==
  ASSUME NEW S, IsFiniteSet(S), NEW b, \A i \in S : b[i] \in Int
  PROVE  \E f : IsSum(b, S, f) /\ f \in [SUBSET S -> Int]
<1> DEFINE Small(n) == {s \in SUBSET S : Cardinality(s) <= n}
           Sums(n, f) == /\ f \in [Small(n) -> Int]
                         /\ \A s \in Small(n) :
                              f[s] = IF s = {} THEN 0 ELSE b[One(s)] + f[s \ {One(s)}]
           T == {n \in Nat : \E f : Sums(n, f)}
<1>1. \A s \in SUBSET S : IsFiniteSet(s) /\ Cardinality(s) \in Nat /\ Cardinality(s) <= Cardinality(S)
  BY FS_Subset, FS_CardinalityType
<1>2. \A n \in Nat : \A s \in Small(n) : s # {} => n # 0 /\ One(s) \in s /\ s \ {One(s)} \in Small(n - 1)
  <2> SUFFICES ASSUME NEW n \in Nat, NEW s \in Small(n), s # {}
               PROVE  n # 0 /\ One(s) \in s /\ s \ {One(s)} \in Small(n - 1)
    OBVIOUS
  <2>1. One(s) \in s /\ IsFiniteSet(s) /\ Cardinality(s) \in Nat /\ Cardinality(s) <= n
    BY <1>1, OneElement
  <2>2. Cardinality(s \ {One(s)}) = Cardinality(s) - 1
    BY <2>1, FS_RemoveElement
  <2>3. s \ {One(s)} \in SUBSET S
    OBVIOUS
  <2>4. Cardinality(s \ {One(s)}) \in Nat
    BY <1>1, <2>3
  <2>5. QED
    BY <2>1, <2>2, <2>3, <2>4
<1>3. 0 \in T
  <2>1. \A s \in Small(0) : s = {}
    BY <1>2
  <2>2. Sums(0, [s \in Small(0) |-> 0])
    BY <2>1
  <2>3. QED
    BY <2>2
<1>4. ASSUME NEW n \in Nat \ {0}, n - 1 \in T
      PROVE  n \in T
  <2>1. PICK f : Sums(n - 1, f)
    BY <1>4
  <2> DEFINE g == [s \in Small(n) |-> IF s = {} THEN 0 ELSE b[One(s)] + f[s \ {One(s)}]]
  <2>2. \A s \in Small(n) : s # {} => One(s) \in S /\ s \ {One(s)} \in Small(n - 1)
    BY <1>2
  <2>3. g \in [Small(n) -> Int]
    BY <2>1, <2>2
  <2>4. \A s \in Small(n - 1) : s \in Small(n)
    BY <1>1
  <2>5. \A s \in Small(n - 1) : g[s] = f[s]
    BY <2>1, <2>4
  <2>6. \A s \in Small(n) : g[s] = IF s = {} THEN 0 ELSE b[One(s)] + g[s \ {One(s)}]
    BY <2>2, <2>5
  <2>7. QED
    BY <2>3, <2>6
<1>5. Cardinality(S) \in Nat /\ IsFiniteSet(S)
  BY FS_CardinalityType
<1> HIDE DEF T
<1>6. Cardinality(S) \in T
  BY <1>3, <1>4, <1>5, Counting
<1>7. PICK f : Sums(Cardinality(S), f)
  BY <1>6 DEF T
<1>8. Small(Cardinality(S)) = SUBSET S
  BY <1>1
<1>9. f \in [SUBSET S -> Int] /\ \A s \in SUBSET S : f[s] = IF s = {} THEN 0 ELSE b[One(s)] + f[s \ {One(s)}]
  BY <1>7, <1>8
<1>10. IsSum(b, S, f)
  BY <1>9 DEF IsSum
<1>11. QED
  BY <1>9, <1>10

(* The sums over the subsets of a set and of a set in it agree. *)
LEMMA SumUnique ==
  ASSUME NEW S, IsFiniteSet(S), NEW b, NEW R \in SUBSET S, NEW f, NEW g, IsSum(b, S, f), IsSum(b, R, g)
  PROVE  f[R] = g[R]
<1> DEFINE T == {n \in Nat : \A s \in SUBSET R : Cardinality(s) <= n => f[s] = g[s]}
<1>1. \A s \in SUBSET R : s \in SUBSET S /\ IsFiniteSet(s) /\ Cardinality(s) \in Nat
  BY FS_Subset, FS_CardinalityType
<1>2. \A s \in SUBSET R :
        /\ f[s] = IF s = {} THEN 0 ELSE b[One(s)] + f[s \ {One(s)}]
        /\ g[s] = IF s = {} THEN 0 ELSE b[One(s)] + g[s \ {One(s)}]
  BY DEF IsSum
<1>3. 0 \in T
  <2>1. \A s \in SUBSET R : Cardinality(s) <= 0 => s = {}
    BY <1>1, FS_EmptySet
  <2>2. QED
    BY <1>2, <2>1
<1>4. ASSUME NEW n \in Nat \ {0}, n - 1 \in T
      PROVE  n \in T
  <2>1. ASSUME NEW s \in SUBSET R, Cardinality(s) <= n, s # {}
        PROVE  f[s] = g[s]
    <3>1. One(s) \in s /\ s \ {One(s)} \in SUBSET R
      BY <2>1, OneElement
    <3>2. Cardinality(s \ {One(s)}) = Cardinality(s) - 1
      BY <1>1, <3>1, FS_RemoveElement
    <3>3. f[s \ {One(s)}] = g[s \ {One(s)}]
      BY <1>1, <1>4, <2>1, <3>1, <3>2
    <3>4. QED
      BY <1>2, <2>1, <3>3
  <2>2. QED
    BY <1>2, <2>1
<1>5. Cardinality(R) \in Nat
  BY <1>1
<1> HIDE DEF T
<1>6. Cardinality(R) \in T
  BY <1>3, <1>4, <1>5, Counting
<1>7. QED
  BY <1>5, <1>6 DEF T

LEMMA SumAtIs ==
  ASSUME NEW S, IsFiniteSet(S), NEW b, \A i \in S : b[i] \in Int,
         NEW f, IsSum(b, S, f), NEW R \in SUBSET S
  PROVE  SumAt(b, R) = f[R]
<1>1. IsFiniteSet(R)
  BY FS_Subset
<1>2. PICK g : IsSum(b, R, g)
  BY <1>1, SumExists
<1> DEFINE h == CHOOSE g0 : IsSum(b, R, g0)
<1>3. IsSum(b, R, h)
  BY <1>2
<1>4. SumAt(b, R) = h[R]
  BY SumDef
<1> HIDE DEF h
<1>5. QED
  BY <1>3, <1>4, SumUnique

(* What a sum is, by one element of the set *)
LEMMA SumUnfolds ==
  ASSUME NEW S, IsFiniteSet(S), NEW b, \A i \in S : b[i] \in Int
  PROVE  /\ SumAt(b, S) \in Int
         /\ S = {} => SumAt(b, S) = 0
         /\ S # {} => SumAt(b, S) = b[One(S)] + SumAt(b, S \ {One(S)})
<1>1. PICK f : IsSum(b, S, f) /\ f \in [SUBSET S -> Int]
  BY SumExists
<1>2. \A R \in SUBSET S : SumAt(b, R) = f[R]
  BY <1>1, SumAtIs
<1>3. f[S] = IF S = {} THEN 0 ELSE b[One(S)] + f[S \ {One(S)}]
  BY <1>1 DEF IsSum
<1>4. S \in SUBSET S /\ S \ {One(S)} \in SUBSET S
  OBVIOUS
<1>5. QED
  BY <1>1, <1>2, <1>3, <1>4

Summable(b, U) == IsFiniteSet(U) /\ \A i \in U : b[i] \in Int

LEMMA PartSummable ==
  ASSUME NEW b, NEW U, Summable(b, U), NEW S \in SUBSET U
  PROVE  Summable(b, S) /\ Cardinality(S) \in Nat /\ SumAt(b, S) \in Int
<1>1. IsFiniteSet(S) /\ \A i \in S : b[i] \in Int
  BY FS_Subset DEF Summable
<1>2. Cardinality(S) \in Nat
  BY <1>1, FS_CardinalityType
<1>3. QED
  BY <1>1, <1>2, SumUnfolds DEF Summable

(* Any element may be taken out first. *)
LEMMA SumTakes ==
  ASSUME NEW b, NEW U, Summable(b, U), NEW i \in U
  PROVE  SumAt(b, U) = b[i] + SumAt(b, U \ {i})
<1> DEFINE T == {n \in Nat : \A S \in SUBSET U : \A x \in S :
                    Cardinality(S) <= n => SumAt(b, S) = b[x] + SumAt(b, S \ {x})}
<1>1. \A S \in SUBSET U : Summable(b, S) /\ Cardinality(S) \in Nat /\ SumAt(b, S) \in Int
  BY PartSummable
<1>2. \A x \in U : b[x] \in Int
  BY DEF Summable
<1>3. 0 \in T
  <2>1. \A S \in SUBSET U : Cardinality(S) <= 0 => S = {}
    BY <1>1, FS_EmptySet DEF Summable
  <2>2. QED
    BY <2>1
<1>4. ASSUME NEW n \in Nat \ {0}, n - 1 \in T
      PROVE  n \in T
  <2>1. ASSUME NEW S \in SUBSET U, NEW x \in S, Cardinality(S) <= n
        PROVE  SumAt(b, S) = b[x] + SumAt(b, S \ {x})
    <3>1. PICK c : c = One(S)
      OBVIOUS
    <3>2. c \in S
      BY <3>1, OneElement
    <3>3. SumAt(b, S) = b[c] + SumAt(b, S \ {c})
      BY <1>1, <3>1, SumUnfolds DEF Summable
    <3>4. CASE x = c
      BY <3>3, <3>4
    <3>5. CASE x # c
      <4>1. /\ S \ {c} \in SUBSET U /\ x \in S \ {c}
            /\ S \ {x} \in SUBSET U /\ c \in S \ {x}
            /\ S \ {c, x} \in SUBSET U
        BY <3>2, <3>5
      <4>2. IsFiniteSet(S) /\ Cardinality(S) \in Nat
        BY <1>1 DEF Summable
      <4>3. Cardinality(S \ {c}) <= n - 1 /\ Cardinality(S \ {x}) <= n - 1
        <5>1. /\ Cardinality(S \ {c}) = Cardinality(S) - 1
              /\ Cardinality(S \ {x}) = Cardinality(S) - 1
          BY <3>2, <4>2, FS_RemoveElement
        <5>2. QED
          BY <2>1, <4>2, <5>1
      <4>4. SumAt(b, S \ {c}) = b[x] + SumAt(b, (S \ {c}) \ {x})
        BY <1>4, <4>1, <4>3
      <4>5. SumAt(b, S \ {x}) = b[c] + SumAt(b, (S \ {x}) \ {c})
        BY <1>4, <4>1, <4>3
      <4>6. (S \ {c}) \ {x} = S \ {c, x} /\ (S \ {x}) \ {c} = S \ {c, x}
        OBVIOUS
      <4>7. b[c] \in Int /\ b[x] \in Int /\ SumAt(b, S \ {c, x}) \in Int
        BY <1>1, <1>2, <3>2, <4>1
      <4>8. SumAt(b, S) = b[c] + (b[x] + SumAt(b, S \ {c, x}))
        BY <3>3, <4>4, <4>6
      <4>9. SumAt(b, S \ {x}) = b[c] + SumAt(b, S \ {c, x})
        BY <4>5, <4>6
      <4>10. QED
        BY <4>7, <4>8, <4>9
    <3>6. QED
      BY <3>4, <3>5
  <2>2. QED
    BY <2>1
<1>5. Cardinality(U) \in Nat
  BY <1>1
<1>6. ASSUME NEW n \in Nat, n \in T
      PROVE  \A S \in SUBSET U : \A x \in S :
               Cardinality(S) <= n => SumAt(b, S) = b[x] + SumAt(b, S \ {x})
  BY <1>6
<1> HIDE DEF T
<1>7. Cardinality(U) \in T
  BY <1>3, <1>4, <1>5, Counting
<1>8. QED
  BY <1>5, <1>6, <1>7

(* Sets of the same size have the same sum, if the values do not differ where the sets do. *)
Alike(b, A, B) ==
  Cardinality(A) = Cardinality(B) /\ \A x \in A \ B, y \in B \ A : b[x] = b[y]

LEMMA AlikeSums ==
  ASSUME NEW b, NEW U, Summable(b, U), NEW A \in SUBSET U, NEW B \in SUBSET U, Alike(b, A, B)
  PROVE  SumAt(b, A) = SumAt(b, B)
<1> DEFINE T == {n \in Nat : \A C, D \in SUBSET U :
                    Cardinality(C) <= n /\ Alike(b, C, D) => SumAt(b, C) = SumAt(b, D)}
<1>1. \A S \in SUBSET U : Summable(b, S) /\ IsFiniteSet(S) /\ Cardinality(S) \in Nat /\ SumAt(b, S) \in Int
  BY PartSummable DEF Summable
<1>2. 0 \in T
  <2>1. \A C, D \in SUBSET U : Cardinality(C) <= 0 /\ Alike(b, C, D) => C = {} /\ D = {}
    BY <1>1, FS_EmptySet DEF Alike
  <2>2. QED
    BY <2>1
<1>3. ASSUME NEW n \in Nat \ {0}, n - 1 \in T
      PROVE  n \in T
  <2>1. ASSUME NEW C \in SUBSET U, NEW D \in SUBSET U, Cardinality(C) <= n, Alike(b, C, D),
               NEW x \in C, NEW y \in D, b[x] = b[y], x = y \/ (x \notin D /\ y \notin C)
        PROVE  SumAt(b, C) = SumAt(b, D)
    <3>1. /\ Cardinality(C \ {x}) = Cardinality(C) - 1
          /\ Cardinality(D \ {y}) = Cardinality(D) - 1
      BY <1>1, FS_RemoveElement
    <3>2. Alike(b, C \ {x}, D \ {y})
      BY <2>1, <3>1 DEF Alike
    <3>3. C \ {x} \in SUBSET U /\ D \ {y} \in SUBSET U
      OBVIOUS
    <3>4. Cardinality(C \ {x}) <= n - 1
      BY <1>1, <2>1, <3>1
    <3>5. SumAt(b, C \ {x}) = SumAt(b, D \ {y})
      BY <1>3, <3>2, <3>3, <3>4
    <3>6. SumAt(b, C) = b[x] + SumAt(b, C \ {x}) /\ SumAt(b, D) = b[y] + SumAt(b, D \ {y})
      BY <1>1, SumTakes
    <3>7. QED
      BY <2>1, <3>5, <3>6
  <2>2. ASSUME NEW C \in SUBSET U, NEW D \in SUBSET U, Cardinality(C) <= n, Alike(b, C, D)
        PROVE  SumAt(b, C) = SumAt(b, D)
    <3>1. CASE C \cap D # {}
      <4>1. PICK x \in C, y \in D : x = y
        BY <3>1
      <4>2. b[x] = b[y]
        BY <4>1
      <4>3. QED
        BY <2>1, <2>2, <4>1, <4>2
    <3>2. CASE C \cap D = {} /\ C # {}
      <4>1. D # {}
        BY <1>1, <2>2, <3>2, FS_EmptySet DEF Alike
      <4>2. PICK x \in C, y \in D : x \in C \ D /\ y \in D \ C
        BY <3>2, <4>1
      <4>3. b[x] = b[y]
        BY <2>2, <4>2 DEF Alike
      <4>4. QED
        BY <2>1, <2>2, <4>2, <4>3
    <3>3. CASE C = {}
      <4>1. D = {}
        BY <1>1, <2>2, <3>3, FS_EmptySet DEF Alike
      <4>2. QED
        BY <3>3, <4>1
    <3>4. QED
      BY <3>1, <3>2, <3>3
  <2>3. QED
    BY <2>2
<1>4. ASSUME NEW n \in Nat, n \in T
      PROVE  \A C, D \in SUBSET U :
               Cardinality(C) <= n /\ Alike(b, C, D) => SumAt(b, C) = SumAt(b, D)
  BY <1>4
<1> HIDE DEF T
<1>5. Cardinality(A) \in Nat
  BY <1>1
<1>6. Cardinality(A) \in T
  BY <1>2, <1>3, <1>5, Counting
<1>7. QED
  BY <1>4, <1>5, <1>6

LEMMA SumSplits ==
  ASSUME NEW b, NEW U, Summable(b, U), NEW A \in SUBSET U
  PROVE  SumAt(b, U) = SumAt(b, A) + SumAt(b, U \ A)
<1> DEFINE T == {n \in Nat : \A C, D \in SUBSET U :
                    Cardinality(D) <= n /\ D \subseteq C => SumAt(b, C) = SumAt(b, D) + SumAt(b, C \ D)}
<1>1. \A S \in SUBSET U : Summable(b, S) /\ IsFiniteSet(S) /\ Cardinality(S) \in Nat /\ SumAt(b, S) \in Int
  BY PartSummable DEF Summable
<1>2. \A x \in U : b[x] \in Int
  BY DEF Summable
<1>3. SumAt(b, {}) = 0
  BY <1>1, SumUnfolds DEF Summable
<1>4. 0 \in T
  <2>1. \A D \in SUBSET U : Cardinality(D) <= 0 => D = {}
    BY <1>1, FS_EmptySet
  <2>2. \A C \in SUBSET U : SumAt(b, C) = SumAt(b, {}) + SumAt(b, C \ {})
    <3>1. ASSUME NEW C \in SUBSET U
          PROVE  C \ {} = C /\ SumAt(b, C) \in Int
      BY <1>1
    <3>2. QED
      BY <1>3, <3>1
  <2>3. QED
    BY <2>1, <2>2
<1>5. ASSUME NEW n \in Nat \ {0}, n - 1 \in T
      PROVE  n \in T
  <2>1. ASSUME NEW C \in SUBSET U, NEW D \in SUBSET C, Cardinality(D) <= n, NEW x \in D
        PROVE  SumAt(b, C) = SumAt(b, D) + SumAt(b, C \ D)
    <3>1. Cardinality(D \ {x}) = Cardinality(D) - 1
      BY <1>1, FS_RemoveElement
    <3>2. D \in SUBSET U /\ D \ {x} \in SUBSET U /\ C \ {x} \in SUBSET U /\ D \ {x} \subseteq C \ {x}
      OBVIOUS
    <3>3. Cardinality(D \ {x}) <= n - 1
      BY <1>1, <2>1, <3>1, <3>2
    <3>4. SumAt(b, C \ {x}) = SumAt(b, D \ {x}) + SumAt(b, (C \ {x}) \ (D \ {x}))
      BY <1>5, <3>2, <3>3
    <3>5. (C \ {x}) \ (D \ {x}) = C \ D
      OBVIOUS
    <3>6. SumAt(b, C) = b[x] + SumAt(b, C \ {x}) /\ SumAt(b, D) = b[x] + SumAt(b, D \ {x})
      BY <1>1, <3>2, SumTakes
    <3>7. b[x] \in Int /\ SumAt(b, D \ {x}) \in Int /\ SumAt(b, C \ D) \in Int
      BY <1>1, <1>2
    <3>8. SumAt(b, C \ {x}) = SumAt(b, D \ {x}) + SumAt(b, C \ D)
      BY <3>4, <3>5
    <3>9. QED
      BY <3>6, <3>7, <3>8
  <2>2. ASSUME NEW C \in SUBSET U
        PROVE  SumAt(b, C) = SumAt(b, {}) + SumAt(b, C \ {})
    <3>1. C \ {} = C /\ SumAt(b, C) \in Int
      BY <1>1
    <3>2. QED
      BY <1>3, <3>1
  <2>3. ASSUME NEW C \in SUBSET U, NEW D \in SUBSET C, Cardinality(D) <= n
        PROVE  SumAt(b, C) = SumAt(b, D) + SumAt(b, C \ D)
    <3>1. CASE D = {}
      BY <2>2, <3>1
    <3>2. CASE D # {}
      BY <2>1, <2>3, <3>2
    <3>3. QED
      BY <3>1, <3>2
  <2>4. QED
    BY <2>3
<1>6. ASSUME NEW n \in Nat, n \in T
      PROVE  \A C, D \in SUBSET U :
               Cardinality(D) <= n /\ D \subseteq C => SumAt(b, C) = SumAt(b, D) + SumAt(b, C \ D)
  BY <1>6
<1> HIDE DEF T
<1>7. Cardinality(A) \in Nat
  BY <1>1
<1>8. Cardinality(A) \in T
  BY <1>4, <1>5, <1>7, Counting
<1>9. QED
  BY <1>6, <1>7, <1>8

(* What is left when two sets are taken out *)
LEMMA SumWithout ==
  ASSUME NEW b, NEW U, Summable(b, U), NEW A \in SUBSET U, NEW B \in SUBSET U, A \cap B = {}
  PROVE  SumAt(b, U) = SumAt(b, A) + SumAt(b, B) + SumAt(b, U \ (A \cup B))
<1>1. SumAt(b, U) = SumAt(b, A) + SumAt(b, U \ A)
  BY SumSplits
<1>2. SumAt(b, U \ A) = SumAt(b, B) + SumAt(b, (U \ A) \ B)
  <2>1. Summable(b, U \ A)
    BY PartSummable
  <2>2. B \in SUBSET (U \ A)
    OBVIOUS
  <2>3. QED
    BY <2>1, <2>2, SumSplits
<1>3. (U \ A) \ B = U \ (A \cup B)
  OBVIOUS
<1>4. SumAt(b, U \ A) = SumAt(b, B) + SumAt(b, U \ (A \cup B))
  BY <1>2, <1>3
<1>5. SumAt(b, A) \in Int /\ SumAt(b, B) \in Int /\ SumAt(b, U \ (A \cup B)) \in Int
  BY PartSummable
<1>6. QED
  BY <1>1, <1>4, <1>5

-----------------------------------------------------------------------------
(* Sets of largest and of smallest values *)

InRange(b) ==
  b \in [Places -> Int] /\ \A i \in Places : -Limit < b[i] /\ b[i] < Limit

Top(b, H) == H \subseteq Places /\ \A i \in H, j \in Places \ H : b[j] <= b[i]

Bottom(b, L) == L \subseteq Places /\ \A i \in L, j \in Places \ L : b[i] <= b[j]

LEMMA PlacesFinite ==
  IsFiniteSet(Places) /\ Cardinality(Places) = WinSize
<1>1. 0 \in Int /\ WinSize - 1 \in Int /\ WinSize \in Nat /\ WinSize > 0
  BY WinAssumption
<1>2. IsFiniteSet(0 .. WinSize - 1)
  BY <1>1, FS_Interval
<1>3. Cardinality(0 .. WinSize - 1) = IF 0 > WinSize - 1 THEN 0 ELSE WinSize - 1 - 0 + 1
  BY <1>1, FS_Interval
<1>4. QED
  BY <1>1, <1>2, <1>3 DEF Places

LEMMA BufferSummable ==
  ASSUME NEW b, InRange(b)
  PROVE  Summable(b, Places)
BY PlacesFinite DEF InRange, Summable

LEMMA SetOfPlaces ==
  ASSUME NEW S \in SUBSET Places
  PROVE  IsFiniteSet(S) /\ Cardinality(S) \in Nat
BY PlacesFinite, FS_Subset, FS_CardinalityType

LEMMA SameTops ==
  ASSUME NEW b, InRange(b), NEW H, Top(b, H), NEW K, Top(b, K), Cardinality(H) = Cardinality(K)
  PROVE  SumAt(b, H) = SumAt(b, K)
<1>1. H \in SUBSET Places /\ K \in SUBSET Places
  BY DEF Top
<1>2. \A x \in H \ K, y \in K \ H : b[x] \in Int /\ b[y] \in Int /\ b[x] <= b[y] /\ b[y] <= b[x]
  BY DEF Top, InRange
<1>3. Alike(b, H, K)
  BY <1>2 DEF Alike
<1>4. QED
  BY <1>1, <1>3, BufferSummable, AlikeSums

LEMMA SameBottoms ==
  ASSUME NEW b, InRange(b), NEW H, Bottom(b, H), NEW K, Bottom(b, K), Cardinality(H) = Cardinality(K)
  PROVE  SumAt(b, H) = SumAt(b, K)
<1>1. H \in SUBSET Places /\ K \in SUBSET Places
  BY DEF Bottom
<1>2. \A x \in H \ K, y \in K \ H : b[x] \in Int /\ b[y] \in Int /\ b[x] <= b[y] /\ b[y] <= b[x]
  BY DEF Bottom, InRange
<1>3. Alike(b, H, K)
  BY <1>2 DEF Alike
<1>4. QED
  BY <1>1, <1>3, BufferSummable, AlikeSums

LEMMA FirstMaxIsMax ==
  ASSUME NEW b, InRange(b), NEW P \in SUBSET Places, P # {}
  PROVE  FirstMax(b, P) \in P /\ \A j \in P : b[j] <= b[FirstMax(b, P)]
<1> DEFINE D == {Limit - b[j] : j \in P}
<1>1. \A j \in P : b[j] \in Int /\ Limit - b[j] \in Nat /\ j \in Nat
  BY WinAssumption DEF InRange, Places
<1>2. Limit \in Int
  BY WinAssumption
<1>3. PICK i \in P : \A j \in P : b[j] <= b[i]
  <2>1. D \subseteq Nat /\ D # {}
    BY <1>1
  <2>2. PICK x \in D : \A y \in D : x <= y
    BY <2>1, Least
  <2>3. PICK i \in P : x = Limit - b[i]
    OBVIOUS
  <2>4. ASSUME NEW j \in P
        PROVE  b[j] <= b[i]
    <3>1. Limit - b[i] <= Limit - b[j]
      BY <2>2, <2>3
    <3>2. QED
      BY <1>1, <1>2, <3>1
  <2>5. QED
    BY <2>4
<1> DEFINE E == {j \in P : b[j] = b[i]}
<1>4. PICK e \in E : \A j \in E : e <= j
  <2>1. E \subseteq Nat /\ E # {}
    BY <1>1
  <2>2. QED
    BY <2>1, Least
<1>5. e \in P /\ b[e] = b[i]
  BY <1>4
<1>6. \A j \in P : b[j] < b[e] \/ (b[j] = b[e] /\ e <= j)
  BY <1>1, <1>3, <1>4
<1>7. FirstMax(b, P) = CHOOSE k \in P : \A j \in P : b[j] < b[k] \/ (b[j] = b[k] /\ k <= j)
  BY DEF FirstMax
<1>8. \A j \in P : \/ b[j] < b[FirstMax(b, P)]
                   \/ b[j] = b[FirstMax(b, P)] /\ FirstMax(b, P) <= j
  BY <1>5, <1>6, <1>7
<1>9. FirstMax(b, P) \in P
  BY <1>5, <1>6, <1>7
<1>10. QED
  BY <1>1, <1>8, <1>9

LEMMA FirstMinIsMin ==
  ASSUME NEW b, InRange(b), NEW P \in SUBSET Places, P # {}
  PROVE  FirstMin(b, P) \in P /\ \A j \in P : b[FirstMin(b, P)] <= b[j]
<1> DEFINE D == {b[j] + Limit : j \in P}
<1>1. \A j \in P : b[j] \in Int /\ b[j] + Limit \in Nat /\ j \in Nat
  BY WinAssumption DEF InRange, Places
<1>2. Limit \in Int
  BY WinAssumption
<1>3. PICK i \in P : \A j \in P : b[i] <= b[j]
  <2>1. D \subseteq Nat /\ D # {}
    BY <1>1
  <2>2. PICK x \in D : \A y \in D : x <= y
    BY <2>1, Least
  <2>3. PICK i \in P : x = b[i] + Limit
    OBVIOUS
  <2>4. ASSUME NEW j \in P
        PROVE  b[i] <= b[j]
    <3>1. b[i] + Limit <= b[j] + Limit
      BY <2>2, <2>3
    <3>2. QED
      BY <1>1, <1>2, <3>1
  <2>5. QED
    BY <2>4
<1> DEFINE E == {j \in P : b[j] = b[i]}
<1>4. PICK e \in E : \A j \in E : e <= j
  <2>1. E \subseteq Nat /\ E # {}
    BY <1>1
  <2>2. QED
    BY <2>1, Least
<1>5. e \in P /\ b[e] = b[i]
  BY <1>4
<1>6. \A j \in P : b[j] > b[e] \/ (b[j] = b[e] /\ e <= j)
  BY <1>1, <1>3, <1>4
<1>7. FirstMin(b, P) = CHOOSE k \in P : \A j \in P : b[j] > b[k] \/ (b[j] = b[k] /\ k <= j)
  BY DEF FirstMin
<1>8. \A j \in P : \/ b[j] > b[FirstMin(b, P)]
                   \/ b[j] = b[FirstMin(b, P)] /\ FirstMin(b, P) <= j
  BY <1>5, <1>6, <1>7
<1>9. FirstMin(b, P) \in P
  BY <1>5, <1>6, <1>7
<1>10. QED
  BY <1>1, <1>8, <1>9

-----------------------------------------------------------------------------
(* Ranks *)

LEMMA RankType ==
  ASSUME NEW b, InRange(b), NEW i \in Places
  PROVE  Rank(b, i) \in 1 .. WinSize
<1> DEFINE B == {j \in Places : b[j] < b[i] \/ (b[j] = b[i] /\ j <= i)}
<1>1. B \in SUBSET Places /\ i \in B
  BY DEF InRange, Places
<1> HIDE DEF B
<1>2. Cardinality(B) \in Nat /\ Cardinality(B) <= WinSize /\ IsFiniteSet(B)
  BY <1>1, SetOfPlaces, PlacesFinite, FS_Subset
<1>3. Cardinality(B) # 0
  BY <1>1, <1>2, FS_EmptySet
<1>4. QED
  BY <1>2, <1>3, WinAssumption DEF B, Rank

LEMMA RankLess ==
  ASSUME NEW b, InRange(b), NEW i \in Places, NEW k \in Places,
         b[i] < b[k] \/ (b[i] = b[k] /\ i < k)
  PROVE  Rank(b, i) < Rank(b, k)
<1> DEFINE A == {j \in Places : b[j] < b[i] \/ (b[j] = b[i] /\ j <= i)}
           B == {j \in Places : b[j] < b[k] \/ (b[j] = b[k] /\ j <= k)}
<1>1. \A j \in Places : j \in Int /\ b[j] \in Int
  BY DEF InRange, Places
<1>2. \A j \in A : j \in B
  BY <1>1
<1>3. k \in B /\ k \notin A
  BY <1>1
<1>4. A \in SUBSET B /\ A # B /\ B \in SUBSET Places /\ A \in SUBSET Places
  BY <1>2, <1>3
<1> HIDE DEF A, B
<1>5. IsFiniteSet(B) /\ Cardinality(B) \in Nat /\ Cardinality(A) \in Nat
  BY <1>4, SetOfPlaces
<1>6. Cardinality(A) <= Cardinality(B) /\ Cardinality(A) # Cardinality(B)
  BY <1>4, <1>5, FS_Subset
<1>7. QED
  BY <1>5, <1>6 DEF A, B, Rank

(* The places with a rank above m and not above n *)
Ranked(b, m, n) == {i \in Places : Rank(b, i) \in m + 1 .. n}

LEMMA RankedAreFew ==
  ASSUME NEW b, InRange(b), NEW m \in Nat, NEW n \in Nat, m <= n
  PROVE  Cardinality(Ranked(b, m, n)) \in Nat /\ Cardinality(Ranked(b, m, n)) <= n - m
<1> DEFINE S == Ranked(b, m, n)
           f == [i \in S |-> Rank(b, i)]
<1>1. S \in SUBSET Places
  BY DEF Ranked
<1>2. f \in [S -> m + 1 .. n]
  BY DEF Ranked
<1>3. ASSUME NEW i \in S, NEW k \in S, f[i] = f[k]
      PROVE  i = k
  <2>1. i \in Places /\ k \in Places /\ Rank(b, i) = Rank(b, k) /\ Rank(b, i) \in Int
    BY <1>3, <1>1, RankType
  <2>2. i \in Int /\ k \in Int /\ b[i] \in Int /\ b[k] \in Int
    BY <2>1 DEF InRange, Places
  <2>3. ~(b[i] < b[k] \/ (b[i] = b[k] /\ i < k))
    BY <2>1, RankLess
  <2>4. ~(b[k] < b[i] \/ (b[k] = b[i] /\ k < i))
    BY <2>1, RankLess
  <2>5. QED
    BY <2>2, <2>3, <2>4
<1>4. f \in Injection(S, m + 1 .. n)
  BY <1>2, <1>3 DEF Injection, IsInjective
<1>5. IsFiniteSet(m + 1 .. n) /\ Cardinality(m + 1 .. n) = n - m
  <2>1. m + 1 \in Int /\ n \in Int
    OBVIOUS
  <2>2. IsFiniteSet(m + 1 .. n) /\ Cardinality(m + 1 .. n) = IF m + 1 > n THEN 0 ELSE n - (m + 1) + 1
    BY <2>1, FS_Interval
  <2>3. QED
    BY <2>2
<1> HIDE DEF f
<1>6. Cardinality(S) <= Cardinality(m + 1 .. n)
  BY <1>4, <1>5, FS_Injection
<1>7. QED
  BY <1>1, <1>5, <1>6, SetOfPlaces

LEMMA RankedSizes ==
  ASSUME NEW b, InRange(b)
  PROVE  /\ Cardinality(Ranked(b, 0, Drop)) = Drop
         /\ Cardinality(Ranked(b, WinSize - Drop, WinSize)) = Drop
<1> DEFINE A == Ranked(b, 0, Drop)
           M == Ranked(b, Drop, WinSize - Drop)
           Z == Ranked(b, WinSize - Drop, WinSize)
<1>1. /\ Drop \in Nat /\ WinSize - Drop \in Nat /\ WinSize \in Nat
      /\ 0 <= Drop /\ Drop <= WinSize - Drop /\ WinSize - Drop <= WinSize
  BY WinAssumption
<1>2. /\ Cardinality(A) \in Nat /\ Cardinality(A) <= Drop - 0
      /\ Cardinality(M) \in Nat /\ Cardinality(M) <= WinSize - Drop - Drop
      /\ Cardinality(Z) \in Nat /\ Cardinality(Z) <= WinSize - (WinSize - Drop)
  BY <1>1, RankedAreFew
<1>3. \A i \in Places : i \in A \/ i \in M \/ i \in Z
  BY <1>1, RankType DEF Ranked
<1>4. /\ A \subseteq Places /\ M \subseteq Places /\ Z \subseteq Places
      /\ A \cap M = {} /\ (A \cup M) \cap Z = {}
  BY <1>1 DEF Ranked
<1> HIDE DEF A, M, Z
<1>5. (A \cup M) \cup Z = Places
  BY <1>3, <1>4
<1>6. IsFiniteSet(A) /\ IsFiniteSet(M) /\ IsFiniteSet(Z)
  BY <1>4, SetOfPlaces
<1>7. IsFiniteSet(A \cup M) /\ Cardinality(A \cup M) = Cardinality(A) + Cardinality(M)
  <2>1. Cardinality(A \cap M) = 0
    BY <1>4, FS_EmptySet
  <2>2. /\ IsFiniteSet(A \cup M)
        /\ Cardinality(A \cup M) = Cardinality(A) + Cardinality(M) - Cardinality(A \cap M)
    BY <1>6, FS_Union, Zenon
  <2>3. QED
    BY <1>2, <2>1, <2>2
<1>8. Cardinality((A \cup M) \cup Z) = Cardinality(A \cup M) + Cardinality(Z)
  <2>1. Cardinality((A \cup M) \cap Z) = 0
    BY <1>4, FS_EmptySet
  <2>2. Cardinality((A \cup M) \cup Z)
          = Cardinality(A \cup M) + Cardinality(Z) - Cardinality((A \cup M) \cap Z)
    BY <1>6, <1>7, FS_Union, Zenon
  <2>3. QED
    BY <1>2, <1>7, <2>1, <2>2
<1>9. QED
  BY <1>1, <1>2, <1>5, <1>7, <1>8, PlacesFinite DEF A, Z

LEMMA LowRanksAreBottom ==
  ASSUME NEW b, InRange(b)
  PROVE  Bottom(b, Ranked(b, 0, Drop)) /\ Top(b, Ranked(b, WinSize - Drop, WinSize))
<1>1. /\ \A i \in Places : Rank(b, i) \in 1 .. WinSize /\ b[i] \in Int
      /\ Drop \in Nat /\ WinSize \in Nat
  BY RankType, WinAssumption DEF InRange
<1>2. ASSUME NEW i \in Places, NEW j \in Places, Rank(b, i) < Rank(b, j)
      PROVE  b[i] <= b[j]
  <2>1. ~(b[j] < b[i])
    BY <1>1, <1>2, RankLess
  <2>2. QED
    BY <1>1, <2>1
<1>3. \A i \in Ranked(b, 0, Drop), j \in Places \ Ranked(b, 0, Drop) : Rank(b, i) < Rank(b, j)
  BY <1>1 DEF Ranked
<1>4. \A i \in Ranked(b, WinSize - Drop, WinSize), j \in Places \ Ranked(b, WinSize - Drop, WinSize) :
        Rank(b, j) < Rank(b, i)
  BY <1>1 DEF Ranked
<1>5. Ranked(b, 0, Drop) \subseteq Places /\ Ranked(b, WinSize - Drop, WinSize) \subseteq Places
  BY DEF Ranked
<1>6. QED
  BY <1>2, <1>3, <1>4, <1>5 DEF Bottom, Top

-----------------------------------------------------------------------------
(* What add does.  r has lost the places of H and of L: the largest values, and the smallest. *)

Removing(b) == [buffer : {b}, sum : Int, rem : [Places -> BOOLEAN]]

Lost(b, r, H, L) ==
  /\ r \in Removing(b)
  /\ Top(b, H) /\ Bottom(b, L) /\ H \cap L = {}
  /\ \A i \in Places : r.rem[i] <=> i \in H \cup L
  /\ r.sum = SumAt(b, Places) - SumAt(b, H) - SumAt(b, L)

Beginning(b) == [buffer |-> b, sum |-> SumAt(b, Places), rem |-> [i \in Places |-> FALSE]]

LEMMA EmptySum ==
  ASSUME NEW b, InRange(b)
  PROVE  /\ SumAt(b, {}) = 0
         /\ \A S \in SUBSET Places : SumAt(b, S) \in Int
<1>1. Summable(b, Places) /\ {} \in SUBSET Places
  BY BufferSummable
<1>2. Summable(b, {}) /\ \A S \in SUBSET Places : SumAt(b, S) \in Int
  BY <1>1, PartSummable
<1>3. QED
  BY <1>2, SumUnfolds DEF Summable

LEMMA BeginningLostNothing ==
  ASSUME NEW b, InRange(b)
  PROVE  Lost(b, Beginning(b), {}, {})
<1>1. SumAt(b, {}) = 0 /\ SumAt(b, Places) \in Int
  BY EmptySum
<1>2. Top(b, {}) /\ Bottom(b, {})
  BY DEF Top, Bottom
<1>3. QED
  BY <1>1, <1>2 DEF Lost, Beginning, Removing

(* A place joins a set of places. *)
LEMMA SumJoins ==
  ASSUME NEW b, InRange(b), NEW S \in SUBSET Places, NEW i \in Places \ S
  PROVE  /\ SumAt(b, S \cup {i}) = SumAt(b, S) + b[i]
         /\ Cardinality(S \cup {i}) = Cardinality(S) + 1
<1>1. S \cup {i} \in SUBSET Places /\ i \in S \cup {i} /\ (S \cup {i}) \ {i} = S
  OBVIOUS
<1>2. Summable(b, S \cup {i})
  BY <1>1, BufferSummable, PartSummable
<1>3. SumAt(b, S \cup {i}) = b[i] + SumAt(b, (S \cup {i}) \ {i})
  BY <1>1, <1>2, SumTakes
<1>4. SumAt(b, S) \in Int /\ b[i] \in Int
  BY EmptySum DEF InRange
<1>5. Cardinality(S \cup {i}) = Cardinality(S) + 1
  BY SetOfPlaces, FS_AddElement
<1>6. SumAt(b, S \cup {i}) = b[i] + SumAt(b, S)
  BY <1>1, <1>3
<1>7. QED
  BY <1>4, <1>5, <1>6

(* There is a place to remove: fewer are gone than the window has. *)
LEMMA SomeLeft ==
  ASSUME NEW H \in SUBSET Places, NEW L \in SUBSET Places, H \cap L = {},
         Cardinality(H) + Cardinality(L) < WinSize
  PROVE  Places \ (H \cup L) # {}
<1> SUFFICES ASSUME H \cup L = Places PROVE FALSE
  OBVIOUS
<1>1. IsFiniteSet(H) /\ IsFiniteSet(L) /\ Cardinality(H) \in Nat /\ Cardinality(L) \in Nat
  BY SetOfPlaces
<1>2. Cardinality(H \cap L) = 0
  BY FS_EmptySet
<1>3. Cardinality(H \cup L) = Cardinality(H) + Cardinality(L) - Cardinality(H \cap L)
  BY <1>1, FS_Union, Zenon
<1>4. Cardinality(H \cup L) = WinSize
  BY PlacesFinite
<1>5. QED
  BY <1>1, <1>2, <1>3, <1>4, WinAssumption

LEMMA RemoveFields ==
  ASSUME NEW b, NEW r \in Removing(b), NEW i \in Places, b[i] \in Int
  PROVE  /\ Remove(r, i) \in Removing(b)
         /\ Remove(r, i).sum = r.sum - b[i]
         /\ \A j \in Places : Remove(r, i).rem[j] = IF j = i THEN TRUE ELSE r.rem[j]
<1>1. PICK s \in Int, m \in [Places -> BOOLEAN] : r = [buffer |-> b, sum |-> s, rem |-> m]
  BY DEF Removing
<1>2. PICK n : n = [m EXCEPT ![i] = TRUE]
  OBVIOUS
<1>3. n \in [Places -> BOOLEAN] /\ \A j \in Places : n[j] = IF j = i THEN TRUE ELSE m[j]
  BY <1>2
<1>4. r.buffer = b /\ r.sum = s /\ r.rem = m
  BY <1>1
<1>5. Remove(r, i) = [buffer |-> b, sum |-> s - b[i], rem |-> n]
  <2>1. Remove(r, i) = [r EXCEPT !.sum = r.sum - r.buffer[i], !.rem = [r.rem EXCEPT ![i] = TRUE]]
    BY <1>1 DEF Remove
  <2>2. Remove(r, i) = [r EXCEPT !.sum = s - b[i], !.rem = n]
    BY <1>2, <1>4, <2>1
  <2>3. QED
    BY <1>1, <2>2
<1>6. s - b[i] \in Int
  OBVIOUS
<1>7. Remove(r, i) \in Removing(b) /\ Remove(r, i).sum = s - b[i] /\ Remove(r, i).rem = n
  BY <1>3, <1>5, <1>6 DEF Removing
<1>8. QED
  BY <1>3, <1>4, <1>7

LEMMA remMaxLoses ==
  ASSUME NEW b, InRange(b), NEW r, NEW H, Lost(b, r, H, {}), Cardinality(H) < WinSize
  PROVE  \E K : Lost(b, remMax(r), K, {}) /\ Cardinality(K) = Cardinality(H) + 1
<1> DEFINE P == Places \ H
           i == FirstMax(b, P)
<1>1. /\ r \in Removing(b)
      /\ \A j \in Places : r.rem[j] <=> j \in H
      /\ H \in SUBSET Places
  BY DEF Lost, Top
<1>2. {j \in Places : ~r.rem[j] /\ r.buffer[j] > -Limit} = P
  BY <1>1, WinAssumption DEF InRange, Removing
<1>3. remMax(r) = Remove(r, i)
  BY <1>1, <1>2 DEF remMax, Removing
<1>4. P # {}
  <2>1. Cardinality({}) = 0 /\ Cardinality(H) \in Nat
    BY <1>1, FS_EmptySet, SetOfPlaces
  <2>2. {} \in SUBSET Places /\ H \cap {} = {} /\ H \cup {} = H
    OBVIOUS
  <2>3. Cardinality(H) + Cardinality({}) < WinSize
    BY <2>1, WinAssumption
  <2>4. Places \ (H \cup {}) # {}
    BY <1>1, <2>2, <2>3, SomeLeft
  <2>5. QED
    BY <2>2, <2>4
<1>5. i \in P /\ \A j \in P : b[j] <= b[i]
  BY <1>4, FirstMaxIsMax
<1> HIDE DEF i
<1>6. i \in Places \ H /\ b[i] \in Int
  BY <1>5 DEF InRange
<1>7. SumAt(b, H \cup {i}) = SumAt(b, H) + b[i] /\ Cardinality(H \cup {i}) = Cardinality(H) + 1
  BY <1>1, <1>6, SumJoins
<1>8. Top(b, H \cup {i})
  BY <1>5, <1>6 DEF Lost, Top
<1>9. /\ Remove(r, i) \in Removing(b)
      /\ Remove(r, i).sum = r.sum - b[i]
      /\ \A j \in Places : Remove(r, i).rem[j] = IF j = i THEN TRUE ELSE r.rem[j]
  BY <1>1, <1>6, RemoveFields
<1>10. Remove(r, i).sum = SumAt(b, Places) - SumAt(b, H \cup {i}) - SumAt(b, {})
  <2>1. SumAt(b, Places) \in Int /\ SumAt(b, H) \in Int /\ SumAt(b, {}) \in Int
    BY <1>1, EmptySum
  <2>2. r.sum = SumAt(b, Places) - SumAt(b, H) - SumAt(b, {})
    BY DEF Lost
  <2>3. QED
    BY <1>6, <1>7, <1>9, <2>1, <2>2
<1>11. \A j \in Places : Remove(r, i).rem[j] <=> j \in (H \cup {i}) \cup {}
  BY <1>1, <1>9
<1>12. Lost(b, Remove(r, i), H \cup {i}, {})
  BY <1>8, <1>9, <1>10, <1>11 DEF Lost
<1>13. QED
  BY <1>3, <1>7, <1>12

LEMMA remMinLoses ==
  ASSUME NEW b, InRange(b), NEW r, NEW H, NEW L, Lost(b, r, H, L),
         Cardinality(H) + Cardinality(L) < WinSize
  PROVE  \E K : Lost(b, remMin(r), H, K) /\ Cardinality(K) = Cardinality(L) + 1
<1> DEFINE P == Places \ (H \cup L)
           i == FirstMin(b, P)
<1>1. /\ r \in Removing(b)
      /\ \A j \in Places : r.rem[j] <=> j \in H \cup L
      /\ H \in SUBSET Places /\ L \in SUBSET Places /\ H \cap L = {}
  BY DEF Lost, Top, Bottom
<1>2. {j \in Places : ~r.rem[j] /\ r.buffer[j] < Limit} = P
  BY <1>1, WinAssumption DEF InRange, Removing
<1>3. remMin(r) = Remove(r, i)
  BY <1>1, <1>2 DEF remMin, Removing
<1>4. P # {}
  BY <1>1, SomeLeft
<1>5. i \in P /\ \A j \in P : b[i] <= b[j]
  BY <1>4, FirstMinIsMin
<1> HIDE DEF i
<1>6. i \in Places \ L /\ i \notin H /\ b[i] \in Int
  BY <1>5 DEF InRange
<1>7. SumAt(b, L \cup {i}) = SumAt(b, L) + b[i] /\ Cardinality(L \cup {i}) = Cardinality(L) + 1
  BY <1>1, <1>6, SumJoins
<1>8. Bottom(b, L \cup {i})
  <2>1. \A j \in H : b[i] <= b[j]
    BY <1>6 DEF Lost, Top
  <2>2. \A j \in Places \ (L \cup {i}) : b[i] <= b[j]
    BY <1>5, <2>1
  <2>3. QED
    BY <1>6, <2>2 DEF Lost, Bottom
<1>9. /\ Remove(r, i) \in Removing(b)
      /\ Remove(r, i).sum = r.sum - b[i]
      /\ \A j \in Places : Remove(r, i).rem[j] = IF j = i THEN TRUE ELSE r.rem[j]
  BY <1>1, <1>6, RemoveFields, ZenonT(60)
<1>10. Remove(r, i).sum = SumAt(b, Places) - SumAt(b, H) - SumAt(b, L \cup {i})
  <2>1. SumAt(b, Places) \in Int /\ SumAt(b, H) \in Int /\ SumAt(b, L) \in Int
    BY <1>1, EmptySum
  <2>2. r.sum = SumAt(b, Places) - SumAt(b, H) - SumAt(b, L)
    BY DEF Lost
  <2>3. QED
    BY <1>6, <1>7, <1>9, <2>1, <2>2
<1>11. \A j \in Places : Remove(r, i).rem[j] <=> j \in H \cup (L \cup {i})
  BY <1>1, <1>9
<1>12. Lost(b, Remove(r, i), H, L \cup {i})
  BY <1>1, <1>6, <1>8, <1>9, <1>10, <1>11 DEF Lost
<1>13. QED
  BY <1>3, <1>7, <1>12

(* The values left when the Drop largest and the Drop smallest are lost *)
LEMMA LostLeavesMiddle ==
  ASSUME NEW b, InRange(b), NEW r, NEW H, NEW L, Lost(b, r, H, L),
         Cardinality(H) = Drop, Cardinality(L) = Drop
  PROVE  r.sum = TrimmedSum(b)
<1> DEFINE A == Ranked(b, 0, Drop)
           Z == Ranked(b, WinSize - Drop, WinSize)
           M == {i \in Places : Rank(b, i) \in Drop + 1 .. WinSize - Drop}
<1>1. Cardinality(A) = Drop /\ Cardinality(Z) = Drop /\ Bottom(b, A) /\ Top(b, Z)
  BY RankedSizes, LowRanksAreBottom
<1>2. SumAt(b, H) = SumAt(b, Z)
  BY <1>1, SameTops DEF Lost
<1>3. SumAt(b, L) = SumAt(b, A)
  BY <1>1, SameBottoms DEF Lost
<1>4. M = Places \ (A \cup Z) /\ A \cap Z = {} /\ A \in SUBSET Places /\ Z \in SUBSET Places
  BY RankType, WinAssumption DEF Ranked
<1>5. SumAt(b, M) = TrimmedSum(b)
  BY DEF TrimmedSum
<1> HIDE DEF A, Z, M
<1>6. SumAt(b, Places) = SumAt(b, A) + SumAt(b, Z) + SumAt(b, Places \ (A \cup Z))
  BY <1>4, BufferSummable, SumWithout
<1>7. M \in SUBSET Places /\ SumAt(b, Places) = SumAt(b, A) + SumAt(b, Z) + SumAt(b, M)
  BY <1>4, <1>6
<1>8. SumAt(b, A) \in Int /\ SumAt(b, Z) \in Int /\ SumAt(b, M) \in Int
  BY <1>4, <1>7, EmptySum
<1>9. r.sum = SumAt(b, Places) - SumAt(b, Z) - SumAt(b, A)
  BY <1>2, <1>3 DEF Lost
<1>10. QED
  BY <1>5, <1>7, <1>8, <1>9

-----------------------------------------------------------------------------
(* add as a chain of removals *)

IsRemovals(f, b, n) ==
  f = [k \in 0 .. n |->
         IF k = 0 THEN Beginning(b) ELSE IF k <= Drop THEN remMax(f[k - 1]) ELSE remMin(f[k - 1])]

LEMMA RemovalsExist ==
  ASSUME NEW b, NEW n \in Nat
  PROVE  \E f : IsRemovals(f, b, n)
<1> DEFINE T == {k \in 0 .. n : \E f : IsRemovals(f, b, k)}
<1>1. 0 \in T
  <2>1. IsRemovals([k \in 0 .. 0 |-> Beginning(b)], b, 0)
    BY DEF IsRemovals
  <2>2. QED
    BY <2>1
<1>2. ASSUME NEW k \in 1 .. n, k - 1 \in T PROVE k \in T
  <2>1. PICK f : IsRemovals(f, b, k - 1)
    BY <1>2
  <2>2. \A i \in 0 .. k - 1 :
          f[i] = IF i = 0 THEN Beginning(b) ELSE IF i <= Drop THEN remMax(f[i - 1]) ELSE remMin(f[i - 1])
    BY <2>1 DEF IsRemovals
  <2> DEFINE g == [i \in 0 .. k |-> IF i < k THEN f[i]
                                    ELSE IF i <= Drop THEN remMax(f[i - 1]) ELSE remMin(f[i - 1])]
  <2>3. IsRemovals(g, b, k)
    BY <2>2 DEF IsRemovals
  <2>4. QED
    BY <2>3
<1> HIDE DEF T
<1>3. n \in T
  BY <1>1, <1>2, Counting
<1>4. QED
  BY <1>3 DEF T

LEMMA addIsChain ==
  ASSUME NEW w, NEW x, NEW b, b = Shifted(w, x)
  PROVE  \E f : /\ f[0] = Beginning(b)
                /\ \A k \in 1 .. Drop : f[k] = remMax(f[k - 1])
                /\ \A k \in Drop + 1 .. 2 * Drop : f[k] = remMin(f[k - 1])
                /\ add(w, x) = [buffer |-> b, v |-> f[2 * Drop].sum, next |-> TRUE]
<1> DEFINE n == 2 * Drop
           g == CHOOSE f : IsRemovals(f, b, n)
<1>1. n \in Nat /\ Drop \in Nat
  BY WinAssumption
<1>2. IsRemovals(g, b, n)
  BY <1>1, RemovalsExist
<1>3. add(w, x) = [buffer |-> b, v |-> g[n].sum, next |-> TRUE]
  BY DEF add, IsRemovals, Beginning
<1> HIDE DEF n, g
<1>4. \A k \in 0 .. n :
        g[k] = IF k = 0 THEN Beginning(b) ELSE IF k <= Drop THEN remMax(g[k - 1]) ELSE remMin(g[k - 1])
  BY <1>2 DEF IsRemovals
<1>5. n = 2 * Drop
  BY DEF n
<1>6. /\ g[0] = Beginning(b)
      /\ \A k \in 1 .. Drop : g[k] = remMax(g[k - 1])
      /\ \A k \in Drop + 1 .. n : g[k] = remMin(g[k - 1])
  BY <1>1, <1>4, <1>5
<1>7. QED
  BY <1>3, <1>5, <1>6

(* add takes x in, and its result is the trimmed sum of the window. *)
LEMMA addTrims ==
  ASSUME NEW w, NEW x, InRange(Shifted(w, x))
  PROVE  /\ add(w, x).buffer = Shifted(w, x)
         /\ add(w, x).v = TrimmedSum(Shifted(w, x))
         /\ add(w, x).next = TRUE
<1>1. PICK b : b = Shifted(w, x)
  OBVIOUS
<1>2. InRange(b)
  BY <1>1
<1>3. PICK f : /\ f[0] = Beginning(b)
               /\ \A k \in 1 .. Drop : f[k] = remMax(f[k - 1])
               /\ \A k \in Drop + 1 .. 2 * Drop : f[k] = remMin(f[k - 1])
               /\ add(w, x) = [buffer |-> b, v |-> f[2 * Drop].sum, next |-> TRUE]
  BY <1>1, addIsChain
<1>4. Drop \in Nat /\ WinSize \in Nat /\ 2 * Drop < WinSize
  BY WinAssumption
<1> DEFINE S == {k \in 0 .. Drop : \E H : Lost(b, f[k], H, {}) /\ Cardinality(H) = k}
<1>5. 0 \in S
  <2>1. Lost(b, f[0], {}, {}) /\ Cardinality({}) = 0
    BY <1>2, <1>3, BeginningLostNothing, FS_EmptySet
  <2>2. QED
    BY <1>4, <2>1
<1>6. ASSUME NEW k \in 1 .. Drop, k - 1 \in S
      PROVE  k \in S
  <2>1. PICK H : Lost(b, f[k - 1], H, {}) /\ Cardinality(H) = k - 1
    BY <1>6
  <2>2. Cardinality(H) < WinSize
    BY <1>4, <2>1
  <2>3. \E K : Lost(b, remMax(f[k - 1]), K, {}) /\ Cardinality(K) = Cardinality(H) + 1
    BY <1>2, <2>1, <2>2, remMaxLoses
  <2>4. QED
    BY <1>3, <2>1, <2>3
<1> HIDE DEF S
<1>7. Drop \in S
  BY <1>4, <1>5, <1>6, Counting
<1>8. PICK H : Lost(b, f[Drop], H, {}) /\ Cardinality(H) = Drop
  BY <1>7 DEF S
<1> DEFINE T == {k \in 0 .. Drop : \E L : Lost(b, f[Drop + k], H, L) /\ Cardinality(L) = k}
<1>9. 0 \in T
  <2>1. Cardinality({}) = 0 /\ Drop + 0 = Drop
    BY <1>4, FS_EmptySet
  <2>2. Lost(b, f[Drop + 0], H, {})
    BY <1>8, <2>1
  <2>3. QED
    BY <1>4, <2>1, <2>2
<1>10. ASSUME NEW k \in 1 .. Drop, k - 1 \in T
       PROVE  k \in T
  <2>1. PICK L : Lost(b, f[Drop + (k - 1)], H, L) /\ Cardinality(L) = k - 1
    BY <1>10
  <2>2. Cardinality(H) + Cardinality(L) < WinSize
    BY <1>4, <1>8, <2>1
  <2>3. \E K : Lost(b, remMin(f[Drop + (k - 1)]), H, K) /\ Cardinality(K) = Cardinality(L) + 1
    BY <1>2, <2>1, <2>2, remMinLoses
  <2>4. Drop + k \in Drop + 1 .. 2 * Drop /\ (Drop + k) - 1 = Drop + (k - 1)
    BY <1>4
  <2>5. f[Drop + k] = remMin(f[Drop + (k - 1)])
    BY <1>3, <2>4
  <2>6. QED
    BY <2>1, <2>3, <2>5
<1> HIDE DEF T
<1>11. Drop \in T
  BY <1>4, <1>9, <1>10, Counting
<1>12. PICK L : Lost(b, f[Drop + Drop], H, L) /\ Cardinality(L) = Drop
  BY <1>11 DEF T
<1>13. 2 * Drop = Drop + Drop
  BY <1>4
<1>14. f[2 * Drop].sum = TrimmedSum(b)
  BY <1>2, <1>8, <1>12, <1>13, LostLeavesMiddle
<1>15. QED
  BY <1>1, <1>3, <1>14

-----------------------------------------------------------------------------
(* The windows *)

(* The last n values of m, in a window *)
InWindow(m, n) ==
  [i \in Places |-> LET k == n - WinSize + i + 1 IN IF k < 1 THEN m[1] ELSE m[k]]

(* n values of m and then x, of which the last WinSize are n2 values of m2 *)
Followed(m, n, x, m2, n2) ==
  \/ /\ n < WinSize /\ n2 = n + 1 /\ m2[n + 1] = x
     /\ \A k \in 1 .. n : m2[k] = m[k]
  \/ /\ n = WinSize /\ n2 = n /\ m2[n] = x
     /\ \A k \in 1 .. n - 1 : m2[k] = m[k + 1]

LEMMA ShiftsIn ==
  ASSUME NEW m, NEW n \in Nat, NEW x, NEW m2, NEW n2, Followed(m, n, x, m2, n2), NEW w,
         \/ n = 0 /\ w.next = FALSE
         \/ n > 0 /\ w.next = TRUE /\ w.buffer = InWindow(m, n)
  PROVE  Shifted(w, x) = InWindow(m2, n2) /\ n2 \in 1 .. WinSize
<1>1. WinSize \in Nat /\ WinSize > 0
  BY WinAssumption
<1>2. n2 \in 1 .. WinSize
  BY <1>1 DEF Followed
<1> DEFINE K(i) == n2 - WinSize + i + 1
<1>3. ASSUME NEW i \in Places
      PROVE  Shifted(w, x)[i] = IF K(i) < 1 THEN m2[1] ELSE m2[K(i)]
  <2>1. i \in 0 .. WinSize - 1
    BY DEF Places
  <2>2. CASE i = WinSize - 1
    <3>1. Shifted(w, x)[i] = x
      BY <2>2 DEF Shifted
    <3>2. K(i) = n2
      BY <1>1, <1>2, <2>2
    <3>3. m2[n2] = x
      BY DEF Followed
    <3>4. QED
      BY <1>2, <3>1, <3>2, <3>3
  <2>3. CASE i # WinSize - 1 /\ n = 0
    <3>1. Shifted(w, x)[i] = x
      BY <2>3 DEF Shifted
    <3>2. n2 = 1 /\ m2[1] = x
      BY <1>1, <2>3 DEF Followed
    <3>3. K(i) < 1
      BY <1>1, <2>1, <2>3, <3>2
    <3>4. QED
      BY <3>1, <3>2, <3>3
  <2>4. CASE i # WinSize - 1 /\ n > 0
    <3>1. i + 1 \in Places
      BY <1>1, <2>1, <2>4 DEF Places
    <3> DEFINE J == n - WinSize + (i + 1) + 1
    <3>2. Shifted(w, x)[i] = IF J < 1 THEN m[1] ELSE m[J]
      BY <2>4, <3>1 DEF Shifted, InWindow
    <3>3. CASE n < WinSize
      <4>1. n2 = n + 1 /\ \A k \in 1 .. n : m2[k] = m[k]
        BY <3>3 DEF Followed
      <4>2. K(i) = J /\ J <= n /\ J \in Int
        BY <1>1, <2>1, <2>4, <4>1
      <4> HIDE DEF K, J
      <4>3. J < 1 => m2[1] = m[1]
        BY <2>4, <4>1
      <4>4. ~(J < 1) => m2[J] = m[J]
        BY <4>1, <4>2
      <4>5. QED
        BY <3>2, <4>2, <4>3, <4>4
    <3>4. CASE n = WinSize
      <4>1. n2 = n /\ \A k \in 1 .. n - 1 : m2[k] = m[k + 1]
        BY <3>4 DEF Followed
      <4>2. K(i) = i + 1 /\ J = (i + 1) + 1 /\ i + 1 \in 1 .. n - 1 /\ ~(K(i) < 1) /\ ~(J < 1)
        BY <1>1, <2>1, <2>4, <3>4, <4>1
      <4> HIDE DEF K, J
      <4>3. m2[i + 1] = m[(i + 1) + 1]
        BY <4>1, <4>2
      <4>4. QED
        BY <3>2, <4>2, <4>3
    <3>5. QED
      BY <3>3, <3>4 DEF Followed
  <2>5. QED
    BY <2>2, <2>3, <2>4
<1>4. Shifted(w, x) = [i \in Places |-> Shifted(w, x)[i]]
  BY DEF Shifted
<1>5. QED
  BY <1>2, <1>3, <1>4 DEF InWindow

Plausible == {x \in Int : -2048 < x /\ x < 2048}

LEMMA InWindowInRange ==
  ASSUME NEW m, NEW n \in 1 .. WinSize, \A k \in 1 .. n : m[k] \in Plausible
  PROVE  InRange(InWindow(m, n))
<1>1. WinSize \in Nat /\ Limit \in Int /\ Limit > 2047
  BY WinAssumption, ApplicationAssumption
<1>2. ASSUME NEW i \in Places
      PROVE  InWindow(m, n)[i] \in Plausible
  <2> DEFINE k == n - WinSize + i + 1
  <2>1. k \in Int /\ k <= n
    BY <1>1 DEF Places
  <2>2. InWindow(m, n)[i] = IF k < 1 THEN m[1] ELSE m[k]
    BY DEF InWindow
  <2> HIDE DEF k
  <2>3. QED
    BY <2>1, <2>2
<1>3. InWindow(m, n) = [i \in Places |-> InWindow(m, n)[i]]
  BY DEF InWindow
<1>4. \A x \in Plausible : x \in Int /\ -Limit < x /\ x < Limit
  BY <1>1 DEF Plausible
<1>5. QED
  BY <1>2, <1>3, <1>4 DEF InRange

(* The window w has been given the values of m, n of them counted. *)
Holds(w, m, n) ==
  IF n = 0 THEN w.next = FALSE
  ELSE w.next = TRUE /\ w.buffer = InWindow(m, n) /\ w.v = TrimmedSum(InWindow(m, n))

LEMMA addHolds ==
  ASSUME NEW w, NEW m, NEW n \in Nat, Holds(w, m, n), NEW x, NEW m2, NEW n2,
         Followed(m, n, x, m2, n2), \A k \in 1 .. n2 : m2[k] \in Plausible
  PROVE  Holds(add(w, x), m2, n2)
<1>1. Shifted(w, x) = InWindow(m2, n2) /\ n2 \in 1 .. WinSize
  <2>1. \/ n = 0 /\ w.next = FALSE
        \/ n > 0 /\ w.next = TRUE /\ w.buffer = InWindow(m, n)
    BY DEF Holds
  <2>2. QED
    BY <2>1, ShiftsIn
<1>2. InRange(Shifted(w, x))
  BY <1>1, InWindowInRange
<1>3. /\ add(w, x).buffer = Shifted(w, x)
      /\ add(w, x).v = TrimmedSum(Shifted(w, x))
      /\ add(w, x).next = TRUE
  BY <1>2, addTrims
<1>4. n2 # 0
  BY <1>1, WinAssumption
<1>5. QED
  BY <1>1, <1>3, <1>4 DEF Holds

-----------------------------------------------------------------------------
(* What the application has been given, and what it reports *)

Values == [humidity : Plausible, temperature : Plausible]

Humidities(f)   == [k \in DOMAIN f |-> f[k].humidity]
Temperatures(f) == [k \in DOMAIN f |-> f[k].temperature]

Reports ==
  /\ \A s \in Sensors : sensor[s].humidity \in Plausible /\ sensor[s].temperature \in Plausible
  /\ fed \in Seq(Values)
  /\ Holds(hw, Humidities(fed), Len(fed))
  /\ Holds(tw, Temperatures(fed), Len(fed))
  /\ fed # <<>> => te = tw.v

LEMMA ReportsAre == Reports => ReportsTrimmedMean
<1> SUFFICES ASSUME Reports, fed # <<>>
             PROVE  /\ te = TrimmedSum(AtPlaces([k \in DOMAIN fed |-> fed[k].temperature]))
                    /\ hw.v = TrimmedSum(AtPlaces([k \in DOMAIN fed |-> fed[k].humidity]))
  BY DEF ReportsTrimmedMean
<1>1. Len(fed) # 0
  BY DEF Reports
<1>2. /\ AtPlaces([k \in DOMAIN fed |-> fed[k].temperature]) = InWindow(Temperatures(fed), Len(fed))
      /\ AtPlaces([k \in DOMAIN fed |-> fed[k].humidity]) = InWindow(Humidities(fed), Len(fed))
  BY DEF AtPlaces, InWindow, Temperatures, Humidities
<1>3. QED
  BY <1>1, <1>2 DEF Reports, Holds

LEMMA InitReports == AInit => Reports
<1> SUFFICES ASSUME AInit PROVE Reports
  OBVIOUS
<1>1. \A s \in Sensors : sensor[s].humidity \in Plausible /\ sensor[s].temperature \in Plausible
  BY DEF AInit, Init, Constructed, Plausible
<1>2. fed \in Seq(Values) /\ Len(fed) = 0
  BY DEF AInit
<1>3. hw.next = FALSE /\ tw.next = FALSE
  BY DEF AInit, EmptyWin
<1>4. QED
  BY <1>1, <1>2, <1>3 DEF AInit, Reports, Holds

(* The sensors have what eleven bits and a sign can say. *)
LEMMA FloatPlausible ==
  ASSUME NEW x \in Int
  PROVE  dht22ToFloat(x) \in Plausible
<1>1. PICK y \in Int : y = x % 2048 /\ 0 <= y /\ y < 2048
  OBVIOUS
<1>2. dht22ToFloat(x) = -y \/ dht22ToFloat(x) = y
  BY <1>1 DEF dht22ToFloat
<1>3. QED
  BY <1>1, <1>2 DEF Plausible

LEMMA doneReports ==
  ASSUME IInv, Reading, Reports, done, UNCHANGED app
  PROVE  Reports'
<1>1. Sampled
  BY SampledCall DEF done, HighCalls
<1>2. PICK call : highCalls = <<call>>
  BY <1>1 DEF Sampled
<1>3. call \in Calls /\ Head(highCalls) = call
  BY <1>2 DEF Reading, Waits
<1>4. call.result.h \in Int /\ call.result.t \in Int
  <2>1. call.result \in Results
    BY <1>3 DEF Calls
  <2>2. QED
    BY <2>1 DEF Results, Word
<1>5. peek(fifo) \in Sensors /\ sensor \in [Sensors -> Members]
  BY <1>1, FirstIsSensor DEF IInv, Sampled, Allocated, Reading
<1>6. /\ dht22ToFloat(call.result.h) \in Plausible
      /\ dht22ToFloat(call.result.t) \in Plausible
  BY <1>4, FloatPlausible
<1>7. sensor' = [sensor EXCEPT ![peek(fifo)] =
                   IF call.result.valid
                   THEN [valid |-> TRUE, humidity |-> dht22ToFloat(call.result.h),
                         temperature |-> dht22ToFloat(call.result.t)]
                   ELSE [sensor[peek(fifo)] EXCEPT !.valid = FALSE]]
  BY <1>3 DEF done
<1>8. ASSUME NEW s \in Sensors
      PROVE  sensor'[s].humidity \in Plausible /\ sensor'[s].temperature \in Plausible
  <2>1. sensor[s] \in Members /\ sensor[s].humidity \in Plausible /\ sensor[s].temperature \in Plausible
    BY <1>5 DEF Reports
  <2>2. CASE s = peek(fifo) /\ call.result.valid
    <3>1. sensor'[s] = [valid |-> TRUE, humidity |-> dht22ToFloat(call.result.h),
                        temperature |-> dht22ToFloat(call.result.t)]
      BY <1>5, <1>7, <2>2
    <3>2. QED
      BY <1>6, <3>1
  <2>3. CASE s = peek(fifo) /\ ~call.result.valid
    <3>1. sensor'[s] = [sensor[s] EXCEPT !.valid = FALSE]
      BY <1>5, <1>7, <2>3
    <3>2. QED
      BY <2>1, <3>1 DEF Members
  <2>4. CASE s # peek(fifo)
    BY <1>5, <1>7, <2>1, <2>4
  <2>5. QED
    BY <2>2, <2>3, <2>4
<1>9. UNCHANGED <<fed, hw, tw, te>>
  BY SMTT(30) DEF app
<1>10. QED
  BY <1>8, <1>9 DEF Reports

(* A value is fed. *)
LEMMA RecentFollows ==
  ASSUME NEW f \in Seq(Values), Len(f) <= WinSize, NEW v \in Values, NEW g, g = Recent(Append(f, v))
  PROVE  /\ g \in Seq(Values) /\ g # <<>>
         /\ Followed(Humidities(f), Len(f), v.humidity, Humidities(g), Len(g))
         /\ Followed(Temperatures(f), Len(f), v.temperature, Temperatures(g), Len(g))
         /\ \A k \in 1 .. Len(g) : Humidities(g)[k] \in Plausible /\ Temperatures(g)[k] \in Plausible
<1> DEFINE n == Len(f)
<1>1. n \in Nat /\ WinSize \in Nat /\ WinSize > 0
  BY WinAssumption
<1>2. /\ Append(f, v) \in Seq(Values) /\ Len(Append(f, v)) = n + 1
      /\ Append(f, v)[n + 1] = v /\ \A k \in 1 .. n : Append(f, v)[k] = f[k]
  OBVIOUS
<1>3. \/ /\ n < WinSize /\ g \in Seq(Values) /\ Len(g) = n + 1 /\ g[n + 1] = v
         /\ \A k \in 1 .. n : g[k] = f[k]
      \/ /\ n = WinSize /\ g \in Seq(Values) /\ Len(g) = n /\ g[n] = v
         /\ \A k \in 1 .. n - 1 : g[k] = f[k + 1]
  <2>1. CASE n < WinSize
    BY <1>1, <1>2, <2>1 DEF Recent
  <2>2. CASE n = WinSize
    <3>1. PICK a : a = Append(f, v)
      OBVIOUS
    <3>2. /\ a \in Seq(Values) /\ Len(a) = n + 1 /\ a # <<>>
          /\ a[n + 1] = v /\ \A k \in 1 .. n : a[k] = f[k]
      BY <1>2, <3>1
    <3>3. g = Tail(a)
      BY <1>1, <2>2, <3>1, <3>2 DEF Recent
    <3>4. g \in Seq(Values) /\ Len(g) = n /\ \A k \in 1 .. n : g[k] = a[k + 1]
      BY <1>1, <3>2, <3>3
    <3> HIDE DEF n
    <3>5. g[n] = v
      BY <1>1, <2>2, <3>2, <3>4
    <3>6. \A k \in 1 .. n - 1 : k \in 1 .. n /\ k + 1 \in 1 .. n
      BY <1>1
    <3>7. QED
      BY <2>2, <3>2, <3>4, <3>5, <3>6
  <2>3. QED
    BY <1>1, <2>1, <2>2
<1> HIDE DEF n
<1>4. g \in Seq(Values) /\ Len(g) \in 1 .. WinSize /\ DOMAIN g = 1 .. Len(g)
  BY <1>1, <1>3
<1>5. g # <<>>
  BY <1>4
<1>6. DOMAIN f = 1 .. n
  BY DEF n
<1>7. /\ \A k \in 1 .. n : Humidities(f)[k] = f[k].humidity /\ Temperatures(f)[k] = f[k].temperature
      /\ \A k \in 1 .. Len(g) : Humidities(g)[k] = g[k].humidity /\ Temperatures(g)[k] = g[k].temperature
  BY <1>4, <1>6 DEF Humidities, Temperatures
<1>8. \A k \in 1 .. Len(g) : g[k] \in Values
  BY <1>4
<1>9. \A k \in 1 .. Len(g) : Humidities(g)[k] \in Plausible /\ Temperatures(g)[k] \in Plausible
  BY <1>7, <1>8 DEF Values
<1> DEFINE A == Humidities(f)
           B == Humidities(g)
           C == Temperatures(f)
           D == Temperatures(g)
<1>10. /\ \A k \in 1 .. n : A[k] = f[k].humidity /\ C[k] = f[k].temperature
       /\ \A k \in 1 .. Len(g) : B[k] = g[k].humidity /\ D[k] = g[k].temperature
  BY <1>7
<1> HIDE DEF A, B, C, D
<1>11. ASSUME n < WinSize
       PROVE  /\ Followed(Humidities(f), n, v.humidity, Humidities(g), Len(g))
              /\ Followed(Temperatures(f), n, v.temperature, Temperatures(g), Len(g))
  <2>1. Len(g) = n + 1 /\ g[n + 1] = v /\ \A k \in 1 .. n : g[k] = f[k]
    BY <1>3, <1>11
  <2>2. B[n + 1] = v.humidity /\ D[n + 1] = v.temperature
    BY <1>1, <1>10, <2>1
  <2>3. \A k \in 1 .. n : B[k] = A[k] /\ D[k] = C[k]
    BY <1>1, <1>10, <2>1
  <2>4. Followed(A, n, v.humidity, B, Len(g)) /\ Followed(C, n, v.temperature, D, Len(g))
    BY <1>11, <2>1, <2>2, <2>3 DEF Followed
  <2>5. QED
    BY <2>4 DEF A, B, C, D
<1>12. ASSUME n = WinSize
       PROVE  /\ Followed(Humidities(f), n, v.humidity, Humidities(g), Len(g))
              /\ Followed(Temperatures(f), n, v.temperature, Temperatures(g), Len(g))
  <2>1. Len(g) = n /\ g[n] = v /\ \A k \in 1 .. n - 1 : g[k] = f[k + 1]
    BY <1>1, <1>3, <1>12
  <2>2. B[n] = v.humidity /\ D[n] = v.temperature
    BY <1>1, <1>10, <1>12, <2>1
  <2>3. \A k \in 1 .. n - 1 : B[k] = A[k + 1] /\ D[k] = C[k + 1]
    BY <1>1, <1>10, <2>1
  <2>4. Followed(A, n, v.humidity, B, Len(g)) /\ Followed(C, n, v.temperature, D, Len(g))
    BY <1>12, <2>1, <2>2, <2>3 DEF Followed
  <2>5. QED
    BY <2>4 DEF A, B, C, D
<1>13. QED
  BY <1>3, <1>4, <1>5, <1>9, <1>11, <1>12 DEF n

LEMMA sensCallbackReports ==
  ASSUME Reports, sensCallback, Len(fed) <= WinSize
  PROVE  Reports' /\ Len(fed') <= WinSize
<1>1. PICK v : v = [humidity |-> sensor[sens].humidity, temperature |-> sensor[sens].temperature]
  OBVIOUS
<1>2. v \in Values /\ v.humidity = sensor[sens].humidity /\ v.temperature = sensor[sens].temperature
  BY <1>1, ApplicationAssumption DEF Reports, Values
<1>3. PICK f : f = fed
  OBVIOUS
<1>4. f \in Seq(Values) /\ Len(f) <= WinSize /\ Len(f) \in Nat
  BY <1>3 DEF Reports
<1>5. PICK g : g = Recent(Append(f, v))
  OBVIOUS
<1>6. fed' = g
  BY <1>1, <1>3, <1>5 DEF sensCallback
<1>7. /\ g \in Seq(Values) /\ g # <<>>
      /\ Followed(Humidities(f), Len(f), v.humidity, Humidities(g), Len(g))
      /\ Followed(Temperatures(f), Len(f), v.temperature, Temperatures(g), Len(g))
      /\ \A k \in 1 .. Len(g) : Humidities(g)[k] \in Plausible /\ Temperatures(g)[k] \in Plausible
  BY <1>2, <1>4, <1>5, RecentFollows
<1>8. PICK h : h = hw
  OBVIOUS
<1>9. PICK t : t = tw
  OBVIOUS
<1>10. Holds(h, Humidities(f), Len(f)) /\ Holds(t, Temperatures(f), Len(f))
  BY <1>3, <1>8, <1>9 DEF Reports
<1>11. /\ Holds(add(h, v.humidity), Humidities(g), Len(g))
       /\ Holds(add(t, v.temperature), Temperatures(g), Len(g))
  BY <1>4, <1>7, <1>10, addHolds
<1>12. /\ hw' = add(h, v.humidity) /\ tw' = add(t, v.temperature) /\ te' = tw'.v
       /\ UNCHANGED sensor
  BY <1>2, <1>8, <1>9 DEF sensCallback, callbackReturns
<1>13. Holds(hw', Humidities(g), Len(g)) /\ Holds(tw', Temperatures(g), Len(g))
  BY <1>11, <1>12
<1>14. Len(g) <= WinSize
  BY <1>4, <1>7, WinAssumption DEF Followed
<1>15. /\ fed' \in Seq(Values)
       /\ Holds(hw', Humidities(fed'), Len(fed'))
       /\ Holds(tw', Temperatures(fed'), Len(fed'))
  BY <1>6, <1>7, <1>13
<1>16. \A s \in Sensors : sensor'[s].humidity \in Plausible /\ sensor'[s].temperature \in Plausible
  BY <1>12 DEF Reports
<1>17. Reports'
  BY <1>12, <1>15, <1>16 DEF Reports
<1>18. QED
  BY <1>6, <1>14, <1>17

Fits == Reports /\ Len(fed) <= WinSize

LEMMA ReportsSame ==
  ASSUME Fits, UNCHANGED <<sensor, app>>
  PROVE  Fits'
<1>1. UNCHANGED <<sensor, fed, hw, tw, te>>
  BY DEF app
<1>2. QED
  BY <1>1 DEF Fits, Reports

LEMMA NextReports == IInv /\ Reading /\ Fits /\ [ANext]_avars => Fits'
<1> SUFFICES ASSUME IInv, Reading, Fits, [ANext]_avars PROVE Fits'
  OBVIOUS
<1>1. CASE testSens
  <2>1. UNCHANGED <<sensor, fed, hw, tw, te>>
    BY <1>1 DEF testSens, measure
  <2>2. QED
    BY <2>1 DEF Fits, Reports
<1>2. CASE sensCallback
  BY <1>2, sensCallbackReports DEF Fits
<1>3. CASE UNCHANGED app /\ done
  <2>1. Reports' /\ UNCHANGED fed
    BY <1>3, doneReports DEF Fits, app
  <2>2. QED
    BY <2>1 DEF Fits
<1>4. ASSUME UNCHANGED app, NEW s \in Sensors, MeasuresOther(s)
      PROVE  Fits'
  <2>1. UNCHANGED sensor
    BY <1>4 DEF MeasuresOther, measure
  <2>2. QED
    BY <1>4, <2>1, ReportsSame
<1>5. CASE UNCHANGED app /\ (\/ start \/ startSampling \/ acquired \/ stopSampling \/ EndOfTransfer
                             \/ finalizeAndParse \/ callbackReturns)
  <2>1. UNCHANGED sensor
    BY <1>5 DEF start, startSampling, acquired, stopSampling, EndOfTransfer, finalizeAndParse,
                callbackReturns
  <2>2. QED
    BY <1>5, <2>1, ReportsSame
<1>6. CASE UNCHANGED avars
  <2>1. UNCHANGED <<sensor, app>>
    BY <1>6 DEF avars, vars
  <2>2. QED
    BY <2>1, ReportsSame
<1>7. QED
  BY <1>1, <1>2, <1>3, <1>4, <1>5, <1>6 DEF ANext

(* The temperature that the application reports is the trimmed mean of the last values that  *)
(* its windows were given, whatever their size and however many are dropped.                 *)
THEOREM TrimmedMeansReported == ASpec => []ReportsTrimmedMean
<1>1. AInit => Fits
  <2>1. AInit => Len(fed) = 0
    BY DEF AInit
  <2>2. QED
    BY <2>1, InitReports, WinAssumption DEF Fits
<1>2. Fits => ReportsTrimmedMean
  BY ReportsAre DEF Fits
<1>3. QED
  BY <1>1, <1>2, KeepsContract, ReadingHolds, NextReports, PTL DEF ASpec
=============================================================================
