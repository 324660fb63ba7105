----------------------------- MODULE TimerProofs -----------------------------
(***************************************************************************)
(* Proofs about Timer: type correctness, and that the lists hold exactly   *)
(* the running timers, whatever the delays, modes and width of the tick.   *)
(* And, in a program that is Disciplined: the lists are sorted across the  *)
(* wrap of the tick counter, no worker sleeps past its first timer, and    *)
(* the whole implements the timer service.                                 *)
(***************************************************************************)
EXTENDS TimerInvariant, TimerListProofs

-----------------------------------------------------------------------------
(* addItem adds its timer and keeps the others. *)
LEMMA addItemProperties ==
  ASSUME NEW s \in Seq(Timers), NEW x \in Timers, NEW fire
  PROVE  /\ addItem(s, x, fire) \in Seq(Timers)
         /\ Elements(addItem(s, x, fire)) = Elements(s) \cup {x}
         /\ Distinct(s) /\ x \notin Elements(s) => Distinct(addItem(s, x, fire))
  BY InsertTimer DEF addItem

(* removeItem takes its timer out of the list, whether or not it is in it. *)
LEMMA removeItemProperties ==
  ASSUME NEW s \in Seq(Timers), Distinct(s), NEW x \in Timers
  PROVE  /\ removeItem(s, x) \in Seq(Timers)
         /\ Elements(removeItem(s, x)) = Elements(s) \ {x}
         /\ Distinct(removeItem(s, x))
  BY RemoveTimer DEF removeItem

-----------------------------------------------------------------------------
(* Ticks *)

LEMMA ModTicks == \A i \in Int : i % M \in Ticks
  BY ConstantsAssumption, CounterAssumption DEF Ticks

LEMMA TimeoutType ==
  ASSUME TypeOK, NEW l \in Levels
  PROVE  /\ getNextTimeout(l) \in Ticks \cup {Forever}
         /\ getNextTimeout(l) = 0 => list[l] # <<>>
<1>1. CASE list[l] = <<>>
  BY <1>1, ConstantsAssumption, CounterAssumption DEF getNextTimeout
<1>2. CASE list[l] # <<>>
  <2> DEFINE d == fireTime[Head(list[l])] - tick
  <2>1. d \in Int
    <3>1. Head(list[l]) \in Timers
      BY <1>2, HeadTailProperties DEF TypeOK
    <3>2. QED
      BY <3>1 DEF TypeOK, Ticks
  <2>2. d % M \in 0 .. M - 1 /\ M \in Nat \ {0}
    BY <2>1, ModTicks, ConstantsAssumption, CounterAssumption DEF Ticks
  <2>3. getNextTimeout(l) = IF Signed(d) <= 0 THEN 0 ELSE Signed(d)
    BY <1>2 DEF getNextTimeout
  <2> HIDE DEF d
  <2>4. Signed(d) = d % M \/ Signed(d) = (d % M) - M
    BY DEF Signed
  <2>5. QED
    BY <1>2, <2>2, <2>3, <2>4 DEF Ticks
<1>3. QED
  BY <1>1, <1>2

-----------------------------------------------------------------------------
(* The invariant *)

(* The running timers of level l *)
On(l) == {x \in Timers : flags[x].running /\ getLevel(x) = l}

Lists == \A l \in Levels : Distinct(list[l]) /\ Elements(list[l]) = On(l)

TimersType ==
  /\ list \in [Levels -> Seq(Timers)]
  /\ flags \in [Timers -> Flags]
  /\ fireTime \in [Timers -> Ticks]

IInv == TypeOK /\ Lists

LEMMA ListsSuffice == TypeOK /\ Lists => ListsMatchFlags
<1> SUFFICES ASSUME TypeOK, Lists, NEW l \in Levels
             PROVE  /\ \A x \in Timers : flags[x].running /\ getLevel(x) = l
                                          <=> \E k \in DOMAIN list[l] : list[l][k] = x
                    /\ \A j, k \in DOMAIN list[l] : list[l][j] = list[l][k] => j = k
  BY DEF ListsMatchFlags
<1>1. Distinct(list[l]) /\ Elements(list[l]) = On(l)
  BY DEF Lists
<1>2. \A x \in Timers : x \in On(l) <=> x \in Elements(list[l])
  BY <1>1
<1>3. QED
  BY <1>1, <1>2 DEF Distinct, Elements, On

LEMMA InitIInv == Init => IInv
<1> SUFFICES ASSUME Init PROVE IInv
  OBVIOUS
<1>1. TypeOK
  <2>1. 0 \in Ticks /\ 0 \in 0 .. M - 1 /\ 0 \in 0 .. MaxBusy
    BY ConstantsAssumption, CounterAssumption DEF Ticks
  <2>2. flags \in [Timers -> Flags] /\ fireTime \in [Timers -> Ticks]
    BY <2>1 DEF Init, Flags
  <2>3. /\ <<>> \in Seq(Timers) /\ <<>> \in Seq(Request)
    BY EmptySeq
  <2>4. list \in [Levels -> Seq(Timers)] /\ inbox \in [Levels -> Seq(Request)]
    BY <2>3 DEF Init
  <2>5. QED
    BY <2>1, <2>2, <2>4 DEF Init, TypeOK
<1>2. ASSUME NEW l \in Levels PROVE Distinct(list[l]) /\ Elements(list[l]) = On(l)
  <2>1. list[l] = <<>> /\ DOMAIN list[l] = {}
    BY <1>2 DEF Init
  <2>2. On(l) = {}
    BY DEF On, Init
  <2>3. QED
    BY <2>1, <2>2 DEF Distinct, Elements
<1>3. QED
  BY <1>1, <1>2 DEF IInv, Lists

-----------------------------------------------------------------------------
(* stop, start and what they post *)

LEMMA PostType ==
  ASSUME NEW queues \in [Levels -> Seq(Request)], NEW l \in Levels, NEW r \in Request,
         Post(queues, l, r)
  PROVE  inbox' \in [Levels -> Seq(Request)]
<1>1. Append(queues[l], r) \in Seq(Request)
  BY AppendProperties
<1>2. QED
  BY <1>1 DEF Post

LEMMA RequestTypes ==
  /\ \A x \in Timers : StopFW(x) \in Request
  /\ \A x \in Timers, time \in Ticks, m \in Mode : StartFW(x, time, m) \in Request
  /\ UserCall \in Request
<1>1. NoMode \in Mode /\ 0 \in Ticks
  BY ConstantsAssumption, CounterAssumption DEF NoMode, Mode, Ticks
<1>2. QED
  BY <1>1 DEF StopFW, StartFW, Request

LEMMA LevelTypes == \A high \in BOOLEAN : LevelOf(high) \in Levels
  BY DEF LevelOf, Levels

LEMMA stopKeeps ==
  ASSUME TypeOK, Lists, NEW l \in Levels, NEW x \in Timers,
         NEW queues \in [Levels -> Seq(Request)], stop(l, x, queues)
  PROVE  TimersType' /\ Lists' /\ inbox' \in [Levels -> Seq(Request)]
<1>1. CASE l = getLevel(x) /\ inbox' = queues /\ UNCHANGED fireTime
           /\ list' = [list EXCEPT ![l] = removeItem(@, x)]
           /\ flags' = [flags EXCEPT ![x].running = FALSE]
  <2>1. list[l] \in Seq(Timers) /\ Distinct(list[l])
    BY DEF TypeOK, Lists
  <2>2. /\ removeItem(list[l], x) \in Seq(Timers)
        /\ Elements(removeItem(list[l], x)) = Elements(list[l]) \ {x}
        /\ Distinct(removeItem(list[l], x))
    BY <2>1, removeItemProperties
  <2>3. TimersType'
    BY <1>1, <2>2, ZenonT(60) DEF TimersType, TypeOK, Flags
  <2>4. ASSUME NEW k \in Levels PROVE On(k)' = On(k) \ {x}
    BY <1>1 DEF On, getLevel, TypeOK, Flags
  <2>5. ASSUME NEW k \in Levels PROVE Distinct(list'[k]) /\ Elements(list'[k]) = On(k) \ {x}
    <3>1. CASE k = l
      BY <1>1, <2>2, <3>1 DEF TypeOK, Lists
    <3>2. CASE k # l
      <4>1. x \notin On(k)
        BY <1>1, <3>2 DEF On
      <4>2. list'[k] = list[k]
        BY <1>1, <3>2 DEF TypeOK
      <4>3. QED
        BY <4>1, <4>2 DEF Lists
    <3>3. QED
      BY <3>1, <3>2
  <2>6. QED
    BY <1>1, <2>3, <2>4, <2>5 DEF Lists
<1>2. CASE Post(queues, getLevel(x), StopFW(x)) /\ UNCHANGED timers
  <2>1. TimersType' /\ Lists'
    BY <1>2 DEF timers, TimersType, TypeOK, Lists, On, getLevel
  <2>2. getLevel(x) \in Levels
    BY LevelTypes DEF getLevel, TypeOK, Flags
  <2>3. QED
    BY <1>2, <2>1, <2>2, PostType, RequestTypes
<1>3. QED
  BY <1>1, <1>2 DEF stop

(* The lists when start has taken its timer out of the one it was in. *)
Without(l, x) == IF flags[x].running THEN [list EXCEPT ![l] = removeItem(@, x)] ELSE list

LEMMA WithoutProperties ==
  ASSUME TypeOK, Lists, NEW x \in Timers, NEW l \in Levels, l = getLevel(x)
  PROVE  /\ Without(l, x) \in [Levels -> Seq(Timers)]
         /\ \A k \in Levels : Distinct(Without(l, x)[k]) /\ Elements(Without(l, x)[k]) = On(k) \ {x}
<1>1. list[l] \in Seq(Timers) /\ Distinct(list[l])
  BY DEF TypeOK, Lists
<1>2. /\ removeItem(list[l], x) \in Seq(Timers)
      /\ Elements(removeItem(list[l], x)) = Elements(list[l]) \ {x}
      /\ Distinct(removeItem(list[l], x))
  BY <1>1, removeItemProperties
<1>3. Without(l, x) \in [Levels -> Seq(Timers)]
  BY <1>2 DEF TypeOK, Without
<1>4. ASSUME NEW k \in Levels
      PROVE  Distinct(Without(l, x)[k]) /\ Elements(Without(l, x)[k]) = On(k) \ {x}
  <2>1. CASE k = l /\ flags[x].running
    <3>1. Without(l, x)[k] = removeItem(list[l], x)
      BY <2>1 DEF TypeOK, Without
    <3>2. QED
      BY <1>2, <2>1, <3>1 DEF Lists
  <2>2. CASE ~(k = l /\ flags[x].running)
    <3>1. x \notin On(k)
      BY <2>2 DEF On
    <3>2. Without(l, x)[k] = list[k]
      BY <2>2 DEF TypeOK, Without
    <3>3. QED
      BY <3>1, <3>2 DEF Lists
  <2>3. QED
    BY <2>1, <2>2
<1>5. QED
  BY <1>3, <1>4

(* A start has flags that are well formed, of the level it links the timer to. *)
LEMMA RunningFlagsType ==
  ASSUME NEW time \in Ticks, NEW m \in Mode
  PROVE  /\ RunningFlags(time, m) \in Flags /\ RunningFlags(time, m).running
         /\ NewLevel(time, m) = LevelOf(RunningFlags(time, m).high)
         /\ NewLevel(time, m) \in Levels
<1>1. IntervalBits[time] \in 0 .. M - 1
  BY ConstantsAssumption
<1>2. RunningFlags(time, m) \in Flags /\ RunningFlags(time, m).running
  BY <1>1 DEF RunningFlags, Flags, Mode
<1>3. QED
  BY <1>2, LevelTypes DEF NewLevel, Flags

LEMMA startKeeps ==
  ASSUME TypeOK, Lists, NEW l \in Levels, NEW x \in Timers,
         NEW time \in Ticks, NEW m \in Mode,
         NEW queues \in [Levels -> Seq(Request)], start(l, x, time, m, queues)
  PROVE  TimersType' /\ Lists' /\ inbox' \in [Levels -> Seq(Request)]
<1> DEFINE without == Without(l, x)
           to == NewLevel(time, m)
<1>0. to \in Levels
  BY RunningFlagsType
<1>1. CASE l = getLevel(x) /\ inbox' = queues
           /\ flags' = [flags EXCEPT ![x] = RunningFlags(time, m)]
           /\ fireTime' = [fireTime EXCEPT ![x] = time]
           /\ list' = [without EXCEPT ![to] = addItem(@, x, fireTime')]
  <2>3. without \in [Levels -> Seq(Timers)]
    BY <1>1, WithoutProperties
  <2>4. ASSUME NEW k \in Levels
        PROVE  Distinct(without[k]) /\ Elements(without[k]) = On(k) \ {x}
    BY <1>1, WithoutProperties
  <2> HIDE DEF without
  <2>5. /\ RunningFlags(time, m) \in Flags /\ RunningFlags(time, m).running
        /\ to = LevelOf(RunningFlags(time, m).high)
    BY RunningFlagsType
  <2>6. /\ addItem(without[to], x, fireTime') \in Seq(Timers)
        /\ Elements(addItem(without[to], x, fireTime')) = (On(to) \ {x}) \cup {x}
        /\ Distinct(addItem(without[to], x, fireTime'))
    <3>1. /\ without[to] \in Seq(Timers) /\ Distinct(without[to])
          /\ Elements(without[to]) = On(to) \ {x}
      BY <1>0, <2>3, <2>4
    <3>2. QED
      BY <3>1, addItemProperties
  <2> HIDE DEF to
  <2>7. TimersType'
    BY <1>0, <1>1, <2>3, <2>5, <2>6 DEF TimersType, TypeOK
  <2>8. ASSUME NEW k \in Levels
        PROVE  On(k)' = IF k = to THEN (On(k) \ {x}) \cup {x} ELSE On(k) \ {x}
    BY <1>1, <2>5 DEF On, getLevel, TypeOK
  <2>9. ASSUME NEW k \in Levels
        PROVE  Distinct(list'[k]) /\ Elements(list'[k]) = On(k)'
    BY <1>0, <1>1, <2>3, <2>4, <2>6, <2>8
  <2>10. QED
    BY <1>1, <2>7, <2>9 DEF Lists
<1>2. CASE Post(queues, getLevel(x), StartFW(x, time, m)) /\ UNCHANGED timers
  <2>1. TimersType' /\ Lists'
    BY <1>2 DEF timers, TimersType, TypeOK, Lists, On, getLevel
  <2>2. getLevel(x) \in Levels
    BY LevelTypes DEF getLevel, TypeOK, Flags
  <2>3. QED
    BY <1>2, <2>1, <2>2, PostType, RequestTypes
<1>3. QED
  BY <1>1, <1>2 DEF start, Without

-----------------------------------------------------------------------------
(* Each step keeps the invariant. *)

ControlType ==
  /\ tick \in Ticks
  /\ pc \in [Levels -> {"poll", "receive", "sleep", "execute", "callback"}]
  /\ timeout \in [Levels -> Ticks \cup {Forever}]
  /\ current \in [Levels -> Timers \cup {Nothing}]
  /\ posted \in BOOLEAN
  /\ busy \in 0 .. MaxBusy

LEMMA TypeParts ==
  TypeOK <=> TimersType /\ ControlType /\ inbox \in [Levels -> Seq(Request)]
BY DEF TypeOK, TimersType, ControlType

LEMMA NextParts ==
  TimersType' /\ Lists' /\ ControlType' /\ inbox' \in [Levels -> Seq(Request)] => IInv'
BY DEF IInv, TypeOK, TimersType, ControlType

LEMMA SameTimers == TypeOK /\ Lists /\ UNCHANGED timers => TimersType' /\ Lists'
BY DEF timers, TimersType, TypeOK, Lists, On, getLevel

LEMMA ProgramKeeps == IInv /\ Program => IInv'
<1> SUFFICES ASSUME IInv, Program PROVE IInv'
  OBVIOUS
<1> USE DEF IInv
<1>1. ASSUME NEW l \in Levels, NEW x \in Timers, Start(l, x) PROVE IInv'
  <2>1. PICK d \in Delays, m \in Modes[x] : start(l, x, calcAbsoluteTime(d), m, inbox)
    BY <1>1 DEF Start
  <2>2. calcAbsoluteTime(d) \in Ticks /\ m \in Mode
    <3>1. tick + d \in Int
      BY ConstantsAssumption, CounterAssumption DEF TypeOK, Ticks
    <3>2. QED
      BY <3>1, ModTicks, ConstantsAssumption, CounterAssumption DEF calcAbsoluteTime
  <2>3. TimersType' /\ Lists' /\ inbox' \in [Levels -> Seq(Request)]
    BY <2>1, <2>2, startKeeps DEF TypeOK
  <2>4. ControlType'
    BY <1>1, TypeParts DEF Start, ControlType, control
  <2>5. QED
    BY <2>3, <2>4, NextParts
<1>2. ASSUME NEW l \in Levels, NEW x \in Timers, StartContinuos(l, x) PROVE IInv'
  <2>1. PICK d \in Delays, m \in Modes[x] : start(l, x, (fireTime[x] + d) % M, m, inbox)
    BY <1>2 DEF StartContinuos
  <2>2. (fireTime[x] + d) % M \in Ticks /\ m \in Mode
    <3>1. fireTime[x] + d \in Int
      BY ConstantsAssumption, CounterAssumption DEF TypeOK, Ticks
    <3>2. QED
      BY <3>1, ModTicks, ConstantsAssumption, CounterAssumption
  <2>3. TimersType' /\ Lists' /\ inbox' \in [Levels -> Seq(Request)]
    BY <2>1, <2>2, startKeeps DEF TypeOK
  <2>4. ControlType'
    BY <1>2, TypeParts DEF StartContinuos, ControlType, control
  <2>5. QED
    BY <2>3, <2>4, NextParts
<1>3. ASSUME NEW l \in Levels, NEW x \in Timers, Stop(l, x) PROVE IInv'
  <2>1. TimersType' /\ Lists' /\ inbox' \in [Levels -> Seq(Request)]
    BY <1>3, stopKeeps DEF Stop, TypeOK
  <2>2. ControlType'
    BY <1>3, TypeParts DEF Stop, ControlType, control
  <2>3. QED
    BY <2>1, <2>2, NextParts
<1>4. ASSUME NEW l \in Levels, NEW r \in Request, FromISR(l, r) PROVE IInv'
  <2>1. TimersType' /\ Lists'
    BY <1>4, SameTimers DEF FromISR
  <2>2. inbox' \in [Levels -> Seq(Request)]
    BY <1>4, PostType DEF FromISR, TypeOK
  <2>3. ControlType'
    BY <1>4, TypeParts DEF FromISR, ControlType, control
  <2>4. QED
    BY <2>1, <2>2, <2>3, NextParts
<1>5. ASSUME NEW x \in Timers, startFromISR(x) PROVE IInv'
  <2>1. PICK d \in Delays, m \in Modes[x] :
          FromISR(getLevel(x), StartFW(x, calcAbsoluteTime(d), m))
    BY <1>5 DEF startFromISR
  <2>2. calcAbsoluteTime(d) \in Ticks /\ m \in Mode
    <3>1. tick + d \in Int
      BY ConstantsAssumption, CounterAssumption DEF TypeOK, Ticks
    <3>2. QED
      BY <3>1, ModTicks, ConstantsAssumption, CounterAssumption DEF calcAbsoluteTime
  <2>3. getLevel(x) \in Levels
    BY LevelTypes DEF getLevel, TypeOK, Flags
  <2>4. QED
    BY <2>1, <2>2, <2>3, <1>4, RequestTypes
<1>6. ASSUME NEW l \in Levels, CallFromISR(l) PROVE IInv'
  BY <1>4, <1>6, RequestTypes DEF CallFromISR
<1>7. QED
  BY <1>1, <1>2, <1>3, <1>5, <1>6 DEF Program

LEMMA ReceiveKeeps ==
  ASSUME IInv, NEW l \in Levels, Receive(l)
  PROVE  IInv'
<1> USE DEF IInv
<1> DEFINE r    == Head(inbox[l])
           rest == [inbox EXCEPT ![l] = Tail(@)]
<1>1. r \in Request /\ rest \in [Levels -> Seq(Request)]
  <2>1. inbox[l] \in Seq(Request) /\ inbox[l] # <<>>
    BY DEF Receive, TypeOK
  <2>2. r \in Request /\ Tail(inbox[l]) \in Seq(Request)
    BY <2>1, HeadTailProperties
  <2>3. QED
    BY <2>2 DEF TypeOK
<1>2. \/ r.op = "start" /\ start(l, r.timer, r.time, r.mode, rest)
      \/ r.op = "stop" /\ stop(l, r.timer, rest)
      \/ r.op = "call" /\ inbox' = rest /\ UNCHANGED timers
  BY DEF Receive
<1> HIDE DEF r, rest
<1>3. ControlType'
  BY TypeParts DEF Receive, ControlType
<1>4. r.op # "call" => r.timer \in Timers /\ r.time \in Ticks /\ r.mode \in Mode
  BY <1>1 DEF Request, UserCall
<1>5. CASE r.op = "start" /\ start(l, r.timer, r.time, r.mode, rest)
  BY <1>1, <1>3, <1>4, <1>5, startKeeps, NextParts
<1>6. CASE r.op = "stop" /\ stop(l, r.timer, rest)
  BY <1>1, <1>3, <1>4, <1>6, stopKeeps, NextParts
<1>7. CASE r.op = "call" /\ inbox' = rest /\ UNCHANGED timers
  BY <1>1, <1>3, <1>7, SameTimers, NextParts
<1>8. QED
  BY <1>2, <1>5, <1>6, <1>7

(***************************************************************************)
(* The timer that fires is put back, or is no longer running, in the same  *)
(* step as it is taken off its list.                                       *)
(***************************************************************************)
LEMMA executeKeeps ==
  ASSUME IInv, NEW l \in Levels, execute(l)
  PROVE  IInv'
<1> USE DEF IInv
<1> DEFINE x    == Head(list[l])
           next == (fireTime[x] + flags[x].interval) % M
<1>1. inbox' \in [Levels -> Seq(Request)]
  BY DEF execute, TypeOK
<1>2. CASE UNCHANGED <<timers, current>> /\ pc' = [pc EXCEPT ![l] = "poll"]
  <2>1. ControlType'
    BY <1>2, TypeParts DEF execute, ControlType
  <2>2. QED
    BY <1>1, <1>2, <2>1, SameTimers, NextParts
<1>3. CASE /\ getNextTimeout(l) = 0
           /\ pc' = [pc EXCEPT ![l] = "callback"]
           /\ current' = [current EXCEPT ![l] = x]
           /\ \/ /\ flags[x].repeat
                 /\ fireTime' = [fireTime EXCEPT ![x] = next]
                 /\ list' = [list EXCEPT ![l] = addItem(Tail(@), x, fireTime')]
                 /\ UNCHANGED flags
              \/ /\ ~flags[x].repeat
                 /\ list' = [list EXCEPT ![l] = Tail(@)]
                 /\ flags' = [flags EXCEPT ![x].running = FALSE]
                 /\ UNCHANGED fireTime
  <2>1. list[l] \in Seq(Timers) /\ list[l] # <<>> /\ Distinct(list[l])
    BY <1>3, TimeoutType DEF TypeOK, Lists
  <2>2. /\ x \in On(l) /\ x \in Timers /\ Tail(list[l]) \in Seq(Timers)
        /\ Elements(Tail(list[l])) = On(l) \ {x} /\ Distinct(Tail(list[l]))
    BY <2>1, TailProperties DEF Lists
  <2>3. next \in Ticks
    <3>1. fireTime[x] + flags[x].interval \in Int
      <4>1. fireTime[x] \in Ticks /\ flags[x].interval \in 0 .. M - 1
        BY <2>2 DEF TypeOK, Flags
      <4>2. QED
        BY <4>1, CounterAssumption DEF Ticks
    <3>2. QED
      BY <3>1, ModTicks
  <2>4. flags[x].running /\ getLevel(x) = l
    BY <2>2 DEF On
  <2>5. ControlType'
    BY <1>3, <2>2, TypeParts DEF execute, ControlType
  <2> HIDE DEF x, next
  <2>6. CASE /\ fireTime' = [fireTime EXCEPT ![x] = next]
             /\ list' = [list EXCEPT ![l] = addItem(Tail(@), x, fireTime')]
             /\ UNCHANGED flags
    <3>1. /\ addItem(Tail(list[l]), x, fireTime') \in Seq(Timers)
          /\ Elements(addItem(Tail(list[l]), x, fireTime')) = On(l)
          /\ Distinct(addItem(Tail(list[l]), x, fireTime'))
      <4>1. /\ addItem(Tail(list[l]), x, fireTime') \in Seq(Timers)
            /\ Elements(addItem(Tail(list[l]), x, fireTime')) = (On(l) \ {x}) \cup {x}
            /\ Distinct(addItem(Tail(list[l]), x, fireTime'))
        BY <2>2, addItemProperties
      <4>2. QED
        BY <2>2, <4>1
    <3>2. TimersType'
      BY <2>2, <2>3, <2>6, <3>1 DEF TypeOK, TimersType
    <3>3. ASSUME NEW k \in Levels PROVE On(k)' = On(k)
      BY <2>6 DEF On, getLevel
    <3>4. ASSUME NEW k \in Levels PROVE Distinct(list'[k]) /\ Elements(list'[k]) = On(k)
      BY <2>6, <3>1 DEF TypeOK, Lists
    <3>5. QED
      BY <1>1, <2>5, <3>2, <3>3, <3>4, NextParts DEF Lists
  <2>7. CASE /\ list' = [list EXCEPT ![l] = Tail(@)]
             /\ flags' = [flags EXCEPT ![x].running = FALSE]
             /\ UNCHANGED fireTime
    <3>1. TimersType'
      BY <2>2, <2>7, ZenonT(60) DEF TypeOK, TimersType, Flags
    <3>2. ASSUME NEW k \in Levels PROVE On(k)' = On(k) \ {x}
      BY <2>2, <2>7 DEF On, getLevel, TypeOK, Flags
    <3>3. ASSUME NEW k \in Levels PROVE Distinct(list'[k]) /\ Elements(list'[k]) = On(k) \ {x}
      <4>1. CASE k = l
        BY <2>2, <2>7, <4>1 DEF TypeOK
      <4>2. CASE k # l
        <5>1. x \notin On(k)
          BY <2>4, <4>2 DEF On
        <5>2. list'[k] = list[k]
          BY <2>7, <4>2 DEF TypeOK
        <5>3. QED
          BY <5>1, <5>2 DEF Lists
      <4>3. QED
        BY <4>1, <4>2
    <3>4. QED
      BY <1>1, <2>5, <3>1, <3>2, <3>3, NextParts DEF Lists
  <2>8. QED
    BY <1>3, <2>6, <2>7 DEF x, next
<1>4. QED
  BY <1>2, <1>3 DEF execute

LEMMA MainLoopKeeps == IInv /\ MainLoop => IInv'
<1> SUFFICES ASSUME IInv, NEW l \in Levels,
                    Poll(l) \/ Sleep(l) \/ TimeOut(l) \/ Receive(l) \/ execute(l) \/ Return(l)
             PROVE  IInv'
  BY DEF MainLoop
<1>1. ASSUME UNCHANGED <<timers, inbox>>, ControlType' PROVE IInv'
  BY <1>1, SameTimers, NextParts DEF IInv, TypeOK
<1>2. CASE Poll(l)
  <2>1. ControlType'
    BY <1>2, TypeParts, TimeoutType DEF Poll, ControlType, IInv
  <2>2. QED
    BY <1>1, <1>2, <2>1 DEF Poll
<1>3. CASE Sleep(l)
  <2>1. ControlType'
    BY <1>3, TypeParts DEF Sleep, ControlType, IInv
  <2>2. QED
    BY <1>1, <1>3, <2>1 DEF Sleep
<1>4. CASE TimeOut(l)
  <2>1. ControlType'
    BY <1>4, TypeParts DEF TimeOut, ControlType, IInv
  <2>2. QED
    BY <1>1, <1>4, <2>1 DEF TimeOut
<1>5. CASE Return(l)
  <2>1. ControlType'
    BY <1>5, TypeParts DEF Return, ControlType, IInv
  <2>2. QED
    BY <1>1, <1>5, <2>1 DEF Return
<1>6. QED
  BY <1>2, <1>3, <1>4, <1>5, ReceiveKeeps, executeKeeps

LEMMA TickKeeps == IInv /\ Tick => IInv'
<1> SUFFICES ASSUME IInv, Tick PROVE IInv'
  OBVIOUS
<1>1. ControlType
  BY TypeParts DEF IInv
<1>2. tick' \in Ticks
  <2>1. tick + 1 \in Int
    BY <1>1 DEF ControlType, Ticks
  <2>2. QED
    BY <2>1, ModTicks DEF Tick
<1>3. busy' \in 0 .. MaxBusy
  BY <1>1, ConstantsAssumption, CounterAssumption DEF Tick, ControlType
<1>4. timeout' \in [Levels -> Ticks \cup {Forever}]
  <2>1. \A t \in Ticks : t # 0 => t - 1 \in Ticks
    BY ConstantsAssumption, CounterAssumption DEF Ticks
  <2>2. QED
    BY <1>1, <2>1 DEF Tick, ControlType
<1>5. ControlType'
  BY <1>1, <1>2, <1>3, <1>4 DEF Tick, ControlType
<1>6. TimersType' /\ Lists' /\ inbox' \in [Levels -> Seq(Request)]
  BY SameTimers DEF Tick, IInv, TypeOK
<1>7. QED
  BY <1>5, <1>6, NextParts

LEMMA NextKeeps == IInv /\ [Next]_vars => IInv'
<1> SUFFICES ASSUME IInv, [Next]_vars PROVE IInv'
  OBVIOUS
<1>1. CASE UNCHANGED vars
  <2>1. ControlType'
    BY <1>1, TypeParts DEF IInv, ControlType, vars
  <2>2. TimersType' /\ Lists' /\ inbox' \in [Levels -> Seq(Request)]
    BY <1>1, SameTimers DEF IInv, TypeOK, vars, timers
  <2>3. QED
    BY <2>1, <2>2, NextParts
<1>2. QED
  BY <1>1, ProgramKeeps, MainLoopKeeps, TickKeeps DEF Next

THEOREM InvariantHolds == Spec => []IInv
  BY InitIInv, NextKeeps, PTL DEF Spec

-----------------------------------------------------------------------------
(* The variables of timer.cpp and worker.cpp have their types in every     *)
(* state, for all delays, modes and widths of the tick counter.            *)
THEOREM TypeCorrect == Spec => []TypeOK
<1>1. IInv => TypeOK
  BY DEF IInv
<1>2. QED
  BY <1>1, InvariantHolds, PTL

(* Whatever timers are started, moved to the other level, stopped or fire, *)
(* in whatever order their requests arrive, each running timer is in the   *)
(* list of its level once and in no other: addItem, removeItem and execute *)
(* never leave a timer linked that is not running.                         *)
THEOREM TimersAreListed == Spec => []ListsMatchFlags
<1>1. IInv => ListsMatchFlags
  BY ListsSuffice DEF IInv
<1>2. QED
  BY <1>1, InvariantHolds, PTL

-----------------------------------------------------------------------------
(* Times that can be compared *)

Near(d) == -MaxLate <= d /\ Ahead(d)

LEMMA Bounds ==
  ASSUME Ahead(0)
  PROVE  /\ MaxBusy \in Nat /\ MaxLate \in Nat /\ MaxLate = MaxBusy + MaxBusy /\ MaxLate < Half
         /\ \A d \in Int : Ahead(d) <=> d + MaxLate < Half
  BY HalfOfM, ConstantsAssumption DEF Ahead, MaxLate

LEMMA NearProperties ==
  ASSUME Ahead(0)
  PROVE  /\ \A d \in Int : Near(d) => d \in -Half .. Half - 1
         /\ \A d, e \in Int : Near(d) /\ Near(e) => d - e \in -Half .. Half - 1
<1> HIDE DEF Ahead, MaxLate
<1>1. QED
  BY Bounds, HalfOfM DEF Near

(* addItem compares times of the ring; what it builds is sorted by the time left. *)
LEMMA addItemSorted ==
  ASSUME NEW s \in Seq(Timers), NEW x \in Timers,
         NEW fire \in [Timers -> Ticks], NEW t \in Ticks, Ahead(0),
         Sorted(s, LeftAt(fire, t)),
         \A y \in Elements(s) \cup {x} : Near(LeftAt(fire, t)[y])
  PROVE  Sorted(addItem(s, x, fire), LeftAt(fire, t))
<1>1. \A y \in Elements(s) \cup {x} : LeftAt(fire, t)[y] \in Int
  BY LeftAtType, ElementTypes
<1>2. \A y \in Elements(s) : LeftAt(fire, t)[y] - LeftAt(fire, t)[x] \in -Half .. Half - 1
  BY <1>1, NearProperties
<1>3. QED
  BY <1>2, InsertByTime DEF addItem

-----------------------------------------------------------------------------
(* The invariant in terms of LeftAt *)

SortedLists == \A l \in Levels : Sorted(list[l], LeftAt(fireTime, tick))

LEMMA LeftType ==
  ASSUME TypeOK
  PROVE  \A x \in Timers : Left(x) \in Int /\ LeftAt(fireTime, tick)[x] = Left(x)
<1>1. LeftAt(fireTime, tick) \in [Timers -> Int]
  BY LeftAtType DEF TypeOK
<1>2. QED
  BY <1>1 DEF LeftAt, Left

LEMMA SortedListsSuffice == TypeOK => (ListsSorted <=> SortedLists)
<1> SUFFICES ASSUME TypeOK PROVE ListsSorted <=> SortedLists
  OBVIOUS
<1>1. ASSUME NEW l \in Levels, NEW j \in DOMAIN list[l]
      PROVE  LeftAt(fireTime, tick)[list[l][j]] = Left(list[l][j])
  <2>1. list[l] \in Seq(Timers)
    BY DEF TypeOK
  <2>2. list[l][j] \in Timers
    BY <2>1, ElementOfSeq, LenProperties
  <2>3. QED
    BY <2>2, LeftType
<1>2. QED
  BY <1>1 DEF ListsSorted, SortedLists, Sorted

LEMMA InSightNear ==
  ASSUME Ahead(0), TypeOK, NEW t \in Ticks, InSight(t)
  PROVE  Signed(t - tick) \in Int /\ Near(Signed(t - tick))
<1> HIDE DEF Ahead, MaxLate
<1>1. t - tick \in Int
  BY CounterAssumption DEF TypeOK, Ticks
<1>2. Signed(t - tick) \in Int
  BY <1>1, SignedType, HalfOfM
<1>3. busy \in 0 .. MaxBusy
  BY DEF TypeOK
<1>4. QED
  BY <1>2, <1>3, Bounds DEF InSight, Near

LEMMA RunningNear ==
  ASSUME Ahead(0), TypeOK, TimesInSight, NEW x \in Timers, flags[x].running
  PROVE  Near(Left(x))
  BY InSightNear DEF TimesInSight, Left, TypeOK

-----------------------------------------------------------------------------
(* Starting a timer on its own level *)

startHere(l, x, time, m, queues) ==
  /\ l = getLevel(x)
  /\ flags' = [flags EXCEPT ![x] = RunningFlags(time, m)]
  /\ fireTime' = [fireTime EXCEPT ![x] = time]
  /\ list' = [Without(l, x) EXCEPT ![NewLevel(time, m)] = addItem(@, x, fireTime')]
  /\ inbox' = queues

startThere(l, x, time, m, queues) ==
  /\ l # getLevel(x)
  /\ Post(queues, getLevel(x), StartFW(x, time, m))
  /\ UNCHANGED timers

LEMMA startCases ==
  ASSUME NEW l, NEW x, NEW time, NEW m, NEW queues, start(l, x, time, m, queues)
  PROVE  startHere(l, x, time, m, queues) \/ startThere(l, x, time, m, queues)
  BY DEF start, startHere, startThere, Without

LEMMA startHereSorted ==
  ASSUME Ahead(0), TypeOK, Lists, SortedLists, TimesInSight,
         NEW l \in Levels, NEW x \in Timers, NEW time \in Ticks, NEW m \in Mode, NEW queues,
         InSight(time), startHere(l, x, time, m, queues)
  PROVE  \A k \in Levels : Sorted(list'[k], LeftAt(fireTime', tick))
<1> DEFINE K == LeftAt(fireTime, tick)
           N == LeftAt(fireTime', tick)
           to == NewLevel(time, m)
<1>1. fireTime \in [Timers -> Ticks] /\ fireTime' \in [Timers -> Ticks] /\ tick \in Ticks
  BY DEF TypeOK, startHere
<1>2. K \in [Timers -> Int] /\ N \in [Timers -> Int]
  BY <1>1, LeftAtType
<1>3. /\ \A y \in Timers \ {x} : N[y] = K[y]
      /\ \A y \in Timers : K[y] = Left(y)
      /\ N[x] = Signed(time - tick)
  BY <1>1 DEF LeftAt, Left, startHere
<1>4. \A y \in Timers : flags[y].running => Near(K[y])
  BY <1>3, RunningNear
<1>5. Near(N[x])
  BY <1>3, InSightNear
<1> HIDE DEF K, N
<1>6. /\ Without(l, x) \in [Levels -> Seq(Timers)]
      /\ \A k \in Levels : Elements(Without(l, x)[k]) = On(k) \ {x}
  BY WithoutProperties DEF startHere
<1>7. ASSUME NEW k \in Levels PROVE Sorted(Without(l, x)[k], N)
  <2>1. list \in [Levels -> Seq(Timers)] /\ Sorted(list[k], K)
    BY DEF TypeOK, SortedLists, K
  <2>2. Sorted(removeItem(list[k], x), K)
    BY <1>2, <2>1, RemoveTimerSorted DEF removeItem
  <2>3. Without(l, x)[k] = list[k] \/ Without(l, x)[k] = removeItem(list[k], x)
    BY <2>1 DEF Without
  <2>4. Sorted(Without(l, x)[k], K)
    BY <2>1, <2>2, <2>3
  <2>5. \A y \in Elements(Without(l, x)[k]) : K[y] = N[y]
    BY <1>3, <1>6 DEF On
  <2>6. QED
    BY <2>4, <2>5, SortedSame
<1>8. to \in Levels
  BY RunningFlagsType
<1> HIDE DEF to
<1>9. Sorted(addItem(Without(l, x)[to], x, fireTime'), N)
  <2>1. \A y \in Elements(Without(l, x)[to]) \cup {x} : Near(N[y])
    BY <1>3, <1>4, <1>5, <1>6, <1>8 DEF On
  <2>2. Without(l, x)[to] \in Seq(Timers) /\ Sorted(Without(l, x)[to], N)
    BY <1>6, <1>7, <1>8
  <2>3. QED
    BY <1>1, <2>1, <2>2, addItemSorted DEF N
<1>10. ASSUME NEW k \in Levels PROVE Sorted(list'[k], N)
  <2>1. list'[k] = IF k = to THEN addItem(Without(l, x)[to], x, fireTime') ELSE Without(l, x)[k]
    BY <1>6, <1>8 DEF startHere, to
  <2>2. QED
    BY <1>7, <1>9, <2>1
<1>11. QED
  BY <1>10 DEF N

-----------------------------------------------------------------------------
(* Start and stop keep the invariant. *)

(* Worker l executes a function, with these calls in the queues before it. *)
Calls(l, queues) ==
  /\ UNCHANGED <<tick, busy, current>>
  /\ queues \in [Levels -> Seq(Request)]
  /\ \A k \in Levels : Elements(queues[k]) \subseteq Waiting(k)
  /\ pc'[l] \notin {"receive", "sleep"}
  /\ \A k \in Levels \ {l} : pc'[k] = pc[k] /\ timeout'[k] = timeout[k]
  /\ CurrentInCallback'
  /\ l = "high" => queues["low"] = <<>>

LEMMA PostElements ==
  ASSUME NEW queues \in [Levels -> Seq(Request)], NEW l \in Levels, NEW r \in Request,
         Post(queues, l, r)
  PROVE  \A k \in Levels :
           Waiting(k)' = IF k = l THEN Elements(queues[k]) \cup {r} ELSE Elements(queues[k])
<1>1. ASSUME NEW k \in Levels
      PROVE  Waiting(k)' = IF k = l THEN Elements(queues[k]) \cup {r} ELSE Elements(queues[k])
  <2>1. inbox'[k] = IF k = l THEN Append(queues[k], r) ELSE queues[k]
    BY DEF Post
  <2>2. Waiting(k)' = Elements(inbox'[k])
    BY DEF Waiting, Elements
  <2>3. Elements(Append(queues[k], r)) = Elements(queues[k]) \cup {r}
    BY AppendElements
  <2>4. QED
    BY <2>1, <2>2, <2>3
<1>2. QED
  BY <1>1

(* A call that waited still is as it should be. *)
LEMMA RequestStays ==
  ASSUME StartRequests, NEW l \in Levels, NEW queues, Calls(l, queues),
         NEW k \in Levels, NEW r \in Elements(queues[k]), r.op = "start",
         flags'[r.timer].high \/ ~flags[r.timer].high
  PROVE  StartRequest(k, r)'
<1>1. StartRequest(k, r)
  BY DEF Calls, StartRequests
<1>2. InSight(r.time)'
  BY <1>1 DEF StartRequest, InSight, Calls
<1>3. CASE l = "high"
  <2>1. k # "low"
    BY <1>3 DEF Calls, Elements
  <2>2. QED
    BY <1>1, <1>2, <2>1 DEF StartRequest
<1>4. CASE l = "low"
  <2>1. pc'["high"] = pc["high"]
    BY <1>4 DEF Calls, Levels
  <2>2. QED
    BY <1>1, <1>2, <2>1 DEF StartRequest
<1>5. QED
  BY <1>3, <1>4 DEF Levels

(* A worker that does not act sleeps as it did. *)
LEMMA OthersSleep ==
  ASSUME TypeOK, Lists, TimeoutsInTime, NEW l \in Levels, NEW queues, Calls(l, queues),
         \A k \in Levels \ {l} : pc[k] # "callback" =>
           /\ list'[k] = list[k]
           /\ \A y \in On(k) : fireTime'[y] = fireTime[y]
  PROVE  TimeoutsInTime'
<1> SUFFICES ASSUME NEW k \in Levels, list'[k] # <<>>, pc'[k] \in {"receive", "sleep"}
             PROVE  /\ pc'[k] = "receive" => timeout'[k] # Forever /\ timeout'[k] <= Left(Head(list[k]))' + busy'
                    /\ pc'[k] = "sleep" => /\ timeout'[k] # Forever
                                           /\ timeout'[k] # 0 => timeout'[k] <= Left(Head(list[k]))' + MaxBusy
  BY DEF TimeoutsInTime
<1>1. k # l /\ pc'[k] = pc[k] /\ timeout'[k] = timeout[k] /\ tick' = tick /\ busy' = busy
  BY DEF Calls
<1>2. list'[k] = list[k] /\ \A y \in On(k) : fireTime'[y] = fireTime[y]
  BY <1>1
<1>3. Head(list[k]) \in On(k)
  <2>1. list[k] \in Seq(Timers) /\ list[k] # <<>> /\ Elements(list[k]) = On(k)
    BY <1>2 DEF TypeOK, Lists
  <2>2. QED
    BY <2>1, TailElements
<1>4. Left(Head(list[k]))' = Left(Head(list[k]))
  BY <1>1, <1>2, <1>3 DEF Left
<1>5. QED
  BY <1>1, <1>2, <1>4 DEF TimeoutsInTime

LEMMA SortedListsNext == TypeOK' => (ListsSorted' <=> SortedLists')
  BY SortedListsSuffice, PTL

LEMMA startOrders ==
  ASSUME Disciplined, IInv, IInv', OrderInv,
         NEW l \in Levels, NEW x \in Timers, NEW time \in Ticks, NEW m \in Modes[x], NEW queues,
         InSight(time), start(l, x, time, m, queues), Calls(l, queues),
         l = "low" /\ m.high /\ ~flags[x].high => pc["high"] = "callback",
         l = "high" /\ ~flags[x].high => pc'["high"] = "callback"
  PROVE  OrderInv'
<1>1. m \in Mode /\ Ahead(0) /\ tick' = tick /\ busy' = busy /\ current' = current
  BY ConstantsAssumption DEF Disciplined, Calls
<1>2. /\ TypeOK /\ Lists /\ SortedLists /\ TimesInSight /\ StartRequests /\ HighStaysHigh
      /\ RepeatingTimers /\ TimeoutsInTime
  BY SortedListsSuffice DEF IInv, OrderInv
<1>3. \A t : InSight(t)' <=> InSight(t)
  BY <1>1 DEF InSight
<1>4. CurrentInCallback'
  BY DEF Calls
<1>5. CASE startHere(l, x, time, m, queues)
  <2>1. ListsSorted'
    <3>1. \A k \in Levels : Sorted(list'[k], LeftAt(fireTime', tick))
      BY <1>1, <1>2, <1>5, startHereSorted
    <3>2. SortedLists'
      BY <1>1, <3>1 DEF SortedLists
    <3>3. QED
      BY <3>2, SortedListsNext DEF IInv
  <2>2. /\ flags' = [flags EXCEPT ![x] = RunningFlags(time, m)]
        /\ fireTime' = [fireTime EXCEPT ![x] = time]
        /\ l = getLevel(x)
    BY <1>5 DEF startHere
  <2>3. flags'[x].high = m.high /\ flags'[x] = RunningFlags(time, m) /\ NewLevel(time, m) = LevelOf(m.high)
    <3>1. m.repeat => m.interval # 0
      BY <1>1 DEF Disciplined
    <3>2. RunningFlags(time, m).high = m.high
      BY <1>1, <3>1, ConstantsAssumption DEF RunningFlags, Mode
    <3>3. QED
      BY <1>2, <2>2, <3>2 DEF NewLevel, TypeOK
  <2>4. TimesInSight'
    <3>1. ASSUME NEW y \in Timers, flags'[y].running \/ \E k \in Levels : current'[k] = y
          PROVE  InSight(fireTime'[y])
      <4>1. CASE y = x
        BY <1>2, <2>2, <4>1 DEF TypeOK
      <4>2. CASE y # x
        BY <1>1, <1>2, <2>2, <3>1, <4>2 DEF TypeOK, TimesInSight
      <4>3. QED
        BY <4>1, <4>2
    <3>2. QED
      BY <1>3, <3>1 DEF TimesInSight
  <2>5. HighStaysHigh'
    BY <1>2, <2>2, <2>3 DEF HighStaysHigh, TypeOK, Disciplined
  <2>6. StartRequests'
    <3>1. ASSUME NEW k \in Levels, NEW r \in Waiting(k)', r.op = "start"
          PROVE  StartRequest(k, r)'
      <4>1. r \in Elements(queues[k])
        BY <1>5, <3>1 DEF startHere, Waiting, Elements
      <4>2. flags'[r.timer].high \/ ~flags[r.timer].high
        BY <1>2, <2>2, <2>3 DEF HighStaysHigh, TypeOK
      <4>3. QED
        BY <1>2, <3>1, <4>1, <4>2, RequestStays
    <3>2. QED
      BY <3>1 DEF StartRequests
  <2>7. RepeatingTimers'
    BY <1>1, <1>2, <2>2 DEF RepeatingTimers, RunningFlags, TypeOK, Disciplined, Mode
  <2>8. TimeoutsInTime'
    <3>1. ASSUME NEW k \in Levels \ {l}, pc[k] # "callback"
          PROVE  list'[k] = list[k] /\ \A y \in On(k) : fireTime'[y] = fireTime[y]
      <4>1. k # LevelOf(m.high)
        BY <1>2, <2>2, <3>1 DEF LevelOf, getLevel, Levels, HighStaysHigh, TypeOK, Flags, Mode
      <4>2. list'[k] = list[k]
        BY <1>2, <1>5, <2>3, <3>1, <4>1 DEF startHere, Without, TypeOK
      <4>3. x \notin On(k)
        BY <2>2, <3>1 DEF On
      <4>4. QED
        BY <1>2, <2>2, <4>2, <4>3 DEF TypeOK, On
    <3>2. QED
      BY <1>2, <3>1, OthersSleep
  <2>9. QED
    BY <1>4, <2>1, <2>4, <2>5, <2>6, <2>7, <2>8 DEF OrderInv
<1>6. CASE startThere(l, x, time, m, queues)
  <2>1. UNCHANGED timers /\ getLevel(x) # l /\ getLevel(x) \in Levels
    BY <1>2, <1>6, LevelTypes DEF startThere, getLevel, TypeOK, Flags
  <2>2. ListsSorted' /\ TimesInSight' /\ HighStaysHigh' /\ RepeatingTimers'
    BY <1>1, <2>1, <1>3 DEF timers, OrderInv, ListsSorted, Left, TimesInSight, HighStaysHigh, RepeatingTimers
  <2>3. StartRequests'
    <3> DEFINE q == StartFW(x, time, m)
    <3>1. ASSUME NEW k \in Levels, NEW r \in Waiting(k)', r.op = "start"
          PROVE  StartRequest(k, r)'
      <4>1. q \in Request /\ Post(queues, getLevel(x), q) /\ queues \in [Levels -> Seq(Request)]
        BY <1>1, <1>6, RequestTypes DEF startThere, Calls
      <4>2. r \in Elements(queues[k]) \/ (r = q /\ k = getLevel(x))
        BY <2>1, <4>1, <3>1, PostElements
      <4>3. CASE r \in Elements(queues[k])
        BY <1>2, <2>1, <3>1, <4>3, RequestStays DEF timers
      <4>4. CASE r = q /\ k = getLevel(x)
        <5>1. r.mode = m /\ r.timer = x /\ r.time = time
          BY <4>4 DEF StartFW
        <5>2. k = "high" => flags'[x].high
          BY <2>1, <4>4 DEF getLevel, LevelOf, timers
        <5>3. k = "low" => pc'["high"] = "callback"
          BY <2>1, <4>4 DEF getLevel, LevelOf, Levels
        <5>4. QED
          BY <1>3, <5>1, <5>2, <5>3 DEF StartRequest
      <4>5. QED
        BY <4>2, <4>3, <4>4
    <3>2. QED
      BY <3>1 DEF StartRequests
  <2>4. TimeoutsInTime'
    BY <1>2, <2>1, OthersSleep DEF timers
  <2>5. QED
    BY <1>4, <2>2, <2>3, <2>4 DEF OrderInv
<1>7. QED
  BY <1>5, <1>6, startCases

LEMMA stopOrders ==
  ASSUME Disciplined, IInv, IInv', OrderInv,
         NEW l \in Levels, NEW x \in Timers, NEW queues, stop(l, x, queues), Calls(l, queues)
  PROVE  OrderInv'
<1>1. tick' = tick /\ busy' = busy /\ current' = current
  BY DEF Calls
<1>2. /\ TypeOK /\ Lists /\ SortedLists /\ TimesInSight /\ StartRequests /\ HighStaysHigh
      /\ RepeatingTimers /\ TimeoutsInTime /\ TypeOK'
  BY SortedListsSuffice DEF IInv, OrderInv
<1>3. \A t : InSight(t)' <=> InSight(t)
  BY <1>1 DEF InSight
<1>4. CurrentInCallback'
  BY DEF Calls
<1>5. /\ fireTime' = fireTime
      /\ \/ flags' = flags /\ list' = list
         \/ /\ flags' = [flags EXCEPT ![x].running = FALSE]
            /\ list' = [list EXCEPT ![l] = removeItem(@, x)]
  BY DEF stop, timers
<1>6. /\ \A y \in Timers : flags'[y].high = flags[y].high /\ flags'[y].repeat = flags[y].repeat
                             /\ flags'[y].interval = flags[y].interval
      /\ \A y \in Timers : flags'[y].running => flags[y].running
  <2>1. flags \in [Timers -> Flags]
    BY <1>2 DEF TypeOK
  <2>2. CASE flags' = flags
    BY <2>2
  <2>3. CASE flags' = [flags EXCEPT ![x].running = FALSE]
    <3>1. ASSUME NEW y \in Timers
          PROVE  flags'[y] = IF y = x THEN [flags[x] EXCEPT !.running = FALSE] ELSE flags[y]
      BY <2>1, <2>3
    <3>2. flags[x] \in Flags
      BY <2>1
    <3>3. QED
      BY <3>1, <3>2 DEF Flags
  <2>4. QED
    BY <1>5, <2>2, <2>3
<1>7. ListsSorted'
  <2>1. ASSUME NEW k \in Levels PROVE Sorted(list'[k], LeftAt(fireTime, tick))
    <3>1. list[k] \in Seq(Timers) /\ Sorted(list[k], LeftAt(fireTime, tick))
      BY <1>2 DEF TypeOK, SortedLists
    <3>2. LeftAt(fireTime, tick) \in [Timers -> Int]
      BY <1>2, LeftAtType DEF TypeOK
    <3>3. Sorted(removeItem(list[k], x), LeftAt(fireTime, tick))
      BY <3>1, <3>2, RemoveTimerSorted DEF removeItem
    <3>4. list'[k] = list[k] \/ list'[k] = removeItem(list[k], x)
      BY <1>2, <1>5 DEF TypeOK
    <3>5. QED
      BY <3>1, <3>3, <3>4
  <2>2. SortedLists'
    BY <1>1, <1>5, <2>1 DEF SortedLists
  <2>3. QED
    BY <1>2, <2>2, SortedListsNext
<1>8. TimesInSight' /\ HighStaysHigh' /\ RepeatingTimers'
  BY <1>1, <1>2, <1>3, <1>5, <1>6 DEF TimesInSight, HighStaysHigh, RepeatingTimers
<1>9. StartRequests'
  <2>1. ASSUME NEW k \in Levels, NEW r \in Waiting(k)', r.op = "start"
        PROVE  StartRequest(k, r)'
    <3>1. r \in Elements(queues[k])
      <4>1. CASE inbox' = queues
        BY <2>1, <4>1 DEF Waiting, Elements
      <4>2. CASE Post(queues, getLevel(x), StopFW(x))
        <5>1. getLevel(x) \in Levels /\ StopFW(x) \in Request /\ queues \in [Levels -> Seq(Request)]
          BY <1>2, LevelTypes, RequestTypes DEF getLevel, TypeOK, Flags, Calls
        <5>2. r \in Elements(queues[k]) \/ r = StopFW(x)
          BY <2>1, <4>2, <5>1, PostElements
        <5>3. QED
          BY <2>1, <5>2 DEF StopFW
      <4>3. QED
        BY <4>1, <4>2 DEF stop
    <3>2. r.timer \in Timers
      <4>1. queues[k] \in Seq(Request)
        BY DEF Calls
      <4>2. r \in Request
        BY <3>1, <4>1, ElementOfSeq, LenProperties DEF Elements
      <4>3. QED
        BY <2>1, <4>2 DEF Request, UserCall
    <3>3. flags'[r.timer].high \/ ~flags[r.timer].high
      BY <1>6, <3>2
    <3>4. QED
      BY <1>2, <2>1, <3>1, <3>3, RequestStays
  <2>2. QED
    BY <2>1 DEF StartRequests
<1>10. TimeoutsInTime'
  <2>1. ASSUME NEW k \in Levels \ {l} PROVE list'[k] = list[k]
    BY <1>2, <1>5 DEF TypeOK
  <2>2. QED
    BY <1>2, <1>5, <2>1, OthersSleep
<1>11. QED
  BY <1>4, <1>7, <1>8, <1>9, <1>10 DEF OrderInv

-----------------------------------------------------------------------------
(* Each step keeps the invariant. *)

LEMMA DelayType ==
  ASSUME NEW d \in Delays, Disciplined
  PROVE  d \in Int /\ d >= 0 /\ Ahead(d) /\ Ahead(0)
  BY ConstantsAssumption DEF Disciplined

(* A time d later than one that is due *)
LEMMA Later ==
  ASSUME Ahead(0), TypeOK, NEW d \in Int, d >= 0, Ahead(d),
         NEW f \in Ticks, InSight(f), Signed(f - tick) <= 0
  PROVE  /\ (f + d) % M \in Ticks /\ InSight((f + d) % M)
         /\ Signed(((f + d) % M) - tick) = Signed(f - tick) + d
<1> DEFINE s == Signed(f - tick)
<1>1. busy \in 0 .. MaxBusy
  BY DEF TypeOK
<1>2. s \in Int /\ -(MaxBusy + busy) <= s /\ s <= 0
  BY InSightNear DEF InSight
<1>3. f \in Int /\ tick \in Int /\ f + d \in Int
  BY CounterAssumption DEF TypeOK, Ticks
<1> HIDE DEF s
<1>4. Near(s + d) /\ Ahead(s + d) /\ -(MaxBusy + busy) <= s + d
  BY <1>1, <1>2, CounterAssumption, ConstantsAssumption DEF Near, Ahead, MaxLate
<1>5. s + d \in -Half .. Half - 1
  BY <1>2, <1>4, NearProperties
<1>6. Signed(((f + d) % M) - tick) = s + d
  BY <1>3, <1>5, SignedAdd DEF s
<1>7. QED
  BY <1>3, <1>4, <1>6, TicksOfMod DEF InSight, s

(* The time of a start, and where a timer that has fired continues. *)
LEMMA StartTimes ==
  ASSUME Disciplined, TypeOK, NEW d \in Delays
  PROVE  /\ calcAbsoluteTime(d) \in Ticks /\ InSight(calcAbsoluteTime(d))
         /\ \A f \in Ticks : InSight(f) /\ Signed(f - tick) <= 0 =>
              (f + d) % M \in Ticks /\ InSight((f + d) % M)
<1>1. d \in Int /\ d >= 0 /\ Ahead(d) /\ Ahead(0)
  BY DelayType
<1>2. \A f \in Ticks : InSight(f) /\ Signed(f - tick) <= 0 =>
         (f + d) % M \in Ticks /\ InSight((f + d) % M)
  BY <1>1, Later
<1>3. busy \in 0 .. MaxBusy /\ tick \in Ticks /\ tick - tick = 0 /\ 0 \in -Half .. Half - 1
  BY CounterAssumption, HalfOfM DEF TypeOK, Ticks
<1>4. Signed(tick - tick) = 0
  BY <1>3, SignedOfSmall
<1>5. InSight(tick)
  BY <1>1, <1>3, <1>4, ConstantsAssumption DEF InSight
<1>6. QED
  BY <1>2, <1>3, <1>4, <1>5 DEF calcAbsoluteTime

LEMMA ProgramOrders ==
  ASSUME Disciplined, IInv, IInv', OrderInv, Program
  PROVE  OrderInv'
<1>1. TypeOK /\ TimesInSight /\ HighStaysHigh /\ CurrentInCallback
  BY DEF IInv, OrderInv
<1>2. ASSUME NEW l \in Levels, UserCode(l), UNCHANGED <<control, tick, posted, busy>>
      PROVE  Calls(l, inbox) /\ pc[l] = "callback" /\ pc' = pc
  <2>1. l = "high" => inbox["low"] = <<>>
    BY <1>2 DEF UserCode, Runs, Asleep
  <2>2. QED
    BY <1>1, <1>2, <2>1 DEF Calls, UserCode, control, Waiting, Elements, TypeOK, CurrentInCallback
<1>3. ASSUME NEW l \in Levels, NEW x \in Timers, NEW m \in Modes[x], MayMove(l, x, m),
             l = "low", m.high
      PROVE  flags[x].high
  BY <1>3 DEF MayMove, Disciplined, Levels
<1>4. ASSUME NEW l \in Levels, NEW x \in Timers, Start(l, x) PROVE OrderInv'
  <2>1. PICK d \in Delays, m \in Modes[x] :
          MayMove(l, x, m) /\ start(l, x, calcAbsoluteTime(d), m, inbox)
    BY <1>4 DEF Start
  <2>2. calcAbsoluteTime(d) \in Ticks /\ InSight(calcAbsoluteTime(d))
    BY <1>1, StartTimes
  <2>3. Calls(l, inbox) /\ pc[l] = "callback" /\ pc' = pc
    BY <1>2, <1>4 DEF Start, MayCall
  <2>4. QED
    BY <1>3, <2>1, <2>2, <2>3, startOrders
<1>5. ASSUME NEW l \in Levels, NEW x \in Timers, StartContinuos(l, x) PROVE OrderInv'
  <2>1. PICK d \in Delays, m \in Modes[x] :
          MayMove(l, x, m) /\ start(l, x, (fireTime[x] + d) % M, m, inbox)
    BY <1>5 DEF StartContinuos
  <2>2. (fireTime[x] + d) % M \in Ticks /\ InSight((fireTime[x] + d) % M)
    <3>1. InSight(fireTime[x]) /\ fireTime[x] \in Ticks /\ Signed(fireTime[x] - tick) <= 0
      BY <1>1, <1>5 DEF StartContinuos, TimesInSight, TypeOK
    <3>2. QED
      BY <1>1, <3>1, StartTimes
  <2>3. Calls(l, inbox) /\ pc[l] = "callback" /\ pc' = pc
    BY <1>2, <1>5 DEF StartContinuos, MayCall
  <2>4. QED
    BY <1>3, <2>1, <2>2, <2>3, startOrders
<1>6. ASSUME NEW l \in Levels, NEW x \in Timers, Stop(l, x) PROVE OrderInv'
  BY <1>2, <1>6, stopOrders DEF Stop, MayCall
<1>7. ASSUME NEW l \in Levels, NEW q \in Request, FromISR(l, q), q.op = "start" => StartRequest(l, q)
      PROVE  OrderInv'
  <2>1. UNCHANGED <<list, flags, fireTime, pc, timeout, current, tick, busy>>
    BY <1>7 DEF FromISR, timers, control
  <2>2. \A k \in Levels : \A r : StartRequest(k, r)' <=> StartRequest(k, r)
    BY <2>1 DEF StartRequest, InSight
  <2>3. \A k \in Levels : Waiting(k)' \subseteq Waiting(k) \cup {r \in {q} : k = l}
    <3>1. Post(inbox, l, q) /\ inbox \in [Levels -> Seq(Request)]
      BY <1>1, <1>7 DEF FromISR, TypeOK
    <3>2. ASSUME NEW k \in Levels PROVE Waiting(k)' \subseteq Waiting(k) \cup {r \in {q} : k = l}
      <4>1. Waiting(k)' = IF k = l THEN Elements(inbox[k]) \cup {q} ELSE Elements(inbox[k])
        BY <3>1, PostElements
      <4>2. Elements(inbox[k]) = Waiting(k)
        BY DEF Waiting, Elements
      <4>3. QED
        BY <4>1, <4>2
    <3>3. QED
      BY <3>2
  <2>4. StartRequests'
    BY <1>7, <2>2, <2>3 DEF StartRequests, OrderInv
  <2>5. QED
    BY <2>1, <2>4 DEF OrderInv, ListsSorted, Left, TimesInSight, InSight, HighStaysHigh,
                      RepeatingTimers, CurrentInCallback, TimeoutsInTime
<1>8. ASSUME NEW x \in Timers, startFromISR(x) PROVE OrderInv'
  <2>1. PICK d \in Delays, m \in Modes[x] :
          /\ MayMove("isr", x, m)
          /\ FromISR(getLevel(x), StartFW(x, calcAbsoluteTime(d), m))
    BY <1>8 DEF startFromISR
  <2> DEFINE q == StartFW(x, calcAbsoluteTime(d), m)
  <2>2. calcAbsoluteTime(d) \in Ticks /\ InSight(calcAbsoluteTime(d)) /\ m \in Mode
    BY <1>1, StartTimes, ConstantsAssumption
  <2>3. getLevel(x) \in Levels /\ q \in Request
    BY <1>1, <2>2, LevelTypes, RequestTypes DEF getLevel, TypeOK, Flags
  <2>4. m.high = flags[x].high
    BY <2>1 DEF MayMove, Disciplined
  <2>5. StartRequest(getLevel(x), q)
    BY <2>2, <2>4 DEF StartRequest, StartFW, getLevel, LevelOf
  <2>6. QED
    BY <1>7, <2>1, <2>3, <2>5
<1>9. ASSUME NEW l \in Levels, CallFromISR(l) PROVE OrderInv'
  <2>1. UserCall \in Request /\ UserCall.op # "start"
    BY RequestTypes DEF UserCall
  <2>2. QED
    BY <1>7, <1>9, <2>1 DEF CallFromISR
<1>10. QED
  BY <1>4, <1>5, <1>6, <1>8, <1>9 DEF Program

LEMMA ReceiveOrders ==
  ASSUME Disciplined, IInv, IInv', OrderInv, NEW l \in Levels, Receive(l)
  PROVE  OrderInv'
<1> DEFINE r    == Head(inbox[l])
           rest == [inbox EXCEPT ![l] = Tail(@)]
<1>1. TypeOK /\ Lists /\ StartRequests /\ CurrentInCallback /\ TimeoutsInTime
  BY DEF IInv, OrderInv
<1>2. /\ \/ r.op = "start" /\ start(l, r.timer, r.time, r.mode, rest)
         \/ r.op = "stop" /\ stop(l, r.timer, rest)
         \/ r.op = "call" /\ inbox' = rest /\ UNCHANGED timers
      /\ pc' = [pc EXCEPT ![l] = IF r.op = "call" THEN "callback" ELSE "poll"]
      /\ timeout' = [timeout EXCEPT ![l] = Forever]
      /\ UNCHANGED <<tick, current, posted, busy>>
      /\ pc[l] \in {"receive", "sleep"} /\ inbox[l] # <<>> /\ Runs(l)
  BY DEF Receive
<1>3. /\ r \in Request /\ r \in Waiting(l)
      /\ Tail(inbox[l]) \in Seq(Request) /\ Elements(Tail(inbox[l])) \subseteq Waiting(l)
  <2>1. inbox[l] \in Seq(Request) /\ inbox[l] # <<>> /\ Waiting(l) = Elements(inbox[l])
    BY <1>1, <1>2 DEF TypeOK, Waiting, Elements
  <2>2. QED
    BY <2>1, TailElements
<1> HIDE DEF r
<1>4. rest \in [Levels -> Seq(Request)] /\ \A k \in Levels : Elements(rest[k]) \subseteq Waiting(k)
  <2>1. \A k \in Levels : rest[k] = IF k = l THEN Tail(inbox[l]) ELSE inbox[k]
    BY <1>1 DEF TypeOK
  <2>2. rest \in [Levels -> Seq(Request)]
    BY <1>1, <1>3 DEF TypeOK
  <2> HIDE DEF rest
  <2>3. \A k \in Levels : Elements(inbox[k]) = Waiting(k)
    BY DEF Waiting, Elements
  <2>4. QED
    BY <1>3, <2>1, <2>2, <2>3
<1>5. l = "high" => rest["low"] = <<>>
  BY <1>1, <1>2 DEF Runs, Asleep, TypeOK, Levels
<1> HIDE DEF rest
<1>6. Calls(l, rest)
  <2>1. pc \in [Levels -> {"poll", "receive", "sleep", "execute", "callback"}]
          /\ timeout \in [Levels -> Ticks \cup {Forever}]
    BY <1>1 DEF TypeOK
  <2>2. CurrentInCallback'
    BY <1>1, <1>2, <2>1 DEF CurrentInCallback
  <2>3. QED
    BY <1>2, <1>4, <1>5, <2>1, <2>2 DEF Calls
<1>7. r.op # "call" => r.timer \in Timers /\ r.time \in Ticks /\ r.mode \in Mode
  BY <1>3 DEF Request, UserCall
<1>8. CASE r.op = "start" /\ start(l, r.timer, r.time, r.mode, rest)
  <2>1. StartRequest(l, r)
    BY <1>1, <1>3, <1>8 DEF StartRequests
  <2>2. QED
    BY <1>6, <1>7, <1>8, <2>1, startOrders DEF StartRequest
<1>9. CASE r.op = "stop" /\ stop(l, r.timer, rest)
  BY <1>6, <1>7, <1>9, stopOrders
<1>10. CASE r.op = "call" /\ inbox' = rest /\ UNCHANGED timers
  <2>1. UNCHANGED <<list, flags, fireTime, tick, busy, current>>
    BY <1>2, <1>10 DEF timers
  <2>2. TimeoutsInTime'
    BY <1>1, <1>6, <2>1, OthersSleep
  <2>3. StartRequests'
    <3>1. ASSUME NEW k \in Levels, NEW q \in Waiting(k)', q.op = "start" PROVE StartRequest(k, q)'
      <4>1. q \in Elements(rest[k])
        BY <1>10, <3>1 DEF Waiting, Elements
      <4>2. QED
        BY <1>1, <1>6, <2>1, <3>1, <4>1, RequestStays
    <3>2. QED
      BY <3>1 DEF StartRequests
  <2>4. QED
    BY <1>6, <2>1, <2>2, <2>3 DEF Calls, OrderInv, ListsSorted, Left, TimesInSight, InSight,
                                  HighStaysHigh, RepeatingTimers
<1>11. QED
  BY <1>2, <1>8, <1>9, <1>10

(* The steps of mainLoop that only change the control of worker l *)
LEMMA ControlOrders ==
  ASSUME TypeOK, OrderInv, NEW l \in Levels, NEW p,
         UNCHANGED <<timers, tick, inbox, current, busy>>,
         pc' = [pc EXCEPT ![l] = p],
         \A k \in Levels \ {l} : timeout'[k] = timeout[k],
         pc[l] # "callback",
         list[l] # <<>> =>
           /\ p = "receive" => timeout'[l] # Forever /\ timeout'[l] <= Left(Head(list[l])) + busy
           /\ p = "sleep" =>
                /\ timeout'[l] # Forever
                /\ timeout'[l] # 0 => timeout'[l] <= Left(Head(list[l])) + MaxBusy
  PROVE  OrderInv'
<1>1. UNCHANGED <<list, flags, fireTime, tick, inbox, current, busy>>
  BY DEF timers
<1>2. \A k \in Levels : pc'[k] = IF k = l THEN p ELSE pc[k]
  BY DEF TypeOK
<1>3. \A x : Left(x)' = Left(x)
  BY <1>1 DEF Left
<1>4. ListsSorted' /\ TimesInSight' /\ HighStaysHigh' /\ RepeatingTimers'
  BY <1>1, <1>3 DEF OrderInv, ListsSorted, TimesInSight, InSight, HighStaysHigh, RepeatingTimers
<1>5. CurrentInCallback'
  BY <1>1, <1>2 DEF OrderInv, CurrentInCallback
<1>6. StartRequests'
  BY <1>1, <1>2 DEF OrderInv, StartRequests, StartRequest, InSight, Waiting, Levels
<1>7. TimeoutsInTime'
  <2>1. ASSUME NEW k \in Levels, list'[k] # <<>>
        PROVE  /\ pc'[k] = "receive" => timeout'[k] # Forever /\ timeout'[k] <= Left(Head(list[k])) + busy
               /\ pc'[k] = "sleep" =>
                    /\ timeout'[k] # Forever
                    /\ timeout'[k] # 0 => timeout'[k] <= Left(Head(list[k])) + MaxBusy
    <3>1. CASE k = l
      BY <1>1, <1>2, <2>1, <3>1
    <3>2. CASE k # l
      BY <1>1, <1>2, <2>1, <3>2 DEF OrderInv, TimeoutsInTime
    <3>3. QED
      BY <3>1, <3>2
  <2>2. QED
    BY <1>1, <2>1 DEF TimeoutsInTime, Left
<1>8. QED
  BY <1>4, <1>5, <1>6, <1>7 DEF OrderInv

LEMMA PollOrders ==
  ASSUME IInv, OrderInv, NEW l \in Levels, Poll(l)
  PROVE  OrderInv'
<1>1. TypeOK /\ pc[l] = "poll" /\ busy \in Nat
  BY DEF IInv, TypeOK, Poll
<1> DEFINE t == getNextTimeout(l)
           p == IF t = 0 THEN "execute" ELSE "receive"
<1>2. ASSUME list[l] # <<>>, t # 0 PROVE t # Forever /\ t <= Left(Head(list[l])) + busy
  <2>1. Head(list[l]) \in Timers
    <3>1. list[l] \in Seq(Timers)
      BY <1>1 DEF TypeOK
    <3>2. QED
      BY <1>2, <3>1, TailElements
  <2>2. Left(Head(list[l])) \in Int /\ t = Left(Head(list[l]))
    BY <1>1, <1>2, <2>1, LeftType DEF getNextTimeout, Left
  <2>3. QED
    BY <1>1, <2>2, ConstantsAssumption
<1>3. timeout'[l] = t
  BY <1>1 DEF Poll, TypeOK
<1>4. \A k \in Levels \ {l} : timeout'[k] = timeout[k]
  BY <1>1 DEF Poll, TypeOK
<1>5. pc' = [pc EXCEPT ![l] = p] /\ UNCHANGED <<timers, tick, inbox, current, busy>>
  BY DEF Poll
<1> HIDE DEF t
<1>6. QED
  BY <1>1, <1>2, <1>3, <1>4, <1>5, ControlOrders

LEMMA SleepOrders ==
  ASSUME IInv, OrderInv, NEW l \in Levels, Sleep(l)
  PROVE  OrderInv'
<1>1. TypeOK /\ pc[l] = "receive" /\ busy \in 0 .. MaxBusy /\ MaxBusy \in Nat
  BY ConstantsAssumption DEF IInv, TypeOK, Sleep
<1>2. ASSUME list[l] # <<>>
      PROVE  timeout[l] # Forever /\ timeout[l] <= Left(Head(list[l])) + MaxBusy
  <2>1. timeout[l] # Forever /\ timeout[l] <= Left(Head(list[l])) + busy
    BY <1>1, <1>2 DEF OrderInv, TimeoutsInTime
  <2>2. list[l] \in Seq(Timers)
    BY <1>1 DEF TypeOK
  <2>3. Left(Head(list[l])) \in Int
    BY <1>1, <1>2, <2>2, TailElements, LeftType
  <2>4. timeout[l] \in Int
    BY <1>1, <2>1, CounterAssumption DEF TypeOK, Ticks
  <2>5. QED
    BY <1>1, <2>1, <2>3, <2>4
<1>3. /\ pc' = [pc EXCEPT ![l] = "sleep"] /\ UNCHANGED <<timers, tick, inbox, current, busy>>
      /\ timeout' = timeout
  BY DEF Sleep
<1>4. QED
  BY <1>1, <1>2, <1>3, ControlOrders

LEMMA TimeOutOrders ==
  ASSUME IInv, OrderInv, NEW l \in Levels, TimeOut(l)
  PROVE  OrderInv'
<1>1. TypeOK /\ pc[l] = "sleep" /\ timeout' = timeout
      /\ pc' = [pc EXCEPT ![l] = "execute"] /\ UNCHANGED <<timers, tick, inbox, current, busy>>
  BY DEF IInv, TimeOut
<1>2. QED
  BY <1>1, ControlOrders

LEMMA ReturnOrders ==
  ASSUME IInv, OrderInv, NEW l \in Levels, Return(l)
  PROVE  OrderInv'
<1>1. TypeOK /\ pc[l] = "callback" /\ UNCHANGED <<list, flags, fireTime, tick, inbox, timeout, busy>>
  BY DEF IInv, Return, timers
<1>2. \A k \in Levels : /\ pc'[k] = IF k = l THEN "poll" ELSE pc[k]
                        /\ current'[k] = IF k = l THEN Nothing ELSE current[k]
  BY <1>1 DEF Return, TypeOK
<1>3. \A x : Left(x)' = Left(x)
  BY <1>1 DEF Left
<1>4. TimesInSight'
  BY <1>1, <1>2, ConstantsAssumption DEF OrderInv, TimesInSight, InSight
<1>5. ListsSorted' /\ HighStaysHigh' /\ RepeatingTimers'
  BY <1>1, <1>3 DEF OrderInv, ListsSorted, HighStaysHigh, RepeatingTimers
<1>6. CurrentInCallback'
  BY <1>2 DEF OrderInv, CurrentInCallback
<1>7. StartRequests'
  <2>1. CASE l = "low"
    BY <1>1, <1>2, <2>1 DEF OrderInv, StartRequests, StartRequest, InSight, Waiting, Levels
  <2>2. CASE l = "high"
    <3>1. Waiting("low") = {}
      BY <2>2 DEF Return, Runs, Asleep, Waiting
    <3>2. ASSUME NEW k \in Levels, NEW r \in Waiting(k)', r.op = "start"
          PROVE  StartRequest(k, r)'
      <4>1. k # "low" /\ r \in Waiting(k)
        BY <1>1, <3>1, <3>2 DEF Waiting
      <4>2. StartRequest(k, r)
        BY <3>2, <4>1 DEF OrderInv, StartRequests
      <4>3. QED
        BY <1>1, <4>1, <4>2 DEF StartRequest, InSight
    <3>3. QED
      BY <3>2 DEF StartRequests
  <2>3. QED
    BY <2>1, <2>2 DEF Levels
<1>8. TimeoutsInTime'
  <2>1. ASSUME NEW k \in Levels, list'[k] # <<>>
        PROVE  /\ pc'[k] = "receive" => timeout'[k] # Forever /\ timeout'[k] <= Left(Head(list[k])) + busy
               /\ pc'[k] = "sleep" =>
                    /\ timeout'[k] # Forever
                    /\ timeout'[k] # 0 => timeout'[k] <= Left(Head(list[k])) + MaxBusy
    BY <1>1, <1>2, <2>1 DEF OrderInv, TimeoutsInTime
  <2>2. QED
    BY <1>1, <2>1 DEF TimeoutsInTime, Left
<1>9. QED
  BY <1>4, <1>5, <1>6, <1>7, <1>8 DEF OrderInv

-----------------------------------------------------------------------------
(* The first timer fires. *)

(* What execute does when the first timer x of worker l is due. *)
Fires(l, x) ==
  /\ pc[l] = "execute"
  /\ getNextTimeout(l) = 0
  /\ pc' = [pc EXCEPT ![l] = "callback"]
  /\ timeout' = [timeout EXCEPT ![l] = Forever]
  /\ current' = [current EXCEPT ![l] = x]
  /\ UNCHANGED <<tick, inbox, busy>>
  /\ \/ /\ flags[x].repeat
        /\ fireTime' = [fireTime EXCEPT ![x] = (fireTime[x] + flags[x].interval) % M]
        /\ list' = [list EXCEPT ![l] = addItem(Tail(@), x, fireTime')]
        /\ UNCHANGED flags
     \/ /\ ~flags[x].repeat
        /\ list' = [list EXCEPT ![l] = Tail(@)]
        /\ flags' = [flags EXCEPT ![x].running = FALSE]
        /\ UNCHANGED fireTime

LEMMA executeCases ==
  ASSUME NEW l \in Levels, execute(l)
  PROVE  \/ /\ UNCHANGED <<timers, tick, inbox, current, busy>>
            /\ pc[l] = "execute" /\ pc' = [pc EXCEPT ![l] = "poll"]
            /\ timeout' = [timeout EXCEPT ![l] = Forever]
         \/ Fires(l, Head(list[l]))
  BY DEF execute, Fires

(* The timer that fires is the first of its level, due, and repeats after what was due. *)
LEMMA FiresFirst ==
  ASSUME Ahead(0), IInv, OrderInv, NEW l \in Levels, NEW x, x = Head(list[l]), Fires(l, x)
  PROVE  /\ list[l] # <<>> /\ list[l] \in Seq(Timers)
         /\ x \in On(l) /\ x \in Timers /\ x \notin Elements(Tail(list[l]))
         /\ Tail(list[l]) \in Seq(Timers) /\ Elements(Tail(list[l])) = On(l) \ {x}
         /\ Left(x) \in Int /\ Left(x) <= 0 /\ InSight(fireTime[x])
         /\ \A y \in On(l) : Left(x) <= Left(y)
         /\ flags[x].repeat =>
              /\ fireTime'[x] \in Ticks /\ InSight(fireTime'[x])
              /\ Left(x)' = Left(x) + flags[x].interval /\ flags[x].interval # 0
<1>1. TypeOK /\ Lists /\ SortedLists /\ TimesInSight /\ RepeatingTimers
  BY SortedListsSuffice DEF IInv, OrderInv
<1>2. list[l] # <<>> /\ list[l] \in Seq(Timers) /\ Distinct(list[l]) /\ Elements(list[l]) = On(l)
  BY <1>1, TimeoutType DEF Fires, TypeOK, Lists
<1>3. /\ x \in On(l) /\ x \in Timers /\ x \notin Elements(Tail(list[l]))
      /\ Tail(list[l]) \in Seq(Timers) /\ Elements(Tail(list[l])) = On(l) \ {x}
  BY <1>2, TailProperties
<1>4. Left(x) \in Int /\ Left(x) <= 0
  <2>1. Left(x) \in Int
    BY <1>1, <1>3, LeftType
  <2>2. (IF Left(x) <= 0 THEN 0 ELSE Left(x)) = 0
    BY <1>2 DEF Fires, getNextTimeout, Left
  <2>3. QED
    BY <2>1, <2>2
<1>5. InSight(fireTime[x]) /\ fireTime[x] \in Ticks
  BY <1>1, <1>3 DEF TimesInSight, On, TypeOK
<1>6. \A y \in On(l) : Left(x) <= Left(y)
  <2>1. LeftAt(fireTime, tick) \in [Timers -> Int]
    BY <1>1, LeftAtType DEF TypeOK
  <2>2. \A y \in Elements(list[l]) : LeftAt(fireTime, tick)[x] <= LeftAt(fireTime, tick)[y]
    BY <1>1, <1>2, <2>1, HeadIsFirst DEF SortedLists
  <2>3. QED
    BY <1>1, <1>2, <1>3, <2>2, LeftType DEF On
<1>7. ASSUME flags[x].repeat
      PROVE  /\ fireTime'[x] \in Ticks /\ InSight(fireTime'[x])
             /\ Left(x)' = Left(x) + flags[x].interval /\ flags[x].interval # 0
  <2>1. /\ flags[x].interval \in Int /\ flags[x].interval >= 0
        /\ flags[x].interval # 0 /\ Ahead(flags[x].interval)
    BY <1>1, <1>3, <1>7, CounterAssumption DEF TypeOK, Flags, RepeatingTimers
  <2>2. fireTime'[x] = (fireTime[x] + flags[x].interval) % M /\ tick' = tick
    BY <1>1, <1>3, <1>7 DEF Fires, TypeOK
  <2>3. QED
    BY <1>1, <1>4, <1>5, <2>1, <2>2, Later DEF Left
<1>8. QED
  BY <1>2, <1>3, <1>4, <1>5, <1>6, <1>7

LEMMA FiresOrders ==
  ASSUME Ahead(0), IInv, IInv', OrderInv, NEW l \in Levels, NEW x, x = Head(list[l]), Fires(l, x)
  PROVE  OrderInv'
<1> DEFINE K == LeftAt(fireTime, tick)
           N == LeftAt(fireTime', tick)
<1>1. /\ TypeOK /\ Lists /\ SortedLists /\ TimesInSight /\ StartRequests /\ HighStaysHigh
      /\ RepeatingTimers /\ CurrentInCallback /\ TimeoutsInTime
  BY SortedListsSuffice DEF IInv, OrderInv
<1>2. /\ list[l] # <<>> /\ list[l] \in Seq(Timers)
      /\ x \in On(l) /\ x \in Timers /\ x \notin Elements(Tail(list[l]))
      /\ Tail(list[l]) \in Seq(Timers) /\ Elements(Tail(list[l])) = On(l) \ {x}
      /\ InSight(fireTime[x])
      /\ flags[x].repeat => fireTime'[x] \in Ticks /\ InSight(fireTime'[x])
  BY FiresFirst
<1>3. /\ pc[l] = "execute" /\ tick' = tick /\ busy' = busy /\ inbox' = inbox
      /\ \A k \in Levels : /\ pc'[k] = IF k = l THEN "callback" ELSE pc[k]
                           /\ timeout'[k] = IF k = l THEN Forever ELSE timeout[k]
                           /\ current'[k] = IF k = l THEN x ELSE current[k]
  BY <1>1 DEF Fires, TypeOK
<1>4. /\ fireTime \in [Timers -> Ticks] /\ fireTime' \in [Timers -> Ticks] /\ tick \in Ticks
      /\ \A y \in Timers \ {x} : fireTime'[y] = fireTime[y]
      /\ InSight(fireTime'[x])
  <2>1. fireTime \in [Timers -> Ticks] /\ fireTime' \in [Timers -> Ticks] /\ tick \in Ticks
    BY <1>1 DEF IInv, TypeOK
  <2>2. fireTime' = fireTime \/ fireTime' = [fireTime EXCEPT ![x] = (fireTime[x] + flags[x].interval) % M]
    BY DEF Fires
  <2>3. flags[x].repeat \/ fireTime' = fireTime
    BY DEF Fires
  <2>4. QED
    BY <1>2, <2>1, <2>2, <2>3
<1>5. \A t : InSight(t)' <=> InSight(t)
  BY <1>3 DEF InSight
<1>6. K \in [Timers -> Int] /\ N \in [Timers -> Int] /\ \A y \in Timers \ {x} : N[y] = K[y]
  BY <1>4, LeftAtType DEF LeftAt
<1>7. \A y \in Timers : flags[y].running => Near(N[y])
  <2>1. ASSUME NEW y \in Timers, flags[y].running PROVE Near(N[y])
    <3>1. InSight(fireTime'[y]) /\ fireTime'[y] \in Ticks
      BY <1>1, <1>4, <2>1 DEF TimesInSight
    <3>2. N[y] = Signed(fireTime'[y] - tick)
      BY DEF LeftAt
    <3>3. QED
      BY <1>1, <3>1, <3>2, InSightNear
  <2>2. QED
    BY <2>1
<1> HIDE DEF K, N
<1>8. Sorted(Tail(list[l]), N)
  <2>1. Sorted(list[l], K)
    BY <1>1 DEF SortedLists, K
  <2>2. Sorted(Tail(list[l]), K)
    BY <1>2, <1>6, <2>1, HeadIsFirst
  <2>3. \A y \in Elements(Tail(list[l])) : K[y] = N[y]
    BY <1>2, <1>6 DEF On
  <2>4. QED
    BY <2>2, <2>3, SortedSame
<1>9. Sorted(addItem(Tail(list[l]), x, fireTime'), N)
  <2>1. \A y \in Elements(Tail(list[l])) \cup {x} : Near(N[y])
    BY <1>2, <1>7 DEF On
  <2>2. QED
    BY <1>2, <1>4, <1>8, <2>1, addItemSorted DEF N
<1>10. \A k \in Levels \ {l} : list'[k] = list[k] /\ \A y \in On(k) : y \in Timers \ {x}
  BY <1>1, <1>2 DEF Fires, TypeOK, On
<1>11. ListsSorted'
  <2>1. ASSUME NEW k \in Levels PROVE Sorted(list'[k], N)
    <3>1. CASE k = l
      <4>1. list'[k] = Tail(list[l]) \/ list'[k] = addItem(Tail(list[l]), x, fireTime')
        BY <1>1, <3>1 DEF Fires, TypeOK
      <4>2. QED
        BY <1>8, <1>9, <4>1
    <3>2. CASE k # l
      <4>1. Sorted(list[k], K) /\ Elements(list[k]) = On(k)
        BY <1>1 DEF SortedLists, Lists, K
      <4>2. \A y \in Elements(list[k]) : K[y] = N[y]
        BY <1>6, <1>10, <3>2, <4>1
      <4>3. QED
        BY <1>10, <3>2, <4>1, <4>2, SortedSame
    <3>3. QED
      BY <3>1, <3>2
  <2>2. SortedLists'
    BY <1>3, <2>1 DEF SortedLists, N
  <2>3. QED
    BY <2>2, SortedListsNext DEF IInv
<1>12. \A y \in Timers : /\ flags'[y].high = flags[y].high /\ flags'[y].repeat = flags[y].repeat
                         /\ flags'[y].interval = flags[y].interval
                         /\ flags'[y].running => flags[y].running
  <2>1. flags \in [Timers -> Flags]
    BY <1>1 DEF TypeOK
  <2>2. CASE flags' = flags
    BY <2>2
  <2>3. CASE flags' = [flags EXCEPT ![x].running = FALSE]
    <3>1. ASSUME NEW y \in Timers
          PROVE  flags'[y] = IF y = x THEN [flags[x] EXCEPT !.running = FALSE] ELSE flags[y]
      BY <2>1, <2>3
    <3>2. flags[x] \in Flags
      BY <1>2, <2>1
    <3>3. QED
      BY <3>1, <3>2 DEF Flags
  <2>4. QED
    BY <2>2, <2>3 DEF Fires
<1>13. TimesInSight'
  <2>1. ASSUME NEW y \in Timers, flags'[y].running \/ \E k \in Levels : current'[k] = y
        PROVE  InSight(fireTime'[y])
    <3>1. CASE y = x
      BY <1>4, <3>1
    <3>2. CASE y # x
      <4>1. flags[y].running \/ \E k \in Levels : current[k] = y
        BY <1>3, <1>12, <2>1, <3>2
      <4>2. QED
        BY <1>1, <1>4, <3>2, <4>1 DEF TimesInSight
    <3>3. QED
      BY <3>1, <3>2
  <2>2. QED
    BY <1>5, <2>1 DEF TimesInSight
<1>14. HighStaysHigh' /\ RepeatingTimers'
  BY <1>1, <1>12 DEF HighStaysHigh, RepeatingTimers
<1>15. StartRequests'
  <2>1. ASSUME NEW k \in Levels, NEW r \in Waiting(k), r.op = "start" PROVE StartRequest(k, r)'
    <3>1. StartRequest(k, r)
      BY <1>1, <2>1 DEF StartRequests
    <3>2. r.timer \in Timers
      <4>1. inbox[k] \in Seq(Request)
        BY <1>1 DEF TypeOK
      <4>2. r \in Request
        BY <2>1, <4>1, ElementOfSeq, LenProperties DEF Waiting
      <4>3. QED
        BY <2>1, <4>2 DEF Request, UserCall
    <3>3. k = "high" => flags'[r.timer].high
      BY <1>12, <3>1, <3>2 DEF StartRequest
    <3>4. k = "low" /\ r.mode.high => pc'["high"] = "callback"
      BY <1>3, <3>1 DEF StartRequest, Levels
    <3>5. QED
      BY <1>5, <3>1, <3>3, <3>4 DEF StartRequest
  <2>2. QED
    BY <1>3, <2>1 DEF StartRequests, Waiting
<1>16. CurrentInCallback'
  BY <1>1, <1>3 DEF CurrentInCallback
<1>17. TimeoutsInTime'
  <2>1. ASSUME NEW k \in Levels, list'[k] # <<>>, k # l
        PROVE  Left(Head(list[k]))' = Left(Head(list[k]))
    <3>1. list[k] \in Seq(Timers) /\ list[k] # <<>> /\ Elements(list[k]) = On(k)
      BY <1>1, <1>10, <2>1 DEF TypeOK, Lists
    <3>2. Head(list[k]) \in Timers \ {x}
      BY <1>10, <2>1, <3>1, TailElements
    <3>3. QED
      BY <1>3, <1>4, <1>10, <2>1, <3>2 DEF Left
  <2>2. ASSUME NEW k \in Levels, list'[k] # <<>>
        PROVE  /\ pc'[k] = "receive" =>
                    timeout'[k] # Forever /\ timeout'[k] <= Left(Head(list[k]))' + busy
               /\ pc'[k] = "sleep" =>
                    /\ timeout'[k] # Forever
                    /\ timeout'[k] # 0 => timeout'[k] <= Left(Head(list[k]))' + MaxBusy
    <3>1. CASE k = l
      BY <1>3, <3>1
    <3>2. CASE k # l
      <4>1. list'[k] = list[k] /\ list[k] # <<>>
        BY <1>10, <2>2, <3>2
      <4>2. Left(Head(list[k]))' = Left(Head(list[k]))
        BY <2>1, <2>2, <3>2
      <4>3. QED
        BY <1>1, <1>3, <3>2, <4>1, <4>2 DEF TimeoutsInTime
    <3>3. QED
      BY <3>1, <3>2
  <2>3. QED
    BY <1>3, <2>2 DEF TimeoutsInTime
<1>18. QED
  BY <1>11, <1>13, <1>14, <1>15, <1>16, <1>17 DEF OrderInv

LEMMA executeOrders ==
  ASSUME Ahead(0), IInv, IInv', OrderInv, NEW l \in Levels, execute(l)
  PROVE  OrderInv'
<1>1. CASE /\ UNCHANGED <<timers, tick, inbox, current, busy>>
           /\ pc[l] = "execute" /\ pc' = [pc EXCEPT ![l] = "poll"]
           /\ timeout' = [timeout EXCEPT ![l] = Forever]
  <2>1. TypeOK /\ \A k \in Levels \ {l} : timeout'[k] = timeout[k]
    BY <1>1 DEF IInv, TypeOK
  <2>2. QED
    BY <1>1, <2>1, ControlOrders
<1>2. CASE Fires(l, Head(list[l]))
  BY <1>2, FiresOrders
<1>3. QED
  BY <1>1, <1>2, executeCases

-----------------------------------------------------------------------------
(* A tick *)

(* While a time is not later than MaxLate, a tick takes one from what is left. *)
LEMMA TickSubtracts ==
  ASSUME Ahead(0), TypeOK, Tick, NEW f \in Ticks, InSight(f),
         Idle => 1 - MaxBusy <= Signed(f - tick)
  PROVE  Signed(f - tick') = Signed(f - tick) - 1 /\ InSight(f)'
<1> DEFINE s == Signed(f - tick)
<1>1. busy \in 0 .. MaxBusy /\ MaxBusy \in Nat
  BY ConstantsAssumption DEF TypeOK
<1>2. s \in Int /\ -(MaxBusy + busy) <= s /\ Ahead(s)
  BY InSightNear DEF InSight
<1>3. f \in Int /\ tick \in Int /\ tick' = (tick + 1) % M
  BY CounterAssumption DEF TypeOK, Ticks, Tick
<1>4. \/ busy' = 0 /\ 1 - MaxBusy <= s
      \/ busy' = busy + 1 /\ busy < MaxBusy
  BY DEF Tick
<1> HIDE DEF s
<1>5. Near(s - 1) /\ Ahead(s - 1) /\ -(MaxBusy + busy') <= s - 1
  BY <1>1, <1>2, <1>4, CounterAssumption DEF Near, Ahead, MaxLate
<1>6. s - 1 \in -Half .. Half - 1
  BY <1>2, <1>5, NearProperties
<1>7. Signed(f - tick') = s - 1
  BY <1>3, <1>6, SignedSubtract DEF s
<1>8. QED
  BY <1>5, <1>7 DEF InSight, s

(* When the CPU is idle no timer is late by more than a busy period. *)
LEMMA IdleInTime ==
  ASSUME Ahead(0), IInv, OrderInv, Idle, NEW x \in Timers, flags[x].running
  PROVE  1 - MaxBusy <= Left(x)
<1> DEFINE l == getLevel(x)
<1>1. TypeOK /\ Lists /\ SortedLists /\ MaxBusy \in Nat
  BY SortedListsSuffice, ConstantsAssumption DEF IInv, OrderInv
<1>2. l \in Levels /\ x \in On(l)
  BY <1>1, LevelTypes DEF getLevel, TypeOK, Flags, On
<1> HIDE DEF l
<1>3. list[l] \in Seq(Timers) /\ Elements(list[l]) = On(l) /\ list[l] # <<>>
  <2>1. list[l] \in Seq(Timers) /\ Elements(list[l]) = On(l)
    BY <1>1, <1>2 DEF TypeOK, Lists
  <2>2. QED
    BY <1>2, <2>1 DEF Elements
<1>4. Left(Head(list[l])) <= Left(x) /\ Left(Head(list[l])) \in Int /\ Left(x) \in Int
  <2>1. LeftAt(fireTime, tick) \in [Timers -> Int]
    BY <1>1, LeftAtType DEF TypeOK
  <2>2. LeftAt(fireTime, tick)[Head(list[l])] <= LeftAt(fireTime, tick)[x]
    BY <1>1, <1>2, <1>3, <2>1, HeadIsFirst DEF SortedLists
  <2>3. Head(list[l]) \in Timers
    BY <1>3, TailElements
  <2>4. QED
    BY <1>1, <2>2, <2>3, LeftType
<1>5. timeout[l] # Forever /\ timeout[l] # 0 /\ timeout[l] <= Left(Head(list[l])) + MaxBusy
  BY <1>2, <1>3 DEF Idle, Asleep, OrderInv, TimeoutsInTime
<1>6. timeout[l] \in Int /\ timeout[l] >= 1
  BY <1>1, <1>2, <1>5, CounterAssumption DEF TypeOK, Ticks
<1>7. QED
  BY <1>1, <1>4, <1>5, <1>6

LEMMA TickOrders ==
  ASSUME Ahead(0), IInv, IInv', OrderInv, Tick
  PROVE  /\ OrderInv'
         /\ \A x \in Timers : flags[x].running => Left(x)' = Left(x) - 1 /\ Left(x) > -MaxLate
<1>1. /\ TypeOK /\ Lists /\ SortedLists /\ TimesInSight /\ StartRequests /\ HighStaysHigh
      /\ RepeatingTimers /\ CurrentInCallback /\ TimeoutsInTime
  BY SortedListsSuffice DEF IInv, OrderInv
<1>2. UNCHANGED <<list, flags, fireTime, inbox, pc, current>>
  BY DEF Tick, timers
<1>3. ASSUME NEW x \in Timers, flags[x].running \/ \E l \in Levels : current[l] = x
      PROVE  Left(x)' = Left(x) - 1 /\ InSight(fireTime[x])'
  <2>1. fireTime[x] \in Ticks /\ InSight(fireTime[x])
    BY <1>1, <1>3 DEF TimesInSight, TypeOK
  <2>2. Idle => 1 - MaxBusy <= Left(x)
    <3>1. SUFFICES ASSUME Idle PROVE 1 - MaxBusy <= Left(x)
      OBVIOUS
    <3>2. \A l \in Levels : current[l] # x
      <4>1. \A l \in Levels : current[l] = Nothing
        BY <1>1, <3>1 DEF Idle, Asleep, CurrentInCallback
      <4>2. QED
        BY <4>1, ConstantsAssumption
    <3>3. QED
      BY <1>3, <3>1, <3>2, IdleInTime
  <2>3. PICK f \in Ticks : f = fireTime[x] /\ InSight(f)
    BY <2>1
  <2>4. Left(x) = Signed(f - tick) /\ Left(x)' = Signed(f - tick') /\ fireTime'[x] = f
    BY <1>2, <2>3 DEF Left
  <2>5. Signed(f - tick') = Signed(f - tick) - 1 /\ InSight(f)'
    BY <1>1, <2>2, <2>3, <2>4, TickSubtracts
  <2>6. QED
    BY <2>4, <2>5 DEF InSight
<1>4. ASSUME NEW x \in Timers, flags[x].running PROVE Left(x) > -MaxLate
  <2>1. Left(x) \in Int /\ Left(x)' = Left(x) - 1
    BY <1>1, <1>3, <1>4, LeftType
  <2>2. Near(Left(x)')
    <3>1. TypeOK' /\ flags'[x].running /\ InSight(fireTime[x])' /\ fireTime'[x] = fireTime[x]
      BY <1>2, <1>3, <1>4 DEF IInv
    <3>2. busy' \in 0 .. MaxBusy /\ MaxBusy \in Nat
      BY <3>1, ConstantsAssumption DEF TypeOK
    <3>3. QED
      BY <2>1, <3>1, <3>2 DEF InSight, Near, Left, MaxLate
  <2>3. -MaxLate <= Left(x) - 1 /\ MaxLate \in Int
    BY <2>1, <2>2, ConstantsAssumption DEF Near, MaxLate
  <2>4. QED
    BY <2>1, <2>3
<1>5. ListsSorted'
  <2>1. ASSUME NEW l \in Levels PROVE Sorted(list[l], LeftAt(fireTime', tick'))
    <3>1. Sorted(list[l], LeftAt(fireTime, tick)) /\ Elements(list[l]) = On(l)
      BY <1>1 DEF SortedLists, Lists
    <3>2. ASSUME NEW y \in On(l)
          PROVE  /\ LeftAt(fireTime, tick)[y] \in Int
                 /\ LeftAt(fireTime', tick')[y] = LeftAt(fireTime, tick)[y] - 1
      <4>1. y \in Timers /\ flags[y].running
        BY DEF On
      <4>2. LeftAt(fireTime', tick')[y] = Left(y)'
        BY <4>1 DEF LeftAt, Left
      <4>3. QED
        BY <1>1, <1>3, <4>1, <4>2, LeftType
    <3>3. QED
      BY <3>1, <3>2, SortedShift
  <2>2. SortedLists'
    BY <1>2, <2>1 DEF SortedLists
  <2>3. QED
    BY <2>2, SortedListsNext DEF IInv
<1>6. TimesInSight'
  BY <1>2, <1>3 DEF TimesInSight
<1>7. StartRequests'
  <2>1. ASSUME NEW l \in Levels, NEW r \in Waiting(l), r.op = "start" PROVE StartRequest(l, r)'
    <3>1. StartRequest(l, r)
      BY <1>1, <2>1 DEF StartRequests
    <3>2. ~Idle
      BY DEF Idle, Asleep, Waiting
    <3>3. r.time \in Ticks
      <4>1. inbox[l] \in Seq(Request)
        BY <1>1 DEF TypeOK
      <4>2. r \in Request
        BY <2>1, <4>1, ElementOfSeq, LenProperties DEF Waiting
      <4>3. QED
        BY <2>1, <4>2 DEF Request, UserCall
    <3>4. InSight(r.time)'
      BY <1>1, <3>1, <3>2, <3>3, TickSubtracts DEF StartRequest
    <3>5. QED
      BY <1>2, <3>1, <3>4 DEF StartRequest
  <2>2. QED
    BY <1>2, <2>1 DEF StartRequests, Waiting
<1>8. HighStaysHigh' /\ RepeatingTimers' /\ CurrentInCallback'
  BY <1>1, <1>2 DEF HighStaysHigh, RepeatingTimers, CurrentInCallback
<1>9. TimeoutsInTime'
  <2>1. ASSUME NEW l \in Levels, list[l] # <<>>
        PROVE  /\ pc[l] = "receive" =>
                    timeout'[l] # Forever /\ timeout'[l] <= Left(Head(list[l]))' + busy'
               /\ pc[l] = "sleep" =>
                    /\ timeout'[l] # Forever
                    /\ timeout'[l] # 0 => timeout'[l] <= Left(Head(list[l]))' + MaxBusy
    <3>1. Head(list[l]) \in Timers /\ Head(list[l]) \in On(l)
      <4>1. list[l] \in Seq(Timers) /\ Elements(list[l]) = On(l)
        BY <1>1 DEF TypeOK, Lists
      <4>2. QED
        BY <2>1, <4>1, TailElements
    <3>2. Left(Head(list[l]))' = Left(Head(list[l])) - 1 /\ Left(Head(list[l])) \in Int
      BY <1>1, <1>2, <1>3, <3>1, LeftType DEF On
    <3> DEFINE h == Left(Head(list[l]))
    <3>3. timeout'[l] = IF pc[l] = "sleep" /\ timeout[l] \notin {0, Forever}
                        THEN timeout[l] - 1 ELSE timeout[l]
      BY DEF Tick
    <3>4. timeout[l] # Forever => timeout[l] \in Int
      BY <1>1, CounterAssumption DEF TypeOK, Ticks
    <3>5. busy \in Nat /\ MaxBusy \in Nat
      BY <1>1, ConstantsAssumption DEF TypeOK
    <3>6. ASSUME pc[l] = "receive"
          PROVE  timeout'[l] # Forever /\ timeout'[l] <= h - 1 + busy'
      <4>1. busy' = busy + 1
        BY <3>6 DEF Tick, Idle, Asleep
      <4>2. timeout[l] # Forever /\ timeout[l] <= h + busy
        BY <1>1, <2>1, <3>6 DEF TimeoutsInTime
      <4>3. QED
        BY <3>2, <3>3, <3>4, <3>5, <3>6, <4>1, <4>2
    <3>7. ASSUME pc[l] = "sleep"
          PROVE  timeout'[l] # Forever /\ (timeout'[l] # 0 => timeout'[l] <= h - 1 + MaxBusy)
      <4>1. timeout[l] # Forever /\ (timeout[l] # 0 => timeout[l] <= h + MaxBusy)
        BY <1>1, <2>1, <3>7 DEF TimeoutsInTime
      <4>2. timeout[l] # 0 => timeout'[l] = timeout[l] - 1 /\ timeout'[l] \in Int
        BY <3>3, <3>4, <3>7, <4>1
      <4>3. timeout[l] = 0 => timeout'[l] = 0
        BY <3>3
      <4>4. timeout'[l] # Forever
        BY <4>1, <4>2, <4>3, ConstantsAssumption
      <4>5. QED
        BY <3>2, <3>4, <3>5, <4>1, <4>2, <4>3, <4>4
    <3>8. QED
      BY <3>2, <3>6, <3>7
  <2>2. QED
    BY <1>2, <2>1 DEF TimeoutsInTime
<1>10. QED
  BY <1>3, <1>4, <1>5, <1>6, <1>7, <1>8, <1>9 DEF OrderInv

-----------------------------------------------------------------------------
(* The invariant holds. *)

LEMMA InitOrders == Init => OrderInv
<1> SUFFICES ASSUME Init PROVE OrderInv
  OBVIOUS
<1>1. \A l \in Levels : list[l] = <<>> /\ inbox[l] = <<>> /\ current[l] = Nothing /\ pc[l] = "callback"
  BY DEF Init
<1>2. \A x \in Timers : ~flags[x].running /\ ~flags[x].repeat /\ ~flags[x].high
  BY DEF Init
<1>3. ListsSorted /\ TimeoutsInTime
  BY <1>1 DEF ListsSorted, TimeoutsInTime
<1>4. TimesInSight
  BY <1>1, <1>2, ConstantsAssumption DEF TimesInSight
<1>5. StartRequests /\ CurrentInCallback
  BY <1>1 DEF StartRequests, Waiting, CurrentInCallback
<1>6. HighStaysHigh /\ RepeatingTimers
  BY <1>2 DEF HighStaysHigh, RepeatingTimers
<1>7. QED
  BY <1>3, <1>4, <1>5, <1>6 DEF OrderInv

LEMMA NextOrders == Disciplined /\ IInv /\ OrderInv /\ [Next]_vars => OrderInv'
<1> SUFFICES ASSUME Disciplined, IInv, OrderInv, [Next]_vars PROVE OrderInv'
  OBVIOUS
<1>1. IInv' /\ Ahead(0)
  BY NextKeeps DEF Disciplined
<1>2. CASE UNCHANGED vars
  BY <1>2 DEF vars, OrderInv, ListsSorted, Left, TimesInSight, InSight, StartRequests, StartRequest,
              Waiting, HighStaysHigh, RepeatingTimers, CurrentInCallback, TimeoutsInTime
<1>3. CASE Program
  BY <1>1, <1>3, ProgramOrders
<1>4. CASE MainLoop
  <2>1. PICK l \in Levels :
          Poll(l) \/ Sleep(l) \/ TimeOut(l) \/ Receive(l) \/ execute(l) \/ Return(l)
    BY <1>4 DEF MainLoop
  <2>2. QED
    BY <1>1, <2>1, PollOrders, SleepOrders, TimeOutOrders, ReceiveOrders, executeOrders, ReturnOrders
<1>5. CASE Tick
  BY <1>1, <1>5, TickOrders
<1>6. QED
  BY <1>2, <1>3, <1>4, <1>5 DEF Next

THEOREM OrderHolds == Disciplined /\ Spec => [](Disciplined /\ IInv /\ OrderInv)
<1>1. Disciplined /\ Init => Disciplined /\ IInv /\ OrderInv
  BY InitIInv, InitOrders
<1>2. Disciplined /\ IInv /\ OrderInv /\ [Next]_vars => (Disciplined /\ IInv /\ OrderInv)'
  <2>1. Disciplined => Disciplined'
    BY DEF Disciplined
  <2>2. QED
    BY <2>1, NextKeeps, NextOrders
<1>3. QED
  BY <1>1, <1>2, PTL DEF Spec

-----------------------------------------------------------------------------
(***************************************************************************)
(* In a disciplined program no timer is behind one that fires later,       *)
(* whatever is started, stopped, put back and forwarded, also when the     *)
(* tick counter wraps between the fire times of a list.                    *)
(***************************************************************************)
THEOREM TimersAreSorted == Disciplined /\ Spec => []ListsSorted
<1>1. OrderInv => ListsSorted
  BY DEF OrderInv
<1>2. QED
  BY <1>1, OrderHolds, PTL

(***************************************************************************)
(* In a disciplined program a worker that waits in xQueueReceive has a     *)
(* timeout, and one that ends no later than MaxBusy ticks after its first  *)
(* timer is due: no start on another level is slept over.                  *)
(***************************************************************************)
THEOREM WorkersWake == Disciplined /\ Spec => []WakesInTime
<1>1. OrderInv => WakesInTime
  BY DEF OrderInv, TimeoutsInTime, WakesInTime, Asleep
<1>2. QED
  BY <1>1, OrderHolds, PTL

(***************************************************************************)
(* In a disciplined program timers of LEVEL_HIGH are executed, as          *)
(* timer.h:22 says: none is late by more than MaxLate.  Run timer_high     *)
(* shows that they are not if LEVEL_LOW moves them there.                  *)
(***************************************************************************)
THEOREM HighTimersExecuted == Disciplined /\ Spec => []HighExecuted
<1>1. Disciplined /\ IInv /\ OrderInv => HighExecuted
  <2> SUFFICES ASSUME Disciplined, IInv, OrderInv, NEW x \in Timers, flags[x].running
               PROVE  Left(x) >= -MaxLate
    BY DEF HighExecuted
  <2>1. Ahead(0) /\ TypeOK /\ TimesInSight
    BY DEF Disciplined, IInv, OrderInv
  <2>2. Near(Left(x)) /\ Left(x) \in Int /\ MaxLate \in Int
    BY <2>1, RunningNear, LeftType, Bounds
  <2>3. QED
    BY <2>2 DEF Near
<1>2. QED
  BY <1>1, OrderHolds, PTL

-----------------------------------------------------------------------------
(* The implementation of TimerService *)

(* What the service sees *)
left   == [x \in Timers |-> IF flags[x].running THEN Left(x) ELSE Nothing]
period == [x \in Timers |-> IF flags[x].repeat THEN flags[x].interval ELSE 0]
level  == [x \in Timers |-> getLevel(x)]

LEMMA InitService == Init => Service!Init
<1> SUFFICES ASSUME Init PROVE Service!Init
  OBVIOUS
<1>1. \A x \in Timers : ~flags[x].running /\ ~flags[x].repeat /\ ~flags[x].high
  BY DEF Init
<1>2. left = [x \in Timers |-> Nothing] /\ period \in [Timers -> Nat]
  BY <1>1 DEF left, period
<1>3. level \in [Timers -> Levels]
  BY <1>1 DEF level, getLevel, LevelOf, Levels
<1>4. current = [l \in Levels |-> Nothing]
  BY DEF Init
<1>5. QED
  BY <1>2, <1>3, <1>4 DEF Service!Init, left, period, level

LEMMA ServiceStutters ==
  ASSUME UNCHANGED <<flags, fireTime, tick, current>>
  PROVE  UNCHANGED Service!vars
BY DEF Service!vars, Left, getLevel

SeenType ==
  \A x \in Timers :
    /\ flags[x].running => left[x] \in Int /\ left[x] # Nothing
    /\ period[x] \in Nat /\ level[x] \in Levels

LEMMA SeenTypeHolds == TypeOK => SeenType
<1> SUFFICES ASSUME TypeOK, NEW x \in Timers
             PROVE  /\ flags[x].running => left[x] \in Int /\ left[x] # Nothing
                    /\ period[x] \in Nat /\ level[x] \in Levels
  BY DEF SeenType
<1>1. Left(x) \in Int
  BY LeftType
<1>2. flags[x] \in Flags /\ flags[x].interval \in Nat
  BY CounterAssumption DEF TypeOK, Flags
<1>3. QED
  BY <1>1, <1>2, LevelTypes, ConstantsAssumption DEF left, period, level, getLevel, Flags

LEMMA SeenTypeNext == TypeOK' => SeenType'
  BY SeenTypeHolds, PTL

(* A step that concerns no timer but x *)
LEMMA OnlyOneSeen ==
  ASSUME NEW x \in Timers, tick' = tick,
         \A y \in Timers \ {x} : flags'[y] = flags[y] /\ fireTime'[y] = fireTime[y]
  PROVE  /\ left' = [left EXCEPT ![x] = left'[x]]
         /\ period' = [period EXCEPT ![x] = period'[x]]
         /\ level' = [level EXCEPT ![x] = level'[x]]
<1>1. \A y \in Timers \ {x} : left'[y] = left[y] /\ period'[y] = period[y] /\ level'[y] = level[y]
  BY DEF left, period, level, Left, getLevel
<1>2. /\ left = [y \in Timers |-> left[y]] /\ left' = [y \in Timers |-> left'[y]]
      /\ period = [y \in Timers |-> period[y]] /\ period' = [y \in Timers |-> period'[y]]
      /\ level = [y \in Timers |-> level[y]] /\ level' = [y \in Timers |-> level'[y]]
  BY DEF left, period, level
<1>3. QED
  BY <1>1, <1>2

LEMMA ServiceArm ==
  ASSUME TypeOK', NEW x \in Timers, tick' = tick, current' = current,
         \A y \in Timers \ {x} : flags'[y] = flags[y] /\ fireTime'[y] = fireTime[y],
         flags'[x].running
  PROVE  Service!Arm(x)
<1>1. left'[x] \in Int /\ period'[x] \in Nat /\ level'[x] \in Levels
  BY SeenTypeNext DEF SeenType
<1>2. QED
  BY <1>1, OnlyOneSeen DEF Service!Arm, left, period, level

LEMMA ServiceDisarm ==
  ASSUME TypeOK', NEW x \in Timers, tick' = tick, current' = current,
         \A y \in Timers \ {x} : flags'[y] = flags[y] /\ fireTime'[y] = fireTime[y],
         ~flags'[x].running, flags'[x].high = flags[x].high
  PROVE  Service!Disarm(x)
<1>1. left'[x] = Nothing /\ period'[x] \in Nat /\ level'[x] = level[x]
  BY SeenTypeNext DEF SeenType, left, level, getLevel
<1>2. left' = [left EXCEPT ![x] = Nothing] /\ level' = level
  BY <1>1, OnlyOneSeen DEF level
<1>3. QED
  BY <1>1, <1>2, OnlyOneSeen DEF Service!Disarm, left, period, level

LEMMA ServiceStart ==
  ASSUME IInv, IInv', NEW l, NEW x \in Timers, NEW time, NEW m, NEW queues,
         start(l, x, time, m, queues), tick' = tick, current' = current
  PROVE  [Service!Next]_(Service!vars)
<1>1. CASE startHere(l, x, time, m, queues)
  <2>1. /\ \A y \in Timers \ {x} : flags'[y] = flags[y] /\ fireTime'[y] = fireTime[y]
        /\ flags'[x].running
    BY <1>1 DEF startHere, IInv, TypeOK, RunningFlags
  <2>2. Service!Arm(x)
    BY <2>1, ServiceArm DEF IInv
  <2>3. QED
    BY <2>2 DEF Service!Next
<1>2. CASE startThere(l, x, time, m, queues)
  BY <1>2, ServiceStutters DEF startThere, timers
<1>3. QED
  BY <1>1, <1>2, startCases

LEMMA ServiceStop ==
  ASSUME IInv, IInv', NEW l, NEW x \in Timers, NEW queues,
         stop(l, x, queues), tick' = tick, current' = current
  PROVE  [Service!Next]_(Service!vars)
<1>1. CASE flags' = [flags EXCEPT ![x].running = FALSE] /\ fireTime' = fireTime
  <2>1. flags \in [Timers -> Flags]
    BY DEF IInv, TypeOK
  <2>2. \A y \in Timers \ {x} : flags'[y] = flags[y] /\ fireTime'[y] = fireTime[y]
    BY <1>1, <2>1
  <2>3. flags'[x] = [flags[x] EXCEPT !.running = FALSE] /\ flags[x] \in Flags
    BY <1>1, <2>1
  <2>4. ~flags'[x].running /\ flags'[x].high = flags[x].high
    BY <2>3 DEF Flags
  <2>5. Service!Disarm(x)
    BY <2>2, <2>4, ServiceDisarm DEF IInv
  <2>6. QED
    BY <2>5 DEF Service!Next
<1>2. CASE UNCHANGED timers
  BY <1>2, ServiceStutters DEF timers
<1>3. QED
  BY <1>1, <1>2 DEF stop

(* What fires is what the service lets fire: the first of its level, and due. *)
LEMMA ServiceFire ==
  ASSUME Ahead(0), IInv, IInv', OrderInv, NEW l \in Levels, NEW x, x = Head(list[l]), Fires(l, x)
  PROVE  x \in Timers /\ Service!Fire(x)
<1>1. /\ x \in On(l) /\ x \in Timers
      /\ Left(x) \in Int /\ Left(x) <= 0
      /\ \A y \in On(l) : Left(x) <= Left(y)
      /\ flags[x].repeat => Left(x)' = Left(x) + flags[x].interval /\ flags[x].interval # 0
  BY FiresFirst
<1>2. TypeOK /\ TypeOK' /\ SeenType /\ CurrentInCallback
  BY SeenTypeHolds DEF IInv, OrderInv
<1>3. flags[x].running /\ level[x] = l
  BY <1>1 DEF On, level
<1>4. left[x] # Nothing /\ left[x] <= 0
  BY <1>1, <1>2, <1>3 DEF SeenType, left
<1>5. \A y \in Timers : left[y] # Nothing /\ level[y] = l => left[x] <= left[y]
  BY <1>1, <1>3 DEF left, level, On
<1>6. current[l] = Nothing /\ current' = [current EXCEPT ![l] = x]
  BY <1>2 DEF CurrentInCallback, Fires
<1>7. tick' = tick
  BY DEF Fires
<1>8. flags[x] \in Flags /\ flags \in [Timers -> Flags] /\ fireTime \in [Timers -> Ticks]
  BY <1>1, <1>2 DEF TypeOK
<1>9. /\ \A y \in Timers \ {x} : flags'[y] = flags[y] /\ fireTime'[y] = fireTime[y]
      /\ flags'[x].high = flags[x].high /\ flags'[x].repeat = flags[x].repeat
      /\ flags'[x].interval = flags[x].interval /\ flags'[x].running = flags[x].repeat
  <2>1. CASE flags[x].repeat
    BY <1>1, <1>3, <1>8, <2>1 DEF Fires, Flags
  <2>2. CASE ~flags[x].repeat
    <3>1. flags'[x] = [flags[x] EXCEPT !.running = FALSE] /\ fireTime' = fireTime
            /\ \A y \in Timers \ {x} : flags'[y] = flags[y]
      BY <1>1, <1>8, <2>2 DEF Fires
    <3>2. QED
      BY <1>8, <2>2, <3>1 DEF Flags
  <2>3. QED
    BY <2>1, <2>2
<1>10. left'[x] = IF period[x] = 0 THEN Nothing ELSE left[x] + period[x]
  BY <1>1, <1>3, <1>9 DEF left, period
<1>11. period' = period /\ level' = level
  BY <1>1, <1>9 DEF period, level, getLevel
<1>12. left' = [left EXCEPT ![x] = IF period[x] = 0 THEN Nothing ELSE @ + period[x]]
  <2>1. left' = [left EXCEPT ![x] = left'[x]]
    BY <1>1, <1>7, <1>9, OnlyOneSeen
  <2>2. QED
    BY <1>1, <1>10, <2>1 DEF left
<1>13. /\ left[x] # Nothing /\ left[x] <= 0
       /\ \A y \in Timers : left[y] # Nothing /\ level[y] = level[x] => left[x] <= left[y]
       /\ current[level[x]] = Nothing
       /\ current' = [current EXCEPT ![level[x]] = x]
       /\ left' = [left EXCEPT ![x] = IF period[x] = 0 THEN Nothing ELSE @ + period[x]]
       /\ period' = period /\ level' = level
  BY <1>3, <1>4, <1>5, <1>6, <1>11, <1>12, SMTT(30)
<1>14. Service!Fire(x)
  BY <1>13 DEF Service!Fire, Service!Due, Service!Armed, left, period, level
<1>15. QED
  BY <1>1, <1>14

LEMMA ServiceTick ==
  ASSUME Ahead(0), IInv, IInv', OrderInv, Tick
  PROVE  Service!Tick
<1>1. UNCHANGED <<flags, fireTime, current>>
  BY DEF Tick, timers
<1>2. \A x \in Timers : flags[x].running => Left(x)' = Left(x) - 1 /\ Left(x) > -MaxLate
  BY TickOrders
<1>3. SeenType
  BY SeenTypeHolds DEF IInv
<1>4. \A x \in Timers : flags[x].running <=> left[x] # Nothing
  BY <1>3 DEF SeenType, left
<1>5. \A x \in Timers : left[x] # Nothing => left[x] > -MaxLate
  BY <1>2, <1>4 DEF left
<1>6. left' = [x \in Timers |-> IF left[x] # Nothing THEN left[x] - 1 ELSE Nothing]
  BY <1>1, <1>2, <1>4 DEF left
<1>7. period' = period /\ level' = level
  BY <1>1 DEF period, level, getLevel
<1>8. QED
  BY <1>1, <1>5, <1>6, <1>7 DEF Service!Tick, Service!Armed, left, period, level

LEMMA ServiceSteps ==
  Disciplined /\ IInv /\ OrderInv /\ [Next]_vars => [Service!Next]_(Service!vars)
<1> SUFFICES ASSUME Disciplined, IInv, OrderInv, [Next]_vars
             PROVE  [Service!Next]_(Service!vars)
  OBVIOUS
<1>1. IInv' /\ Ahead(0)
  BY NextKeeps DEF Disciplined
<1>2. CASE UNCHANGED vars
  BY <1>2, ServiceStutters DEF vars
<1>3. ASSUME NEW l \in Levels, NEW x \in Timers, Start(l, x) \/ StartContinuos(l, x)
      PROVE  [Service!Next]_(Service!vars)
  BY <1>1, <1>3, ServiceStart DEF Start, StartContinuos, control
<1>4. ASSUME NEW l \in Levels, NEW x \in Timers, Stop(l, x)
      PROVE  [Service!Next]_(Service!vars)
  BY <1>1, <1>4, ServiceStop DEF Stop, control
<1>5. ASSUME NEW l, NEW r, FromISR(l, r) PROVE [Service!Next]_(Service!vars)
  BY <1>5, ServiceStutters DEF FromISR, timers, control
<1>6. CASE Program
  BY <1>3, <1>4, <1>5, <1>6 DEF Program, startFromISR, CallFromISR
<1>7. ASSUME NEW l \in Levels, Poll(l) \/ Sleep(l) \/ TimeOut(l)
      PROVE  [Service!Next]_(Service!vars)
  BY <1>7, ServiceStutters DEF Poll, Sleep, TimeOut, timers
<1>8. ASSUME NEW l \in Levels, Receive(l) PROVE [Service!Next]_(Service!vars)
  <2> DEFINE r    == Head(inbox[l])
             rest == [inbox EXCEPT ![l] = Tail(@)]
  <2>1. /\ tick' = tick /\ current' = current
        /\ \/ r.op = "start" /\ start(l, r.timer, r.time, r.mode, rest)
           \/ r.op = "stop" /\ stop(l, r.timer, rest)
           \/ r.op = "call" /\ UNCHANGED timers
    BY <1>8 DEF Receive
  <2>2. r.op # "call" => r.timer \in Timers
    <3>1. inbox[l] \in Seq(Request) /\ inbox[l] # <<>>
      BY <1>8 DEF Receive, IInv, TypeOK
    <3>2. r \in Request
      BY <3>1, TailElements
    <3>3. QED
      BY <3>2 DEF Request, UserCall
  <2> HIDE DEF r, rest
  <2>3. CASE UNCHANGED timers
    BY <2>1, <2>3, ServiceStutters DEF timers
  <2>4. QED
    BY <1>1, <2>1, <2>2, <2>3, ServiceStart, ServiceStop
<1>9. ASSUME NEW l \in Levels, execute(l) PROVE [Service!Next]_(Service!vars)
  <2>1. CASE Fires(l, Head(list[l]))
    <3>1. list[l] \in Seq(Timers) /\ list[l] # <<>>
      BY <2>1, TimeoutType DEF Fires, IInv, TypeOK
    <3>2. PICK x \in Timers : x = Head(list[l])
      BY <3>1, TailElements
    <3>3. Fires(l, x)
      BY <2>1, <3>2 DEF Fires
    <3>4. Service!Fire(x)
      BY <1>1, <3>2, <3>3, ServiceFire
    <3>5. QED
      BY <3>4 DEF Service!Next
  <2>2. CASE UNCHANGED <<timers, tick, inbox, current, busy>>
    BY <2>2, ServiceStutters DEF timers
  <2>3. QED
    BY <1>9, <2>1, <2>2, executeCases
<1>10. ASSUME NEW l \in Levels, Return(l) PROVE [Service!Next]_(Service!vars)
  <2>1. Service!Return(l)
    BY <1>10 DEF Return, timers, Service!Return, Left, getLevel
  <2>2. QED
    BY <2>1 DEF Service!Next
<1>11. CASE MainLoop
  BY <1>7, <1>8, <1>9, <1>10, <1>11 DEF MainLoop
<1>12. CASE Tick
  BY <1>1, <1>12, ServiceTick DEF Service!Next
<1>13. QED
  BY <1>2, <1>6, <1>11, <1>12 DEF Next

(***************************************************************************)
(* A disciplined program sees the timer service: a timer fires on its      *)
(* level, not before it is due and not before one that was due earlier,    *)
(* none is late by more than MaxLate ticks, and a repeating timer is due   *)
(* again its period after it was due.  This covers the sorted lists, the   *)
(* requests between levels, the timeouts and the wrap of the counter.      *)
(***************************************************************************)
THEOREM ImplementsTimerService == Disciplined /\ Spec => IsTimerService
<1>1. Init => Service!Init
  BY InitService
<1>2. Disciplined /\ IInv /\ OrderInv /\ [Next]_vars => [Service!Next]_(Service!vars)
  BY ServiceSteps
<1>3. QED
  BY <1>1, <1>2, OrderHolds, PTL DEF Spec, IsTimerService, Service!Spec
==============================================================================
