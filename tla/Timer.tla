-------------------------------- MODULE Timer --------------------------------
(***************************************************************************)
(* The software timers of app/timer.cpp, on the workers of app/worker.cpp. *)
(*                                                                         *)
(* Each worker owns a list of timers sorted by the time they fire.  It     *)
(* sleeps in xQueueReceive until a call arrives or its first timer is due. *)
(* A timer is started and stopped by the worker of its level only; others  *)
(* forward the request to that worker through its queue.  The queue is     *)
(* what module Worker shows it to be: a mailbox.                           *)
(*                                                                         *)
(* Ticks are counted modulo M (2^32 in the code), and compared by the sign *)
(* of their difference.  One action is what a worker does between two      *)
(* points at which a tick, an interrupt or the other worker matters.       *)
(***************************************************************************)
EXTENDS TimerList

CONSTANTS
  Delays,     \* the `time' of a relative start
  Modes,      \* Modes[x]: the `flags' that x is started with
  Movers,     \* who may start a timer with another level than it has
  MaxBusy,    \* the CPU is idle at least once in so many ticks
  MaxInbox,   \* bound on the calls waiting for a worker
  IntervalBits, \* IntervalBits[t]: time t & FLAG_INTERVAL_MAX
  HighTimes,  \* the times t with t & FLAG_HIGH
  Forever,    \* portMAX_DELAY
  Nothing

Levels == {"low", "high"}
Mode   == [repeat : BOOLEAN, high : BOOLEAN, interval : 0 .. M - 1]
NoMode == [repeat |-> FALSE, high |-> FALSE, interval |-> 0]

ASSUME ConstantsAssumption ==
  /\ Delays \subseteq 0 .. M - 1
  /\ Modes \in [Timers -> SUBSET Mode]
  /\ Movers \subseteq Levels \cup {"isr"}
  /\ MaxBusy \in Nat
  /\ MaxInbox \in Nat
  /\ IntervalBits \in [Ticks -> 0 .. M - 1]
  /\ HighTimes \subseteq Ticks
  /\ Forever \notin Int
  /\ Nothing \notin Timers /\ Nothing \notin Int

VARIABLES
  tick,      \* xTaskGetTickCount()
  list,      \* timersList[l], first to last
  flags,     \* timer->_flags
  fireTime,  \* timer->fireTime
  inbox,     \* inbox[l]: the calls queued for worker l
  pc,        \* pc[l]: where worker l is in mainLoop
  timeout,   \* timeout[l]: mainLoop's timeout, counted down while it sleeps
  current,   \* current[l]: the timer whose callback worker l executes
  posted,    \* an interrupt handler posted a call since the last tick
  busy       \* ticks since the CPU was idle

vars == <<tick, list, flags, fireTime, inbox, pc, timeout, current, posted, busy>>

timers  == <<list, flags, fireTime>>
control == <<pc, timeout, current>>

Flags    == [running : BOOLEAN, repeat : BOOLEAN, high : BOOLEAN, interval : 0 .. M - 1]
UserCall == [op |-> "call", timer |-> Nothing, time |-> 0, mode |-> NoMode]
Request  == [op : {"start", "stop"}, timer : Timers, time : Ticks, mode : Mode] \cup {UserCall}

TypeOK ==
  /\ tick \in Ticks
  /\ list \in [Levels -> Seq(Timers)]
  /\ flags \in [Timers -> Flags]
  /\ fireTime \in [Timers -> Ticks]
  /\ inbox \in [Levels -> Seq(Request)]
  /\ pc \in [Levels -> {"poll", "receive", "sleep", "execute", "callback"}]
  /\ timeout \in [Levels -> Ticks \cup {Forever}]
  /\ current \in [Levels -> Timers \cup {Nothing}]
  /\ posted \in BOOLEAN
  /\ busy \in 0 .. MaxBusy

(* Static timers are all zeros; both workers execute their startup callback. *)
Init ==
  /\ tick = 0
  /\ list = [l \in Levels |-> <<>>]
  /\ flags = [x \in Timers |-> [running |-> FALSE, repeat |-> FALSE, high |-> FALSE, interval |-> 0]]
  /\ fireTime = [x \in Timers |-> 0]
  /\ inbox = [l \in Levels |-> <<>>]
  /\ pc = [l \in Levels |-> "callback"]
  /\ timeout = [l \in Levels |-> Forever]
  /\ current = [l \in Levels |-> Nothing]
  /\ posted = FALSE
  /\ busy = 0

-----------------------------------------------------------------------------
(* Scheduling.  As in Worker, a name with a suffix is a mistaken variant. *)

(* Worker l waits in xQueueReceive: no call has arrived, its time is not up. *)
Asleep(l) == pc[l] = "sleep" /\ inbox[l] = <<>> /\ timeout[l] # 0

Idle == \A l \in Levels : Asleep(l)

(* LEVEL_LOW is the more urgent task: LEVEL_HIGH runs only while it waits. *)
Runs(l) == l = "high" => Asleep("low")

-----------------------------------------------------------------------------
(* The sorted list *)

addItem_Unsigned(s, x, fire) ==
  Insert(s, Leading(s, {y \in Timers : fire[y] - fire[x] <= 0}), x)

(* x is put after all timers that fire earlier or at the same time. *)
addItem(s, x, fire) ==
  Insert(s, Leading(s, {y \in Timers : Signed(fire[y] - fire[x]) <= 0}), x)

(* Only the first x is removed, and nothing if there is none. *)
removeItem(s, x) == Remove(s, Leading(s, Timers \ {x}))

(* getListPtr and getLevel: by the flags of the last start *)
LevelOf(high) == IF high THEN "high" ELSE "low"
getLevel(x)   == LevelOf(flags[x].high)

getNextTimeout_NoClamp(l) ==
  IF list[l] = <<>> THEN Forever ELSE Signed(fireTime[Head(list[l])] - tick)

(* How long worker l may wait. *)
getNextTimeout(l) ==
  IF list[l] = <<>> THEN Forever
  ELSE LET t == Signed(fireTime[Head(list[l])] - tick) IN IF t <= 0 THEN 0 ELSE t

-----------------------------------------------------------------------------
(* start and stop *)

StartFW(x, time, m) == [op |-> "start", timer |-> x, time |-> time, mode |-> m]
StopFW(x) == [op |-> "stop", timer |-> x, time |-> 0, mode |-> NoMode]

calcAbsoluteTime_Relative(time) == time % M

calcAbsoluteTime(time) == (tick + time) % M

Post(queues, l, request) == inbox' = [queues EXCEPT ![l] = Append(@, request)]

(***************************************************************************)
(* The flags of a started timer.  One that repeats without an interval is  *)
(* given all bits of its absolute time as flags: an interval, and perhaps  *)
(* FLAG_HIGH.  (FLAG_RUNNING and FLAG_REPEAT it has; FLAG_ABSOLUTE is not  *)
(* read again.)                                                            *)
(***************************************************************************)
RunningFlags(time, m) ==
  LET ored == m.repeat /\ m.interval = 0
  IN  [running |-> TRUE, repeat |-> m.repeat,
       high |-> m.high \/ (ored /\ time \in HighTimes),
       interval |-> IF ored THEN IntervalBits[time] ELSE m.interval]

(* The level of a timer that is started, by its new flags *)
NewLevel(time, m) == LevelOf(RunningFlags(time, m).high)

start_NoRemove(l, x, time, m, queues) ==
  \/ /\ l = getLevel(x)
     /\ flags' = [flags EXCEPT ![x] = RunningFlags(time, m)]
     /\ fireTime' = [fireTime EXCEPT ![x] = time]
     /\ list' = [list EXCEPT ![NewLevel(time, m)] = addItem(@, x, fireTime')]
     /\ inbox' = queues
  \/ /\ l # getLevel(x)
     /\ Post(queues, getLevel(x), StartFW(x, time, m))
     /\ UNCHANGED timers

(***************************************************************************)
(* timer::start on worker l, with the absolute time and FLAG_ABSOLUTE that *)
(* it computed or was given; queues are the workers' queues before it.     *)
(***************************************************************************)
start(l, x, time, m, queues) ==
  \/ /\ l = getLevel(x)
     /\ flags' = [flags EXCEPT ![x] = RunningFlags(time, m)]
     /\ fireTime' = [fireTime EXCEPT ![x] = time]
     /\ LET without == IF flags[x].running THEN [list EXCEPT ![l] = removeItem(@, x)] ELSE list
        IN  list' = [without EXCEPT ![NewLevel(time, m)] = addItem(@, x, fireTime')]
     /\ inbox' = queues
  \/ /\ l # getLevel(x)
     /\ Post(queues, getLevel(x), StartFW(x, time, m))
     /\ UNCHANGED timers

stop_OnAnyLevel(l, x, queues) ==
  /\ list' = [list EXCEPT ![l] = removeItem(@, x)]
  /\ flags' = [flags EXCEPT ![x].running = FALSE]
  /\ inbox' = queues
  /\ UNCHANGED fireTime

(* timer::stop *)
stop(l, x, queues) ==
  \/ /\ l = getLevel(x)
     /\ list' = [list EXCEPT ![l] = removeItem(@, x)]
     /\ flags' = [flags EXCEPT ![x].running = FALSE]
     /\ inbox' = queues
     /\ UNCHANGED fireTime
  \/ /\ l # getLevel(x)
     /\ Post(queues, getLevel(x), StopFW(x))
     /\ UNCHANGED timers

-----------------------------------------------------------------------------
(* What the program does with its timers *)

MayMove(who, x, m) == m.high # flags[x].high => who \in Movers
HasRoom(l) == Len(inbox[l]) < MaxInbox

(* A function that worker l executes: the startup one, a call or a timer callback. *)
UserCode(l) == pc[l] = "callback" /\ Runs(l)

(* It calls start or stop for a timer of its own level, or where there is room for a request. *)
MayCall(l, x) == UserCode(l) /\ (getLevel(x) = l \/ HasRoom(getLevel(x)))

Start(l, x) ==
  /\ MayCall(l, x)
  /\ \E d \in Delays, m \in Modes[x] :
       /\ MayMove(l, x, m)
       /\ start(l, x, calcAbsoluteTime(d), m, inbox)
  /\ UNCHANGED <<control, tick, posted, busy>>

(***************************************************************************)
(* A callback lets its timer continue from when it was due.  The program   *)
(* does so once for each time the timer fires: fireTime is not checked to  *)
(* be near the current tick.                                               *)
(***************************************************************************)
StartContinuos(l, x) ==
  /\ MayCall(l, x)
  /\ current[l] = x
  /\ ~flags[x].running
  /\ Signed(fireTime[x] - tick) <= 0
  /\ \E d \in Delays \ {0}, m \in {n \in Modes[x] : ~n.repeat} :
       /\ MayMove(l, x, m)
       /\ start(l, x, (fireTime[x] + d) % M, m, inbox)
  /\ UNCHANGED <<control, tick, posted, busy>>

Stop(l, x) ==
  /\ MayCall(l, x)
  /\ stop(l, x, inbox)
  /\ UNCHANGED <<control, tick, posted, busy>>

(* Interrupt handlers post at most one call per tick. *)
FromISR(l, request) ==
  /\ ~posted
  /\ posted' = TRUE
  /\ HasRoom(l)
  /\ Post(inbox, l, request)
  /\ UNCHANGED <<timers, control, tick, busy>>

startFromISR(x) ==
  \E d \in Delays, m \in Modes[x] :
    /\ MayMove("isr", x, m)
    /\ FromISR(getLevel(x), StartFW(x, calcAbsoluteTime(d), m))

(* A call to a function of the program. *)
CallFromISR(l) == FromISR(l, UserCall)

-----------------------------------------------------------------------------
(* mainLoop *)

Poll(l) ==
  /\ Runs(l)
  /\ pc[l] = "poll"
  /\ timeout' = [timeout EXCEPT ![l] = getNextTimeout(l)]
  /\ pc' = [pc EXCEPT ![l] = IF getNextTimeout(l) = 0 THEN "execute" ELSE "receive"]
  /\ UNCHANGED <<timers, tick, inbox, current, posted, busy>>

(* xQueueReceive finds nothing and blocks. *)
Sleep(l) ==
  /\ Runs(l)
  /\ pc[l] = "receive"
  /\ inbox[l] = <<>>
  /\ pc' = [pc EXCEPT ![l] = "sleep"]
  /\ UNCHANGED <<timers, tick, inbox, timeout, current, posted, busy>>

(* xQueueReceive times out. *)
TimeOut(l) ==
  /\ Runs(l)
  /\ pc[l] = "sleep"
  /\ inbox[l] = <<>>
  /\ timeout[l] = 0
  /\ pc' = [pc EXCEPT ![l] = "execute"]
  /\ UNCHANGED <<timers, tick, inbox, timeout, current, posted, busy>>

Receive_NoPoll(l) ==
  LET r    == Head(inbox[l])
      rest == [inbox EXCEPT ![l] = Tail(@)]
  IN  /\ Runs(l)
      /\ pc[l] \in {"receive", "sleep"}
      /\ inbox[l] # <<>>
      /\ \/ r.op = "start" /\ start(l, r.timer, r.time, r.mode, rest)
         \/ r.op = "stop" /\ stop(l, r.timer, rest)
         \/ r.op = "call" /\ inbox' = rest /\ UNCHANGED timers
      /\ pc' = [pc EXCEPT ![l] = IF r.op = "call" THEN "callback" ELSE "receive"]
      /\ UNCHANGED <<tick, timeout, current, posted, busy>>

(***************************************************************************)
(* xQueueReceive returns a call, and the worker executes it: startFW and   *)
(* stopFW are start and stop on this worker.  Then it polls again.         *)
(***************************************************************************)
Receive(l) ==
  LET r    == Head(inbox[l])
      rest == [inbox EXCEPT ![l] = Tail(@)]
  IN  /\ Runs(l)
      /\ pc[l] \in {"receive", "sleep"}
      /\ inbox[l] # <<>>
      /\ \/ r.op = "start" /\ start(l, r.timer, r.time, r.mode, rest)
         \/ r.op = "stop" /\ stop(l, r.timer, rest)
         \/ r.op = "call" /\ inbox' = rest /\ UNCHANGED timers
      /\ pc' = [pc EXCEPT ![l] = IF r.op = "call" THEN "callback" ELSE "poll"]
      /\ timeout' = [timeout EXCEPT ![l] = Forever]
      /\ UNCHANGED <<tick, current, posted, busy>>

execute_LosesRepeating(l) ==
  LET x    == Head(list[l])
      next == (fireTime[x] + flags[x].interval) % M
  IN  /\ Runs(l)
      /\ pc[l] = "execute"
      /\ timeout' = [timeout EXCEPT ![l] = Forever]
      /\ \/ /\ getNextTimeout(l) # 0
            /\ pc' = [pc EXCEPT ![l] = "poll"]
            /\ UNCHANGED <<timers, current>>
         \/ /\ getNextTimeout(l) = 0
            /\ pc' = [pc EXCEPT ![l] = "callback"]
            /\ current' = [current EXCEPT ![l] = x]
            /\ list' = [list EXCEPT ![l] = Tail(@)]
            /\ fireTime' = [fireTime EXCEPT ![x] = IF flags[x].repeat THEN next ELSE @]
            /\ flags' = [flags EXCEPT ![x].running = flags[x].repeat]
      /\ UNCHANGED <<tick, inbox, posted, busy>>

(***************************************************************************)
(* timer::execute looks at the list again.  The timer is put back, or is   *)
(* no longer running, before its callback executes.                        *)
(***************************************************************************)
execute(l) ==
  LET x    == Head(list[l])
      next == (fireTime[x] + flags[x].interval) % M
  IN  /\ Runs(l)
      /\ pc[l] = "execute"
      /\ timeout' = [timeout EXCEPT ![l] = Forever]
      /\ \/ /\ getNextTimeout(l) # 0
            /\ pc' = [pc EXCEPT ![l] = "poll"]
            /\ UNCHANGED <<timers, current>>
         \/ /\ getNextTimeout(l) = 0
            /\ pc' = [pc EXCEPT ![l] = "callback"]
            /\ current' = [current EXCEPT ![l] = x]
            /\ \/ /\ flags[x].repeat
                  /\ fireTime' = [fireTime EXCEPT ![x] = next]
                  /\ list' = [list EXCEPT ![l] = addItem(Tail(@), x, fireTime')]
                  /\ UNCHANGED flags
               \/ /\ ~flags[x].repeat
                  /\ list' = [list EXCEPT ![l] = Tail(@)]
                  /\ flags' = [flags EXCEPT ![x].running = FALSE]
                  /\ UNCHANGED fireTime
      /\ UNCHANGED <<tick, inbox, posted, busy>>

(* The function that worker l executes returns. *)
Return(l) ==
  /\ Runs(l)
  /\ pc[l] = "callback"
  /\ pc' = [pc EXCEPT ![l] = "poll"]
  /\ current' = [current EXCEPT ![l] = Nothing]
  /\ UNCHANGED <<timers, tick, inbox, timeout, posted, busy>>

-----------------------------------------------------------------------------
(***************************************************************************)
(* The tick interrupt.  That the CPU is idle now and then is the load the  *)
(* program may put on it, not something the code sees to.                  *)
(***************************************************************************)
Tick ==
  /\ Idle \/ busy < MaxBusy
  /\ busy' = IF Idle THEN 0 ELSE busy + 1
  /\ tick' = (tick + 1) % M
  /\ timeout' = [l \in Levels |-> IF pc[l] = "sleep" /\ timeout[l] \notin {0, Forever}
                                  THEN timeout[l] - 1 ELSE timeout[l]]
  /\ posted' = FALSE
  /\ UNCHANGED <<timers, inbox, pc, current>>

Program ==
  \/ \E x \in Timers :
       \/ startFromISR(x)
       \/ \E l \in Levels : Start(l, x) \/ StartContinuos(l, x) \/ Stop(l, x)
  \/ \E l \in Levels : CallFromISR(l)

MainLoop ==
  \E l \in Levels : Poll(l) \/ Sleep(l) \/ TimeOut(l) \/ Receive(l) \/ execute(l) \/ Return(l)

Next == Program \/ MainLoop \/ Tick

(***************************************************************************)
(* The CPU does not stop while a worker can run, time passes, and the      *)
(* functions of the program return after finitely many calls, even one of  *)
(* LEVEL_HIGH each of whose calls lets LEVEL_LOW run.                      *)
(***************************************************************************)
Fairness ==
  /\ WF_vars(MainLoop)
  /\ WF_vars(Tick)
  /\ \A l \in Levels : SF_vars(Return(l))

Spec     == Init /\ [][Next]_vars
FairSpec == Spec /\ Fairness

-----------------------------------------------------------------------------
(* Properties *)

(***************************************************************************)
(* The list of a level holds each running timer of that level once, and no *)
(* other: what start, stop, execute and the flags say of a timer agree.    *)
(***************************************************************************)
ListsMatchFlags ==
  \A l \in Levels :
    /\ \A x \in Timers :
         flags[x].running /\ getLevel(x) = l <=> \E k \in DOMAIN list[l] : list[l][k] = x
    /\ \A j, k \in DOMAIN list[l] : list[l][j] = list[l][k] => j = k

(* Ticks until x fires; it is negative when x is late. *)
Left(x) == Signed(fireTime[x] - tick)

(***************************************************************************)
(* No timer is behind one that fires later, across the wrap of the counter. *)
(***************************************************************************)
ListsSorted ==
  \A l \in Levels : \A j, k \in DOMAIN list[l] :
    j < k => Left(list[l][j]) <= Left(list[l][k])

(***************************************************************************)
(* A worker does not sleep past its first timer: it sleeps at most as much *)
(* longer as it was kept from going to sleep after it had computed its     *)
(* timeout.                                                                *)
(***************************************************************************)
WakesInTime ==
  \A l \in Levels :
    Asleep(l) /\ list[l] # <<>> =>
      timeout[l] # Forever /\ timeout[l] <= Left(Head(list[l])) + MaxBusy

(* Timers fire late by the length of two busy periods at most. *)
MaxLate == 2 * MaxBusy

Service == INSTANCE TimerService
  WITH left   <- [x \in Timers |-> IF flags[x].running THEN Left(x) ELSE Nothing],
       period <- [x \in Timers |-> IF flags[x].repeat THEN flags[x].interval ELSE 0],
       level  <- [x \in Timers |-> getLevel(x)],
       firing <- current,
       Off    <- Nothing

(* The lists, flags and timeouts implement the timer service. *)
IsTimerService == Service!Spec

(***************************************************************************)
(* No timer keeps running with one fire time for ever: it fires, and then  *)
(* stops running or has a new time, unless it is stopped or started anew   *)
(* before.                                                                 *)
(***************************************************************************)
RunningTimersFire ==
  \A x \in Timers :
    []<>(~flags[x].running) \/ []<><<fireTime'[x] # fireTime[x]>>_fireTime

(***************************************************************************)
(* "Timer will be executed in high level worker" (timer.h:22).             *)
(***************************************************************************)
HighExecuted == \A x \in Timers : flags[x].running /\ flags[x].high => Left(x) >= -MaxLate
=============================================================================
