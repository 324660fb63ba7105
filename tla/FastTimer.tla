------------------------------ MODULE FastTimer ------------------------------
(***************************************************************************)
(* The fast timers of app/fast_timer.cpp: any number of timers on one      *)
(* hardware timer, which counts modulo M (2^32) and requests an interrupt  *)
(* when it reaches a compare register.                                     *)
(*                                                                         *)
(* Three contexts share the list: two tasks and the interrupt handler,     *)
(* with the callbacks that it executes.  What lies between two critical    *)
(* sections is where a more urgent one may come in; the counter moves on   *)
(* in critical sections too, so updateTimeout is several actions.          *)
(***************************************************************************)
EXTENDS TimerList

CONSTANTS
  Delays,     \* Delays[x]: the `time' of a relative start of x
  Modes,      \* Modes[x]: the `flags' that x is started with
  User,       \* User[x]: the context that starts and stops x
  MaxBusy,    \* the CPU is idle at least once in so many counts
  Nothing

Tasks    == {"high", "low"}
Contexts == Tasks \cup {"irq"}
Mode     == [repeat : BOOLEAN, interval : 0 .. M - 1]
NoMode   == [repeat |-> FALSE, interval |-> 0]

(* A repeating timer with period 0 would keep the interrupt handler busy for ever. *)
ASSUME FastTimerAssumption ==
  /\ Delays \in [Timers -> SUBSET (0 .. M - 1)]
  /\ Modes \in [Timers -> SUBSET {m \in Mode : m.repeat => m.interval # 0}]
  /\ User \in [Timers -> Contexts]
  /\ MaxBusy \in Nat
  /\ Nothing \notin Timers /\ Nothing \notin Int

VARIABLES
  counter,         \* the hardware timer
  timerIsRunning,  \* it has been started, and not stopped since
  cc,              \* CC[0]; CC[1] is one more
  events,          \* i is in it if EVENTS_COMPARE[i] is set
  list,            \* timersList, first to last
  flags,           \* timer->_flags
  fireTime,        \* timer->fireTime
  pc,              \* pc[c]: how far context c is in start, stop or the handler
  op,              \* op[c]: the arguments of the start that c executes
  headChanged,     \* headChanged[c]: of that start or stop
  nextTimeout,     \* of updateTimeout
  current,         \* of the handler: the counter when it began
  firing,          \* of the handler: the timer whose callback it executes
  busy             \* counts since the CPU was idle

vars == <<counter, timerIsRunning, cc, events, list, flags, fireTime, pc, op,
          headChanged, nextTimeout, current, firing, busy>>

timers   == <<list, flags, fireTime>>
hardware == <<counter, timerIsRunning, cc, events, busy>>
handler  == <<current, firing>>

Flags == [running : BOOLEAN, repeat : BOOLEAN, interval : 0 .. M - 1]
Call  == [timer : Timers \cup {Nothing}, time : Ticks, mode : Mode]
NoCall == [timer |-> Nothing, time |-> 0, mode |-> NoMode]

TypeOK ==
  /\ counter \in Ticks /\ timerIsRunning \in BOOLEAN /\ cc \in Ticks /\ events \subseteq {0, 1}
  /\ list \in Seq(Timers)
  /\ flags \in [Timers -> Flags]
  /\ fireTime \in [Timers -> Ticks]
  /\ pc \in [Contexts -> {"idle", "unlink", "set", "link", "update", "write", "check",
                          "clear", "walk", "callback"}]
  /\ op \in [Contexts -> Call]
  /\ headChanged \in [Contexts -> BOOLEAN]
  /\ nextTimeout \in Ticks /\ current \in Ticks /\ firing \in Timers \cup {Nothing}
  /\ busy \in 0 .. MaxBusy

(* fastTimerInit clears the hardware timer; static timers are all zeros. *)
Init ==
  /\ counter = 0 /\ timerIsRunning = FALSE /\ cc = 0 /\ events = {}
  /\ list = <<>>
  /\ flags = [x \in Timers |-> [running |-> FALSE, repeat |-> FALSE, interval |-> 0]]
  /\ fireTime = [x \in Timers |-> 0]
  /\ pc = [c \in Contexts |-> "idle"]
  /\ op = [c \in Contexts |-> NoCall]
  /\ headChanged = [c \in Contexts |-> FALSE]
  /\ nextTimeout = 0 /\ current = 0 /\ firing = Nothing
  /\ busy = 0

-----------------------------------------------------------------------------
(* Scheduling.  A name with a suffix is a mistaken variant. *)

(* updateTimeout is in a critical section: interrupts are off. *)
Masked(c) == pc[c] \in {"write", "check"}

Waits(c) == pc[c] = "idle" /\ (c = "irq" => events = {})

MoreUrgent(c) == CASE c = "high" -> {"low", "irq"} [] c = "low" -> {"irq"} [] c = "irq" -> {}

Runs(c) ==
  \/ Masked(c)
  \/ /\ \A d \in Contexts : ~Masked(d)
     /\ \A d \in MoreUrgent(c) : Waits(d)

Idle == \A c \in Contexts : Waits(c)

GoTo(c, label) == pc' = [pc EXCEPT ![c] = label]

(* Where context c goes on after a start, a stop, or the last updateTimeout of the handler. *)
Caller(c) == IF c = "irq" /\ firing # Nothing THEN "callback" ELSE "idle"

-----------------------------------------------------------------------------
(* The sorted list *)

addItem_Unsigned(s, x, fire) ==
  Insert(s, Leading(s, {y \in Timers : fire[y] - fire[x] <= 0}), x)

(* x is put after all timers that fire earlier or at the same time. *)
addItem(s, x, fire) ==
  Insert(s, Leading(s, {y \in Timers : Signed(fire[y] - fire[x]) <= 0}), x)

(* Only the first x is removed, and nothing if there is none. *)
removeItem(s, x) == Remove(s, Leading(s, Timers \ {x}))

(* What removeItem returns: an empty list has changed, too. *)
HeadRemoved(s, x) == s = <<>> \/ Head(s) = x

-----------------------------------------------------------------------------
(* updateTimeout, by context c *)

Later_NoWrap(t, n) == t + n

(* uint32_t addition *)
Later(t, n) == (t + n) % M

updateTimeout_NoStart(c) ==
  \/ /\ list = <<>>
     /\ timerIsRunning' = FALSE
     /\ GoTo(c, Caller(c))
     /\ UNCHANGED nextTimeout
  \/ /\ list # <<>>
     /\ UNCHANGED timerIsRunning
     /\ LET fire == fireTime[Head(list)]
        IN  nextTimeout' = IF Signed(fire - counter) <= 0 THEN Later(counter, 1) ELSE fire
     /\ GoTo(c, "write")

(* The hardware timer counts while there is a timer in the list. *)
updateTimeout(c) ==
  \/ /\ list = <<>>
     /\ timerIsRunning' = FALSE
     /\ GoTo(c, Caller(c))
     /\ UNCHANGED nextTimeout
  \/ /\ list # <<>>
     /\ timerIsRunning' = TRUE
     /\ LET fire == fireTime[Head(list)]
        IN  nextTimeout' = IF Signed(fire - counter) <= 0 THEN Later(counter, 1) ELSE fire
     /\ GoTo(c, "write")

WriteCompare(c) ==
  /\ pc[c] = "write"
  /\ cc' = nextTimeout
  /\ GoTo(c, "check")
  /\ UNCHANGED <<timers, handler, counter, timerIsRunning, events, busy, op, headChanged, nextTimeout>>

CheckCompare_Once(c) ==
  /\ pc[c] = "check"
  /\ GoTo(c, Caller(c))
  /\ nextTimeout' = 0
  /\ UNCHANGED <<timers, hardware, handler, op, headChanged>>

(* The counter may have passed the compare register before it was written. *)
CheckCompare(c) ==
  /\ pc[c] = "check"
  /\ \/ /\ Signed(nextTimeout - counter) <= 0
        /\ nextTimeout' = Later(counter, 1)
        /\ GoTo(c, "write")
     \/ /\ Signed(nextTimeout - counter) > 0
        /\ nextTimeout' = 0
        /\ GoTo(c, Caller(c))
  /\ UNCHANGED <<timers, hardware, handler, op, headChanged>>

-----------------------------------------------------------------------------
(* fastTimerStart and fastTimerStop *)

(***************************************************************************)
(* A timer belongs to one context, and to its own callback.  (The critical *)
(* sections do not protect a timer that two contexts start at a time.)     *)
(***************************************************************************)
MayUse(c, x) == c = User[x] \/ (c = "irq" /\ firing = x)

(* Context c can call start or stop of x: a task between two calls, or a callback. *)
CanCall(c, x) ==
  /\ Runs(c)
  /\ MayUse(c, x)
  /\ pc[c] = IF c = "irq" THEN "callback" ELSE "idle"

Begin(c, x, time, m) ==
  /\ op' = [op EXCEPT ![c] = [timer |-> x, time |-> time, mode |-> m]]
  /\ GoTo(c, "unlink")
  /\ UNCHANGED <<timers, hardware, handler, headChanged, nextTimeout>>

(* calcAbsoluteTime of a relative time *)
Start(c, x) ==
  /\ CanCall(c, x)
  /\ \E d \in Delays[x], m \in Modes[x] : Begin(c, x, Later(counter, d), m)

(* FAST_TIMER_FLAG_ABSOLUTE: a callback starts its timer again from when it was due. *)
StartAbsolute(x) ==
  /\ CanCall("irq", x)
  /\ firing = x /\ ~flags[x].running
  /\ Signed(fireTime[x] - counter) <= 0
  /\ \E d \in Delays[x] \ {0}, m \in Modes[x] : Begin("irq", x, Later(fireTime[x], d), m)

Unlink_NotRemoved(c) ==
  /\ Runs(c)
  /\ pc[c] = "unlink"
  /\ GoTo(c, "set")
  /\ UNCHANGED <<timers, hardware, handler, op, headChanged, nextTimeout>>

(* First critical section: a timer that runs is taken off the list. *)
Unlink(c) ==
  LET x == op[c].timer IN
  /\ Runs(c)
  /\ pc[c] = "unlink"
  /\ list' = IF flags[x].running THEN removeItem(list, x) ELSE list
  /\ headChanged' = [headChanged EXCEPT ![c] = flags[x].running /\ HeadRemoved(list, x)]
  /\ GoTo(c, "set")
  /\ UNCHANGED <<flags, fireTime, hardware, handler, op, nextTimeout>>

SetTimer(c) ==
  LET o == op[c] IN
  /\ Runs(c)
  /\ pc[c] = "set"
  /\ flags' = [flags EXCEPT ![o.timer] =
                 [running |-> TRUE, repeat |-> o.mode.repeat, interval |-> o.mode.interval]]
  /\ fireTime' = [fireTime EXCEPT ![o.timer] = o.time]
  /\ GoTo(c, "link")
  /\ UNCHANGED <<list, hardware, handler, op, headChanged, nextTimeout>>

(* What is left to do when the list has been changed by c *)
AfterChange(c, changed) ==
  /\ GoTo(c, IF changed THEN "update" ELSE Caller(c))
  /\ op' = [op EXCEPT ![c] = NoCall]
  /\ headChanged' = [headChanged EXCEPT ![c] = FALSE]
  /\ UNCHANGED nextTimeout

Link_OnlyFirst(c) ==
  LET x == op[c].timer IN
  /\ Runs(c)
  /\ pc[c] = "link"
  /\ list' = addItem(list, x, fireTime)
  /\ AfterChange(c, Len(list') = 1)
  /\ UNCHANGED <<flags, fireTime, hardware, handler>>

(* Second critical section: the timer is put into the list. *)
Link(c) ==
  LET x == op[c].timer IN
  /\ Runs(c)
  /\ pc[c] = "link"
  /\ list' = addItem(list, x, fireTime)
  /\ AfterChange(c, Head(list') = x \/ headChanged[c])
  /\ UNCHANGED <<flags, fireTime, hardware, handler>>

Stop(c, x) ==
  /\ CanCall(c, x)
  /\ list' = removeItem(list, x)
  /\ flags' = [flags EXCEPT ![x].running = FALSE]
  /\ AfterChange(c, HeadRemoved(list, x))
  /\ UNCHANGED <<fireTime, hardware, handler>>

(* The last critical section of start and stop *)
Update(c) ==
  /\ Runs(c)
  /\ pc[c] = "update"
  /\ updateTimeout(c)
  /\ UNCHANGED <<timers, handler, counter, cc, events, busy, op, headChanged>>

-----------------------------------------------------------------------------
(* FAST_TIMER_IRQ *)

Interrupt ==
  /\ Runs("irq")
  /\ pc["irq"] = "idle"
  /\ events # {}
  /\ current' = counter
  /\ GoTo("irq", "clear")
  /\ UNCHANGED <<timers, hardware, firing, op, headChanged, nextTimeout>>

(* What the counter reached since it was captured is forgotten. *)
ClearEvents ==
  /\ pc["irq"] = "clear"
  /\ events' = {}
  /\ GoTo("irq", "walk")
  /\ UNCHANGED <<timers, handler, counter, timerIsRunning, cc, busy, op, headChanged, nextTimeout>>

Due_Early == list # <<>> /\ Signed(fireTime[Head(list)] - current) <= 1

(* The first timer was due when the handler began. *)
Due == list # <<>> /\ Signed(fireTime[Head(list)] - current) <= 0

Fire ==
  LET x == Head(list) IN
  /\ pc["irq"] = "walk"
  /\ Due
  /\ firing' = x
  /\ GoTo("irq", "callback")
  /\ \/ /\ flags[x].repeat
        /\ fireTime' = [fireTime EXCEPT ![x] = Later(@, flags[x].interval)]
        /\ list' = addItem(Tail(list), x, fireTime')
        /\ UNCHANGED flags
     \/ /\ ~flags[x].repeat
        /\ list' = Tail(list)
        /\ flags' = [flags EXCEPT ![x].running = FALSE]
        /\ UNCHANGED fireTime
  /\ UNCHANGED <<hardware, op, headChanged, nextTimeout, current>>

(* The callback returns. *)
Return ==
  /\ pc["irq"] = "callback"
  /\ firing' = Nothing
  /\ GoTo("irq", "walk")
  /\ UNCHANGED <<timers, hardware, current, op, headChanged, nextTimeout>>

Finish ==
  /\ pc["irq"] = "walk"
  /\ ~Due
  /\ updateTimeout("irq")
  /\ current' = 0
  /\ UNCHANGED <<timers, firing, counter, cc, events, busy, op, headChanged>>

-----------------------------------------------------------------------------
(***************************************************************************)
(* The hardware timer.  That the CPU is idle now and then is the load that *)
(* the program may put on it.                                              *)
(***************************************************************************)
Count ==
  /\ timerIsRunning
  /\ Idle \/ busy < MaxBusy
  /\ busy' = IF Idle THEN 0 ELSE busy + 1
  /\ counter' = Later(counter, 1)
  /\ events' = events \cup {i \in {0, 1} : counter' = Later(cc, i)}
  /\ UNCHANGED <<timers, handler, timerIsRunning, cc, pc, op, headChanged, nextTimeout>>

Program ==
  \E x \in Timers : StartAbsolute(x) \/ \E c \in Contexts : Start(c, x) \/ Stop(c, x)

Step(c) ==
  Unlink(c) \/ SetTimer(c) \/ Link(c) \/ Update(c) \/ WriteCompare(c) \/ CheckCompare(c)

Handler == Interrupt \/ ClearEvents \/ Fire \/ Return \/ Finish

Next == Program \/ (\E c \in Contexts : Step(c)) \/ Handler \/ Count

(***************************************************************************)
(* The CPU does not stop in the handler; no task is kept from running for  *)
(* ever by a more urgent one; callbacks return after finitely many calls;  *)
(* and the hardware timer counts.                                          *)
(***************************************************************************)
Fairness ==
  /\ WF_vars(Handler \/ Step("irq"))
  /\ \A c \in Tasks : SF_vars(Step(c))
  /\ SF_vars(Return)
  /\ SF_vars(Count)

Spec     == Init /\ [][Next]_vars
FairSpec == Spec /\ Fairness

-----------------------------------------------------------------------------
(* Properties *)

Linked(x) == \E k \in DOMAIN list : list[k] = x

(* Some context is in the middle of a start of x, where x is not in the list. *)
BeingStarted(x) == \E c \in Contexts : op[c].timer = x /\ pc[c] \in {"set", "link"}

(***************************************************************************)
(* A timer is in the list if its flags say so, once, except between the    *)
(* critical sections of its start, where it is not: no context comes in    *)
(* between that would link it twice.                                       *)
(***************************************************************************)
ListMatchesFlags ==
  /\ \A x \in Timers : Linked(x) <=> flags[x].running /\ ~BeingStarted(x)
  /\ \A j, k \in DOMAIN list : list[j] = list[k] => j = k

(* Counts until x fires; it is negative when x is late. *)
Left(x) == Signed(fireTime[x] - counter)

(* No timer is behind one that fires later, across the wrap of the counter. *)
ListSorted ==
  \A j, k \in DOMAIN list : j < k => Left(list[j]) <= Left(list[k])

(* Somebody will still call updateTimeout, or is in it. *)
UpdateComes ==
  \/ \E c \in Contexts : pc[c] \in {"update", "write", "check"}
  \/ pc["irq"] # "idle" \/ events # {}

(***************************************************************************)
(* When nobody is about to update the compare register, and there are      *)
(* timers, the counter runs and has the compare register before it, which  *)
(* is not later than the first timer (or, if that is late, than the next   *)
(* count): the interrupt cannot be missed, neither by a counter that was   *)
(* faster than updateTimeout nor by a change of the head that a preempted  *)
(* context has not seen.                                                   *)
(***************************************************************************)
CompareArmed ==
  list # <<>> /\ ~UpdateComes =>
    /\ timerIsRunning
    /\ Signed(cc - counter) > 0
    /\ Signed(cc - counter) <= (IF Left(Head(list)) <= 0 THEN 1 ELSE Left(Head(list)))

(* Timers fire late by the length of two busy periods at most. *)
MaxLate == 2 * MaxBusy + 1

Service == INSTANCE TimerService
  WITH Levels <- {"irq"},
       left   <- [x \in Timers |-> IF Linked(x) THEN Left(x) ELSE Nothing],
       period <- [x \in Timers |-> IF flags[x].repeat THEN flags[x].interval ELSE 0],
       level  <- [x \in Timers |-> "irq"],
       firing <- [l \in {"irq"} |-> firing],
       Off    <- Nothing

(* The list, the flags and the compare registers implement the timer service. *)
IsTimerService == Service!Spec

(***************************************************************************)
(* No timer keeps running with one fire time for ever: it fires, unless it *)
(* is stopped or started anew before.                                      *)
(***************************************************************************)
RunningTimersFire ==
  \A x \in Timers :
    []<>(~flags[x].running) \/ []<><<fireTime'[x] # fireTime[x]>>_fireTime
=============================================================================
