------------------------- MODULE FastTimerInvariant -------------------------
(***************************************************************************)
(* Why no fast timer is lost, doubled or overtaken and no interrupt is     *)
(* missed: the inductive invariant of FastTimer.  The second half is about *)
(* a program with delays and periods that fit the width of the hardware    *)
(* timer; run fast_timer is an instance of such a program.                 *)
(***************************************************************************)
EXTENDS FastTimer

(* Context c is in fastTimerStart; from the first to the second critical section of it. *)
Working(c) == pc[c] \in {"unlink", "set", "link"}
Between(c) == pc[c] \in {"set", "link"}

(* The arguments of the start that c executes, for a timer that c may use. *)
Operations ==
  \A c \in Contexts :
    /\ Working(c) => op[c].timer \in Timers /\ MayUse(c, op[c].timer)
    /\ ~Working(c) => op[c] = NoCall

(* A timer that a task has taken off the list cannot fire. *)
TasksUndisturbed == \A c \in Tasks : Between(c) => firing # op[c].timer

HandlerStages ==
  /\ pc["irq"] \in {"idle", "clear", "walk"} => firing = Nothing
  /\ pc["irq"] \in {"callback", "unlink", "set", "link", "update"} => firing # Nothing
  /\ \A c \in Tasks : pc[c] \notin {"callback", "clear", "walk"}

(* Nobody comes in while updateTimeout is executed. *)
Exclusion ==
  /\ \A c, d \in Contexts : Masked(c) /\ Masked(d) => c = d
  /\ \A c \in Tasks : Masked(c) => pc["irq"] = "idle"

(* What is about to be linked has the flag that says so. *)
StartedRun == \A c \in Contexts : pc[c] = "link" => flags[op[c].timer].running

ListInv ==
  /\ TypeOK
  /\ Operations
  /\ TasksUndisturbed
  /\ HandlerStages
  /\ Exclusion
  /\ StartedRun
  /\ ListMatchesFlags

-----------------------------------------------------------------------------
(* Times this far ahead and MaxLate behind are less than half of M apart. *)
Ahead(d) == 2 * (d + MaxLate) < M

(* What the program has to see to *)
Disciplined ==
  /\ Ahead(0)
  /\ \A x \in Timers : \A d \in Delays[x] : Ahead(d)
  /\ \A x \in Timers : \A m \in Modes[x] : m.repeat => Ahead(m.interval)

(* The handler has not yet seen that no timer is due any more. *)
InHandler == pc["irq"] \in {"clear", "walk"} \/ firing # Nothing
Pending   == InHandler \/ events # {}

(***************************************************************************)
(* How late a timer of the list may be.  The CPU was idle at the count     *)
(* that made the interrupt pending or before it, and then until the last   *)
(* handler was done with all timers that were due when it began.           *)
(***************************************************************************)
Late == IF Pending THEN MaxBusy + 1 + busy ELSE busy

InSight(t) == -Late <= Signed(t - counter) /\ Ahead(Signed(t - counter))

(* Not later than the CPU has been busy *)
Fresh(t) == -busy <= Signed(t - counter) /\ Ahead(Signed(t - counter))

TimesInSight ==
  /\ \A x \in Timers : Linked(x) \/ x = firing => InSight(fireTime[x])
  /\ \A c \in Contexts : Working(c) => InSight(op[c].time)
  /\ \A c \in Tasks : Working(c) => Fresh(op[c].time)
  /\ \A c \in Contexts : pc[c] = "link" => fireTime[op[c].timer] = op[c].time

(* The handler compares fire times with a counter that may have moved on since. *)
HandlerTime == InHandler => Signed(current - counter) \in -busy .. 0

RepeatingTimers ==
  /\ \A x \in Timers : flags[x].repeat => flags[x].interval # 0 /\ Ahead(flags[x].interval)
  /\ \A c \in Contexts : op[c].mode.repeat => op[c].mode.interval # 0 /\ Ahead(op[c].mode.interval)

(* The compare register may have this distance from the counter. *)
InTime(t) == Signed(t - counter) <= (IF Left(Head(list)) <= 0 THEN 1 ELSE Left(Head(list)))

(* What updateTimeout has computed and is about to write, or has written *)
CompareComputed ==
  \A c \in Contexts : Masked(c) =>
    /\ list # <<>> /\ timerIsRunning
    /\ -busy <= Signed(nextTimeout - counter) /\ InTime(nextTimeout)
    /\ pc[c] = "check" => cc = nextTimeout

OrderInv ==
  /\ ListSorted
  /\ TimesInSight
  /\ HandlerTime
  /\ RepeatingTimers
  /\ CompareComputed
  /\ CompareArmed
=============================================================================
