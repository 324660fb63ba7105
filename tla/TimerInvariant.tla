--------------------------- MODULE TimerInvariant ---------------------------
(***************************************************************************)
(* Why the lists of Timer are sorted, its workers wake in time and timers  *)
(* fire in order: the inductive invariant of Timer for a program that      *)
(* keeps each timer on one level, uses the CPU no longer than MaxBusy      *)
(* ticks, and uses delays that fit the width of the tick counter.  Runs    *)
(* timer_order and timer_levels are instances of such a program.           *)
(***************************************************************************)
EXTENDS Timer

(* Times this far ahead and MaxLate behind are less than half of M apart. *)
Ahead(d) == 2 * (d + MaxLate) < M

(***************************************************************************)
(* What the program has to see to.  A timer is all zeros, so of LEVEL_LOW, *)
(* until it is first started: it can only become one of LEVEL_HIGH, and by *)
(* a function that LEVEL_HIGH executes.                                    *)
(***************************************************************************)
Disciplined ==
  /\ Movers \subseteq {"high"}
  /\ \A d \in Delays \cup {0} : Ahead(d)
  /\ \A x \in Timers : \A m, n \in Modes[x] : m.high = n.high
  /\ \A x \in Timers : \A m \in Modes[x] : m.repeat => m.interval # 0 /\ Ahead(m.interval)

-----------------------------------------------------------------------------
(* The calls that wait for worker l *)
Waiting(l) == {inbox[l][k] : k \in DOMAIN inbox[l]}

(* A time that is no further ahead than a delay, and not too late. *)
InSight(t) == -(MaxBusy + busy) <= Signed(t - tick) /\ Ahead(Signed(t - tick))

(* A worker asks for its timers when they run, and for the one it executes. *)
TimesInSight ==
  \A x \in Timers :
    flags[x].running \/ (\E l \in Levels : current[l] = x) => InSight(fireTime[x])

(***************************************************************************)
(* A timer goes to the list of LEVEL_HIGH while that worker executes a     *)
(* function, so that it looks at its list before it waits again.           *)
(***************************************************************************)
StartRequest(l, r) ==
  /\ r.mode \in Modes[r.timer]
  /\ InSight(r.time)
  /\ l = "high" => flags[r.timer].high
  /\ l = "low" /\ r.mode.high => pc["high"] = "callback"

StartRequests == \A l \in Levels : \A r \in Waiting(l) : r.op = "start" => StartRequest(l, r)

(* A timer of LEVEL_HIGH does not leave it. *)
HighStaysHigh == \A x \in Timers : flags[x].high => \A m \in Modes[x] : m.high

RepeatingTimers ==
  \A x \in Timers : flags[x].repeat => flags[x].interval # 0 /\ Ahead(flags[x].interval)

CurrentInCallback == \A l \in Levels : current[l] # Nothing => pc[l] = "callback"

(***************************************************************************)
(* The timeout was the time left when it was computed.  Until the worker   *)
(* sleeps the CPU is busy; then both are counted down.                     *)
(***************************************************************************)
TimeoutsInTime ==
  \A l \in Levels : list[l] # <<>> =>
    /\ pc[l] = "receive" => timeout[l] # Forever /\ timeout[l] <= Left(Head(list[l])) + busy
    /\ pc[l] = "sleep" =>
         /\ timeout[l] # Forever
         /\ timeout[l] # 0 => timeout[l] <= Left(Head(list[l])) + MaxBusy

OrderInv ==
  /\ ListsSorted
  /\ TimesInSight
  /\ StartRequests
  /\ HighStaysHigh
  /\ RepeatingTimers
  /\ CurrentInCallback
  /\ TimeoutsInTime
=============================================================================
