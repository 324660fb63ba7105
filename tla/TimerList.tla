------------------------------ MODULE TimerList ------------------------------
(***************************************************************************)
(* What app/timer.cpp and app/fast_timer.cpp share: a time of M values     *)
(* that wraps, and lists of timers linked by their _next pointers, as      *)
(* sequences.                                                              *)
(***************************************************************************)
EXTENDS Integers, Sequences, FiniteSets

CONSTANTS
  Timers,
  M   \* the tick counter, or the hardware timer, wraps at M: 2^32

ASSUME CounterAssumption == M \in Nat \ {0} /\ M % 2 = 0

Ticks == 0 .. M - 1

(* (int32_t)t *)
Signed(t) == IF t % M < M \div 2 THEN t % M ELSE (t % M) - M

(* How many timers of list s, from the first on, are in T. *)
Leading(s, T) == Cardinality({k \in DOMAIN s : \A j \in 1 .. k : s[j] \in T})

(* s with x after its first n timers, and s without the timer after them *)
Insert(s, n, x) == SubSeq(s, 1, n) \o <<x>> \o SubSeq(s, n + 1, Len(s))
Remove(s, n)    == SubSeq(s, 1, n) \o SubSeq(s, n + 2, Len(s))
=============================================================================
