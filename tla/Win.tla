--------------------------------- MODULE Win ---------------------------------
(***************************************************************************)
(* struct Win of app/test1.cpp: a window of the last WinSize values, and   *)
(* the mean of those left when the Drop largest and the Drop smallest are  *)
(* removed.  Values are integers (tenths); v is the sum of the values      *)
(* left, which the code divides by their number.  sum and rem are local to *)
(* add: it sets them first.                                                *)
(***************************************************************************)
EXTENDS Integers, Sequences, FiniteSetsExt

CONSTANTS
  WinSize,   \* 16
  Drop,      \* 4
  Limit      \* 1000000, in tenths

ASSUME WinAssumption ==
  /\ WinSize \in Nat /\ Drop \in Nat /\ Limit \in Nat
  /\ 2 * Drop < WinSize

Places == 0 .. WinSize - 1

SumAt(buffer, places) == MapThenSumSet(LAMBDA i : buffer[i], places)

(* The first place in P with the largest, or the smallest value; place 0 if P is empty *)
FirstMax(b, P) ==
  IF P = {} THEN 0
  ELSE CHOOSE i \in P : \A j \in P : b[j] < b[i] \/ (b[j] = b[i] /\ i <= j)

FirstMin(b, P) ==
  IF P = {} THEN 0
  ELSE CHOOSE i \in P : \A j \in P : b[j] > b[i] \/ (b[j] = b[i] /\ i <= j)

Remove(r, i) == [r EXCEPT !.sum = @ - r.buffer[i], !.rem[i] = TRUE]

remMax_FromZero(r) ==
  Remove(r, FirstMax(r.buffer, {i \in Places : ~r.rem[i] /\ r.buffer[i] > 0}))

remMax(r) == Remove(r, FirstMax(r.buffer, {i \in Places : ~r.rem[i] /\ r.buffer[i] > -Limit}))

remMin(r) == Remove(r, FirstMin(r.buffer, {i \in Places : ~r.rem[i] /\ r.buffer[i] < Limit}))

(* static Win: all zeros *)
EmptyWin == [buffer |-> [i \in Places |-> 0], v |-> 0, next |-> FALSE]

(* x goes to the end; the first value fills the whole window. *)
Shifted(w, x) ==
  [i \in Places |-> IF ~w.next \/ i = WinSize - 1 THEN x ELSE w.buffer[i + 1]]

add(w, x) ==
  LET buffer == Shifted(w, x)
      begin  == [buffer |-> buffer, sum |-> SumAt(buffer, Places), rem |-> [i \in Places |-> FALSE]]
      after[k \in 0 .. 2 * Drop] ==
        IF k = 0 THEN begin
        ELSE IF k <= Drop THEN remMax(after[k - 1]) ELSE remMin(after[k - 1])
  IN  [buffer |-> buffer, v |-> after[2 * Drop].sum, next |-> TRUE]

-----------------------------------------------------------------------------
(* The reference: sort by value and place, and sum up the middle. *)
Rank(b, i) == Cardinality({j \in Places : b[j] < b[i] \/ (b[j] = b[i] /\ j <= i)})

TrimmedSum(b) == SumAt(b, {i \in Places : Rank(b, i) \in Drop + 1 .. WinSize - Drop})
=============================================================================
