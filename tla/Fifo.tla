-------------------------------- MODULE Fifo --------------------------------
(***************************************************************************)
(* The ring of app/fifo.hpp.  Its assertions are compiled out              *)
(* (common.h:27), so push into a full ring overwrites the oldest element.  *)
(***************************************************************************)
EXTENDS Integers, Sequences

CONSTANT Size   \* the template parameter `size'

ASSUME FifoAssumption == Size \in Nat \ {0}

FifoOf(T) == [start : 0 .. Size - 1, len : 0 .. Size, array : [0 .. Size - 1 -> T]]

(* Fifo(), the cells holding x *)
Empty(x) == [start |-> 0, len |-> 0, array |-> [k \in 0 .. Size - 1 |-> x]]

push(f, x) == [f EXCEPT !.array[(f.start + f.len) % Size] = x, !.len = @ + 1]

pop_NoWrap(f) == [f EXCEPT !.len = @ - 1, !.start = @ + 1]

(* What pop leaves; what it returns is peek(f). *)
pop(f) == [f EXCEPT !.len = @ - 1, !.start = (@ + 1) % Size]

peek(f) == f.array[f.start]

(* The elements, oldest first *)
Elements(f) == [k \in 1 .. f.len |-> f.array[(f.start + k - 1) % Size]]
=============================================================================
