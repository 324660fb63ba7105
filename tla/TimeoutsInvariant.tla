-------------------------- MODULE TimeoutsInvariant --------------------------
(***************************************************************************)
(* Why the references of Timeouts are counted right: its inductive         *)
(* invariant.                                                              *)
(***************************************************************************)
EXTENDS Timeouts

Is(x, o) == IF x = o THEN 1 ELSE 0

(* How many of the places P refer to o *)
Refs(p, P, o) == Cardinality({x \in P : p[x] = o})

(* References to o: in the places P, e[o] others, and one that is about to be dropped if d is o *)
Total(h, d, P, e, o) == Refs(h.ptr, P, o) + e[o] + Is(d, o)

(***************************************************************************)
(* The count of each object is that of the references to it; one less for  *)
(* the objects in W, as long as they live.                                 *)
(***************************************************************************)
Counted(h, d, P, e, W) ==
  /\ h \in HeapType
  /\ \A o \in Objects : ~Live(h, o) => h.ptr[o] = NULL
  /\ \A o \in Objects \ W : h.count[o] = Total(h, d, P, e, o)
  /\ \A o \in Objects \cap W : Live(h, o) => h.count[o] = Total(h, d, P, e, o) - 1

(* The unmanaged references *)
OwnRefs == [o \in Objects |-> IF Kept(o) THEN 1 ELSE 0]

HeapInv == Counted(heap, NULL, RefPlaces, OwnRefs, overdropped)

(* A timer runs when it is in the list; what is stopped does not run. *)
Listed ==
  /\ \A o \in Objects : "RUNNING" \in flags[o] <=> left[o] # Off
  /\ \A o \in stopped : left[o] = Off

(* An interval that was dropped twice is over. *)
OverdroppedAreDone == \A o \in overdropped : left[o] = Off /\ calling # o

(* What executes its callback lives; a timeout fires once. *)
ExecutedLives ==
  calling \in Objects =>
    /\ Live(heap, calling)
    /\ "REPEAT" \notin flags[calling] => left[calling] = Off

(* The inductive invariant. *)
IInv == TypeOK /\ HeapInv /\ Listed /\ OverdroppedAreDone /\ ExecutedLives
=============================================================================
