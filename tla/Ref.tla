--------------------------------- MODULE Ref ---------------------------------
(***************************************************************************)
(* Ref<T> of app/ref.h: pointers that count the references to the objects  *)
(* that they point to, as operators on a heap r.  r.count[o] is the word   *)
(* in front of object o, 0 if o is not allocated; r.ptr[x] is what the Ref *)
(* at place x points to.  An object has one Ref of its own, which its      *)
(* destructor drops: its place has the name of the object.                 *)
(***************************************************************************)
EXTENDS Integers, FiniteSets

CONSTANTS
  Objects,
  Handles,   \* places of Refs that are not in objects
  NULL

ASSUME RefAssumption ==
  /\ IsFiniteSet(Objects) /\ IsFiniteSet(Handles)
  /\ Objects \cap Handles = {}
  /\ NULL \notin Objects

RefPlaces == Handles \cup Objects

HeapType == [count : [Objects -> Nat], ptr : [RefPlaces -> Objects \cup {NULL}]]

EmptyHeap == [count |-> [o \in Objects |-> 0], ptr |-> [x \in RefPlaces |-> NULL]]

Live(r, o)    == r.count[o] > 0
Holders(r, o) == {x \in RefPlaces : r.ptr[x] = o}

inc(r, o) == IF o = NULL THEN r ELSE [r EXCEPT !.count[o] = @ + 1]

(* A part of dec.  The destructor of an object that goes drops the Ref in the object.  What is *)
(* written to an object that is gone has no effect.                                            *)
dropOne(s) ==
  LET h == s.heap
      d == s.drop
  IN  IF d = NULL \/ h.count[d] = 0 THEN s
      ELSE IF h.count[d] = 1
      THEN [heap |-> [h EXCEPT !.count[d] = 0, !.ptr[d] = NULL], drop |-> h.ptr[d]]
      ELSE [heap |-> [h EXCEPT !.count[d] = @ - 1], drop |-> NULL]

(* dec; each destructor drops one more. *)
dec(r, o) ==
  LET after[k \in 0 .. Cardinality(Objects)] ==
        IF k = 0 THEN [heap |-> r, drop |-> o] ELSE dropOne(after[k - 1])
  IN  after[Cardinality(Objects)].heap

(* make, up to its return: o has one reference, a Ref that has no place yet *)
make(r, o) == [r EXCEPT !.count[o] = 1, !.ptr[o] = NULL]

(* Ref(const Ref&), and operator= of a copy, of a Ref that has a place, and of nullptr *)
CopyConstruct(r, to, from) == [inc(r, r.ptr[from]) EXCEPT !.ptr[to] = r.ptr[from]]

CopyAssign(r, to, from) ==
  LET s == dec(inc(r, r.ptr[from]), r.ptr[to])
  IN  [s EXCEPT !.ptr[to] = s.ptr[from]]

MoveAssign_KeepsSource(r, to, from) ==
  LET s == dec(r, r.ptr[to])
  IN  [s EXCEPT !.ptr[to] = s.ptr[from]]

MoveAssign(r, to, from) ==
  LET s == dec(r, r.ptr[to])
      t == [s EXCEPT !.ptr[to] = s.ptr[from]]
  IN  [t EXCEPT !.ptr[from] = NULL]

AssignNull(r, to) == [dec(r, r.ptr[to]) EXCEPT !.ptr[to] = NULL]

(* operator= of the Ref that make or setTimeout returns *)
AssignNew(r, to, o) == [dec(r, r.ptr[to]) EXCEPT !.ptr[to] = o]

createUnmanaged(r, o) == inc(r, o)
deleteUnmanaged(r, o) == dec(r, o)
=============================================================================
