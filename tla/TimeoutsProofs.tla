--------------------------- MODULE TimeoutsProofs ---------------------------
(***************************************************************************)
(* Proofs about Timeouts: its types, that the references to its objects    *)
(* are counted right, and that what is stopped stays silent; for any       *)
(* objects, handles and times.                                             *)
(***************************************************************************)
EXTENDS TimeoutsInvariant, FiniteSetTheorems, WellFoundedInduction, TLAPS

-----------------------------------------------------------------------------
(* Induction, in a form without an operator as parameter *)

LEMMA Least ==
  ASSUME NEW T, T \subseteq Nat, T # {}
  PROVE  \E x \in T : \A y \in T : x <= y
<1> DEFINE Below == {p \in Nat \X Nat : p[1] < p[2]}
<1>1. OpToRel(<, Nat) = Below
  BY Zenon DEF OpToRel
<1>2. IsWellFoundedOn(Below, Nat)
  BY <1>1, NatLessThanWellFounded, Zenon
<1> HIDE DEF Below
<1>3. PICK x \in T : \A y \in T : <<y, x>> \notin Below
  BY <1>2, WFMin, Zenon
<1>4. ASSUME NEW y \in T PROVE x <= y
  <2>1. <<y, x>> \in Nat \X Nat /\ ~(<<y, x>>[1] < <<y, x>>[2])
    BY <1>3 DEF Below
  <2>2. x \in Nat /\ y \in Nat
    OBVIOUS
  <2>3. QED
    BY <2>1, <2>2
<1>5. QED
  BY <1>4

LEMMA Counting ==
  ASSUME NEW n \in Nat, NEW T, 0 \in T, \A i \in 1 .. n : i - 1 \in T => i \in T
  PROVE  \A i \in 0 .. n : i \in T
<1> DEFINE Missing == {i \in 0 .. n : i \notin T}
<1> SUFFICES ASSUME Missing # {} PROVE FALSE
  OBVIOUS
<1>1. PICK i \in Missing : \A j \in Missing : i <= j
  <2>1. Missing \subseteq Nat
    OBVIOUS
  <2>2. QED
    BY <2>1, Least
<1>2. i \in 1 .. n /\ i - 1 \in 0 .. n /\ i - 1 \notin Missing
  BY <1>1
<1>3. QED
  BY <1>1, <1>2

-----------------------------------------------------------------------------
(* How many places refer to an object *)

LEMMA Places ==
  /\ IsFiniteSet(RefPlaces) /\ Objects \subseteq RefPlaces /\ Handles \subseteq RefPlaces
  /\ \A x \in Handles : x \notin Objects
  /\ NULL \notin Objects
  /\ Cardinality(Objects) \in Nat
  BY RefAssumption, FS_Union, FS_CardinalityType DEF RefPlaces

LEMMA RefsType ==
  ASSUME NEW p, NEW P, IsFiniteSet(P), NEW o
  PROVE  IsFiniteSet({x \in P : p[x] = o}) /\ Refs(p, P, o) \in Nat
<1>1. {x \in P : p[x] = o} \in SUBSET P
  OBVIOUS
<1>2. IsFiniteSet({x \in P : p[x] = o})
  BY <1>1, FS_Subset
<1>3. QED
  BY <1>2, FS_CardinalityType DEF Refs

LEMMA RefsSame ==
  ASSUME NEW p, NEW q, NEW P, \A x \in P : p[x] = q[x], NEW o
  PROVE  Refs(p, P, o) = Refs(q, P, o)
<1>1. {x \in P : p[x] = o} = {x \in P : q[x] = o}
  OBVIOUS
<1>2. QED
  BY <1>1 DEF Refs

LEMMA RefsAt ==
  ASSUME NEW p, NEW P, IsFiniteSet(P), NEW x \in P, NEW o
  PROVE  Refs(p, P, o) = Refs(p, P \ {x}, o) + Is(p[x], o)
<1> DEFINE A == {y \in P : p[y] = o}
           B == {y \in P \ {x} : p[y] = o}
<1>1. IsFiniteSet(A) /\ Cardinality(A) \in Nat
  BY RefsType DEF Refs
<1>2. B = A \ {x}
  OBVIOUS
<1>3. x \in A <=> p[x] = o
  OBVIOUS
<1> HIDE DEF A, B
<1>4. Cardinality(B) = IF x \in A THEN Cardinality(A) - 1 ELSE Cardinality(A)
  BY <1>1, <1>2, FS_RemoveElement
<1>5. Cardinality(A) = Cardinality(B) + Is(p[x], o)
  BY <1>1, <1>3, <1>4 DEF Is
<1>6. QED
  BY <1>5 DEF A, B, Refs

(* Place x comes to refer to a. *)
LEMMA RefsSet ==
  ASSUME NEW p, NEW P, IsFiniteSet(P), NEW x \in P, NEW a, NEW q,
         q[x] = a, \A y \in P \ {x} : q[y] = p[y], NEW o
  PROVE  Refs(q, P, o) + Is(p[x], o) = Refs(p, P, o) + Is(a, o)
<1>1. IsFiniteSet(P \ {x})
  BY FS_RemoveElement
<1>2. Refs(q, P, o) = Refs(q, P \ {x}, o) + Is(a, o)
  BY RefsAt
<1>3. Refs(p, P, o) = Refs(p, P \ {x}, o) + Is(p[x], o)
  BY RefsAt
<1>4. Refs(q, P \ {x}, o) = Refs(p, P \ {x}, o)
  BY RefsSame
<1>5. Refs(p, P \ {x}, o) \in Nat
  BY <1>1, RefsType
<1>6. Is(a, o) \in Nat /\ Is(p[x], o) \in Nat
  BY DEF Is
<1>7. QED
  BY <1>2, <1>3, <1>4, <1>5, <1>6

-----------------------------------------------------------------------------
(* What dec does to a heap *)

(* The sets that Counted is about *)
Countable(P, e) ==
  /\ IsFiniteSet(P) /\ P \subseteq RefPlaces /\ Objects \subseteq P
  /\ e \in [Objects -> Nat]

(* Objects go, with the Refs in them; the other Refs stay. *)
Shrinks(r, h) ==
  /\ \A x \in Handles : h.ptr[x] = r.ptr[x]
  /\ \A o \in Objects : Live(h, o) => Live(r, o) /\ h.ptr[o] = r.ptr[o]

(* There is nothing more to drop. *)
Settled(s) == s.drop = NULL \/ ~Live(s.heap, s.drop)

LiveObjects(h) == {o \in Objects : Live(h, o)}

LEMMA CountedType ==
  ASSUME NEW h, NEW d, NEW P, NEW e, NEW W, Counted(h, d, P, e, W)
  PROVE  /\ h \in HeapType
         /\ h.count \in [Objects -> Nat]
         /\ h.ptr \in [RefPlaces -> Objects \cup {NULL}]
<1>1. h \in HeapType
  BY DEF Counted
<1>2. QED
  BY <1>1 DEF HeapType

LEMMA Rebalanced ==
  ASSUME NEW W, NEW h, NEW d, NEW P, NEW e, Counted(h, d, P, e, W),
         NEW g, NEW c, NEW Q, NEW f, g \in HeapType,
         \A o \in Objects : g.count[o] = h.count[o],
         \A o \in Objects : ~Live(g, o) => g.ptr[o] = NULL,
         \A o \in Objects : Total(g, c, Q, f, o) = Total(h, d, P, e, o)
  PROVE  Counted(g, c, Q, f, W)
  BY DEF Counted, Live

LEMMA DropOneCounted ==
  ASSUME NEW P, NEW e, Countable(P, e), NEW W,
         NEW h, NEW d \in Objects \cup {NULL}, Counted(h, d, P, e, W),
         NEW s, s = dropOne([heap |-> h, drop |-> d])
  PROVE  /\ s.drop \in Objects \cup {NULL}
         /\ Counted(s.heap, s.drop, P, e, W)
         /\ Shrinks(h, s.heap)
         /\ Settled(s) \/ Cardinality(LiveObjects(s.heap)) < Cardinality(LiveObjects(h))
<1>1. /\ h \in HeapType /\ h.count \in [Objects -> Nat]
      /\ h.ptr \in [RefPlaces -> Objects \cup {NULL}]
  BY CountedType
<1>2. ASSUME NEW p, NEW o PROVE Refs(p, P, o) \in Nat
  <2>1. IsFiniteSet(P)
    BY DEF Countable
  <2>2. QED
    BY <2>1, RefsType
<1>0. (\A x, o : Is(x, o) \in Nat) /\ (\A o \in Objects : e[o] \in Nat)
  BY DEF Is, Countable
<1>3. CASE d = NULL \/ h.count[d] = 0
  <2>1. s = [heap |-> h, drop |-> d]
    BY <1>3 DEF dropOne
  <2>2. Shrinks(h, h)
    BY DEF Shrinks
  <2>3. d # NULL => ~Live(h, d)
    BY <1>3 DEF Live
  <2>4. s.heap = h /\ s.drop = d
    BY <2>1
  <2>5. Settled(s)
    BY <2>3, <2>4 DEF Settled
  <2>6. QED
    BY <2>2, <2>4, <2>5
<1>4. CASE d # NULL /\ h.count[d] = 1
  <2> DEFINE g == [h EXCEPT !.count[d] = 0, !.ptr[d] = NULL]
             a == h.ptr[d]
  <2>1. s = [heap |-> g, drop |-> a]
    BY <1>4 DEF dropOne
  <2>2. /\ d \in Objects /\ a \in Objects \cup {NULL} /\ g \in HeapType
        /\ g.count = [h.count EXCEPT ![d] = 0] /\ g.ptr = [h.ptr EXCEPT ![d] = NULL]
    BY <1>1, <1>4, Places DEF HeapType
  <2> HIDE DEF g, a
  <2>3. /\ \A x \in RefPlaces \ {d} : g.ptr[x] = h.ptr[x]
        /\ \A o \in Objects \ {d} : g.count[o] = h.count[o]
        /\ g.ptr[d] = NULL /\ g.count[d] = 0
    BY <1>1, <2>2, Places
  <2>4. ASSUME NEW o \in Objects
        PROVE  Refs(g.ptr, P, o) + Is(a, o) = Refs(h.ptr, P, o)
    <3>1. \A y \in P \ {d} : g.ptr[y] = h.ptr[y]
      BY <2>3 DEF Countable
    <3>2. d \in P /\ IsFiniteSet(P)
      BY <2>2 DEF Countable
    <3>3. Refs(g.ptr, P, o) + Is(h.ptr[d], o) = Refs(h.ptr, P, o) + Is(NULL, o)
      BY <2>3, <3>1, <3>2, RefsSet
    <3>4. Is(NULL, o) = 0
      BY Places DEF Is
    <3>5. Refs(h.ptr, P, o) \in Nat
      BY <1>2
    <3>6. Refs(g.ptr, P, o) + Is(h.ptr[d], o) = Refs(h.ptr, P, o)
      BY <3>3, <3>4, <3>5
    <3>7. QED
      BY <3>6 DEF a
  <2>5. ASSUME NEW o \in Objects, ~Live(g, o) PROVE g.ptr[o] = NULL
    <3>1. CASE o # d
      <4>1. o \in RefPlaces /\ ~Live(h, o)
        BY <2>3, <2>5, <3>1, Places DEF Live
      <4>2. QED
        BY <2>3, <3>1, <4>1 DEF Counted
    <3>2. QED
      BY <2>3, <3>1
  <2>6. ASSUME NEW o \in Objects \ W
        PROVE  g.count[o] = Total(g, a, P, e, o)
    <3>1. h.count[o] = Total(h, d, P, e, o)
      BY DEF Counted
    <3>2. e[o] \in Nat /\ Refs(g.ptr, P, o) \in Nat /\ Is(a, o) \in Nat
      BY <1>0, <1>2
    <3>3. CASE o = d
      BY <1>2, <1>4, <2>3, <2>4, <3>1, <3>2, <3>3 DEF Is, Total
    <3>4. CASE o # d
      BY <1>2, <2>3, <2>4, <3>1, <3>2, <3>4 DEF Is, Total
    <3>5. QED
      BY <3>3, <3>4
  <2>7. ASSUME NEW o \in Objects \cap W, Live(g, o)
        PROVE  g.count[o] = Total(g, a, P, e, o) - 1
    <3>1. o # d /\ g.count[o] = h.count[o]
      BY <2>3, <2>7 DEF Live
    <3>2. h.count[o] = Total(h, d, P, e, o) - 1
      BY <2>7, <3>1 DEF Counted, Live
    <3>3. e[o] \in Nat /\ Refs(g.ptr, P, o) \in Nat /\ Is(a, o) \in Nat
      BY <1>0, <1>2
    <3>4. QED
      BY <1>2, <2>4, <3>1, <3>2, <3>3 DEF Is, Total
  <2>8. Counted(g, a, P, e, W)
    BY <2>2, <2>5, <2>6, <2>7 DEF Counted
  <2>9. Shrinks(h, g)
    BY <2>2, <2>3, Places DEF Shrinks, Live
  <2>10. Cardinality(LiveObjects(g)) < Cardinality(LiveObjects(h))
    <3>1. LiveObjects(g) = LiveObjects(h) \ {d} /\ d \in LiveObjects(h)
      BY <1>4, <2>2, <2>3 DEF LiveObjects, Live
    <3>2. IsFiniteSet(LiveObjects(h)) /\ Cardinality(LiveObjects(h)) \in Nat
      <4>1. LiveObjects(h) \in SUBSET Objects
        BY DEF LiveObjects
      <4>2. QED
        BY <4>1, RefAssumption, FS_Subset, FS_CardinalityType
    <3>3. Cardinality(LiveObjects(h) \ {d}) = Cardinality(LiveObjects(h)) - 1
      BY <3>1, <3>2, FS_RemoveElement, Zenon
    <3>4. QED
      BY <3>1, <3>2, <3>3
  <2>11. QED
    BY <2>1, <2>2, <2>8, <2>9, <2>10
<1>5. CASE d # NULL /\ h.count[d] > 1
  <2> DEFINE g == [h EXCEPT !.count[d] = @ - 1]
  <2>1. s = [heap |-> g, drop |-> NULL]
    BY <1>1, <1>5 DEF dropOne
  <2>2. /\ d \in Objects /\ g \in HeapType
        /\ g.count = [h.count EXCEPT ![d] = @ - 1] /\ g.ptr = h.ptr
    BY <1>1, <1>5 DEF HeapType
  <2> HIDE DEF g
  <2>3. /\ \A o \in Objects \ {d} : g.count[o] = h.count[o]
        /\ g.count[d] = h.count[d] - 1 /\ h.count[d] \in Nat
    BY <1>1, <2>2
  <2>4. \A o \in Objects : Live(g, o) <=> Live(h, o)
    BY <1>5, <2>3 DEF Live
  <2>5. ASSUME NEW o \in Objects
        PROVE  /\ g.count[o] = h.count[o] - Is(d, o) /\ h.count[o] \in Nat
               /\ Is(d, o) \in Nat /\ Is(NULL, o) = 0 /\ e[o] \in Nat
    BY <1>1, <2>3, Places DEF Is, Countable
  <2>6. Counted(g, NULL, P, e, W)
    <3>1. \A o \in Objects : ~Live(g, o) => g.ptr[o] = NULL
      BY <2>2, <2>4 DEF Counted
    <3>2. ASSUME NEW o \in Objects \ W
          PROVE  g.count[o] = Total(g, NULL, P, e, o)
      <4>1. h.count[o] = Total(h, d, P, e, o)
        BY DEF Counted
      <4>2. QED
        BY <1>2, <2>2, <2>5, <4>1 DEF Total
    <3>3. ASSUME NEW o \in Objects \cap W, Live(g, o)
          PROVE  g.count[o] = Total(g, NULL, P, e, o) - 1
      <4>1. h.count[o] = Total(h, d, P, e, o) - 1
        BY <2>4, <3>3 DEF Counted
      <4>2. QED
        BY <1>2, <2>2, <2>5, <4>1 DEF Total
    <3>4. QED
      BY <2>2, <3>1, <3>2, <3>3 DEF Counted
  <2>7. Shrinks(h, g)
    BY <2>2, <2>4 DEF Shrinks
  <2>8. QED
    BY <2>1, <2>6, <2>7 DEF Settled
<1>6. QED
  BY <1>1, <1>3, <1>4, <1>5

(* The chain of destructors that dec executes *)
IsChain(f, r, o, n) ==
  f = [k \in 0 .. n |-> IF k = 0 THEN [heap |-> r, drop |-> o] ELSE dropOne(f[k - 1])]

LEMMA ChainExists ==
  ASSUME NEW r, NEW o, NEW n \in Nat
  PROVE  \E f : IsChain(f, r, o, n)
<1> DEFINE T == {k \in 0 .. n : \E f : IsChain(f, r, o, k)}
<1>1. 0 \in T
  <2>1. IsChain([k \in 0 .. 0 |-> [heap |-> r, drop |-> o]], r, o, 0)
    BY DEF IsChain
  <2>2. QED
    BY <2>1
<1>2. ASSUME NEW k \in 1 .. n, k - 1 \in T PROVE k \in T
  <2>1. PICK f : IsChain(f, r, o, k - 1)
    BY <1>2
  <2>2. \A i \in 0 .. k - 1 : f[i] = IF i = 0 THEN [heap |-> r, drop |-> o] ELSE dropOne(f[i - 1])
    BY <2>1 DEF IsChain
  <2> DEFINE g == [i \in 0 .. k |-> IF i < k THEN f[i] ELSE dropOne(f[i - 1])]
  <2>3. IsChain(g, r, o, k)
    BY <2>2 DEF IsChain
  <2>4. QED
    BY <2>3
<1> HIDE DEF T
<1>3. n \in T
  BY <1>1, <1>2, Counting
<1>4. QED
  BY <1>3 DEF T

LEMMA DecIsChain ==
  ASSUME NEW r, NEW o
  PROVE  \E f : /\ f[0] = [heap |-> r, drop |-> o]
                /\ \A k \in 1 .. Cardinality(Objects) : f[k] = dropOne(f[k - 1])
                /\ dec(r, o) = f[Cardinality(Objects)].heap
<1> DEFINE n == Cardinality(Objects)
           g == CHOOSE f : IsChain(f, r, o, n)
<1>1. n \in Nat
  BY Places
<1>2. IsChain(g, r, o, n)
  BY <1>1, ChainExists
<1>3. dec(r, o) = g[n].heap
  BY DEF dec, IsChain
<1> HIDE DEF n, g
<1>4. \A k \in 0 .. n : g[k] = IF k = 0 THEN [heap |-> r, drop |-> o] ELSE dropOne(g[k - 1])
  BY <1>2 DEF IsChain
<1>5. g[0] = [heap |-> r, drop |-> o] /\ \A k \in 1 .. n : g[k] = dropOne(g[k - 1])
  BY <1>1, <1>4
<1>6. QED
  BY <1>3, <1>5 DEF n

LEMMA LiveAreFew ==
  ASSUME NEW h
  PROVE  /\ Cardinality(LiveObjects(h)) \in Nat
         /\ Cardinality(LiveObjects(h)) <= Cardinality(Objects)
         /\ Cardinality(LiveObjects(h)) = 0 => \A o \in Objects : ~Live(h, o)
<1>1. LiveObjects(h) \in SUBSET Objects
  BY DEF LiveObjects
<1>2. /\ IsFiniteSet(LiveObjects(h))
      /\ Cardinality(LiveObjects(h)) <= Cardinality(Objects)
  BY <1>1, RefAssumption, FS_Subset
<1>3. Cardinality(LiveObjects(h)) = 0 => LiveObjects(h) = {}
  BY <1>2, FS_EmptySet
<1>4. QED
  BY <1>2, <1>3, FS_CardinalityType DEF LiveObjects

(***************************************************************************)
(* dec keeps the counts right, whatever the destructors drop: the chain is *)
(* over when all objects are gone, at the latest.                          *)
(***************************************************************************)
LEMMA DecCounted ==
  ASSUME NEW P, NEW e, Countable(P, e), NEW W,
         NEW r, NEW d \in Objects \cup {NULL}, Counted(r, d, P, e, W)
  PROVE  Counted(dec(r, d), NULL, P, e, W) /\ Shrinks(r, dec(r, d))
<1> DEFINE n == Cardinality(Objects)
<1>1. n \in Nat
  BY Places
<1>2. PICK f : /\ f[0] = [heap |-> r, drop |-> d]
               /\ \A k \in 1 .. n : f[k] = dropOne(f[k - 1])
               /\ dec(r, d) = f[n].heap
  BY DecIsChain
<1> DEFINE Good(s, k) == /\ s = [heap |-> s.heap, drop |-> s.drop]
                         /\ s.drop \in Objects \cup {NULL}
                         /\ Counted(s.heap, s.drop, P, e, W)
                         /\ Shrinks(r, s.heap)
                         /\ Settled(s) \/ Cardinality(LiveObjects(s.heap)) + k <= n
           T == {k \in 0 .. n : Good(f[k], k)}
<1>3. 0 \in T
  <2>1. f[0].heap = r /\ f[0].drop = d /\ f[0] = [heap |-> r, drop |-> d]
    BY <1>2
  <2>2. Shrinks(r, r)
    BY DEF Shrinks
  <2>3. Cardinality(LiveObjects(r)) + 0 <= n
    BY LiveAreFew
  <2>4. QED
    BY <1>1, <2>1, <2>2, <2>3
<1>4. ASSUME NEW k \in 1 .. n, k - 1 \in T PROVE k \in T
  <2> DEFINE s == f[k - 1]
             t == f[k]
  <2>1. Good(s, k - 1)
    BY <1>4
  <2>2. t = dropOne([heap |-> s.heap, drop |-> s.drop])
    BY <1>2, <1>4, <2>1
  <2> HIDE DEF s, t
  <2>3. /\ t.drop \in Objects \cup {NULL}
        /\ Counted(t.heap, t.drop, P, e, W)
        /\ Shrinks(s.heap, t.heap)
        /\ Settled(t) \/ Cardinality(LiveObjects(t.heap)) < Cardinality(LiveObjects(s.heap))
    BY <2>1, <2>2, DropOneCounted
  <2>4. Settled(s) => t = s
    BY <2>1, <2>2 DEF Settled, dropOne, Live, Counted, HeapType
  <2>5. t = [heap |-> t.heap, drop |-> t.drop]
    BY <2>1, <2>2 DEF dropOne
  <2>6. Shrinks(r, t.heap)
    BY <2>1, <2>3 DEF Shrinks
  <2>7. Settled(t) \/ Cardinality(LiveObjects(t.heap)) + k <= n
    <3>1. CASE Settled(s)
      BY <2>4, <3>1
    <3>2. CASE Cardinality(LiveObjects(s.heap)) + (k - 1) <= n
      <4>1. Cardinality(LiveObjects(t.heap)) \in Nat /\ Cardinality(LiveObjects(s.heap)) \in Nat
        BY LiveAreFew
      <4>2. QED
        BY <1>1, <2>3, <3>2, <4>1
    <3>3. QED
      BY <2>1, <3>1, <3>2
  <2>8. Good(t, k)
    BY <2>3, <2>5, <2>6, <2>7
  <2>9. QED
    BY <1>1, <2>8 DEF t
<1> HIDE DEF T
<1>5. n \in T
  BY <1>1, <1>3, <1>4, Counting
<1> DEFINE s == f[n]
<1>6. Good(s, n)
  BY <1>5 DEF T
<1> HIDE DEF s, n
<1>7. Settled(s)
  <2>1. ASSUME Cardinality(LiveObjects(s.heap)) + n <= n PROVE Settled(s)
    <3>1. Cardinality(LiveObjects(s.heap)) = 0
      BY <1>1, <2>1, LiveAreFew
    <3>2. \A o \in Objects : ~Live(s.heap, o)
      BY <3>1, LiveAreFew
    <3>3. QED
      BY <1>6, <3>2 DEF Settled
  <2>2. QED
    BY <1>6, <2>1
<1>8. Counted(s.heap, NULL, P, e, W)
  <2>1. CASE s.drop = NULL
    BY <1>6, <2>1
  <2>2. CASE s.drop \in Objects /\ ~Live(s.heap, s.drop)
    <3> DEFINE h == s.heap
               g == s.drop
    <3>1. Counted(h, g, P, e, W) /\ h.count \in [Objects -> Nat]
      BY <1>6, CountedType
    <3> HIDE DEF h, g
    <3>2. g \in Objects /\ ~Live(h, g) /\ h.count[g] = 0
      BY <2>2, <3>1 DEF Live, h, g
    <3>3. Refs(h.ptr, P, g) \in Nat /\ e[g] \in Nat
      BY <3>2, RefsType DEF Countable
    <3>4. g \in W
      <4>1. Is(g, g) = 1
        BY DEF Is
      <4>2. g \notin W => h.count[g] = Refs(h.ptr, P, g) + e[g] + 1
        BY <3>1, <3>2, <4>1 DEF Counted, Total
      <4>3. QED
        BY <3>2, <3>3, <4>2
    <3>5. \A o \in Objects : o # g => Is(g, o) = Is(NULL, o)
      BY Places DEF Is
    <3>6. Counted(h, NULL, P, e, W)
      BY <3>1, <3>2, <3>4, <3>5 DEF Counted, Total
    <3>7. QED
      BY <3>6 DEF h
  <2>3. QED
    BY <1>6, <1>7, <2>1, <2>2 DEF Settled
<1>9. QED
  BY <1>2, <1>6, <1>8 DEF s, n

LEMMA AllPlaces ==
  ASSUME NEW e \in [Objects -> Nat]
  PROVE  Countable(RefPlaces, e) /\ \A x \in Handles : Countable(RefPlaces \ {x}, e)
<1>1. \A x : IsFiniteSet(RefPlaces \ {x})
  BY Places, FS_RemoveElement
<1>2. QED
  BY <1>1, Places DEF Countable

(* What a Ref refers to is there, or counted as gone too early. *)
LEMMA PlaceCounted ==
  ASSUME NEW W, NEW e \in [Objects -> Nat], NEW r, NEW d,
         Counted(r, d, RefPlaces, e, W), NEW x \in RefPlaces
  PROVE  /\ r.ptr[x] \in Objects \cup {NULL}
         /\ r.ptr[x] # NULL /\ r.ptr[x] \notin W => r.count[r.ptr[x]] >= 1 + e[r.ptr[x]]
<1>1. r.ptr[x] \in Objects \cup {NULL}
  BY CountedType
<1> DEFINE o == r.ptr[x]
<1>2. ASSUME o # NULL, o \notin W PROVE r.count[o] >= 1 + e[o]
  <2>1. o \in Objects
    BY <1>1, <1>2
  <2>2. Refs(r.ptr, RefPlaces, o) = Refs(r.ptr, RefPlaces \ {x}, o) + Is(o, o)
    BY Places, RefsAt
  <2>3. Refs(r.ptr, RefPlaces \ {x}, o) \in Nat
    BY Places, FS_RemoveElement, RefsType
  <2>4. Is(o, o) = 1 /\ Is(d, o) \in Nat /\ e[o] \in Nat
    BY <2>1 DEF Is
  <2> HIDE DEF o
  <2>5. r.count[o] = Total(r, d, RefPlaces, e, o)
    BY <1>2, <2>1 DEF Counted
  <2>6. QED
    BY <2>2, <2>3, <2>4, <2>5 DEF Total
<1>3. QED
  BY <1>1, <1>2

(***************************************************************************)
(* An assignment to the Ref at handle x: d is referred to by a Ref that    *)
(* has no place, and what x refers to is dropped before d takes its place. *)
(***************************************************************************)
LEMMA PlaceAssigned ==
  ASSUME NEW W, NEW e \in [Objects -> Nat], NEW r, NEW d \in Objects \cup {NULL},
         Counted(r, d, RefPlaces, e, W), NEW x \in Handles,
         NEW s, s = dec(r, r.ptr[x])
  PROVE  /\ Counted([s EXCEPT !.ptr[x] = d], NULL, RefPlaces, e, W)
         /\ s \in HeapType /\ Shrinks(r, s)
<1> DEFINE P  == RefPlaces \ {x}
           b  == r.ptr[x]
           ee == [o \in Objects |-> e[o] + Is(d, o)]
           t  == [s EXCEPT !.ptr[x] = d]
<1>0. x \in RefPlaces /\ x \notin Objects /\ b \in Objects \cup {NULL} /\ IsFiniteSet(RefPlaces)
  BY Places, CountedType
<1>1. ee \in [Objects -> Nat] /\ \A o \in Objects : ee[o] = e[o] + Is(d, o) /\ e[o] \in Nat /\ Is(d, o) \in Nat
  BY DEF Is
<1> HIDE DEF ee
<1>2. Countable(P, ee) /\ IsFiniteSet(P)
  BY <1>1, AllPlaces DEF Countable
<1>3. ASSUME NEW q, NEW o PROVE Refs(q, RefPlaces, o) = Refs(q, P, o) + Is(q[x], o) /\ Refs(q, P, o) \in Nat
  <2>1. Refs(q, RefPlaces, o) = Refs(q, P, o) + Is(q[x], o)
    BY <1>0, RefsAt
  <2>2. Refs(q, P, o) \in Nat
    BY <1>2, RefsType
  <2>3. QED
    BY <2>1, <2>2
<1>4. Counted(r, b, P, ee, W)
  <2>1. ASSUME NEW o \in Objects
        PROVE  Total(r, d, RefPlaces, e, o) = Total(r, b, P, ee, o)
    <3>1. Is(b, o) \in Nat
      BY DEF Is
    <3>2. Refs(r.ptr, RefPlaces, o) = Refs(r.ptr, P, o) + Is(b, o) /\ Refs(r.ptr, P, o) \in Nat
      BY <1>3
    <3>3. QED
      BY <1>1, <3>1, <3>2 DEF Total
  <2>2. r \in HeapType /\ \A o \in Objects : ~Live(r, o) => r.ptr[o] = NULL
    BY DEF Counted
  <2> HIDE DEF b, P
  <2>3. QED
    BY <2>1, <2>2, Rebalanced
<1>5. Counted(s, NULL, P, ee, W) /\ Shrinks(r, s)
  BY <1>0, <1>2, <1>4, DecCounted
<1>6. /\ t \in HeapType /\ t.count = s.count /\ t.ptr = [s.ptr EXCEPT ![x] = d]
      /\ s.ptr \in [RefPlaces -> Objects \cup {NULL}]
  BY <1>0, <1>5, CountedType DEF HeapType
<1> HIDE DEF t, b, P
<1>7. t.ptr[x] = d /\ \A y \in P : t.ptr[y] = s.ptr[y]
  BY <1>0, <1>6 DEF P
<1>8. ASSUME NEW o \in Objects
      PROVE  Total(t, NULL, RefPlaces, e, o) = Total(s, NULL, P, ee, o)
  <2>1. Refs(t.ptr, P, o) = Refs(s.ptr, P, o)
    BY <1>7, RefsSame
  <2>2. Refs(t.ptr, RefPlaces, o) = Refs(t.ptr, P, o) + Is(d, o) /\ Refs(t.ptr, P, o) \in Nat
    BY <1>3, <1>7
  <2>3. Is(NULL, o) = 0
    BY Places DEF Is
  <2>4. QED
    BY <1>1, <2>1, <2>2, <2>3 DEF Total
<1>9. ASSUME NEW o \in Objects, ~Live(t, o) PROVE t.ptr[o] = NULL
  <2>1. o \in P
    BY <1>0, Places DEF P
  <2>2. ~Live(s, o)
    BY <1>6, <1>9 DEF Live
  <2>3. QED
    BY <1>5, <1>7, <2>1, <2>2 DEF Counted
<1>10. Counted(t, NULL, RefPlaces, e, W)
  <2>1. \A o \in Objects : t.count[o] = s.count[o]
    BY <1>6
  <2>2. \A o \in Objects : ~Live(t, o) => t.ptr[o] = NULL
    BY <1>9
  <2>3. \A o \in Objects : Total(t, NULL, RefPlaces, e, o) = Total(s, NULL, P, ee, o)
    BY <1>8
  <2>4. t \in HeapType /\ Counted(s, NULL, P, ee, W)
    BY <1>5, <1>6
  <2>5. QED
    BY <2>1, <2>2, <2>3, <2>4, Rebalanced
<1>11. s \in HeapType
  BY <1>5, CountedType
<1>12. QED
  BY <1>5, <1>10, <1>11 DEF t

(* A move from handle y to handle x *)
LEMMA PlaceMoved ==
  ASSUME NEW W, NEW e \in [Objects -> Nat], NEW r, Counted(r, NULL, RefPlaces, e, W),
         NEW x \in Handles, NEW y \in Handles
  PROVE  Counted(MoveAssign(r, x, y), NULL, RefPlaces, e, W)
<1> DEFINE P == RefPlaces \ {x}
           b == r.ptr[x]
           s == dec(r, b)
           t == [s EXCEPT !.ptr[x] = s.ptr[y]]
           u == [t EXCEPT !.ptr[y] = NULL]
<1>0. /\ x \in RefPlaces /\ x \notin Objects /\ y \in RefPlaces /\ y \notin Objects
      /\ b \in Objects \cup {NULL} /\ IsFiniteSet(RefPlaces)
  BY Places, CountedType
<1>1. MoveAssign(r, x, y) = u
  BY DEF MoveAssign
<1>2. Countable(P, e) /\ IsFiniteSet(P)
  BY AllPlaces DEF Countable
<1>3. ASSUME NEW q, NEW o PROVE Refs(q, RefPlaces, o) = Refs(q, P, o) + Is(q[x], o) /\ Refs(q, P, o) \in Nat
  <2>1. Refs(q, RefPlaces, o) = Refs(q, P, o) + Is(q[x], o)
    BY <1>0, RefsAt
  <2>2. Refs(q, P, o) \in Nat
    BY <1>2, RefsType
  <2>3. QED
    BY <2>1, <2>2
<1>4. \A a, o : Is(a, o) \in Nat
  BY DEF Is
<1>5. \A o \in Objects : Is(NULL, o) = 0 /\ e[o] \in Nat
  BY Places DEF Is
<1>6. Counted(r, b, P, e, W)
  <2>1. ASSUME NEW o \in Objects
        PROVE  Total(r, NULL, RefPlaces, e, o) = Total(r, b, P, e, o)
    <3>1. Refs(r.ptr, RefPlaces, o) = Refs(r.ptr, P, o) + Is(b, o) /\ Refs(r.ptr, P, o) \in Nat
      BY <1>3
    <3>2. QED
      BY <1>4, <1>5, <3>1 DEF Total
  <2>2. r \in HeapType /\ \A o \in Objects : ~Live(r, o) => r.ptr[o] = NULL
    BY DEF Counted
  <2> HIDE DEF b, P
  <2>3. QED
    BY <2>1, <2>2, Rebalanced
<1>7. Counted(s, NULL, P, e, W)
  BY <1>0, <1>2, <1>6, DecCounted
<1>8. s.ptr \in [RefPlaces -> Objects \cup {NULL}] /\ s.ptr[y] \in Objects \cup {NULL} /\ s \in HeapType
  BY <1>0, <1>7, CountedType
<1> DEFINE a == s.ptr[y]
<1>9. /\ u \in HeapType /\ u.count = s.count
      /\ u.ptr = [[s.ptr EXCEPT ![x] = a] EXCEPT ![y] = NULL]
  BY <1>0, <1>8 DEF HeapType
<1> HIDE DEF u, t, s, b
<1>10. /\ u.ptr[y] = NULL /\ (x # y => u.ptr[x] = a)
       /\ \A z \in RefPlaces : z # x /\ z # y => u.ptr[z] = s.ptr[z]
  BY <1>0, <1>8, <1>9
<1> HIDE DEF a
<1>11. ASSUME NEW o \in Objects
       PROVE  Total(u, NULL, RefPlaces, e, o) = Total(s, NULL, P, e, o)
  <2>1. Refs(u.ptr, RefPlaces, o) = Refs(u.ptr, P, o) + Is(u.ptr[x], o) /\ Refs(u.ptr, P, o) \in Nat
    BY <1>3
  <2>2. CASE x = y
    <3>1. Refs(u.ptr, P, o) = Refs(s.ptr, P, o)
      BY <1>10, <2>2, RefsSame
    <3>2. QED
      BY <1>4, <1>5, <1>10, <2>1, <2>2, <3>1 DEF Total
  <2>3. CASE x # y
    <3>1. Refs(u.ptr, P, o) + Is(s.ptr[y], o) = Refs(s.ptr, P, o) + Is(NULL, o)
      <4>1. y \in P /\ \A z \in P \ {y} : u.ptr[z] = s.ptr[z]
        BY <1>0, <1>10, <2>3
      <4>2. QED
        BY <1>2, <1>10, <4>1, RefsSet
    <3>2. Refs(s.ptr, P, o) \in Nat
      BY <1>3
    <3>3. QED
      BY <1>4, <1>5, <1>10, <2>1, <2>3, <3>1, <3>2 DEF a, Total
  <2>4. QED
    BY <2>2, <2>3
<1>12. ASSUME NEW o \in Objects, ~Live(u, o) PROVE u.ptr[o] = NULL
  <2>1. o \in RefPlaces /\ o # x /\ o # y
    BY <1>0, Places
  <2>2. ~Live(s, o)
    BY <1>9, <1>12 DEF Live
  <2>3. QED
    BY <1>7, <1>10, <2>1, <2>2 DEF Counted
<1> HIDE DEF P
<1>13. Counted(u, NULL, RefPlaces, e, W)
  <2>1. \A o \in Objects : u.count[o] = s.count[o]
    BY <1>9
  <2>2. \A o \in Objects : ~Live(u, o) => u.ptr[o] = NULL
    BY <1>12
  <2>3. \A o \in Objects : Total(u, NULL, RefPlaces, e, o) = Total(s, NULL, P, e, o)
    BY <1>11
  <2>4. u \in HeapType /\ Counted(s, NULL, P, e, W)
    BY <1>7, <1>9
  <2>5. QED
    BY <2>1, <2>2, <2>3, <2>4, Rebalanced
<1>14. QED
  BY <1>1, <1>13 DEF u, t, s, b

(* Only the last Ref to an object makes it go. *)
LEMMA DecOne ==
  ASSUME NEW r \in HeapType, NEW o \in Objects, r.count[o] > 1
  PROVE  dec(r, o) = [r EXCEPT !.count[o] = @ - 1]
<1> DEFINE n == Cardinality(Objects)
           s == [heap |-> [r EXCEPT !.count[o] = @ - 1], drop |-> NULL]
<1>1. n \in Nat /\ n # 0
  BY RefAssumption, FS_EmptySet, FS_CardinalityType
<1>2. PICK f : /\ f[0] = [heap |-> r, drop |-> o]
               /\ \A k \in 1 .. n : f[k] = dropOne(f[k - 1])
               /\ dec(r, o) = f[n].heap
  BY DecIsChain
<1>3. dropOne(f[0]) = s
  <2>1. o # NULL /\ r.count[o] # 0 /\ r.count[o] # 1
    BY Places
  <2>2. dropOne([heap |-> r, drop |-> o]) = s
    BY <2>1 DEF dropOne
  <2>3. QED
    BY <1>2, <2>2
<1>4. dropOne(s) = s
  BY DEF dropOne
<1> DEFINE T == {k \in 0 .. n : k # 0 => f[k] = s}
<1> HIDE DEF s, n
<1>5. 0 \in T
  BY <1>1
<1>6. ASSUME NEW k \in 1 .. n, k - 1 \in T PROVE k \in T
  <2>1. f[k] = dropOne(f[k - 1]) /\ k \in 0 .. n
    BY <1>1, <1>2
  <2>2. CASE k - 1 = 0
    BY <1>3, <2>1, <2>2
  <2>3. CASE k - 1 # 0
    BY <1>4, <1>6, <2>1, <2>3
  <2>4. QED
    BY <2>2, <2>3
<1> HIDE DEF T
<1>7. n \in T
  BY <1>1, <1>5, <1>6, Counting
<1>8. f[n] = s
  BY <1>1, <1>7 DEF T
<1>9. QED
  BY <1>2, <1>8 DEF s

(* The references outside of the places are d, e before and c, f after one to a was added. *)
OneMore(d, e, a, c, f) ==
  /\ f \in [Objects -> Nat]
  /\ \A o \in Objects : Is(c, o) + f[o] = Is(d, o) + e[o] + Is(a, o)

(* One reference more to a live object a is counted. *)
LEMMA IncCounted ==
  ASSUME NEW W, NEW e \in [Objects -> Nat], NEW r, NEW d, Counted(r, d, RefPlaces, e, W),
         NEW a \in Objects \cup {NULL}, a # NULL => Live(r, a),
         NEW c, NEW f, OneMore(d, e, a, c, f)
  PROVE  Counted(inc(r, a), c, RefPlaces, f, W) /\ inc(r, a).ptr = r.ptr
<1> DEFINE g == inc(r, a)
<1>1. /\ r \in HeapType /\ r.count \in [Objects -> Nat]
      /\ r.ptr \in [RefPlaces -> Objects \cup {NULL}]
  BY CountedType
<1>2. g \in HeapType /\ g.ptr = r.ptr
  BY <1>1 DEF inc, HeapType
<1>3. \A o \in Objects : g.count[o] = r.count[o] + Is(a, o) /\ r.count[o] \in Nat
  BY <1>1, Places DEF inc, Is, HeapType
<1> HIDE DEF g
<1>4. \A o \in Objects : Live(g, o) <=> Live(r, o)
  <2>1. ASSUME NEW o \in Objects PROVE Live(g, o) <=> Live(r, o)
    <3>1. CASE a = o
      BY <1>3, <3>1, Places DEF Live, Is
    <3>2. CASE a # o
      BY <1>3, <3>2 DEF Live, Is
    <3>3. QED
      BY <3>1, <3>2
  <2>2. QED
    BY <2>1
<1>5. ASSUME NEW o \in Objects
      PROVE  /\ Total(g, c, RefPlaces, f, o) = Total(r, d, RefPlaces, e, o) + Is(a, o)
             /\ Total(r, d, RefPlaces, e, o) \in Nat /\ Is(a, o) \in Nat
  <2>1. Refs(r.ptr, RefPlaces, o) \in Nat
    BY Places, RefsType
  <2>2. Is(c, o) \in Nat /\ Is(d, o) \in Nat /\ Is(a, o) \in Nat /\ e[o] \in Nat /\ f[o] \in Nat
    BY DEF Is, OneMore
  <2>3. QED
    BY <1>2, <2>1, <2>2 DEF Total, OneMore
<1>6. Counted(g, c, RefPlaces, f, W)
  <2>1. \A o \in Objects : ~Live(g, o) => g.ptr[o] = NULL
    BY <1>2, <1>4 DEF Counted
  <2>2. ASSUME NEW o \in Objects \ W PROVE g.count[o] = Total(g, c, RefPlaces, f, o)
    <3>1. r.count[o] = Total(r, d, RefPlaces, e, o)
      BY DEF Counted
    <3>2. QED
      BY <1>3, <1>5, <3>1
  <2>3. ASSUME NEW o \in Objects \cap W, Live(g, o)
        PROVE  g.count[o] = Total(g, c, RefPlaces, f, o) - 1
    <3>1. r.count[o] = Total(r, d, RefPlaces, e, o) - 1
      BY <1>4, <2>3 DEF Counted
    <3>2. o \in Objects
      OBVIOUS
    <3>3. Total(g, c, RefPlaces, f, o) = Total(r, d, RefPlaces, e, o) + Is(a, o)
      BY <1>5, <3>2
    <3>4. g.count[o] = r.count[o] + Is(a, o)
      BY <1>3, <3>2
    <3>5. Total(r, d, RefPlaces, e, o) \in Nat /\ Is(a, o) \in Nat
      BY <1>5, <3>2
    <3>6. QED
      BY <3>1, <3>3, <3>4, <3>5
  <2>4. QED
    BY <1>2, <2>1, <2>2, <2>3 DEF Counted
<1>7. QED
  BY <1>2, <1>6 DEF g

(* A copy in the Ref of a live object x, which referred to nothing *)
LEMMA CopyCounted ==
  ASSUME NEW W, NEW e \in [Objects -> Nat], NEW r, NEW d, Counted(r, d, RefPlaces, e, W),
         NEW x \in Objects, Live(r, x), r.ptr[x] = NULL,
         NEW y \in RefPlaces, r.ptr[y] # NULL => Live(r, r.ptr[y])
  PROVE  Counted(CopyConstruct(r, x, y), d, RefPlaces, e, W)
<1> DEFINE a  == r.ptr[y]
           ee == [o \in Objects |-> e[o] + Is(a, o)]
           s  == inc(r, a)
           g  == [s EXCEPT !.ptr[x] = a]
<1>1. CopyConstruct(r, x, y) = g
  BY DEF CopyConstruct
<1>2. a \in Objects \cup {NULL} /\ x \in RefPlaces
  BY PlaceCounted, Places
<1>3. /\ ee \in [Objects -> Nat]
      /\ \A o \in Objects : ee[o] = e[o] + Is(a, o) /\ e[o] \in Nat /\ Is(a, o) \in Nat /\ Is(d, o) \in Nat
  BY DEF Is
<1> HIDE DEF ee, a
<1>4. Counted(s, d, RefPlaces, ee, W) /\ s.ptr = r.ptr
  <2>1. OneMore(d, e, a, d, ee)
    BY <1>3 DEF OneMore
  <2>2. a # NULL => Live(r, a)
    BY DEF a
  <2>3. QED
    BY <1>2, <1>3, <2>1, <2>2, IncCounted
<1>5. Live(s, x)
  <2>1. r \in HeapType /\ r.count \in [Objects -> Nat]
    BY CountedType
  <2>2. QED
    BY <1>2, <2>1 DEF inc, Live, HeapType
<1> HIDE DEF s
<1>6. /\ g \in HeapType /\ g.count = s.count /\ g.ptr = [s.ptr EXCEPT ![x] = a]
      /\ s.ptr \in [RefPlaces -> Objects \cup {NULL}]
  <2>1. s \in HeapType /\ s.ptr \in [RefPlaces -> Objects \cup {NULL}]
    BY <1>4, CountedType
  <2>2. QED
    BY <1>2, <2>1 DEF HeapType
<1> HIDE DEF g
<1>7. ASSUME NEW o \in Objects
      PROVE  Total(g, d, RefPlaces, e, o) = Total(s, d, RefPlaces, ee, o)
  <2>1. Refs(g.ptr, RefPlaces, o) + Is(NULL, o) = Refs(r.ptr, RefPlaces, o) + Is(a, o)
    <3>1. g.ptr[x] = a /\ \A z \in RefPlaces \ {x} : g.ptr[z] = r.ptr[z]
      BY <1>2, <1>4, <1>6
    <3>2. QED
      BY <1>2, <3>1, Places, RefsSet, SMTT(30)
  <2>2. Is(NULL, o) = 0
    BY Places DEF Is
  <2>3. Refs(g.ptr, RefPlaces, o) \in Nat /\ Refs(r.ptr, RefPlaces, o) \in Nat
    BY Places, RefsType
  <2>4. QED
    BY <1>3, <1>4, <2>1, <2>2, <2>3 DEF Total
<1>8. Counted(g, d, RefPlaces, e, W)
  <2>1. \A o \in Objects : g.count[o] = s.count[o]
    BY <1>6
  <2>2. ASSUME NEW o \in Objects, ~Live(g, o) PROVE g.ptr[o] = NULL
    <3>1. o # x /\ ~Live(s, o)
      BY <1>5, <1>6, <2>2 DEF Live
    <3>2. g.ptr[o] = s.ptr[o]
      BY <1>6, <3>1, Places
    <3>3. QED
      BY <1>4, <3>1, <3>2 DEF Counted
  <2>3. \A o \in Objects : ~Live(g, o) => g.ptr[o] = NULL
    BY <2>2
  <2>4. \A o \in Objects : Total(g, d, RefPlaces, e, o) = Total(s, d, RefPlaces, ee, o)
    BY <1>7
  <2>5. QED
    BY <1>4, <1>6, <2>1, <2>3, <2>4 DEF Counted, Live
<1>9. QED
  BY <1>1, <1>8 DEF g, s, a

-----------------------------------------------------------------------------
(* Each action keeps the invariant. *)

LEMMA OwnRefsType ==
  /\ OwnRefs \in [Objects -> Nat]
  /\ \A o \in Objects : OwnRefs[o] = IF Kept(o) THEN 1 ELSE 0
  BY DEF OwnRefs

LEMMA CreatedCounted ==
  ASSUME IInv, NEW o \in Free, NEW c \in Visible \cup {NULL},
         NEW f, f = [OwnRefs EXCEPT ![o] = 1]
  PROVE  /\ Counted(Created(o, c), o, RefPlaces, f, overdropped)
         /\ f \in [Objects -> Nat] /\ calling # o
<1> DEFINE r == createUnmanaged(make(heap, o), o)
           W == overdropped
<1>1. Counted(heap, NULL, RefPlaces, OwnRefs, W)
  BY DEF IInv, HeapInv
<1>2. /\ heap \in HeapType /\ heap.count \in [Objects -> Nat]
      /\ heap.ptr \in [RefPlaces -> Objects \cup {NULL}]
  BY <1>1, CountedType
<1>3. o \in Objects /\ o \in RefPlaces /\ o \notin W /\ ~Live(heap, o) /\ heap.count[o] = 0
  BY <1>2, Places DEF Free, Live
<1>4. f \in [Objects -> Nat] /\ f[o] = 1 /\ \A x \in Objects : x # o => f[x] = OwnRefs[x]
  BY <1>3, OwnRefsType
<1>5. calling # o
  BY <1>3 DEF IInv, ExecutedLives
<1>6. heap.ptr[o] = NULL
  BY <1>1, <1>3 DEF Counted
<1>7. r \in HeapType /\ r.count = [heap.count EXCEPT ![o] = 2] /\ r.ptr = heap.ptr
  <2> DEFINE m == make(heap, o)
  <2>1. /\ m \in HeapType /\ m.count = [heap.count EXCEPT ![o] = 1]
        /\ m.ptr = [heap.ptr EXCEPT ![o] = NULL]
    BY <1>2, <1>3 DEF make, HeapType
  <2>2. m.ptr = heap.ptr
    BY <1>2, <1>3, <1>6, <2>1
  <2>3. r = [m EXCEPT !.count[o] = @ + 1]
    BY <1>3, Places DEF createUnmanaged, inc
  <2> HIDE DEF m, r
  <2>4. /\ r \in HeapType /\ r.count = [m.count EXCEPT ![o] = @ + 1]
        /\ r.ptr = m.ptr
    BY <1>3, <2>1, <2>3 DEF HeapType
  <2>5. r.count = [heap.count EXCEPT ![o] = 2]
    BY <1>2, <1>3, <2>1, <2>4
  <2>6. QED
    BY <2>2, <2>4, <2>5
<1> HIDE DEF r
<1>8. \A x \in Objects : Live(r, x) <=> x = o \/ Live(heap, x)
  BY <1>2, <1>3, <1>7 DEF Live
<1>9. \A x : Refs(heap.ptr, RefPlaces, x) \in Nat
  BY Places, RefsType
<1>10. \A x \in Objects : Is(NULL, x) = 0 /\ Is(o, o) = 1 /\ (x # o => Is(o, x) = 0)
  BY Places DEF Is
<1>11. r.count[o] = Total(r, o, RefPlaces, f, o)
  <2>1. Refs(heap.ptr, RefPlaces, o) + OwnRefs[o] + 0 = 0
    BY <1>1, <1>3, <1>10 DEF Counted, Total
  <2>2. OwnRefs[o] \in Nat
    BY <1>3, OwnRefsType
  <2>3. Refs(r.ptr, RefPlaces, o) = 0
    BY <1>7, <1>9, <2>1, <2>2
  <2>4. r.count[o] = 2
    BY <1>2, <1>3, <1>7
  <2>5. QED
    BY <1>3, <1>4, <1>10, <2>3, <2>4 DEF Total
<1>12. ASSUME NEW x \in Objects, x # o
       PROVE  r.count[x] = heap.count[x] /\ Total(r, o, RefPlaces, f, x) = Total(heap, NULL, RefPlaces, OwnRefs, x)
  BY <1>2, <1>4, <1>7, <1>10, <1>12 DEF Total
<1>13. Counted(r, o, RefPlaces, f, W)
  <2>1. \A x \in Objects : ~Live(r, x) => r.ptr[x] = NULL
    BY <1>1, <1>7, <1>8 DEF Counted
  <2>2. ASSUME NEW x \in Objects \ W PROVE r.count[x] = Total(r, o, RefPlaces, f, x)
    <3>1. heap.count[x] = Total(heap, NULL, RefPlaces, OwnRefs, x)
      BY <1>1 DEF Counted
    <3>2. QED
      BY <1>11, <1>12, <3>1
  <2>3. ASSUME NEW x \in Objects \cap W, Live(r, x)
        PROVE  r.count[x] = Total(r, o, RefPlaces, f, x) - 1
    <3>1. x # o /\ Live(heap, x)
      BY <1>3, <1>8, <2>3
    <3>2. heap.count[x] = Total(heap, NULL, RefPlaces, OwnRefs, x) - 1
      BY <1>1, <3>1 DEF Counted
    <3>3. QED
      BY <1>12, <3>1, <3>2
  <2>4. QED
    BY <1>7, <2>1, <2>2, <2>3 DEF Counted
<1>14. Counted(Created(o, c), o, RefPlaces, f, W)
  <2>1. CASE c = NULL
    BY <1>13, <2>1 DEF Created, r
  <2>2. CASE c # NULL
    <3>1. c \in RefPlaces /\ (heap.ptr[c] # NULL => Live(heap, heap.ptr[c]))
      BY <2>2, Places DEF Visible, Usable
    <3>2. Live(r, o) /\ r.ptr[o] = NULL
      BY <1>3, <1>6, <1>7, <1>8
    <3>3. r.ptr[c] # NULL => Live(r, r.ptr[c])
      BY <1>2, <1>7, <1>8, <3>1
    <3>4. Counted(CopyConstruct(r, o, c), o, RefPlaces, f, W)
      BY <1>3, <1>4, <1>13, <3>1, <3>2, <3>3, CopyCounted
    <3>5. QED
      BY <2>2, <3>4 DEF Created, r
  <2>3. QED
    BY <2>1, <2>2
<1>15. QED
  BY <1>4, <1>5, <1>14

LEMMA SetKeeps ==
  ASSUME IInv, NEW o, NEW c \in Visible \cup {NULL}, NEW sec \in Int,
         NEW flag \in SUBSET {"REPEAT"}, NEW interval \in Nat,
         setHighLevelTimeout(o, c, sec, flag, interval)
  PROVE  IInv'
<1>1. PICK f : f = [OwnRefs EXCEPT ![o] = 1]
  OBVIOUS
<1>2. o \in Objects /\ o \in Free /\ o \notin overdropped
  BY DEF setHighLevelTimeout, Free
<1>3. /\ Counted(Created(o, c), o, RefPlaces, f, overdropped)
      /\ f \in [Objects -> Nat] /\ calling # o
  BY <1>1, <1>2, CreatedCounted
<1>4. float2ticks(sec) \in Nat /\ float2ticks(sec) # Off
  BY TimeoutsAssumption DEF float2ticks
<1>5. /\ flags' = [flags EXCEPT ![o] = {"RUNNING"} \cup flag]
      /\ period' = [period EXCEPT ![o] = interval]
      /\ left' = [left EXCEPT ![o] = float2ticks(sec)]
      /\ stopped' = stopped \ {o}
      /\ calling' = calling /\ posted' = posted /\ overdropped' = overdropped
      /\ KeepsExecuted
  BY DEF setHighLevelTimeout
<1>6. /\ flags \in [Objects -> SUBSET {"RUNNING", "REPEAT"}]
      /\ left \in [Objects -> Nat \cup {Off}] /\ period \in [Objects -> Nat]
      /\ calling \in Objects \cup {Idle, Posted} /\ posted \in {"none", "waiting", "taken"}
      /\ stopped \subseteq Objects /\ overdropped \subseteq Objects
  BY DEF IInv, TypeOK
<1>7. Counted(heap', NULL, RefPlaces, f, overdropped)
  <2>1. PICK r : r = Created(o, c)
    OBVIOUS
  <2>2. Counted(r, o, RefPlaces, f, overdropped)
    BY <1>3, <2>1
  <2>3. CASE heap' = dec(r, o)
    BY <1>2, <1>3, <2>2, <2>3, AllPlaces, DecCounted
  <2>4. ASSUME NEW h \in Handles, heap' = AssignNew(r, h, o)
        PROVE  Counted(heap', NULL, RefPlaces, f, overdropped)
    <3>1. PICK s : s = dec(r, r.ptr[h])
      OBVIOUS
    <3>2. Counted([s EXCEPT !.ptr[h] = o], NULL, RefPlaces, f, overdropped)
      BY <1>2, <1>3, <2>2, <3>1, PlaceAssigned
    <3>3. QED
      BY <2>4, <3>1, <3>2 DEF AssignNew
  <2>5. heap' = dec(r, o) \/ \E h \in Handles : heap' = AssignNew(r, h, o)
    BY <2>1 DEF setHighLevelTimeout
  <2>6. QED
    BY <2>3, <2>4, <2>5
<1>8. OwnRefs' = f
  <2>1. ASSUME NEW x \in Objects PROVE Kept(x)' <=> x = o \/ Kept(x)
    BY <1>2, <1>3, <1>4, <1>5, <1>6 DEF Kept
  <2>2. QED
    BY <1>1, <1>2, <2>1 DEF OwnRefs
<1>9. HeapInv'
  BY <1>5, <1>7, <1>8 DEF HeapInv
<1>10. TypeOK'
  <2>1. heap' \in HeapType
    BY <1>7 DEF Counted
  <2>2. /\ flags' \in [Objects -> SUBSET {"RUNNING", "REPEAT"}]
        /\ left' \in [Objects -> Nat \cup {Off}] /\ period' \in [Objects -> Nat]
    BY <1>2, <1>4, <1>5, <1>6
  <2>3. QED
    BY <1>5, <1>6, <2>1, <2>2 DEF TypeOK
<1>11. Listed'
  BY <1>2, <1>4, <1>5, <1>6 DEF IInv, Listed
<1>12. OverdroppedAreDone'
  BY <1>2, <1>5, <1>6 DEF IInv, OverdroppedAreDone
<1>13. ExecutedLives'
  BY <1>3, <1>5, <1>6 DEF IInv, ExecutedLives, KeepsExecuted
<1>14. QED
  BY <1>9, <1>10, <1>11, <1>12, <1>13 DEF IInv

LEMMA IInvType ==
  ASSUME IInv
  PROVE  /\ heap \in HeapType /\ heap.count \in [Objects -> Nat]
         /\ heap.ptr \in [RefPlaces -> Objects \cup {NULL}]
         /\ Counted(heap, NULL, RefPlaces, OwnRefs, overdropped)
         /\ flags \in [Objects -> SUBSET {"RUNNING", "REPEAT"}]
         /\ left \in [Objects -> Nat \cup {Off}] /\ period \in [Objects -> Nat]
         /\ calling \in Objects \cup {Idle, Posted}
         /\ posted \in {"none", "waiting", "taken"}
         /\ stopped \subseteq Objects /\ overdropped \subseteq Objects
         /\ Idle \notin Objects /\ Posted \notin Objects /\ Off \notin Int
<1>1. Counted(heap, NULL, RefPlaces, OwnRefs, overdropped)
  BY DEF IInv, HeapInv
<1>2. heap \in HeapType /\ heap.count \in [Objects -> Nat] /\ heap.ptr \in [RefPlaces -> Objects \cup {NULL}]
  BY <1>1, CountedType
<1>3. QED
  BY <1>1, <1>2, TimeoutsAssumption DEF IInv, TypeOK

LEMMA StopKeeps ==
  ASSUME IInv, NEW x \in Visible, stopTimeout(x)
  PROVE  IInv'
<1>o. PICK o : o = heap.ptr[x]
  OBVIOUS
<1>r. PICK r : r = inc(heap, o)
  OBVIOUS
<1>k. PICK k : k = heap.count[o]
  OBVIOUS
<1>1. /\ heap \in HeapType /\ heap.count \in [Objects -> Nat]
      /\ heap.ptr \in [RefPlaces -> Objects \cup {NULL}]
      /\ Counted(heap, NULL, RefPlaces, OwnRefs, overdropped)
  BY IInvType
<1>2. x \in RefPlaces /\ o \in Objects /\ o # NULL /\ Live(heap, o)
  BY <1>1, <1>o, Places DEF Visible, Usable, stopTimeout
<1>3. /\ stopped' = stopped \cup {o}
      /\ period' = period /\ calling' = calling /\ posted' = posted /\ overdropped' = overdropped
      /\ "RUNNING" \in flags[o] =>
           /\ flags' = [flags EXCEPT ![o] = @ \ {"RUNNING"}]
           /\ left' = [left EXCEPT ![o] = Off]
           /\ heap' = dec(dec(r, o), o)
      /\ "RUNNING" \notin flags[o] => heap' = dec(r, o) /\ flags' = flags /\ left' = left
  BY <1>o, <1>r DEF stopTimeout, deleteUnmanaged
<1>4. k \in Nat /\ k >= 1
  BY <1>1, <1>2, <1>k DEF Live
<1>5. dec(r, o) = heap
  <2>1. r \in HeapType /\ r.count = [heap.count EXCEPT ![o] = @ + 1] /\ r.ptr = heap.ptr
    BY <1>1, <1>2, <1>r DEF inc, HeapType
  <2>2. r.count[o] = k + 1
    BY <1>1, <1>2, <1>k, <2>1
  <2> DEFINE s == [r EXCEPT !.count[o] = @ - 1]
  <2>3. dec(r, o) = s
    <3>1. r.count[o] > 1
      BY <1>4, <2>2
    <3>2. QED
      BY <1>2, <2>1, <3>1, DecOne
  <2>4. s \in HeapType /\ s.count = [r.count EXCEPT ![o] = @ - 1] /\ s.ptr = r.ptr
    BY <1>2, <1>4, <2>1, <2>2 DEF HeapType
  <2> HIDE DEF s
  <2>5. s.count = heap.count
    BY <1>1, <1>2, <1>4, <1>k, <2>1, <2>2, <2>4
  <2>6. s = heap
    BY <1>1, <2>1, <2>4, <2>5 DEF HeapType
  <2>7. QED
    BY <2>3, <2>6
<1>6. CASE "RUNNING" \notin flags[o]
  <2>1. UNCHANGED <<heap, flags, left, period, calling, posted, overdropped>>
    BY <1>3, <1>5, <1>6
  <2>2. OwnRefs' = OwnRefs
    BY <2>1 DEF OwnRefs, Kept
  <2>3. HeapInv' /\ ExecutedLives' /\ OverdroppedAreDone'
    BY <2>1, <2>2 DEF IInv, HeapInv, ExecutedLives, OverdroppedAreDone
  <2>4. Listed'
    BY <1>2, <1>3, <1>6, <2>1 DEF IInv, Listed
  <2>5. TypeOK'
    BY <1>2, <1>3, <2>1 DEF IInv, TypeOK
  <2>6. QED
    BY <2>3, <2>4, <2>5 DEF IInv
<1>7. CASE "RUNNING" \in flags[o]
  <2>1. /\ flags' = [flags EXCEPT ![o] = @ \ {"RUNNING"}]
        /\ left' = [left EXCEPT ![o] = Off]
        /\ heap' = dec(heap, o)
    BY <1>3, <1>5, <1>7
  <2>2. left[o] # Off /\ o \notin overdropped /\ Kept(o) /\ o \notin stopped
    BY <1>2, <1>7 DEF IInv, Listed, OverdroppedAreDone, Kept
  <2>3. OwnRefs[o] = 1
    BY <1>2, <2>2, OwnRefsType
  <2>4. k >= 2
    <3>1. k >= 1 + OwnRefs[o]
      BY <1>1, <1>2, <2>2, OwnRefsType, PlaceCounted, <1>o, <1>k
    <3>2. QED
      BY <2>3, <3>1
  <2>5. heap' = [heap EXCEPT !.count[o] = @ - 1]
    BY <1>1, <1>2, <1>4, <2>1, <2>4, DecOne, <1>k
  <2>6. /\ heap' \in HeapType /\ heap'.count = [heap.count EXCEPT ![o] = @ - 1]
        /\ heap'.ptr = heap.ptr
    BY <1>1, <1>2, <1>4, <2>4, <2>5, <1>k DEF HeapType
  <2>7. \A y \in Objects : Live(heap', y) <=> Live(heap, y)
    BY <1>1, <1>2, <1>4, <2>4, <2>6, <1>k DEF Live
  <2>8. /\ left' \in [Objects -> Nat \cup {Off}] /\ left'[o] = Off
        /\ \A y \in Objects : y # o => left'[y] = left[y]
        /\ flags' \in [Objects -> SUBSET {"RUNNING", "REPEAT"}]
        /\ "RUNNING" \notin flags'[o]
        /\ \A y \in Objects : y # o => flags'[y] = flags[y]
        /\ \A y \in Objects : "REPEAT" \in flags'[y] <=> "REPEAT" \in flags[y]
    BY <1>2, <2>1, IInvType
  <2>9. ~(calling = o /\ "REPEAT" \notin flags[o])
    BY <1>2, <2>2 DEF IInv, ExecutedLives
  <2>10. PICK f : f = OwnRefs'
    OBVIOUS
  <2>11. /\ f \in [Objects -> Nat] /\ f[o] = 0
         /\ \A y \in Objects : y # o => f[y] = OwnRefs[y]
    <3>1. ~Kept(o)' /\ \A y \in Objects : y # o => (Kept(y)' <=> Kept(y))
      BY <1>2, <1>3, <2>8, <2>9 DEF Kept
    <3>2. f = [y \in Objects |-> IF Kept(y)' THEN 1 ELSE 0]
      BY <2>10 DEF OwnRefs
    <3>3. QED
      BY <1>2, <3>1, <3>2 DEF OwnRefs
  <2>12. PICK g : g = heap'
    OBVIOUS
  <2>13. ASSUME NEW y \in Objects
         PROVE  /\ y # o => /\ g.count[y] = heap.count[y]
                            /\ Total(g, NULL, RefPlaces, f, y) = Total(heap, NULL, RefPlaces, OwnRefs, y)
                /\ g.count[o] = k - 1
                /\ Total(g, NULL, RefPlaces, f, o) = Total(heap, NULL, RefPlaces, OwnRefs, o) - 1
    <3>1. Refs(heap.ptr, RefPlaces, o) \in Nat /\ Is(NULL, o) = 0
      BY <1>2, Places, RefsType DEF Is
    <3>2. /\ y # o => g.count[y] = heap.count[y]
          /\ g.count[o] = k - 1 /\ g.ptr = heap.ptr
      BY <1>1, <1>2, <2>6, <2>12, <1>k
    <3>3. y # o => Total(g, NULL, RefPlaces, f, y) = Total(heap, NULL, RefPlaces, OwnRefs, y)
      BY <2>11, <3>2 DEF Total
    <3>4. Total(g, NULL, RefPlaces, f, o) = Total(heap, NULL, RefPlaces, OwnRefs, o) - 1
      BY <2>3, <2>11, <3>1, <3>2 DEF Total
    <3>5. QED
      BY <3>2, <3>3, <3>4
  <2>14. Counted(g, NULL, RefPlaces, f, overdropped)
    <3>1. \A y \in Objects : ~Live(g, y) => g.ptr[y] = NULL
      BY <1>1, <2>6, <2>7, <2>12 DEF Counted
    <3>2. ASSUME NEW y \in Objects \ overdropped
          PROVE  g.count[y] = Total(g, NULL, RefPlaces, f, y)
      <4>1. heap.count[y] = Total(heap, NULL, RefPlaces, OwnRefs, y)
        BY <1>1 DEF Counted
      <4>2. CASE y = o
        BY <2>13, <4>1, <4>2, <1>k
      <4>3. CASE y # o
        BY <2>13, <4>1, <4>3
      <4>4. QED
        BY <4>2, <4>3
    <3>3. ASSUME NEW y \in Objects \cap overdropped, Live(g, y)
          PROVE  g.count[y] = Total(g, NULL, RefPlaces, f, y) - 1
      <4>1. y # o /\ Live(heap, y)
        BY <2>2, <2>7, <2>12, <3>3
      <4>2. heap.count[y] = Total(heap, NULL, RefPlaces, OwnRefs, y) - 1
        BY <1>1, <4>1 DEF Counted
      <4>3. QED
        BY <2>13, <4>1, <4>2
    <3>4. QED
      BY <2>6, <2>12, <3>1, <3>2, <3>3 DEF Counted
  <2>15. HeapInv'
    BY <1>3, <2>10, <2>12, <2>14 DEF HeapInv
  <2>16. TypeOK'
    BY <1>2, <1>3, <2>6, <2>8 DEF IInv, TypeOK
  <2>17. Listed'
    BY <1>2, <1>3, <2>2, <2>8, IInvType DEF IInv, Listed
  <2>18. OverdroppedAreDone'
    BY <1>2, <1>3, <2>2, <2>8, IInvType DEF IInv, OverdroppedAreDone
  <2>19. ExecutedLives'
    BY <1>2, <1>3, <2>7, <2>8 DEF IInv, ExecutedLives
  <2>20. QED
    BY <2>15, <2>16, <2>17, <2>18, <2>19 DEF IInv
<1>8. QED
  BY <1>6, <1>7

LEMMA AssignKeeps ==
  ASSUME IInv, NEW h \in Handles, Assign(h)
  PROVE  IInv'
<1>1. /\ heap \in HeapType /\ heap.ptr \in [RefPlaces -> Objects \cup {NULL}]
      /\ Counted(heap, NULL, RefPlaces, OwnRefs, overdropped)
      /\ OwnRefs \in [Objects -> Nat] /\ h \in RefPlaces
  BY IInvType, OwnRefsType, Places
<1>2. UNCHANGED <<flags, left, period, calling, posted, stopped, overdropped>> /\ KeepsExecuted
  BY DEF Assign, timer
<1>3. PICK g : g = heap'
  OBVIOUS
<1>4. Counted(g, NULL, RefPlaces, OwnRefs, overdropped)
  <2>1. ASSUME NEW x \in Visible, g = CopyAssign(heap, h, x)
        PROVE  Counted(g, NULL, RefPlaces, OwnRefs, overdropped)
    <3>1. PICK a : a = heap.ptr[x]
      OBVIOUS
    <3>2. PICK r : r = inc(heap, a)
      OBVIOUS
    <3>3. PICK s : s = dec(r, r.ptr[h])
      OBVIOUS
    <3>4. x \in RefPlaces /\ a \in Objects \cup {NULL} /\ (a # NULL => Live(heap, a))
      BY <1>1, <3>1, Places DEF Visible, Usable
    <3>5. OneMore(NULL, OwnRefs, a, a, OwnRefs)
      <4>1. \A o \in Objects : Is(NULL, o) = 0 /\ Is(a, o) \in Nat /\ OwnRefs[o] \in Nat
        BY <1>1, Places DEF Is
      <4>2. QED
        BY <1>1, <4>1 DEF OneMore
    <3>6. Counted(r, a, RefPlaces, OwnRefs, overdropped) /\ r.ptr = heap.ptr
      <4>1. Counted(inc(heap, a), a, RefPlaces, OwnRefs, overdropped) /\ inc(heap, a).ptr = heap.ptr
        BY <1>1, <3>4, <3>5, IncCounted
      <4>2. QED
        BY <3>2, <4>1
    <3>7. /\ Counted([s EXCEPT !.ptr[h] = a], NULL, RefPlaces, OwnRefs, overdropped)
          /\ s \in HeapType /\ Shrinks(r, s)
      BY <1>1, <3>3, <3>4, <3>6, PlaceAssigned
    <3>8. g = [s EXCEPT !.ptr[h] = s.ptr[x]]
      <4>1. s = dec(inc(heap, heap.ptr[x]), heap.ptr[h])
        BY <3>1, <3>2, <3>3, <3>6
      <4>2. QED
        BY <2>1, <4>1 DEF CopyAssign
    <3>9. s.ptr[x] = a
      <4>1. CASE x \in Handles
        BY <3>1, <3>6, <3>7, <4>1 DEF Shrinks
      <4>2. CASE x \in Objects /\ x = calling
        <5>1. Live(g, x)
          BY <1>2, <1>3, <4>2 DEF KeepsExecuted
        <5>2. g.count = s.count
          BY <3>7, <3>8 DEF HeapType
        <5>3. Live(s, x)
          BY <5>1, <5>2 DEF Live
        <5>4. QED
          BY <3>1, <3>6, <3>7, <4>2, <5>3 DEF Shrinks
      <4>3. QED
        BY <4>1, <4>2 DEF Visible
    <3>10. QED
      BY <3>7, <3>8, <3>9
  <2>2. ASSUME NEW x \in Handles, g = MoveAssign(heap, h, x)
        PROVE  Counted(g, NULL, RefPlaces, OwnRefs, overdropped)
    BY <1>1, <2>2, PlaceMoved
  <2>3. CASE g = AssignNull(heap, h)
    <3>1. PICK s : s = dec(heap, heap.ptr[h])
      OBVIOUS
    <3>2. Counted([s EXCEPT !.ptr[h] = NULL], NULL, RefPlaces, OwnRefs, overdropped)
      BY <1>1, <3>1, PlaceAssigned
    <3>3. QED
      BY <2>3, <3>1, <3>2 DEF AssignNull
  <2>4. \/ \E x \in Visible : g = CopyAssign(heap, h, x)
        \/ \E x \in Handles : g = MoveAssign(heap, h, x)
        \/ g = AssignNull(heap, h)
    BY <1>3 DEF Assign
  <2>5. QED
    BY <2>1, <2>2, <2>3, <2>4
<1>5. OwnRefs' = OwnRefs
  BY <1>2 DEF OwnRefs, Kept
<1>6. HeapInv'
  BY <1>2, <1>3, <1>4, <1>5 DEF HeapInv
<1>7. TypeOK'
  BY <1>2, <1>3, <1>4 DEF IInv, TypeOK, Counted
<1>8. Listed' /\ OverdroppedAreDone'
  BY <1>2 DEF IInv, Listed, OverdroppedAreDone
<1>9. ExecutedLives'
  BY <1>2 DEF IInv, ExecutedLives, KeepsExecuted
<1>10. QED
  BY <1>6, <1>7, <1>8, <1>9 DEF IInv

LEMMA ExecuteKeeps ==
  ASSUME IInv, NEW o \in Objects, execute(o)
  PROVE  IInv'
<1>1. /\ calling = Idle /\ calling' = o /\ left[o] # Off /\ left[o] <= 0
      /\ UNCHANGED <<heap, period, posted, stopped, overdropped>>
  BY DEF execute, Due
<1>2. o \notin overdropped /\ o \notin stopped /\ "RUNNING" \in flags[o] /\ Kept(o)
  BY <1>1 DEF IInv, Listed, OverdroppedAreDone, Kept
<1>3. /\ left' \in [Objects -> Nat \cup {Off}]
      /\ flags' \in [Objects -> SUBSET {"RUNNING", "REPEAT"}]
      /\ \A y \in Objects : y # o => left'[y] = left[y] /\ flags'[y] = flags[y]
      /\ "REPEAT" \in flags[o] => flags'[o] = flags[o] /\ left'[o] # Off
      /\ "REPEAT" \notin flags[o] =>
           left'[o] = Off /\ "REPEAT" \notin flags'[o] /\ "RUNNING" \notin flags'[o]
  <2>1. CASE "REPEAT" \in flags[o]
    <3>1. left' = [left EXCEPT ![o] = @ + period[o]] /\ flags' = flags
      BY <2>1 DEF execute
    <3>2. left[o] + period[o] \in Nat /\ left[o] + period[o] # Off
      BY <1>1, IInvType
    <3>3. QED
      BY <2>1, <3>1, <3>2, IInvType
  <2>2. CASE "REPEAT" \notin flags[o]
    <3>1. left' = [left EXCEPT ![o] = Off] /\ flags' = [flags EXCEPT ![o] = @ \ {"RUNNING"}]
      BY <2>2 DEF execute
    <3>2. QED
      BY <2>2, <3>1, IInvType
  <2>3. QED
    BY <2>1, <2>2
<1>4. OwnRefs' = OwnRefs
  <2>1. \A y \in Objects : Kept(y)' <=> Kept(y)
    BY <1>1, <1>2, <1>3, IInvType DEF Kept
  <2>2. QED
    BY <2>1 DEF OwnRefs
<1>5. HeapInv'
  BY <1>1, <1>4 DEF IInv, HeapInv
<1>6. Live(heap, o)
  <2>1. heap.count[o] = Total(heap, NULL, RefPlaces, OwnRefs, o)
    BY <1>2, IInvType DEF Counted
  <2>2. OwnRefs[o] = 1 /\ Refs(heap.ptr, RefPlaces, o) \in Nat /\ Is(NULL, o) \in Nat
    BY <1>2, OwnRefsType, Places, RefsType DEF Is
  <2>3. QED
    BY <2>1, <2>2 DEF Live, Total
<1>7. TypeOK'
  BY <1>1, <1>3 DEF IInv, TypeOK
<1>8. Listed'
  BY <1>1, <1>2, <1>3, IInvType DEF IInv, Listed
<1>9. OverdroppedAreDone'
  BY <1>1, <1>2, <1>3, IInvType DEF IInv, OverdroppedAreDone
<1>10. ExecutedLives'
  BY <1>1, <1>3, <1>6 DEF IInv, ExecutedLives, Live
<1>11. QED
  BY <1>5, <1>7, <1>8, <1>9, <1>10 DEF IInv

LEMMA ReturnsKeeps ==
  ASSUME IInv, NEW o \in Objects, callbackReturns(o)
  PROVE  IInv'
<1>1. /\ calling = o /\ calling' = Idle /\ Idle \notin Objects
      /\ UNCHANGED <<flags, left, period, posted, stopped>>
  BY IInvType DEF callbackReturns, timer
<1>2. PICK f : f = OwnRefs'
  OBVIOUS
<1>3. /\ f \in [Objects -> Nat] /\ (left[o] = Off => f[o] = 0)
      /\ left[o] # Off => f[o] = 1
      /\ \A y \in Objects : y # o => f[y] = OwnRefs[y]
  <2>1. f = [y \in Objects |-> IF Kept(y)' THEN 1 ELSE 0]
    BY <1>2 DEF OwnRefs
  <2>2. (Kept(o)' <=> left[o] # Off) /\ \A y \in Objects : y # o => (Kept(y)' <=> Kept(y))
    BY <1>1 DEF Kept
  <2>3. QED
    BY <2>1, <2>2 DEF OwnRefs
<1>4. OwnRefs[o] = IF left[o] # Off \/ "REPEAT" \notin flags[o] THEN 1 ELSE 0
  BY <1>1, OwnRefsType DEF Kept
<1>5. "RUNNING" \in flags[o] <=> left[o] # Off
  BY DEF IInv, Listed
<1>6. o \notin overdropped
  BY <1>1 DEF IInv, OverdroppedAreDone
<1>7. /\ heap \in HeapType /\ Counted(heap, NULL, RefPlaces, OwnRefs, overdropped)
      /\ OwnRefs \in [Objects -> Nat]
  BY IInvType, OwnRefsType
<1>8. \A y \in Objects : Is(NULL, y) = 0 /\ Is(o, y) = (IF y = o THEN 1 ELSE 0)
                         /\ Refs(heap.ptr, RefPlaces, y) \in Nat
  BY Places, RefsType DEF Is
<1>9. Counted(heap', NULL, RefPlaces, f, overdropped') /\ overdropped' \subseteq overdropped \cup {o}
  <2>1. CASE "RUNNING" \in flags[o]
    <3>1. heap' = heap /\ overdropped' = overdropped
      BY <2>1 DEF callbackReturns
    <3>2. f = OwnRefs
      BY <1>3, <1>4, <1>5, <1>7, <2>1
    <3>3. QED
      BY <1>7, <3>1, <3>2
  <2>2. CASE "RUNNING" \notin flags[o] /\ "REPEAT" \notin flags[o]
    <3>1. heap' = dec(heap, o) /\ overdropped' = overdropped
      BY <2>2 DEF callbackReturns, deleteUnmanaged
    <3>2. f[o] = 0 /\ OwnRefs[o] = 1
      BY <1>3, <1>4, <1>5, <2>2
    <3>3. \A y \in Objects : Total(heap, o, RefPlaces, f, y) = Total(heap, NULL, RefPlaces, OwnRefs, y)
      BY <1>3, <1>7, <1>8, <3>2 DEF Total
    <3>4. Counted(heap, o, RefPlaces, f, overdropped)
      BY <1>7, <3>3 DEF Counted
    <3>5. QED
      BY <1>3, <3>1, <3>4, AllPlaces, DecCounted
  <2>3. CASE "RUNNING" \notin flags[o] /\ "REPEAT" \in flags[o]
    <3>1. heap' = dec(heap, o) /\ overdropped' = overdropped \cup {o}
      BY <2>3 DEF callbackReturns, deleteUnmanaged
    <3>2. PICK W : W = overdropped \cup {o}
      OBVIOUS
    <3>3. f[o] = 0 /\ OwnRefs[o] = 0
      BY <1>3, <1>4, <1>5, <2>3
    <3>4. /\ \A y \in Objects : y # o => Total(heap, o, RefPlaces, f, y) = Total(heap, NULL, RefPlaces, OwnRefs, y)
          /\ Total(heap, o, RefPlaces, f, o) = Total(heap, NULL, RefPlaces, OwnRefs, o) + 1
          /\ Total(heap, NULL, RefPlaces, OwnRefs, o) \in Nat
      BY <1>3, <1>7, <1>8, <3>3 DEF Total
    <3>5. Counted(heap, o, RefPlaces, f, W)
      <4>1. \A y \in Objects : ~Live(heap, y) => heap.ptr[y] = NULL
        BY <1>7 DEF Counted
      <4>2. \A y \in Objects \ W : heap.count[y] = Total(heap, o, RefPlaces, f, y)
        BY <1>7, <3>2, <3>4 DEF Counted
      <4>3. ASSUME NEW y \in Objects \cap W, Live(heap, y)
            PROVE  heap.count[y] = Total(heap, o, RefPlaces, f, y) - 1
        <5>1. CASE y = o
          <6>1. heap.count[o] = Total(heap, NULL, RefPlaces, OwnRefs, o)
            BY <1>6, <1>7 DEF Counted
          <6>2. QED
            BY <3>4, <5>1, <6>1
        <5>2. CASE y # o
          BY <1>7, <3>2, <3>4, <4>3, <5>2 DEF Counted
        <5>3. QED
          BY <5>1, <5>2
      <4>4. QED
        BY <1>7, <4>1, <4>2, <4>3 DEF Counted
    <3>6. QED
      BY <1>3, <3>1, <3>2, <3>5, AllPlaces, DecCounted
  <2>4. QED
    BY <2>1, <2>2, <2>3
<1>10. HeapInv'
  BY <1>2, <1>9 DEF HeapInv
<1>11. TypeOK'
  BY <1>1, <1>9, IInvType DEF TypeOK, Counted
<1>12. Listed' /\ ExecutedLives'
  BY <1>1 DEF IInv, Listed, ExecutedLives
<1>13. OverdroppedAreDone'
  <2>1. o \in overdropped' => left[o] = Off
    BY <1>5, <1>6 DEF callbackReturns
  <2>2. QED
    BY <1>1, <1>9, <2>1, IInvType DEF IInv, OverdroppedAreDone
<1>14. QED
  BY <1>10, <1>11, <1>12, <1>13 DEF IInv

LEMMA TickKeeps ==
  ASSUME IInv, Tick
  PROVE  IInv'
<1>1. /\ calling = Idle /\ posted' = "none"
      /\ left' = [o \in Objects |-> IF left[o] = Off THEN Off ELSE left[o] - 1]
      /\ UNCHANGED <<heap, flags, period, calling, stopped, overdropped>>
  BY DEF Tick
<1>2. ASSUME NEW o \in Objects
      PROVE  left'[o] \in Nat \cup {Off} /\ (left'[o] = Off <=> left[o] = Off)
  <2>1. left[o] \in Nat /\ left[o] # Off => left[o] > 0
    <3>1. o \notin Due
      BY DEF Tick
    <3>2. QED
      BY <3>1 DEF Due
  <2>2. left[o] \in Nat \cup {Off} /\ Off \notin Int
    BY IInvType
  <2>3. QED
    BY <1>1, <2>1, <2>2
<1>3. OwnRefs' = OwnRefs
  <2>1. \A o \in Objects : Kept(o)' <=> Kept(o)
    BY <1>1, <1>2 DEF Kept
  <2>2. QED
    BY <2>1 DEF OwnRefs
<1>4. HeapInv'
  BY <1>1, <1>3 DEF IInv, HeapInv
<1>5. TypeOK'
  <2>1. left' \in [Objects -> Nat \cup {Off}]
    BY <1>1, <1>2
  <2>2. QED
    BY <1>1, <2>1 DEF IInv, TypeOK
<1>6. Listed' /\ OverdroppedAreDone'
  BY <1>1, <1>2, IInvType DEF IInv, Listed, OverdroppedAreDone
<1>7. ExecutedLives'
  BY <1>1, <1>2 DEF IInv, ExecutedLives, Live
<1>8. QED
  BY <1>4, <1>5, <1>6, <1>7 DEF IInv

(* Post, Receive, Return, and a step that changes nothing *)
LEMMA OthersKeep ==
  ASSUME IInv, Post \/ Receive \/ Return \/ UNCHANGED vars
  PROVE  IInv'
<1>1. /\ UNCHANGED <<heap, flags, left, period, stopped, overdropped>>
      /\ posted' \in {"none", "waiting", "taken"}
      /\ calling' = calling \/ (calling \notin Objects /\ calling' \in {Idle, Posted})
  BY IInvType DEF Post, Receive, Return, vars, timer
<1>2. OwnRefs' = OwnRefs
  <2>1. \A o \in Objects : Kept(o)' <=> Kept(o)
    BY <1>1, IInvType DEF Kept
  <2>2. QED
    BY <2>1 DEF OwnRefs
<1>3. HeapInv'
  BY <1>1, <1>2 DEF IInv, HeapInv
<1>4. TypeOK' /\ Listed'
  BY <1>1 DEF IInv, TypeOK, Listed
<1>5. OverdroppedAreDone' /\ ExecutedLives'
  BY <1>1, IInvType DEF IInv, OverdroppedAreDone, ExecutedLives, Live
<1>6. QED
  BY <1>3, <1>4, <1>5 DEF IInv

LEMMA InitKeeps ==
  ASSUME Init
  PROVE  IInv
<1>1. /\ heap \in HeapType
      /\ \A o \in Objects : heap.count[o] = 0
      /\ \A x \in RefPlaces : heap.ptr[x] = NULL
  BY DEF Init, EmptyHeap, HeapType
<1>2. Idle \notin Objects /\ \A o \in Objects : left[o] = Off /\ ~Kept(o)
  BY TimeoutsAssumption DEF Init, Kept
<1>3. ASSUME NEW o \in Objects PROVE Total(heap, NULL, RefPlaces, OwnRefs, o) = 0
  <2>1. {x \in RefPlaces : heap.ptr[x] = o} = {}
    BY <1>1, Places
  <2>2. Refs(heap.ptr, RefPlaces, o) = 0
    BY <2>1, FS_EmptySet DEF Refs
  <2>3. OwnRefs[o] = 0 /\ Is(NULL, o) = 0
    BY <1>2, OwnRefsType, Places DEF Is
  <2>4. QED
    BY <2>2, <2>3 DEF Total
<1>4. HeapInv
  BY <1>1, <1>3, Places DEF Init, HeapInv, Counted, Live
<1>5. TypeOK
  BY <1>1 DEF Init, TypeOK
<1>6. Listed /\ OverdroppedAreDone /\ ExecutedLives
  BY <1>2 DEF Init, Listed, OverdroppedAreDone, ExecutedLives
<1>7. QED
  BY <1>4, <1>5, <1>6 DEF IInv

LEMMA NextKeeps ==
  ASSUME IInv, [Next]_vars
  PROVE  IInv'
<1>1. ASSUME NEW c \in Visible \cup {NULL}, NEW o \in Objects, NEW sec \in Seconds,
             \/ setTimeout(o, c, sec)
             \/ \E startSec \in Seconds : setInterval(o, c, sec, startSec)
      PROVE  IInv'
  <2>1. sec \in Int /\ Seconds \subseteq Int /\ float2ticks(sec) \in Nat
    BY TimeoutsAssumption DEF float2ticks
  <2>2. CASE setTimeout(o, c, sec)
    BY <2>1, <2>2, SetKeeps DEF setTimeout
  <2>3. ASSUME NEW startSec \in Seconds, setInterval(o, c, sec, startSec) PROVE IInv'
    <3>1. PICK start \in Int : setHighLevelTimeout(o, c, start, {"REPEAT"}, float2ticks(sec))
      BY <2>1, <2>3 DEF setInterval
    <3>2. QED
      BY <2>1, <3>1, SetKeeps
  <2>4. QED
    BY <1>1, <2>2, <2>3
<1>2. ASSUME NEW o \in Objects, execute(o) \/ callbackReturns(o) PROVE IInv'
  BY <1>2, ExecuteKeeps, ReturnsKeeps
<1>3. ASSUME NEW x \in Visible, stopTimeout(x) PROVE IInv'
  BY <1>3, StopKeeps
<1>4. ASSUME NEW h \in Handles, Assign(h) PROVE IInv'
  BY <1>4, AssignKeeps
<1>5. CASE Receive \/ Return \/ Post \/ UNCHANGED vars
  BY <1>5, OthersKeep
<1>6. CASE Tick
  BY <1>6, TickKeeps
<1>7. QED
  BY <1>1, <1>2, <1>3, <1>4, <1>5, <1>6 DEF Next, Worker

-----------------------------------------------------------------------------
(* The theorems *)

LEMMA Invariant == Spec => []IInv
<1>1. Init => IInv
  BY InitKeeps
<1>2. IInv /\ [Next]_vars => IInv'
  BY NextKeeps
<1>3. QED
  BY <1>1, <1>2, PTL DEF Spec

(* The state of the timeouts and of their references has its types. *)
THEOREM TypeCorrect == Spec => []TypeOK
<1>1. IInv => TypeOK
  BY DEF IInv
<1>2. QED
  BY <1>1, Invariant, PTL

(* The count of each object is the number of the references to it, so that no Ref is left to an *)
(* object that went and none stays without a Ref to it; except for intervals that their own     *)
(* callback stopped, of which one less is counted (stopTimeout, highLevelTimeoutCallback, Ref). *)
THEOREM ReferencesRight == Spec => []ReferencesCounted
<1>1. ASSUME IInv PROVE ReferencesCounted
  <2> SUFFICES ASSUME NEW o \in Objects
               PROVE  LET references == Cardinality(Holders(heap, o)) + (IF Kept(o) THEN 1 ELSE 0)
                      IN  IF o \in overdropped
                          THEN Live(heap, o) => heap.count[o] = references - 1
                          ELSE heap.count[o] = references
    BY DEF ReferencesCounted
  <2>1. Counted(heap, NULL, RefPlaces, OwnRefs, overdropped)
    BY IInvType, <1>1
  <2>2. Total(heap, NULL, RefPlaces, OwnRefs, o)
          = Cardinality(Holders(heap, o)) + (IF Kept(o) THEN 1 ELSE 0)
    <3>1. Refs(heap.ptr, RefPlaces, o) = Cardinality(Holders(heap, o))
      BY DEF Refs, Holders
    <3>2. Refs(heap.ptr, RefPlaces, o) \in Nat
      BY Places, RefsType
    <3>3. Is(NULL, o) = 0
      BY Places DEF Is
    <3>4. QED
      BY <3>1, <3>2, <3>3, OwnRefsType DEF Total
  <2>3. QED
    BY <2>1, <2>2 DEF Counted
<1>2. QED
  BY <1>1, Invariant, PTL

(* What stopTimeout stopped does not call its callback, also if it was due. *)
THEOREM StoppedSilent == Spec => StoppedIsSilent
<1>1. IInv /\ [Next]_vars
        => [\A o \in Objects : calling # o /\ calling' = o => o \notin stopped]_vars
  <2> SUFFICES ASSUME IInv, Next, NEW o \in Objects, calling # o, calling' = o
               PROVE  o \notin stopped
    OBVIOUS
  <2>1. execute(o)
    <3>1. ASSUME NEW y \in Objects, execute(y) PROVE execute(o)
      <4>1. y = o
        BY <3>1 DEF execute
      <4>2. QED
        BY <3>1, <4>1
    <3>2. ~callbackReturns(o) /\ \A y \in Objects : ~callbackReturns(y)
      BY IInvType DEF callbackReturns
    <3>3. calling' # calling
      OBVIOUS
    <3>4. ~Post /\ ~Tick /\ (\A h \in Handles : ~Assign(h)) /\ (\A x \in Visible : ~stopTimeout(x))
      BY <3>3 DEF Post, Tick, Assign, stopTimeout
    <3>5. \A y, c, sec, flag, interval : ~setHighLevelTimeout(y, c, sec, flag, interval)
      BY <3>3 DEF setHighLevelTimeout
    <3>6. ~Receive /\ ~Return
      BY IInvType DEF Receive, Return
    <3>7. QED
      BY <3>1, <3>2, <3>4, <3>5, <3>6 DEF Next, Worker, setTimeout, setInterval
  <2>2. left[o] # Off
    BY <2>1 DEF execute, Due
  <2>3. QED
    BY <2>2 DEF IInv, Listed
<1>2. QED
  BY <1>1, Invariant, PTL DEF Spec, StoppedIsSilent
=============================================================================
