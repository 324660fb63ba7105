------------------------------ MODULE Timeouts ------------------------------
(***************************************************************************)
(* setTimeout, setInterval and stopTimeout of app/timer.cpp, which give    *)
(* each call a timer of its own: an object that Refs point to and that     *)
(* refers to itself, unmanaged, while it may fire.  All of it is code of   *)
(* LEVEL_HIGH: callbacks of timeouts and calls from the queue.  A first    *)
(* start is executed by LEVEL_LOW (its flags are still 0), which preempts  *)
(* LEVEL_HIGH at once, so that the timer runs when setTimeout returns.     *)
(* Timers of the level fire as TimerService says.                          *)
(***************************************************************************)
EXTENDS Ref

CONSTANTS
  Seconds,   \* the times that are asked for, in quarters of a tick
  Idle,      \* LEVEL_HIGH executes no callback and no call
  Posted,    \* it executes a call from its queue
  Off        \* not an integer

ASSUME TimeoutsAssumption ==
  Seconds \subseteq Int /\ {Idle, Posted} \cap Objects = {} /\ Off \notin Int

VARIABLES
  heap,         \* the objects and the Refs to them
  flags,        \* flags[o]: FLAG_RUNNING, FLAG_REPEAT of its timer
  left,         \* left[o]: ticks until it is due, or Off if it is in no list
  period,       \* the interval in its flags
  calling,      \* what LEVEL_HIGH executes: Idle, Posted, or a callback
  posted,       \* the call of this tick in the queue of LEVEL_HIGH: "none", "waiting", "taken"
  stopped,      \* history: the objects that stopTimeout was called for
  overdropped   \* history: the intervals that dropped their own reference twice

timer == <<flags, left, period>>
vars  == <<heap, flags, left, period, calling, posted, stopped, overdropped>>

(* Sign and rounding; a tick at least *)
float2ticks_NoMinimum(sec) == (sec + 2) \div 4

float2ticks(sec) == LET x == (sec + 2) \div 4 IN IF x <= 0 THEN 1 ELSE x

TypeOK ==
  /\ heap \in HeapType
  /\ flags \in [Objects -> SUBSET {"RUNNING", "REPEAT"}]
  /\ left \in [Objects -> Nat \cup {Off}]
  /\ period \in [Objects -> Nat]
  /\ calling \in Objects \cup {Idle, Posted}
  /\ posted \in {"none", "waiting", "taken"}
  /\ stopped \subseteq Objects /\ overdropped \subseteq Objects

Init ==
  /\ heap = EmptyHeap
  /\ flags = [o \in Objects |-> {}] /\ left = [o \in Objects |-> Off]
  /\ period = [o \in Objects |-> 0]
  /\ calling = Idle /\ posted = "none"
  /\ stopped = {} /\ overdropped = {}

Due == {o \in Objects : left[o] # Off /\ left[o] <= 0}

-----------------------------------------------------------------------------
(* What a call or a callback does.  Refs are used while their object is there. *)
Usable(x) == heap.ptr[x] # NULL => Live(heap, heap.ptr[x])

(* The Refs that the code at hand may read: handles, and what its closure has captured *)
Visible == {x \in Handles \cup (Objects \cap {calling}) : Usable(x)}

(* An interval that its own callback stops is not freed before that callback returns. *)
KeepsExecuted == calling \in Objects => Live(heap', calling)

Free == {o \in Objects : ~Live(heap, o) /\ o \notin overdropped}

(* The heap at the return of setHighLevelTimeout: a Ref to the new object o is still to be *)
(* assigned or dropped.  The closure of o has a copy of the Ref at c, if c is not NULL.    *)
Created(o, c) ==
  LET r == createUnmanaged(make(heap, o), o)
  IN  IF c = NULL THEN r ELSE CopyConstruct(r, o, c)

setHighLevelTimeout(o, c, sec, flag, interval) ==
  /\ calling # Idle
  /\ o \in Free
  /\ \/ heap' = dec(Created(o, c), o)
     \/ \E h \in Handles : Usable(h) /\ heap' = AssignNew(Created(o, c), h, o)
  /\ KeepsExecuted
  /\ flags' = [flags EXCEPT ![o] = {"RUNNING"} \cup flag]
  /\ period' = [period EXCEPT ![o] = interval]
  /\ left' = [left EXCEPT ![o] = float2ticks(sec)]
  /\ stopped' = stopped \ {o}
  /\ UNCHANGED <<calling, posted, overdropped>>

setTimeout(o, c, sec) == setHighLevelTimeout(o, c, sec, {}, 0)

setInterval_NotConverted(o, c, intervalSec, startSec) ==
  setHighLevelTimeout(o, c, IF startSec < 0 THEN intervalSec ELSE startSec,
                      {"REPEAT"}, intervalSec)

setInterval(o, c, intervalSec, startSec) ==
  setHighLevelTimeout(o, c, IF startSec < 0 THEN intervalSec ELSE startSec,
                      {"REPEAT"}, float2ticks(intervalSec))

stopTimeout_KeepsListed(x) ==
  /\ calling # Idle
  /\ heap.ptr[x] # NULL
  /\ LET o == heap.ptr[x]
         r == inc(heap, o)
     IN  /\ stopped' = stopped \cup {o}
         /\ IF "RUNNING" \in flags[o]
            THEN /\ flags' = [flags EXCEPT ![o] = @ \ {"RUNNING"}]
                 /\ heap' = dec(deleteUnmanaged(r, o), o)
                 /\ UNCHANGED left
            ELSE heap' = dec(r, o) /\ UNCHANGED <<flags, left>>
  /\ UNCHANGED <<period, calling, posted, overdropped>>

(* stopTimeout; its parameter is a copy. *)
stopTimeout(x) ==
  /\ calling # Idle
  /\ heap.ptr[x] # NULL
  /\ LET o == heap.ptr[x]
         r == inc(heap, o)
     IN  /\ stopped' = stopped \cup {o}
         /\ IF "RUNNING" \in flags[o]
            THEN /\ flags' = [flags EXCEPT ![o] = @ \ {"RUNNING"}]
                 /\ left' = [left EXCEPT ![o] = Off]
                 /\ heap' = dec(deleteUnmanaged(r, o), o)
            ELSE heap' = dec(r, o) /\ UNCHANGED <<flags, left>>
  /\ UNCHANGED <<period, calling, posted, overdropped>>

(* Assignments to handles *)
Assign(h) ==
  /\ calling # Idle /\ Usable(h)
  /\ \/ \E x \in Visible : heap' = CopyAssign(heap, h, x)
     \/ \E x \in Handles : Usable(x) /\ heap' = MoveAssign(heap, h, x)
     \/ heap' = AssignNull(heap, h)
  /\ KeepsExecuted
  /\ UNCHANGED <<timer, calling, posted, stopped, overdropped>>

-----------------------------------------------------------------------------
(* The worker of LEVEL_HIGH *)

(* Its timers are executed first. *)
execute(o) ==
  /\ calling = Idle
  /\ o \in Due /\ \A y \in Due : left[o] <= left[y]
  /\ calling' = o
  /\ IF "REPEAT" \in flags[o]
     THEN left' = [left EXCEPT ![o] = @ + period[o]] /\ UNCHANGED flags
     ELSE left' = [left EXCEPT ![o] = Off] /\ flags' = [flags EXCEPT ![o] = @ \ {"RUNNING"}]
  /\ UNCHANGED <<heap, period, posted, stopped, overdropped>>

callbackReturns_NeverDeletes(o) ==
  /\ calling = o
  /\ calling' = Idle
  /\ UNCHANGED <<heap, timer, posted, stopped, overdropped>>

(* highLevelTimeoutCallback, from the return of func on *)
callbackReturns(o) ==
  /\ calling = o
  /\ calling' = Idle
  /\ IF "RUNNING" \notin flags[o]
     THEN /\ heap' = deleteUnmanaged(heap, o)
          /\ overdropped' = overdropped \cup (IF "REPEAT" \in flags[o] THEN {o} ELSE {})
     ELSE UNCHANGED <<heap, overdropped>>
  /\ UNCHANGED <<timer, posted, stopped>>

(* A call arrives, is executed when no timer is due, and returns.  The bound: one in a tick *)
Post ==
  /\ posted = "none"
  /\ posted' = "waiting"
  /\ UNCHANGED <<heap, timer, calling, stopped, overdropped>>

Receive ==
  /\ calling = Idle /\ Due = {} /\ posted = "waiting"
  /\ calling' = Posted /\ posted' = "taken"
  /\ UNCHANGED <<heap, timer, stopped, overdropped>>

Return ==
  /\ calling = Posted
  /\ calling' = Idle
  /\ UNCHANGED <<heap, timer, posted, stopped, overdropped>>

(* The processor keeps up: what is due or waits is executed within the tick. *)
Tick ==
  /\ calling = Idle /\ Due = {} /\ posted # "waiting"
  /\ posted' = "none"
  /\ left' = [o \in Objects |-> IF left[o] = Off THEN Off ELSE left[o] - 1]
  /\ UNCHANGED <<heap, flags, period, calling, stopped, overdropped>>

Worker ==
  \/ \E o \in Objects : execute(o) \/ callbackReturns(o)
  \/ Receive
  \/ Return
  \/ Tick

Next ==
  \/ Worker
  \/ Post
  \/ \E o \in Objects, c \in Visible \cup {NULL}, sec \in Seconds :
       \/ setTimeout(o, c, sec)
       \/ \E startSec \in Seconds : setInterval(o, c, sec, startSec)
  \/ \E x \in Visible : stopTimeout(x)
  \/ \E h \in Handles : Assign(h)

Spec == Init /\ [][Next]_vars

(* Time goes on, the worker does, and callbacks and calls return. *)
FairSpec == Spec /\ WF_vars(Worker)

-----------------------------------------------------------------------------
(* Properties *)

(* An object refers to itself while its timer runs and while its last callback is executed. *)
Kept(o) == left[o] # Off \/ (calling = o /\ "REPEAT" \notin flags[o])

(* Each object has as many references as are counted, so that it goes when the last one does  *)
(* and no Ref to it is left; except that an interval stopped by its own callback drops the    *)
(* reference to itself in stopTimeout and again when the callback returns (timer.cpp:194,     *)
(* 228): from then on one less is counted, and it goes while a Ref to it is left.             *)
ReferencesCounted ==
  \A o \in Objects :
    LET references == Cardinality(Holders(heap, o)) + (IF Kept(o) THEN 1 ELSE 0)
    IN  IF o \in overdropped
        THEN Live(heap, o) => heap.count[o] = references - 1
        ELSE heap.count[o] = references

(* A timeout that was stopped does not call its callback, also if it was due. *)
StoppedIsSilent ==
  [][\A o \in Objects : calling # o /\ calling' = o => o \notin stopped]_vars

(* Timeouts that start timeouts, however short, and intervals do not keep the worker from *)
(* the calls in its queue.                                                                *)
HighQueueServed == posted = "waiting" ~> (calling = Posted)

(* A timeout that nobody refers to any more is freed: once it has fired, if it was not stopped. *)
UnreferencedIsFreed ==
  \A o \in Objects :
    Live(heap, o) /\ Holders(heap, o) = {} /\ "REPEAT" \notin flags[o] ~> ~Live(heap, o)
=============================================================================
