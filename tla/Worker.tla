------------------------------- MODULE Worker -------------------------------
(***************************************************************************)
(* The deferred-call queues of app/worker.cpp.                             *)
(*                                                                         *)
(* Two FreeRTOS tasks run mainLoop: the worker of LEVEL_LOW, the more      *)
(* urgent one, and the worker of LEVEL_HIGH.  Each owns a queue.  A call   *)
(* is posted to a level as several queue items: one per argument, then one *)
(* that holds the callback and the number of its arguments.  The worker    *)
(* pushes arguments on argsBuffer, used as a stack, and a callback item    *)
(* pops as many as it declares.  Posters interrupt each other, so the      *)
(* items of different calls mix in one queue; since an interrupted poster  *)
(* resumes only after the interrupting one is done, the calls nest and the *)
(* stack gives each callback its own arguments.  That argument, and what   *)
(* breaks it, is what this module is about.                                *)
(*                                                                         *)
(* One action is what the CPU does without a visible preemption point: one *)
(* kernel queue operation, or the accesses between two of them.            *)
(***************************************************************************)
EXTENDS Integers, Sequences

CONSTANTS
  NIrq,      \* number of interrupt priorities whose handlers post calls
  MaxArgs,   \* WORKER_MAX_ARGS
  QueueLen,  \* WORKER_LOW_QUEUE_LENGTH and WORKER_HIGH_QUEUE_LENGTH
  BufSize,   \* WORKER_ARGS_BUFFER_SIZE
  Dests,     \* the levels the program posts calls to
  MaxCalls   \* bound on the calls posted in a behaviour

(***************************************************************************)
(* A context is named by its priority: WORKER_HIGH_PRIORITY is below       *)
(* WORKER_LOW_PRIORITY, and every interrupt is above both tasks.           *)
(***************************************************************************)
High  == 0
Low   == 1
Tasks == {High, Low}
Irqs  == 2 .. NIrq + 1
Ctx   == Tasks \cup Irqs

ASSUME ConstantsAssumption ==
  /\ NIrq \in Nat
  /\ MaxArgs \in Nat
  /\ QueueLen \in [Tasks -> Nat \ {0}]
  /\ BufSize \in Nat
  /\ Dests \subseteq Tasks
  /\ MaxCalls \in Nat

(***************************************************************************)
(* Every context can leave at most MaxArgs arguments of an unfinished call *)
(* on a stack.  16 cells, as configured, are enough for three interrupt    *)
(* priorities.                                                             *)
(***************************************************************************)
ASSUME BufferAssumption == BufSize >= MaxArgs * (NIrq + 2)

Ids   == 1 .. MaxCalls
Kinds == {"arg", "call", "func"}   \* ITEM_TYPE_ARG, 0..MaxArgs, ITEM_TYPE_STD_FUNCTION

VARIABLES
  queue,       \* queue[t]: the items waiting for worker t
  post,        \* post[c]: the call context c is posting, and how far it is
  active,      \* interrupts whose handler has started and not returned
  pc,          \* pc[t]: where worker t is in mainLoop
  item,        \* mainLoop's static QueueItem: one object, shared by both tasks
  argsBuffer,  \* mainLoop's static argument stack: shared by both tasks
  size,        \* size[t]: argsBufferSize, a local of each task
  call,        \* call[t]: the callback worker t executes, and its arguments' place
  calls,       \* number of calls posted so far
  plan,        \* history: the stacks that worker t's items lead to, see below
  accepted,    \* history: the calls whose callback item queue t took
  refused      \* history: refused[t]: some send found queue t full

vars == <<queue, post, active, pc, item, argsBuffer, size, call, calls,
          plan, accepted, refused>>

(***************************************************************************)
(* An argument is named by its call and its position.  plan[t][1] is the   *)
(* stack that worker t should have now, and plan[t][i + 1] the one it      *)
(* should have after the next i items; the last one is what is left when   *)
(* every item sent so far is consumed: arguments of unfinished posts.      *)
(***************************************************************************)
Cell     == (0 .. MaxCalls) \X (0 .. MaxArgs)
Junk     == <<0, 0>>
Item     == [kind : Kinds, id : 0 .. MaxCalls, n : 0 .. MaxArgs]
NoItem   == [kind |-> "arg", id |-> 0, n |-> 0]
Post     == [to : Tasks, kind : {"call", "func"}, id : 0 .. MaxCalls,
             n : 0 .. MaxArgs, next : 1 .. MaxArgs + 1, base : Nat]
NoPost   == [to |-> High, kind |-> "call", id |-> 0, n |-> 0, next |-> 1, base |-> 0]
Callback == [id : 0 .. MaxCalls, n : 0 .. MaxArgs, base : Int]
NoCall   == [id |-> 0, n |-> 0, base |-> 0]

TypeOK ==
  /\ queue \in [Tasks -> Seq(Item)]
  /\ post \in [Ctx -> Post]
  /\ active \subseteq Irqs
  /\ pc \in [Tasks -> {"loop", "received", "running"}]
  /\ item \in Item
  /\ argsBuffer \in [0 .. BufSize - 1 -> Cell]
  /\ size \in [Tasks -> Int]
  /\ call \in [Tasks -> Callback]
  /\ calls \in 0 .. MaxCalls
  /\ plan \in [Tasks -> Seq(Seq(Cell))]
  /\ accepted \in [Tasks -> SUBSET Ids]
  /\ refused \in [Tasks -> BOOLEAN]

(***************************************************************************)
(* worker::init and the start of mainLoop: empty queues, and each task in  *)
(* its startup callback.                                                   *)
(***************************************************************************)
Init ==
  /\ queue = [t \in Tasks |-> <<>>]
  /\ post = [c \in Ctx |-> NoPost]
  /\ active = {}
  /\ pc = [t \in Tasks |-> "running"]
  /\ item = NoItem
  /\ argsBuffer = [i \in 0 .. BufSize - 1 |-> Junk]
  /\ size = [t \in Tasks |-> 0]
  /\ call = [t \in Tasks |-> NoCall]
  /\ calls = 0
  /\ plan = [t \in Tasks |-> << <<>> >>]
  /\ accepted = [t \in Tasks |-> {}]
  /\ refused = [t \in Tasks |-> FALSE]

(***************************************************************************)
(* A definition whose name has a suffix (Runs_TimeSliced) is the definition *)
(* that follows it with a mistake in it; the properties below fail on it.  *)
(***************************************************************************)

-----------------------------------------------------------------------------
(* Scheduling *)

Posting(c) == post[c].id # 0

(* A worker waits in xQueueReceive while its queue is empty. *)
Ready(t) == pc[t] # "loop" \/ queue[t] # <<>>

Runs_TimeSliced(c) ==
  IF c \in Irqs THEN c \in active /\ \A i \in active : i <= c ELSE active = {}

Runs_Unnested(c) ==
  IF c \in Irqs THEN c \in active ELSE active = {} /\ (c = High => ~Ready(Low))

(***************************************************************************)
(* The kernel runs the most urgent context that can run, and time slicing  *)
(* is off.  A send that readies a more urgent worker switches to it at     *)
(* once; a handler passes the same request on through its yield flag.      *)
(***************************************************************************)
Runs(c) ==
  IF c \in Irqs
  THEN c \in active /\ \A i \in active : i <= c
  ELSE active = {} /\ (c = High => ~Ready(Low))

-----------------------------------------------------------------------------
(* Posting a call *)

(* The stack of worker t when the items sent so far are consumed. *)
LastPlan(t) == plan[t][Len(plan[t])]

(* The stack after an item is consumed. *)
After(stack, it) ==
  CASE it.kind = "arg"  -> Append(stack, <<it.id, it.n>>)
    [] it.kind = "call" -> SubSeq(stack, 1, Len(stack) - it.n)
    [] it.kind = "func" -> stack

BeginPost(c, t, kind, n) ==
  /\ calls < MaxCalls
  /\ t \in Dests
  /\ kind = "func" => t = High /\ n = 0
  /\ calls' = calls + 1
  /\ post' = [post EXCEPT ![c] = [to |-> t, kind |-> kind, id |-> calls + 1,
                                  n |-> n, next |-> 1, base |-> Len(LastPlan(t))]]

(* add, addTo and setAsync: the function a worker executes posts a call. *)
AddTo(c, t, kind, n) ==
  /\ c \in Tasks
  /\ Runs(c)
  /\ pc[c] = "running"
  /\ ~Posting(c)
  /\ BeginPost(c, t, kind, n)
  /\ UNCHANGED <<queue, active, pc, item, argsBuffer, size, call, plan, accepted, refused>>

(***************************************************************************)
(* addToFromISR: a handler starts, preempting whatever is less urgent, or  *)
(* goes on with another call.  A handler that posts nothing changes no     *)
(* state of this module.                                                   *)
(***************************************************************************)
AddToFromISR(i, t, n) ==
  /\ \A j \in active : j <= i
  /\ ~Posting(i)
  /\ active' = active \cup {i}
  /\ BeginPost(i, t, "call", n)
  /\ UNCHANGED <<queue, pc, item, argsBuffer, size, call, plan, accepted, refused>>

(* The handler returns. *)
ReturnFromISR(i) ==
  /\ Runs(i)
  /\ ~Posting(i)
  /\ active' = active \ {i}
  /\ UNCHANGED <<queue, post, pc, item, argsBuffer, size, call, calls,
                 plan, accepted, refused>>

(* The item sendData builds: an argument, or the callback after the last one. *)
IsArg_OneMore(p) == p.next <= p.n + 1

IsArg_OneLess(p) == p.next < p.n

IsArg(p) == p.next <= p.n

Advance(p) == [p EXCEPT !.next = @ + 1]

NextItem(p) ==
  [kind |-> IF IsArg(p) THEN "arg" ELSE p.kind,
   id   |-> p.id,
   n    |-> IF IsArg(p) THEN p.next ELSE p.n]

Enqueue_ToFront(q, it) == <<it>> \o q

Enqueue(q, it) == Append(q, it)

(***************************************************************************)
(* sendData and sendDataFromISR: one xQueueSend that does not wait.  The   *)
(* result is only looked at by PROD_ASSERT, which expands to nothing, so   *)
(* the poster goes on with its next item after a refused one.              *)
(***************************************************************************)
Send(c) ==
  LET p == post[c] IN
  /\ Runs(c)
  /\ Posting(c)
  /\ post' = [post EXCEPT ![c] = IF IsArg(p) THEN Advance(p) ELSE NoPost]
  /\ \/ /\ Len(queue[p.to]) < QueueLen[p.to]
        /\ queue' = [queue EXCEPT ![p.to] = Enqueue(@, NextItem(p))]
        /\ plan' = [plan EXCEPT ![p.to] = Append(@, After(LastPlan(p.to), NextItem(p)))]
        /\ accepted' = IF IsArg(p) THEN accepted
                       ELSE [accepted EXCEPT ![p.to] = @ \cup {p.id}]
        /\ UNCHANGED refused
     \/ /\ Len(queue[p.to]) >= QueueLen[p.to]
        /\ refused' = [refused EXCEPT ![p.to] = TRUE]
        /\ UNCHANGED <<queue, plan, accepted>>
  /\ UNCHANGED <<active, pc, item, argsBuffer, size, call, calls>>

-----------------------------------------------------------------------------
(* mainLoop *)

(* xQueueReceive copies the first item into the static object. *)
Receive(t) ==
  /\ Runs(t)
  /\ pc[t] = "loop"
  /\ queue[t] # <<>>
  /\ item' = Head(queue[t])
  /\ queue' = [queue EXCEPT ![t] = Tail(@)]
  /\ pc' = [pc EXCEPT ![t] = "received"]
  /\ UNCHANGED <<post, active, argsBuffer, size, call, calls, plan, accepted, refused>>

(* ITEM_TYPE_ARG: a write past the buffer does not land in it. *)
PushArg(t) ==
  /\ Runs(t)
  /\ pc[t] = "received"
  /\ item.kind = "arg"
  /\ argsBuffer' = [i \in DOMAIN argsBuffer |->
                      IF i = size[t] THEN <<item.id, item.n>> ELSE argsBuffer[i]]
  /\ size' = [size EXCEPT ![t] = @ + 1]
  /\ plan' = [plan EXCEPT ![t] = Tail(@)]
  /\ pc' = [pc EXCEPT ![t] = "loop"]
  /\ UNCHANGED <<queue, post, active, item, call, calls, accepted, refused>>

Invoke_NoPop(t) ==
  LET n == IF item.kind = "call" THEN item.n ELSE 0 IN
  /\ Runs(t)
  /\ pc[t] = "received"
  /\ item.kind # "arg"
  /\ call' = [call EXCEPT ![t] = [id |-> item.id, n |-> n, base |-> size[t] - n]]
  /\ plan' = [plan EXCEPT ![t] = Tail(@)]
  /\ pc' = [pc EXCEPT ![t] = "running"]
  /\ UNCHANGED <<queue, post, active, item, argsBuffer, size, calls, accepted, refused>>

(* A callback, or a std::function, which takes no arguments off the stack. *)
Invoke(t) ==
  LET n == IF item.kind = "call" THEN item.n ELSE 0 IN
  /\ Runs(t)
  /\ pc[t] = "received"
  /\ item.kind # "arg"
  /\ size' = [size EXCEPT ![t] = @ - n]
  /\ call' = [call EXCEPT ![t] = [id |-> item.id, n |-> n, base |-> size[t] - n]]
  /\ plan' = [plan EXCEPT ![t] = Tail(@)]
  /\ pc' = [pc EXCEPT ![t] = "running"]
  /\ UNCHANGED <<queue, post, active, item, argsBuffer, calls, accepted, refused>>

Return_EndsLoop(t) ==
  /\ Runs(t)
  /\ pc[t] = "running"
  /\ ~Posting(t)
  /\ pc' = [pc EXCEPT ![t] = "ended"]
  /\ call' = [call EXCEPT ![t] = NoCall]
  /\ UNCHANGED <<queue, post, active, item, argsBuffer, size, calls,
                 plan, accepted, refused>>

(* The startup function, the callback, the std::function or the timer callback returns. *)
Return(t) ==
  /\ Runs(t)
  /\ pc[t] = "running"
  /\ ~Posting(t)
  /\ pc' = [pc EXCEPT ![t] = "loop"]
  /\ call' = [call EXCEPT ![t] = NoCall]
  /\ UNCHANGED <<queue, post, active, item, argsBuffer, size, calls,
                 plan, accepted, refused>>

(***************************************************************************)
(* timer::execute: a timer of worker t came due, whether or not its queue  *)
(* holds items, and its callback posts a call.  A timer callback that      *)
(* posts nothing changes no state of this module.                          *)
(***************************************************************************)
ExecuteTimer(t, to, kind, n) ==
  /\ Runs(t)
  /\ pc[t] = "loop"
  /\ BeginPost(t, to, kind, n)
  /\ pc' = [pc EXCEPT ![t] = "running"]
  /\ UNCHANGED <<queue, active, item, argsBuffer, size, call, plan, accepted, refused>>

-----------------------------------------------------------------------------
Arrive ==
  \E t \in Tasks, n \in 0 .. MaxArgs :
    \/ \E i \in Irqs : AddToFromISR(i, t, n)
    \/ \E c \in Tasks, kind \in {"call", "func"} :
         AddTo(c, t, kind, n) \/ ExecuteTimer(c, t, kind, n)

Work ==
  \/ \E c \in Ctx : Send(c)
  \/ \E i \in Irqs : ReturnFromISR(i)
  \/ \E t \in Tasks : Receive(t) \/ PushArg(t) \/ Invoke(t) \/ Return(t)

Next == Arrive \/ Work

(***************************************************************************)
(* The CPU does not stop while some context can run.  No context gets more *)
(* than that: less urgent ones wait as long as more urgent ones have work. *)
(***************************************************************************)
Fairness == WF_vars(Work)

Spec     == Init /\ [][Next]_vars
FairSpec == Spec /\ Fairness

-----------------------------------------------------------------------------
(* Properties *)

(***************************************************************************)
(* The levels whose worker is never preempted by the other one: LEVEL_LOW, *)
(* and LEVEL_HIGH in a program that posts to it alone.                     *)
(***************************************************************************)
Undisturbed(t) == t = Low \/ Low \notin Dests

OwnArgs(t) ==
  \A k \in 1 .. call[t].n :
    /\ call[t].base + k - 1 \in DOMAIN argsBuffer
    /\ argsBuffer[call[t].base + k - 1] = <<call[t].id, k>>

(***************************************************************************)
(* The callback that runs reads its own arguments, all of them and in      *)
(* their order, whatever posts were interleaved with its own (worker.cpp:  *)
(* 149-164), as long as no send to its level was refused.                  *)
(***************************************************************************)
ArgsIntact == \A t \in Tasks : Undisturbed(t) /\ ~refused[t] => OwnArgs(t)

(***************************************************************************)
(* The stack neither overflows when an argument is pushed (the PROD_ASSERT *)
(* of worker.cpp:151, compiled out) nor underflows when a callback pops.   *)
(***************************************************************************)
StackInBounds ==
  \A t \in Tasks :
    Undisturbed(t) /\ ~refused[t] /\ pc[t] = "received" =>
      /\ item.kind = "arg" => size[t] < BufSize
      /\ item.kind = "call" => size[t] >= item.n

(***************************************************************************)
(* When no post is in progress and the queue is drained the stack is       *)
(* empty: arguments do not pile up.                                        *)
(***************************************************************************)
NothingLeftBehind ==
  \A t \in Tasks :
    (/\ Undisturbed(t)
     /\ ~refused[t]
     /\ pc[t] # "received"
     /\ queue[t] = <<>>
     /\ \A c \in Ctx : Posting(c) => post[c].to # t)
    => size[t] = 0

(***************************************************************************)
(* The same for both levels, in a program that posts to both: "Worker      *)
(* queue implementation is not safe for Time Slicing" (worker.cpp:58-60)   *)
(* says that without time slicing it is safe.                              *)
(***************************************************************************)
ArgsIntactOnBothLevels == \A t \in Tasks : ~refused[t] => OwnArgs(t)

(***************************************************************************)
(* PROD_ASSERT is "always enabled" (common.h:26), so a callback never runs *)
(* with other arguments than its own, even if a queue overflows: the       *)
(* program stops first.                                                    *)
(***************************************************************************)
ArgsIntactOrStopped == OwnArgs(Low)

(***************************************************************************)
(* Each level is a Mailbox.  What waits is what the callback items in the  *)
(* queue, and the one just received, announce; the arguments are what the  *)
(* callback finds in argsBuffer.                                           *)
(***************************************************************************)
Stream(t) == (IF pc[t] = "received" THEN <<item>> ELSE <<>>) \o queue[t]

(* The callback items of s, as messages *)
Announced(s) ==
  LET upTo[i \in 0 .. Len(s)] ==
        IF i = 0 THEN <<>>
        ELSE IF s[i].kind = "arg" THEN upTo[i - 1]
        ELSE Append(upTo[i - 1], [id |-> s[i].id, n |-> s[i].n])
  IN  upTo[Len(s)]

Inbox(t) == Announced(Stream(t))

Running(t) ==
  [id   |-> call[t].id,
   args |-> [k \in 1 .. call[t].n |->
               IF call[t].base + k - 1 \in DOMAIN argsBuffer
               THEN argsBuffer[call[t].base + k - 1] ELSE Junk]]

LowMailbox == INSTANCE Mailbox
  WITH posted <- accepted[Low], inbox <- Inbox(Low), running <- Running(Low)

HighMailbox == INSTANCE Mailbox
  WITH posted <- accepted[High], inbox <- Inbox(High), running <- Running(High)

(* The worker of LEVEL_LOW implements its mailbox (no send is refused). *)
LowIsMailbox == LowMailbox!Spec

(* So does the worker of LEVEL_HIGH, if nothing is posted to LEVEL_LOW. *)
HighIsMailbox == HighMailbox!Spec

(* Every call a level took is executed (worker.cpp:139-171 never stops). *)
LowDelivers  == LowMailbox!Delivered
HighDelivers == HighMailbox!Delivered
=============================================================================
