---------------------------- MODULE WorkerProofs ----------------------------
(***************************************************************************)
(* Proofs about Worker: type correctness; that the callback of an          *)
(* undisturbed level always finds its own arguments; and that such a level *)
(* is a Mailbox as long as none of its items is refused.                   *)
(***************************************************************************)
EXTENDS WorkerInvariant, SequenceTheorems, WellFoundedInduction, TLAPS

USE DEF High, Low, Tasks

(* The room below a context grows by at least one call's arguments per context. *)
LEMMA CapGrows ==
  /\ \A d \in Nat : Cap(d) \in Nat
  /\ \A c, d \in Nat : c < d => Cap(c) + MaxArgs <= Cap(d)
<1>0. MaxArgs \in Nat
  BY ConstantsAssumption
<1>1. \A d \in Nat : Cap(d) \in Nat
  BY <1>0 DEF Cap
<1>2. ASSUME NEW c \in Nat, NEW d \in Nat, c < d
      PROVE  Cap(c) + MaxArgs <= Cap(d)
  <2>1. PICK e \in Nat : d = c + 1 + e
    <3>1. d - c - 1 \in Nat /\ d = c + 1 + (d - c - 1)
      BY <1>2
    <3>2. QED
      BY <3>1
  <2>2. MaxArgs * (c + 1 + e) = MaxArgs * c + MaxArgs + MaxArgs * e
    BY <1>0
  <2>3. MaxArgs * e \in Nat /\ MaxArgs * c \in Nat
    BY <1>0
  <2>4. QED
    BY <2>1, <2>2, <2>3, <1>0 DEF Cap
<1>3. QED
  BY <1>1, <1>2

(* Contexts are the numbers below Top. *)
LEMMA ContextsBelowTop == Top \in Nat /\ Ctx = 0 .. Top - 1 /\ Irqs \cap Tasks = {}
  BY ConstantsAssumption DEF Top, Ctx, Irqs

-----------------------------------------------------------------------------
LEMMA InitIInv == Init => IInv
<1> SUFFICES ASSUME Init PROVE IInv
  OBVIOUS
<1> USE ConstantsAssumption
<1>1. TypeOK
  <2>1. queue \in [Tasks -> Seq(Item)] /\ pc \in [Tasks -> {"loop", "received", "running"}]
    BY DEF Init
  <2>2. post \in [Ctx -> Post]
    BY DEF Init, NoPost, Post
  <2>3. active \subseteq Irqs /\ item \in Item /\ calls \in 0 .. MaxCalls
    BY DEF Init, NoItem, Item, Kinds
  <2>4. argsBuffer \in [0 .. BufSize - 1 -> Cell]
    BY DEF Init, Junk, Cell
  <2>5. size \in [Tasks -> Int] /\ call \in [Tasks -> Callback]
    BY DEF Init, NoCall, Callback
  <2>6. plan \in [Tasks -> Seq(Seq(Cell))]
    <3>1. <<>> \in Seq(Cell)
      OBVIOUS
    <3>2. << <<>> >> \in Seq(Seq(Cell))
      BY <3>1
    <3>3. QED
      BY <3>2 DEF Init
  <2>7. accepted \in [Tasks -> SUBSET Ids] /\ refused \in [Tasks -> BOOLEAN]
    BY DEF Init
  <2>8. QED
    BY <2>1, <2>2, <2>3, <2>4, <2>5, <2>6, <2>7 DEF TypeOK
<1>2. \A c \in Ctx : ~Posting(c)
  BY DEF Init, Posting, NoPost
<1>3. \A t \in Tasks : Stream(t) = <<>> /\ Len(plan[t]) = 1 /\ plan[t][1] = <<>>
  BY DEF Init, Stream
<1>4. Control
  BY <1>2, <1>3 DEF Init, Control, PostersExecute, CallWhileRunning, PlanMatchesStream, UnusedIsIdle
<1>5. ASSUME NEW t \in Tasks PROVE StackInv(t)
  <2>1. Posters(t) = {}
    BY <1>2 DEF Posters
  <2>2. Heights(t)
    <3>1. Len(LastPlan(t)) = 0
      BY <1>3 DEF LastPlan
    <3>2. \A d \in 0 .. Top : 0 <= Cap(d)
      BY CapGrows, ContextsBelowTop
    <3>3. QED
      BY <2>1, <3>1, <3>2 DEF Heights, HeightIs
  <2>3. OpenPosts(t)
    BY <2>1 DEF OpenPosts
  <2>4. Steps(t) /\ PlansFit(t)
    <3>1. Len(Stream(t)) = 0 /\ Cap(Top) \in Nat
      <4>1. Stream(t) = <<>> /\ Cap(Top) \in Nat
        BY <1>3, CapGrows, ContextsBelowTop
      <4>2. QED
        BY <4>1
    <3>2. Steps(t)
      BY <3>1 DEF Steps
    <3>3. ASSUME NEW i \in 1 .. Len(plan[t]) PROVE Len(plan[t][i]) = 0
      <4>1. Len(plan[t]) = 1 /\ plan[t][1] = <<>>
        BY <1>3
      <4>2. i = 1
        BY <4>1
      <4>3. QED
        BY <4>1, <4>2
    <3>4. PlansFit(t)
      BY <3>1, <3>3 DEF PlansFit
    <3>5. QED
      BY <3>2, <3>4
  <2>5. StackIsPlanned(t) /\ OwnArgs(t)
    BY <1>3 DEF Init, StackIsPlanned, OwnArgs, NoCall
  <2>6. QED
    BY <2>2, <2>3, <2>4, <2>5 DEF StackInv
<1>6. QED
  BY <1>1, <1>4, <1>5 DEF IInv

-----------------------------------------------------------------------------
(* Facts about the items and the planned stacks. *)

LEMMA AfterType ==
  ASSUME NEW s \in Seq(Cell), NEW it \in Item
  PROVE  /\ After(s, it) \in Seq(Cell)
         /\ it.kind = "arg"  => After(s, it) = Append(s, <<it.id, it.n>>)
         /\ it.kind = "call" => After(s, it) = SubSeq(s, 1, Len(s) - it.n)
         /\ it.kind = "func" => After(s, it) = s
<1>1. CASE it.kind = "arg"
  <2>1. <<it.id, it.n>> \in Cell
    BY DEF Item, Cell
  <2>2. After(s, it) = Append(s, <<it.id, it.n>>)
    BY <1>1 DEF After
  <2>3. QED
    BY <1>1, <2>1, <2>2
<1>2. CASE it.kind = "call"
  <2>1. After(s, it) = SubSeq(s, 1, Len(s) - it.n)
    BY <1>2 DEF After
  <2>2. Len(s) - it.n \in Int /\ Len(s) - it.n <= Len(s)
    BY ConstantsAssumption DEF Item
  <2>3. SubSeq(s, 1, Len(s) - it.n) \in Seq(Cell)
    BY <2>2
  <2>4. QED
    BY <1>2, <2>1, <2>3
<1>3. CASE it.kind = "func"
  BY <1>3 DEF After
<1>4. QED
  BY <1>1, <1>2, <1>3 DEF Item, Kinds

LEMMA NextItemType ==
  ASSUME NEW p \in Post, p.next - 1 <= p.n
  PROVE  /\ NextItem(p) \in Item
         /\ NextItem(p).id = p.id
         /\ IsArg(p) => NextItem(p).kind = "arg" /\ NextItem(p).n = p.next
         /\ ~IsArg(p) => NextItem(p).kind = p.kind /\ NextItem(p).n = p.n
<1> USE ConstantsAssumption
<1>1. p.next \in Nat /\ p.n \in 0 .. MaxArgs /\ p.id \in 0 .. MaxCalls /\ p.kind \in Kinds
  BY DEF Post, Kinds
<1>2. IsArg(p) => p.next \in 0 .. MaxArgs
  BY <1>1 DEF IsArg
<1>3. QED
  BY <1>1, <1>2 DEF NextItem, Item, Kinds

-----------------------------------------------------------------------------
(* Type correctness *)

LEMMA PlanNonEmpty ==
  ASSUME TypeOK, PlanMatchesStream, NEW t \in Tasks
  PROVE  /\ Stream(t) \in Seq(Item)
         /\ plan[t] \in Seq(Seq(Cell))
         /\ Len(plan[t]) \in Nat /\ Len(plan[t]) >= 1
         /\ LastPlan(t) \in Seq(Cell)
         /\ Len(LastPlan(t)) \in Nat
<1>1. queue[t] \in Seq(Item) /\ <<item>> \in Seq(Item) /\ <<>> \in Seq(Item)
  BY DEF TypeOK
<1>2. Stream(t) \in Seq(Item)
  BY <1>1 DEF Stream
<1>3. plan[t] \in Seq(Seq(Cell))
  BY DEF TypeOK
<1>4. Len(plan[t]) = Len(Stream(t)) + 1
  BY DEF PlanMatchesStream
<1>5. Len(Stream(t)) \in Nat
  BY <1>2
<1>6. Len(plan[t]) \in Nat /\ Len(plan[t]) >= 1
  BY <1>4, <1>5
<1>7. LastPlan(t) \in Seq(Cell)
  BY <1>3, <1>6 DEF LastPlan
<1>8. QED
  BY <1>2, <1>3, <1>6, <1>7

LEMMA BeginPostType ==
  ASSUME TypeOK, PlanMatchesStream,
         NEW c \in Ctx, NEW t \in Tasks, NEW kind \in {"call", "func"}, NEW n \in 0 .. MaxArgs,
         BeginPost(c, t, kind, n)
  PROVE  post' \in [Ctx -> Post] /\ calls' \in 0 .. MaxCalls
<1> USE ConstantsAssumption
<1>1. calls + 1 \in 0 .. MaxCalls /\ calls' = calls + 1
  BY DEF BeginPost, TypeOK
<1>2. Len(LastPlan(t)) \in Nat
  BY PlanNonEmpty
<1>3. [to |-> t, kind |-> kind, id |-> calls + 1, n |-> n, next |-> 1,
       base |-> Len(LastPlan(t))] \in Post
  BY <1>1, <1>2 DEF Post
<1>4. QED
  BY <1>1, <1>3 DEF BeginPost, TypeOK

LEMMA SendType ==
  ASSUME TypeOK, PlanMatchesStream, PostersExecute, NEW c \in Ctx, Send(c)
  PROVE  TypeOK'
<1> DEFINE p == post[c]
<1>1. p \in Post /\ p.to \in Tasks /\ p.id \in 0 .. MaxCalls /\ p.next - 1 <= p.n
  BY DEF TypeOK, Post, Send, PostersExecute, Sent
<1>2. post' \in [Ctx -> Post]
  <2>1. NoPost \in Post
    BY ConstantsAssumption DEF NoPost, Post
  <2>2. IsArg(p) => [p EXCEPT !.next = @ + 1] \in Post
    BY <1>1, ConstantsAssumption DEF IsArg, Post
  <2>3. QED
    BY <2>1, <2>2 DEF Send, TypeOK, Advance
<1>3. NextItem(p) \in Item
  BY <1>1, NextItemType
<1>4. queue' \in [Tasks -> Seq(Item)]
  <2>1. Enqueue(queue[p.to], NextItem(p)) \in Seq(Item)
    BY <1>1, <1>3 DEF Enqueue, TypeOK
  <2>2. QED
    BY <1>1, <2>1 DEF Send, TypeOK
<1>5. plan' \in [Tasks -> Seq(Seq(Cell))]
  <2>1. LastPlan(p.to) \in Seq(Cell) /\ plan[p.to] \in Seq(Seq(Cell))
    BY <1>1, PlanNonEmpty
  <2>2. Append(plan[p.to], After(LastPlan(p.to), NextItem(p))) \in Seq(Seq(Cell))
    BY <2>1, <1>3, AfterType
  <2>3. QED
    BY <1>1, <2>2 DEF Send, TypeOK
<1>6. accepted' \in [Tasks -> SUBSET Ids] /\ refused' \in [Tasks -> BOOLEAN]
  <2>1. p.id \in Ids
    BY <1>1 DEF Send, Posting, Ids
  <2>2. accepted[p.to] \cup {p.id} \in SUBSET Ids
    BY <1>1, <2>1 DEF TypeOK
  <2>3. \/ UNCHANGED accepted
        \/ accepted' = [accepted EXCEPT ![p.to] = @ \cup {p.id}]
    BY DEF Send
  <2>4. accepted' \in [Tasks -> SUBSET Ids]
    BY <1>1, <2>2, <2>3 DEF TypeOK
  <2>5. refused' = refused \/ refused' = [refused EXCEPT ![p.to] = TRUE]
    BY DEF Send
  <2>6. QED
    BY <2>4, <2>5 DEF TypeOK
<1>7. QED
  BY <1>2, <1>4, <1>5, <1>6 DEF Send, TypeOK

LEMMA TypeStep ==
  ASSUME TypeOK, Control, [Next]_vars
  PROVE  TypeOK'
<1> USE ConstantsAssumption
<1>0. PlanMatchesStream /\ PostersExecute /\ Tasks \subseteq Ctx /\ Irqs \subseteq Ctx
  BY DEF Control, Ctx
<1>1. ASSUME NEW i \in Irqs, NEW t \in Tasks, NEW n \in 0 .. MaxArgs, AddToFromISR(i, t, n)
      PROVE  TypeOK'
  <2>1. post' \in [Ctx -> Post] /\ calls' \in 0 .. MaxCalls
    BY <1>0, <1>1, BeginPostType DEF AddToFromISR
  <2>2. QED
    BY <1>1, <2>1 DEF AddToFromISR, TypeOK
<1>2. ASSUME NEW c \in Tasks, NEW t \in Tasks, NEW kind \in {"call", "func"},
             NEW n \in 0 .. MaxArgs, AddTo(c, t, kind, n)
      PROVE  TypeOK'
  <2>1. post' \in [Ctx -> Post] /\ calls' \in 0 .. MaxCalls
    BY <1>0, <1>2, BeginPostType DEF AddTo
  <2>2. QED
    BY <1>2, <2>1 DEF AddTo, TypeOK
<1>3. ASSUME NEW c \in Tasks, NEW t \in Tasks, NEW kind \in {"call", "func"},
             NEW n \in 0 .. MaxArgs, ExecuteTimer(c, t, kind, n)
      PROVE  TypeOK'
  <2>1. post' \in [Ctx -> Post] /\ calls' \in 0 .. MaxCalls
    BY <1>0, <1>3, BeginPostType DEF ExecuteTimer
  <2>2. QED
    BY <1>3, <2>1 DEF ExecuteTimer, TypeOK
<1>4. ASSUME NEW c \in Ctx, Send(c)
      PROVE  TypeOK'
  BY <1>0, <1>4, SendType
<1>5. ASSUME NEW i \in Irqs, ReturnFromISR(i)
      PROVE  TypeOK'
  BY <1>5 DEF ReturnFromISR, TypeOK
<1>6. ASSUME NEW t \in Tasks, Receive(t)
      PROVE  TypeOK'
  <2>1. Head(queue[t]) \in Item /\ Tail(queue[t]) \in Seq(Item)
    BY <1>6 DEF Receive, TypeOK
  <2>2. QED
    BY <1>6, <2>1 DEF Receive, TypeOK
<1>7. ASSUME NEW t \in Tasks, PushArg(t)
      PROVE  TypeOK'
  <2>1. Tail(plan[t]) \in Seq(Seq(Cell))
    <3>1. plan[t] \in Seq(Seq(Cell)) /\ plan[t] # <<>>
      BY <1>0, PlanNonEmpty
    <3>2. QED
      BY <3>1
  <2>2. <<item.id, item.n>> \in Cell
    BY DEF TypeOK, Item, Cell
  <2>3. argsBuffer' \in [0 .. BufSize - 1 -> Cell]
    BY <1>7, <2>2 DEF PushArg, TypeOK
  <2>4. plan' \in [Tasks -> Seq(Seq(Cell))]
    BY <1>7, <2>1 DEF PushArg, TypeOK
  <2>5. size' \in [Tasks -> Int] /\ pc' \in [Tasks -> {"loop", "received", "running"}]
    BY <1>7 DEF PushArg, TypeOK
  <2>6. QED
    BY <1>7, <2>3, <2>4, <2>5 DEF PushArg, TypeOK
<1>8. ASSUME NEW t \in Tasks, Invoke(t)
      PROVE  TypeOK'
  <2> DEFINE n == IF item.kind = "call" THEN item.n ELSE 0
  <2>1. Tail(plan[t]) \in Seq(Seq(Cell))
    <3>1. plan[t] \in Seq(Seq(Cell)) /\ plan[t] # <<>>
      BY <1>0, PlanNonEmpty
    <3>2. QED
      BY <3>1
  <2>2. n \in 0 .. MaxArgs /\ item.id \in 0 .. MaxCalls /\ size[t] - n \in Int
    BY DEF TypeOK, Item
  <2>3. [id |-> item.id, n |-> n, base |-> size[t] - n] \in Callback
    BY <2>2 DEF Callback
  <2>4. plan' \in [Tasks -> Seq(Seq(Cell))]
    BY <1>8, <2>1 DEF Invoke, TypeOK
  <2>5. size' \in [Tasks -> Int] /\ pc' \in [Tasks -> {"loop", "received", "running"}]
    BY <1>8, <2>2 DEF Invoke, TypeOK
  <2>6. call' \in [Tasks -> Callback]
    BY <1>8, <2>3 DEF Invoke, TypeOK
  <2>7. QED
    BY <1>8, <2>4, <2>5, <2>6 DEF Invoke, TypeOK
<1>9. ASSUME NEW t \in Tasks, Return(t)
      PROVE  TypeOK'
  <2>1. NoCall \in Callback
    BY DEF NoCall, Callback
  <2>2. QED
    BY <1>9, <2>1 DEF Return, TypeOK
<1>10. CASE UNCHANGED vars
  BY <1>10 DEF vars, TypeOK
<1>11. QED
  BY <1>1, <1>2, <1>3, <1>4, <1>5, <1>6, <1>7, <1>8, <1>9, <1>10 DEF Next, Arrive, Work

-----------------------------------------------------------------------------
(* Control *)

(* What each step does to the items a worker has still to consume. *)
LEMMA StreamOfSend ==
  ASSUME TypeOK, NEW t \in Tasks, NEW it \in Item, UNCHANGED <<pc, item>>,
         queue' = [queue EXCEPT ![t] = Enqueue(@, it)]
  PROVE  /\ Stream(t)' = Append(Stream(t), it)
         /\ \A o \in Tasks \ {t} : Stream(o)' = Stream(o)
<1>1. queue[t] \in Seq(Item) /\ <<item>> \in Seq(Item)
  BY DEF TypeOK
<1>2. queue[t]' = Append(queue[t], it)
  BY DEF Enqueue, TypeOK
<1>3. <<item>> \o Append(queue[t], it) = Append(<<item>> \o queue[t], it)
  BY <1>1
<1>4. <<>> \o Append(queue[t], it) = Append(<<>> \o queue[t], it)
  BY <1>1
<1>5. Stream(t)' = Append(Stream(t), it)
  BY <1>2, <1>3, <1>4 DEF Stream
<1>6. \A o \in Tasks \ {t} : Stream(o)' = Stream(o)
  BY DEF Stream, TypeOK
<1>7. QED
  BY <1>5, <1>6

LEMMA StreamOfReceive ==
  ASSUME TypeOK, NEW t \in Tasks, Receive(t)
  PROVE  Stream(t)' = Stream(t)
<1>1. queue[t] \in Seq(Item) /\ queue[t] # <<>>
  BY DEF TypeOK, Receive
<1>2. Stream(t) = queue[t]
  BY <1>1 DEF Stream, Receive
<1>3. Stream(t)' = <<Head(queue[t])>> \o Tail(queue[t])
  BY DEF Stream, Receive, TypeOK
<1>4. QED
  BY <1>1, <1>2, <1>3

LEMMA StreamOfConsume ==
  ASSUME TypeOK, NEW t \in Tasks, pc[t] = "received", UNCHANGED queue, pc'[t] # "received"
  PROVE  /\ Stream(t)' = Tail(Stream(t))
         /\ Len(Stream(t)) \in Nat /\ Len(Stream(t)) >= 1
         /\ Len(Stream(t)') = Len(Stream(t)) - 1
         /\ Stream(t)[1] = item
         /\ \A i \in 1 .. Len(Stream(t)') : Stream(t)'[i] = Stream(t)[i + 1]
<1>1. queue[t] \in Seq(Item) /\ item \in Item
  BY DEF TypeOK
<1>2. Stream(t) = <<item>> \o queue[t]
  BY DEF Stream
<1>3. Stream(t)' = queue[t]
  BY <1>1 DEF Stream
<1>4. QED
  BY <1>1, <1>2, <1>3

LEMMA PostersExecuteStep ==
  ASSUME TypeOK, Control, [Next]_vars
  PROVE  PostersExecute'
<1> USE ConstantsAssumption
<1>0. /\ PostersExecute
      /\ Tasks \subseteq Ctx /\ Irqs \subseteq Ctx /\ Ctx = Tasks \cup Irqs /\ Irqs \cap Tasks = {}
      /\ \A c \in Ctx : post[c].next \in Nat /\ post[c].n \in Nat
  BY ContextsBelowTop, SMTT(30) DEF Control, Ctx, TypeOK, Post
<1>1. ASSUME NEW c \in Ctx, NEW t \in Tasks, NEW kind \in {"call", "func"}, NEW n \in 0 .. MaxArgs,
             BeginPost(c, t, kind, n),
             c \in Irqs => c \in active', c \in Tasks => pc'[c] = "running",
             active \subseteq active', \A o \in Tasks \ {c} : pc'[o] = pc[o]
      PROVE  PostersExecute'
  <2> SUFFICES ASSUME NEW d \in Ctx, Posting(d)'
               PROVE  /\ d \in Irqs => d \in active'
                      /\ d \in Tasks => pc'[d] = "running"
                      /\ post'[d].to \in Dests
                      /\ Sent(post'[d]) <= post'[d].n
                      /\ post'[d].kind = "func" => post'[d].n = 0
    BY DEF PostersExecute
  <2>1. CASE d = c
    <3>1. post'[c] = [to |-> t, kind |-> kind, id |-> calls + 1, n |-> n, next |-> 1,
                      base |-> Len(LastPlan(t))]
      BY <1>1 DEF BeginPost, TypeOK
    <3>2. QED
      BY <1>1, <2>1, <3>1 DEF BeginPost, Sent
  <2>2. CASE d # c
    <3>1. post'[d] = post[d]
      BY <1>1, <2>2 DEF BeginPost, TypeOK
    <3>2. QED
      BY <1>0, <1>1, <2>2, <3>1 DEF PostersExecute, Posting, Sent
  <2>3. QED
    BY <2>1, <2>2
<1>2. ASSUME NEW i \in Irqs, NEW t \in Tasks, NEW n \in 0 .. MaxArgs, AddToFromISR(i, t, n)
      PROVE  PostersExecute'
  <2>1. i \in Ctx /\ i \notin Tasks /\ i \in active' /\ active \subseteq active' /\ pc' = pc
    BY <1>0, <1>2 DEF AddToFromISR
  <2>2. BeginPost(i, t, "call", n)
    BY <1>2 DEF AddToFromISR
  <2>3. QED
    BY <1>1, <2>1, <2>2
<1>3. ASSUME NEW c \in Tasks, NEW t \in Tasks, NEW kind \in {"call", "func"},
             NEW n \in 0 .. MaxArgs, AddTo(c, t, kind, n)
      PROVE  PostersExecute'
  <2>1. c \in Ctx /\ c \notin Irqs /\ active' = active /\ pc' = pc /\ pc[c] = "running"
    BY <1>0, <1>3 DEF AddTo
  <2>2. BeginPost(c, t, kind, n)
    BY <1>3 DEF AddTo
  <2>3. QED
    BY <1>1, <2>1, <2>2
<1>4. ASSUME NEW c \in Tasks, NEW t \in Tasks, NEW kind \in {"call", "func"},
             NEW n \in 0 .. MaxArgs, ExecuteTimer(c, t, kind, n)
      PROVE  PostersExecute'
  <2>1. /\ c \in Ctx /\ c \notin Irqs /\ active' = active
        /\ pc'[c] = "running" /\ \A o \in Tasks \ {c} : pc'[o] = pc[o]
    BY <1>0, <1>4 DEF ExecuteTimer, TypeOK
  <2>2. BeginPost(c, t, kind, n)
    BY <1>4 DEF ExecuteTimer
  <2>3. QED
    BY <1>1, <2>1, <2>2
<1>5. ASSUME NEW c \in Ctx, Send(c)
      PROVE  PostersExecute'
  <2> SUFFICES ASSUME NEW d \in Ctx, Posting(d)'
               PROVE  /\ d \in Irqs => d \in active'
                      /\ d \in Tasks => pc'[d] = "running"
                      /\ post'[d].to \in Dests
                      /\ Sent(post'[d]) <= post'[d].n
                      /\ post'[d].kind = "func" => post'[d].n = 0
    BY DEF PostersExecute
  <2>1. pc' = pc /\ active' = active /\ Posting(c)
    BY <1>5 DEF Send
  <2>2. CASE d = c /\ IsArg(post[c])
    <3>1. post'[c] = [post[c] EXCEPT !.next = @ + 1]
      BY <1>5, <2>2 DEF Send, TypeOK, Advance
    <3>2. /\ post'[c].to = post[c].to /\ post'[c].n = post[c].n /\ post'[c].kind = post[c].kind
          /\ post'[c].next = post[c].next + 1
      BY <3>1, <1>0 DEF TypeOK, Post
    <3>3. QED
      BY <1>0, <2>1, <2>2, <3>2 DEF PostersExecute, Sent, IsArg
  <2>3. CASE d = c /\ ~IsArg(post[c])
    <3>1. post'[c] = NoPost
      BY <1>5, <2>3 DEF Send, TypeOK
    <3>2. QED
      BY <2>3, <3>1 DEF Posting, NoPost
  <2>4. CASE d # c
    <3>1. post'[d] = post[d]
      BY <1>5, <2>4 DEF Send, TypeOK
    <3>2. QED
      BY <1>0, <2>1, <3>1 DEF PostersExecute, Posting, Sent
  <2>5. QED
    BY <2>2, <2>3, <2>4
<1>6. ASSUME NEW i \in Irqs, ReturnFromISR(i)
      PROVE  PostersExecute'
  BY <1>0, <1>6 DEF ReturnFromISR, PostersExecute, Posting, Sent
<1>7. ASSUME NEW t \in Tasks, UNCHANGED <<post, active>>, ~Posting(t),
             pc' = [pc EXCEPT ![t] = pc'[t]]
      PROVE  PostersExecute'
  BY <1>0, <1>7 DEF PostersExecute, Posting, Sent, TypeOK
<1>8. ASSUME NEW t \in Tasks, Receive(t) \/ PushArg(t) \/ Invoke(t) \/ Return(t)
      PROVE  PostersExecute'
  <2>1. UNCHANGED <<post, active>> /\ pc' = [pc EXCEPT ![t] = pc'[t]]
    BY <1>8 DEF Receive, PushArg, Invoke, Return, TypeOK
  <2>2. ~Posting(t)
    BY <1>0, <1>8 DEF Receive, PushArg, Invoke, Return, PostersExecute
  <2>3. QED
    BY <1>7, <2>1, <2>2
<1>9. CASE UNCHANGED vars
  BY <1>0, <1>9 DEF vars, PostersExecute, Posting, Sent
<1>10. QED
  BY <1>2, <1>3, <1>4, <1>5, <1>6, <1>8, <1>9 DEF Next, Arrive, Work

LEMMA CallWhileRunningStep ==
  ASSUME TypeOK, Control, [Next]_vars
  PROVE  CallWhileRunning'
<1>0. CallWhileRunning
  BY DEF Control
<1>1. ASSUME NEW i \in Irqs, NEW t \in Tasks, NEW n \in 0 .. MaxArgs, AddToFromISR(i, t, n)
      PROVE  CallWhileRunning'
  BY <1>0, <1>1 DEF AddToFromISR, CallWhileRunning
<1>2. ASSUME NEW c \in Tasks, NEW t \in Tasks, NEW kind \in {"call", "func"},
             NEW n \in 0 .. MaxArgs, AddTo(c, t, kind, n) \/ ExecuteTimer(c, t, kind, n)
      PROVE  CallWhileRunning'
  BY <1>0, <1>2 DEF AddTo, ExecuteTimer, CallWhileRunning, TypeOK
<1>3. ASSUME NEW c \in Ctx, Send(c)
      PROVE  CallWhileRunning'
  BY <1>0, <1>3 DEF Send, CallWhileRunning
<1>4. ASSUME NEW i \in Irqs, ReturnFromISR(i)
      PROVE  CallWhileRunning'
  BY <1>0, <1>4 DEF ReturnFromISR, CallWhileRunning
<1>5. ASSUME NEW t \in Tasks, Receive(t) \/ PushArg(t)
      PROVE  CallWhileRunning'
  BY <1>0, <1>5 DEF Receive, PushArg, CallWhileRunning, TypeOK
<1>6. ASSUME NEW t \in Tasks, Invoke(t)
      PROVE  CallWhileRunning'
  BY <1>0, <1>6 DEF Invoke, CallWhileRunning, TypeOK
<1>7. ASSUME NEW t \in Tasks, Return(t)
      PROVE  CallWhileRunning'
  BY <1>0, <1>7 DEF Return, CallWhileRunning, TypeOK
<1>8. CASE UNCHANGED vars
  BY <1>0, <1>8 DEF vars, CallWhileRunning
<1>9. QED
  BY <1>1, <1>2, <1>3, <1>4, <1>5, <1>6, <1>7, <1>8 DEF Next, Arrive, Work

(* A send that is taken, to the level named in the post, and what it does there. *)
LEMMA SendTaken ==
  ASSUME TypeOK, PlanMatchesStream, PostersExecute, NEW c \in Ctx, Send(c),
         NEW p, p = post[c],
         queue' = [queue EXCEPT ![p.to] = Enqueue(@, NextItem(p))],
         plan' = [plan EXCEPT ![p.to] = Append(@, After(LastPlan(p.to), NextItem(p)))]
  PROVE  /\ p \in Post /\ p.to \in Tasks /\ p.to \in Dests /\ NextItem(p) \in Item
         /\ Stream(p.to)' = Append(Stream(p.to), NextItem(p))
         /\ \A o \in Tasks \ {p.to} : Stream(o)' = Stream(o) /\ plan'[o] = plan[o]
<1>1. /\ p \in Post /\ p.to \in Tasks /\ p.to \in Dests /\ p.next - 1 <= p.n
  BY DEF TypeOK, Post, Send, PostersExecute, Sent
<1>2. NextItem(p) \in Item
  BY <1>1, NextItemType
<1>3. UNCHANGED <<pc, item>>
  BY DEF Send
<1>4. /\ Stream(p.to)' = Append(Stream(p.to), NextItem(p))
      /\ \A o \in Tasks \ {p.to} : Stream(o)' = Stream(o)
  BY <1>1, <1>2, <1>3, StreamOfSend
<1>5. QED
  BY <1>1, <1>2, <1>3, <1>4 DEF TypeOK

LEMMA PlanMatchesStreamStep ==
  ASSUME TypeOK, Control, [Next]_vars
  PROVE  PlanMatchesStream'
<1>0. PlanMatchesStream /\ PostersExecute
  BY DEF Control
<1>1. ASSUME NEW i \in Irqs, NEW t \in Tasks, NEW n \in 0 .. MaxArgs, AddToFromISR(i, t, n)
      PROVE  PlanMatchesStream'
  BY <1>0, <1>1 DEF AddToFromISR, PlanMatchesStream, Stream
<1>2. ASSUME NEW c \in Tasks, NEW t \in Tasks, NEW kind \in {"call", "func"},
             NEW n \in 0 .. MaxArgs, AddTo(c, t, kind, n)
      PROVE  PlanMatchesStream'
  BY <1>0, <1>2 DEF AddTo, PlanMatchesStream, Stream
<1>3. ASSUME NEW c \in Tasks, NEW t \in Tasks, NEW kind \in {"call", "func"},
             NEW n \in 0 .. MaxArgs, ExecuteTimer(c, t, kind, n)
      PROVE  PlanMatchesStream'
  <2>1. UNCHANGED <<queue, plan, item>>
    BY <1>3 DEF ExecuteTimer
  <2>2. \A o \in Tasks : pc[o] = "received" <=> pc'[o] = "received"
    BY <1>3 DEF ExecuteTimer, TypeOK
  <2>3. QED
    BY <1>0, <2>1, <2>2 DEF PlanMatchesStream, Stream
<1>4. ASSUME NEW c \in Ctx, Send(c)
      PROVE  PlanMatchesStream'
  <2>1. CASE ~UNCHANGED <<queue, plan>>
    <3>0. PICK p : p = post[c]
      OBVIOUS
    <3>9. /\ queue' = [queue EXCEPT ![p.to] = Enqueue(@, NextItem(p))]
          /\ plan' = [plan EXCEPT ![p.to] = Append(@, After(LastPlan(p.to), NextItem(p)))]
      BY <1>4, <2>1, <3>0 DEF Send
    <3>1. /\ p.to \in Tasks /\ NextItem(p) \in Item
          /\ Stream(p.to)' = Append(Stream(p.to), NextItem(p))
          /\ \A o \in Tasks \ {p.to} : Stream(o)' = Stream(o) /\ plan'[o] = plan[o]
      BY <1>0, <1>4, <3>0, <3>9, SendTaken
    <3>2. /\ Stream(p.to) \in Seq(Item) /\ plan[p.to] \in Seq(Seq(Cell)) /\ LastPlan(p.to) \in Seq(Cell)
      BY <1>0, <3>1, PlanNonEmpty
    <3>3. After(LastPlan(p.to), NextItem(p)) \in Seq(Cell)
      BY <3>1, <3>2, AfterType
    <3>4. plan'[p.to] = Append(plan[p.to], After(LastPlan(p.to), NextItem(p)))
      BY <3>1, <3>9 DEF TypeOK
    <3>5. Len(plan'[p.to]) = Len(plan[p.to]) + 1
      BY <3>2, <3>3, <3>4, AppendProperties
    <3>6. Len(Stream(p.to)') = Len(Stream(p.to)) + 1
      BY <3>1, <3>2, AppendProperties
    <3>7. Len(plan'[p.to]) = Len(Stream(p.to)') + 1
      BY <1>0, <3>1, <3>2, <3>5, <3>6, LenProperties DEF PlanMatchesStream
    <3>8. QED
      BY <1>0, <3>1, <3>7 DEF PlanMatchesStream
  <2>2. CASE UNCHANGED <<queue, plan>>
    BY <1>0, <1>4, <2>2 DEF Send, PlanMatchesStream, Stream
  <2>3. QED
    BY <2>1, <2>2
<1>5. ASSUME NEW i \in Irqs, ReturnFromISR(i)
      PROVE  PlanMatchesStream'
  BY <1>0, <1>5 DEF ReturnFromISR, PlanMatchesStream, Stream
<1>6. ASSUME NEW t \in Tasks, Receive(t)
      PROVE  PlanMatchesStream'
  <2>1. Stream(t)' = Stream(t)
    BY <1>6, StreamOfReceive
  <2>2. ASSUME NEW o \in Tasks \ {t} PROVE Len(Stream(o)') = Len(Stream(o))
    <3>1. queue'[o] = queue[o] /\ pc'[o] = pc[o] /\ queue[o] \in Seq(Item)
      BY <1>6 DEF Receive, TypeOK
    <3>2. item \in Item /\ item' \in Item
      BY <1>6 DEF Receive, TypeOK
    <3>3. Len(<<item>> \o queue[o]) = Len(<<item'>> \o queue[o])
      BY <3>1, <3>2
    <3>4. QED
      BY <3>1, <3>3 DEF Stream
  <2>3. plan' = plan
    BY <1>6 DEF Receive
  <2>4. QED
    BY <1>0, <2>1, <2>2, <2>3 DEF PlanMatchesStream
<1>7. ASSUME NEW t \in Tasks, PushArg(t) \/ Invoke(t)
      PROVE  PlanMatchesStream'
  <2>1. /\ pc[t] = "received" /\ UNCHANGED <<queue, item>> /\ pc'[t] # "received"
        /\ plan' = [plan EXCEPT ![t] = Tail(@)] /\ \A o \in Tasks \ {t} : pc'[o] = pc[o]
    BY <1>7 DEF PushArg, Invoke, TypeOK
  <2>2. Len(Stream(t)') = Len(Stream(t)) - 1 /\ Len(Stream(t)) \in Nat
    BY <2>1, StreamOfConsume
  <2>3. Len(plan'[t]) = Len(plan[t]) - 1
    <3>1. plan[t] \in Seq(Seq(Cell)) /\ plan[t] # <<>> /\ plan'[t] = Tail(plan[t])
      BY <1>0, <2>1, PlanNonEmpty, SMTT(30) DEF TypeOK
    <3>2. QED
      BY <3>1
  <2>4. \A o \in Tasks \ {t} : Stream(o)' = Stream(o) /\ plan'[o] = plan[o]
    BY <2>1 DEF Stream, TypeOK
  <2>5. QED
    BY <1>0, <2>2, <2>3, <2>4 DEF PlanMatchesStream
<1>8. ASSUME NEW t \in Tasks, Return(t)
      PROVE  PlanMatchesStream'
  <2>1. UNCHANGED <<queue, plan, item>>
    BY <1>8 DEF Return
  <2>2. \A o \in Tasks : pc[o] = "received" <=> pc'[o] = "received"
    BY <1>8 DEF Return, TypeOK
  <2>3. QED
    BY <1>0, <2>1, <2>2 DEF PlanMatchesStream, Stream
<1>9. CASE UNCHANGED vars
  BY <1>0, <1>9 DEF vars, PlanMatchesStream, Stream
<1>10. QED
  BY <1>1, <1>2, <1>3, <1>4, <1>5, <1>6, <1>7, <1>8, <1>9 DEF Next, Arrive, Work

LEMMA UnusedIsIdleStep ==
  ASSUME TypeOK, Control, [Next]_vars
  PROVE  UnusedIsIdle'
<1>0. UnusedIsIdle /\ PostersExecute
  BY DEF Control
<1>1. ASSUME NEW i \in Irqs, NEW t \in Tasks, NEW n \in 0 .. MaxArgs, AddToFromISR(i, t, n)
      PROVE  UnusedIsIdle'
  BY <1>0, <1>1 DEF AddToFromISR, UnusedIsIdle
<1>2. ASSUME NEW c \in Tasks, NEW t \in Tasks, NEW kind \in {"call", "func"},
             NEW n \in 0 .. MaxArgs, AddTo(c, t, kind, n) \/ ExecuteTimer(c, t, kind, n)
      PROVE  UnusedIsIdle'
  BY <1>0, <1>2 DEF AddTo, ExecuteTimer, UnusedIsIdle, TypeOK
<1>3. ASSUME NEW c \in Ctx, Send(c)
      PROVE  UnusedIsIdle'
  <2>1. post[c].to \in Dests /\ UNCHANGED pc
    BY <1>0, <1>3 DEF Send, PostersExecute
  <2>2. \A t \in Tasks : t # post[c].to => queue'[t] = queue[t]
    BY <1>3 DEF Send, TypeOK
  <2>3. QED
    BY <1>0, <2>1, <2>2 DEF UnusedIsIdle
<1>4. ASSUME NEW i \in Irqs, ReturnFromISR(i)
      PROVE  UnusedIsIdle'
  BY <1>0, <1>4 DEF ReturnFromISR, UnusedIsIdle
<1>5. ASSUME NEW t \in Tasks, Receive(t) \/ PushArg(t) \/ Invoke(t) \/ Return(t)
      PROVE  UnusedIsIdle'
  BY <1>0, <1>5 DEF Receive, PushArg, Invoke, Return, UnusedIsIdle, TypeOK
<1>6. CASE UNCHANGED vars
  BY <1>0, <1>6 DEF vars, UnusedIsIdle
<1>7. QED
  BY <1>1, <1>2, <1>3, <1>4, <1>5, <1>6 DEF Next, Arrive, Work

LEMMA ControlStep ==
  ASSUME TypeOK, Control, [Next]_vars
  PROVE  Control'
BY PostersExecuteStep, CallWhileRunningStep, PlanMatchesStreamStep, UnusedIsIdleStep DEF Control

(* Type correctness: whatever is interrupted or refused, every variable keeps its type. *)
THEOREM TypeCorrect == Spec => []TypeOK
<1>1. Init => TypeOK /\ Control
  BY InitIInv DEF IInv
<1>2. TypeOK /\ Control /\ [Next]_vars => (TypeOK /\ Control)'
  BY TypeStep, ControlStep
<1>3. QED
  BY <1>1, <1>2, PTL DEF Spec

-----------------------------------------------------------------------------
(* The stack of an undisturbed level *)

(* The context that runs has the highest priority of those that post. *)
LEMMA HighestPoster ==
  ASSUME TypeOK, Control, NEW c \in Ctx, Runs(c)
  PROVE  \A b \in Ctx : Posting(b) => b <= c
<1> SUFFICES ASSUME NEW b \in Ctx, Posting(b) PROVE b <= c
  OBVIOUS
<1>1. /\ b \in Irqs => b \in active
      /\ b \in Tasks => pc[b] = "running"
  BY DEF Control, PostersExecute
<1>2. /\ Ctx = Tasks \cup Irqs
      /\ Irqs \subseteq Int /\ \A i \in Irqs, t \in Tasks : t < i
  BY ConstantsAssumption DEF Ctx, Irqs
<1>3. CASE c \in Irqs
  BY <1>1, <1>2, <1>3 DEF Runs
<1>4. CASE c \in Tasks
  <2>1. b \in Tasks
    BY <1>1, <1>2, <1>4, ContextsBelowTop DEF Runs
  <2>2. c = High => b # Low
    BY <1>1, <1>4, ContextsBelowTop DEF Runs, Ready
  <2>3. QED
    BY <2>1, <2>2, <1>4
<1>5. QED
  BY <1>2, <1>3, <1>4

(* The numbers the stack invariant speaks of. *)
LEMMA PosterNumbers ==
  ASSUME TypeOK, NEW t \in Tasks, NEW c \in Posters(t)
  PROVE  /\ c \in Ctx /\ c \in Nat /\ c < Top /\ c \in 0 .. Top /\ Posting(c)
         /\ post[c] \in Post /\ post[c].to = t
         /\ post[c].base \in Nat /\ Sent(post[c]) \in Nat /\ post[c].n \in 0 .. MaxArgs
         /\ post[c].next = Sent(post[c]) + 1
<1>1. c \in Ctx /\ Posting(c) /\ post[c].to = t
  BY DEF Posters
<1>2. post[c] \in Post
  BY <1>1 DEF TypeOK
<1>3. post[c].next \in 1 .. MaxArgs + 1 /\ post[c].base \in Nat /\ post[c].n \in 0 .. MaxArgs
  BY <1>2 DEF Post
<1>4. QED
  BY <1>1, <1>2, <1>3, ContextsBelowTop, ConstantsAssumption, SMTT(30) DEF Sent

(* A step that leaves the posts, the items and the planned stacks of a level alone. *)
LEMMA StackFrame ==
  ASSUME NEW t \in Tasks, StackInv(t),
         Posters(t)' = Posters(t), \A c \in Posters(t) : post'[c] = post[c],
         plan'[t] = plan[t], Stream(t)' = Stream(t),
         StackIsPlanned(t)', OwnArgs(t)'
  PROVE  StackInv(t)'
<1>1. LastPlan(t)' = LastPlan(t) /\ \A c \in Posters(t) : Sent(post'[c]) = Sent(post[c])
  BY DEF LastPlan, Sent
<1>2. Heights(t)'
  BY <1>1 DEF StackInv, Heights, HeightIs
<1>3. OpenPosts(t)'
  BY <1>1 DEF StackInv, OpenPosts
<1>4. Steps(t)' /\ PlansFit(t)'
  BY DEF StackInv, Steps, StepOK, PlansFit
<1>5. QED
  BY <1>2, <1>3, <1>4 DEF StackInv

(* A context above all posters starts to post a call. *)
LEMMA StackBegin ==
  ASSUME TypeOK, PlanMatchesStream, NEW t \in Tasks, StackInv(t),
         NEW c \in Ctx, NEW to \in Tasks, NEW kind \in {"call", "func"}, NEW n \in 0 .. MaxArgs,
         BeginPost(c, to, kind, n), \A b \in Ctx : Posting(b) => b < c,
         UNCHANGED <<plan, size, argsBuffer, call>>, Stream(t)' = Stream(t)
  PROVE  StackInv(t)'
<1>0. /\ c \in Nat /\ c \in 0 .. Top /\ c < Top
      /\ Top \in Nat /\ Len(LastPlan(t)) \in Nat /\ MaxArgs \in Nat
      /\ LastPlan(t)' = LastPlan(t)
  <2>1. c \in Nat /\ c \in 0 .. Top /\ c < Top /\ Top \in Nat
    BY ContextsBelowTop
  <2>2. Len(LastPlan(t)) \in Nat
    BY PlanNonEmpty
  <2>3. LastPlan(t)' = LastPlan(t)
    BY DEF LastPlan
  <2>4. QED
    BY <2>1, <2>2, <2>3, ConstantsAssumption
<1>1. StackIsPlanned(t)' /\ OwnArgs(t)'
  BY DEF StackInv, StackIsPlanned, OwnArgs
<1>2. /\ \A b \in Ctx : b # c => post'[b] = post[b]
      /\ post'[c] = [to |-> to, kind |-> kind, id |-> calls + 1, n |-> n, next |-> 1,
                     base |-> Len(LastPlan(to))]
      /\ calls + 1 # 0
  BY DEF BeginPost, TypeOK
<1>3. \A b \in Posters(t) : b \in Ctx /\ b \in Nat /\ b < c /\ b # c /\ post'[b] = post[b] /\ Sent(post'[b]) = Sent(post[b])
  BY <1>2, PosterNumbers DEF Sent
<1>4. CASE to # t
  <2>1. Posters(t)' = Posters(t)
    BY <1>2, <1>3, <1>4 DEF Posters, Posting
  <2>2. QED
    BY <1>1, <1>3, <2>1, StackFrame
<1>5. CASE to = t
  <2>1. Posters(t)' = Posters(t) \cup {c}
    BY <1>2, <1>3, <1>5 DEF Posters, Posting
  <2>2. post'[c].base = Len(LastPlan(t)) /\ Sent(post'[c]) = 0
    BY <1>2, <1>5 DEF Sent
  <2>3. /\ \A b \in Posters(t) :
             (\A d \in Posters(t) : d <= b) => Len(LastPlan(t)) = post[b].base + Sent(post[b])
        /\ \A d \in 0 .. Top : (\A b \in Posters(t) : b < d) => Len(LastPlan(t)) <= Cap(d)
    BY <1>0, <1>3 DEF StackInv, Heights, HeightIs
  <2>4. HeightIs(t, Top, Len(LastPlan(t)))'
    <3>1. ASSUME NEW b \in Posters(t)', b < Top, \A d \in Posters(t)' : d < Top => d <= b
          PROVE  Len(LastPlan(t))' = post'[b].base + Sent(post'[b])
      <4>1. b = c
        BY <3>1, <2>1, <1>0, <1>3
      <4>2. QED
        BY <4>1, <2>2, <1>0
    <3>2. ASSUME NEW d \in 0 .. Top, \A b \in Posters(t)' : b < Top => b < d
          PROVE  Len(LastPlan(t))' <= Cap(d)
      <4>1. c < d
        BY <3>2, <2>1, <1>0
      <4>2. Len(LastPlan(t)) <= Cap(c)
        BY <2>3, <1>0, <1>3
      <4>3. c \in Nat /\ d \in Nat
        BY <1>0
      <4>4. Cap(c) \in Nat /\ Cap(d) \in Nat /\ Cap(c) + MaxArgs <= Cap(d)
        BY ONLY <4>1, <4>3, CapGrows
      <4>5. MaxArgs \in Nat /\ Len(LastPlan(t)) \in Nat /\ Len(LastPlan(t))' = Len(LastPlan(t))
        BY <1>0
      <4>6. QED
        BY ONLY <4>2, <4>4, <4>5
    <3>3. QED
      BY <3>1, <3>2 DEF HeightIs
  <2>5. ASSUME NEW x \in Posters(t)'
        PROVE  HeightIs(t, x, post[x].base)'
    <3>1. CASE x = c
      <4>1. \A b \in Posters(t)' : b < c => b \in Posters(t)
        BY <2>1, <1>0
      <4>2. QED
        BY <3>1, <4>1, <2>1, <2>2, <2>3, <1>3, <1>0 DEF HeightIs
    <3>2. CASE x # c
      <4>1. x \in Posters(t) /\ ~(c < x)
        BY <3>2, <2>1, <1>0, <1>3
      <4>2. HeightIs(t, x, post[x].base)
        BY <4>1 DEF StackInv, Heights
      <4>3. QED
        BY <4>1, <4>2, <2>1, <1>3, <1>0 DEF HeightIs
    <3>3. QED
      BY <3>1, <3>2
  <2>6. Heights(t)'
    BY <2>4, <2>5 DEF Heights
  <2>7. OpenPosts(t)'
    <3>1. \A b \in Posters(t) : post[b].base + Sent(post[b]) <= Len(LastPlan(t))
      BY DEF StackInv, OpenPosts
    <3>2. \A b, x \in Posters(t)' : b < x => post'[b].base + Sent(post'[b]) <= post'[x].base
      BY <3>1, <2>1, <2>2, <1>3, <1>0 DEF StackInv, OpenPosts
    <3>3. ASSUME NEW x \in Posters(t)'
          PROVE  /\ post'[x].base + Sent(post'[x]) <= Len(LastPlan(t))'
                 /\ \A k \in 1 .. Sent(post'[x]) : LastPlan(t)'[post'[x].base + k] = <<post'[x].id, k>>
      <4>1. CASE x = c
        BY <4>1, <2>2, <1>0
      <4>2. CASE x # c
        <5>1. x \in Posters(t)
          BY <4>2, <2>1
        <5>2. QED
          BY <5>1, <1>3, <1>0 DEF StackInv, OpenPosts
      <4>3. QED
        BY <4>1, <4>2
    <3>4. QED
      BY <3>2, <3>3 DEF OpenPosts
  <2>8. Steps(t)' /\ PlansFit(t)'
    BY DEF StackInv, Steps, StepOK, PlansFit
  <2>9. QED
    BY <1>1, <2>6, <2>7, <2>8 DEF StackInv
<1>6. QED
  BY <1>4, <1>5

(* The planned stacks, one entry longer after a send that is taken. *)
LEMMA PlanOfSend ==
  ASSUME TypeOK, PlanMatchesStream, NEW t \in Tasks, NEW it \in Item,
         plan'[t] = Append(plan[t], After(LastPlan(t), it)), Stream(t)' = Append(Stream(t), it)
  PROVE  /\ Len(Stream(t)) \in Nat /\ Len(plan[t]) = Len(Stream(t)) + 1
         /\ Len(plan'[t]) = Len(plan[t]) + 1 /\ Len(Stream(t)') = Len(Stream(t)) + 1
         /\ \A i \in 1 .. Len(plan[t]) : plan'[t][i] = plan[t][i]
         /\ plan[t][Len(plan[t])] = LastPlan(t)
         /\ LastPlan(t)' = After(LastPlan(t), it)
         /\ plan'[t][Len(plan[t]) + 1] = After(LastPlan(t), it)
         /\ \A i \in 1 .. Len(Stream(t)) : Stream(t)'[i] = Stream(t)[i]
         /\ Stream(t)'[Len(Stream(t)) + 1] = it
<1>1. /\ Stream(t) \in Seq(Item) /\ plan[t] \in Seq(Seq(Cell))
      /\ Len(plan[t]) \in Nat /\ Len(plan[t]) >= 1 /\ LastPlan(t) \in Seq(Cell)
  BY PlanNonEmpty
<1>2. After(LastPlan(t), it) \in Seq(Cell)
  BY <1>1, AfterType
<1>3. Len(Stream(t)) \in Nat /\ Len(plan[t]) = Len(Stream(t)) + 1
  BY <1>1, LenProperties DEF PlanMatchesStream
<1>4. /\ Len(plan'[t]) = Len(plan[t]) + 1
      /\ \A i \in 1 .. Len(plan[t]) : plan'[t][i] = plan[t][i]
      /\ plan'[t][Len(plan[t]) + 1] = After(LastPlan(t), it)
  BY <1>1, <1>2, AppendProperties
<1>5. /\ Len(Stream(t)') = Len(Stream(t)) + 1
      /\ \A i \in 1 .. Len(Stream(t)) : Stream(t)'[i] = Stream(t)[i]
      /\ Stream(t)'[Len(Stream(t)) + 1] = it
  BY <1>1, AppendProperties
<1>6. plan[t][Len(plan[t])] = LastPlan(t) /\ LastPlan(t)' = After(LastPlan(t), it)
  BY <1>4 DEF LastPlan
<1>7. QED
  BY <1>3, <1>4, <1>5, <1>6

(* The part of the invariant about items and planned stacks, after a send to t. *)
LEMMA StepsOfSend ==
  ASSUME TypeOK, PlanMatchesStream, NEW t \in Tasks, NEW it \in Item, Steps(t), PlansFit(t),
         plan'[t] = Append(plan[t], After(LastPlan(t), it)), Stream(t)' = Append(Stream(t), it),
         Len(After(LastPlan(t), it)) <= Cap(Top),
         it.kind = "call" =>
           /\ it.n <= Len(LastPlan(t))
           /\ \A k \in 1 .. it.n : LastPlan(t)[Len(LastPlan(t)) - it.n + k] = <<it.id, k>>
  PROVE  Steps(t)' /\ PlansFit(t)' /\ plan'[t][1] = plan[t][1]
<1>1. /\ Len(Stream(t)) \in Nat /\ Len(plan[t]) = Len(Stream(t)) + 1
      /\ Len(plan'[t]) = Len(plan[t]) + 1 /\ Len(Stream(t)') = Len(Stream(t)) + 1
      /\ \A i \in 1 .. Len(plan[t]) : plan'[t][i] = plan[t][i]
      /\ plan[t][Len(plan[t])] = LastPlan(t)
      /\ plan'[t][Len(plan[t]) + 1] = After(LastPlan(t), it)
      /\ \A i \in 1 .. Len(Stream(t)) : Stream(t)'[i] = Stream(t)[i]
      /\ Stream(t)'[Len(Stream(t)) + 1] = it
  BY PlanOfSend
<1>2. ASSUME NEW i \in 1 .. Len(Stream(t)')
      PROVE  StepOK(t, i)'
  <2>1. CASE i = Len(Stream(t)) + 1
    <3>1. plan'[t][i + 1] = After(LastPlan(t), it) /\ plan'[t][i] = LastPlan(t) /\ Stream(t)'[i] = it
      BY <1>1, <2>1
    <3>2. QED
      BY <3>1 DEF StepOK
  <2>2. CASE i # Len(Stream(t)) + 1
    <3>1. i \in 1 .. Len(Stream(t)) /\ i \in 1 .. Len(plan[t]) /\ i + 1 \in 1 .. Len(plan[t])
      BY <1>1, <2>2
    <3>2. plan'[t][i + 1] = plan[t][i + 1] /\ plan'[t][i] = plan[t][i] /\ Stream(t)'[i] = Stream(t)[i]
      BY <1>1, <3>1
    <3>3. StepOK(t, i)
      BY <3>1 DEF Steps
    <3>4. QED
      BY <3>2, <3>3 DEF StepOK
  <2>3. QED
    BY <2>1, <2>2
<1>3. ASSUME NEW i \in 1 .. Len(plan'[t])
      PROVE  Len(plan'[t][i]) <= Cap(Top)
  BY <1>1 DEF PlansFit
<1>4. QED
  BY <1>1, <1>2, <1>3 DEF Steps, PlansFit

(* The highest poster to t sends an argument. *)
LEMMA StackSendArg ==
  ASSUME TypeOK, PlanMatchesStream, NEW t \in Tasks, StackInv(t),
         NEW c \in Posters(t), \A b \in Posters(t) : b <= c,
         NEW it \in Item, it = [kind |-> "arg", id |-> post[c].id, n |-> post[c].next],
         IsArg(post[c]), post' = [post EXCEPT ![c] = Advance(post[c])],
         plan'[t] = Append(plan[t], After(LastPlan(t), it)), Stream(t)' = Append(Stream(t), it),
         UNCHANGED <<size, argsBuffer, call>>
  PROVE  StackInv(t)'
<1>1. /\ c \in Nat /\ c < Top /\ c \in 0 .. Top /\ c \in Ctx /\ Posting(c) /\ post[c].to = t
      /\ Top \in Nat /\ post[c].base \in Nat /\ Sent(post[c]) \in Nat /\ MaxArgs \in Nat
      /\ Sent(post[c]) + 1 <= MaxArgs /\ post[c].next = Sent(post[c]) + 1
  <2>1. /\ c \in Nat /\ c < Top /\ c \in 0 .. Top /\ c \in Ctx /\ Posting(c) /\ post[c].to = t
        /\ post[c].base \in Nat /\ Sent(post[c]) \in Nat
        /\ post[c].next = Sent(post[c]) + 1 /\ post[c].n \in 0 .. MaxArgs
    BY PosterNumbers
  <2>2. Top \in Nat /\ MaxArgs \in Nat
    BY ContextsBelowTop, ConstantsAssumption
  <2>3. QED
    BY <2>1, <2>2 DEF IsArg
<1>2. /\ LastPlan(t) \in Seq(Cell) /\ Len(LastPlan(t)) \in Nat
      /\ LastPlan(t)' = Append(LastPlan(t), <<post[c].id, post[c].next>>)
      /\ LastPlan(t)' = After(LastPlan(t), it)
  <2>1. LastPlan(t) \in Seq(Cell) /\ Len(LastPlan(t)) \in Nat
    BY PlanNonEmpty
  <2>2. LastPlan(t)' = After(LastPlan(t), it)
    BY PlanOfSend
  <2>3. After(LastPlan(t), it) = Append(LastPlan(t), <<post[c].id, post[c].next>>)
    BY <2>1, AfterType
  <2>4. QED
    BY <2>1, <2>2, <2>3
<1>3. /\ Len(LastPlan(t)') = Len(LastPlan(t)) + 1
      /\ \A k \in 1 .. Len(LastPlan(t)) : LastPlan(t)'[k] = LastPlan(t)[k]
      /\ LastPlan(t)'[Len(LastPlan(t)) + 1] = <<post[c].id, post[c].next>>
  <2>1. <<post[c].id, post[c].next>> \in Cell
    BY DEF Item, Cell
  <2>2. QED
    BY <1>2, <2>1, AppendProperties
<1>4. /\ \A b \in Ctx : b # c => post'[b] = post[b] /\ Sent(post'[b]) = Sent(post[b])
      /\ post'[c] = [post[c] EXCEPT !.next = @ + 1]
      /\ post[c] \in Post
  <2>1. post[c] \in Post /\ post \in [Ctx -> Post]
    BY <1>1 DEF TypeOK
  <2>2. post'[c] = [post[c] EXCEPT !.next = @ + 1]
    BY <2>1, <1>1 DEF Advance
  <2>3. \A b \in Ctx : b # c => post'[b] = post[b]
    BY <2>1
  <2>4. QED
    BY <2>1, <2>2, <2>3
<1>5. /\ post'[c].to = t /\ post'[c].id = post[c].id /\ post'[c].base = post[c].base
      /\ Sent(post'[c]) = Sent(post[c]) + 1
  <2>1. /\ post'[c].to = post[c].to /\ post'[c].id = post[c].id /\ post'[c].base = post[c].base
        /\ post'[c].next = post[c].next + 1
    BY <1>4 DEF Post
  <2>2. QED
    BY <2>1, <1>1 DEF Sent
<1>6. Posters(t)' = Posters(t)
  BY <1>1, <1>4, <1>5 DEF Posters, Posting
<1>7. \A b \in Posters(t) : b \in Ctx /\ b \in Nat /\ b < Top /\ b <= c /\ post[b].base \in Nat /\ Sent(post[b]) \in Nat
  BY PosterNumbers
<1>8. Len(LastPlan(t)) = post[c].base + Sent(post[c])
  BY <1>1, <1>7 DEF StackInv, Heights, HeightIs
<1>9. post[c].base <= Cap(c)
  BY <1>1, <1>7 DEF StackInv, Heights, HeightIs
<1>10. HeightIs(t, Top, Len(LastPlan(t)))'
  <2>1. ASSUME NEW b \in Posters(t), b < Top, \A d \in Posters(t) : d < Top => d <= b
        PROVE  Len(LastPlan(t)') = post'[b].base + Sent(post'[b])
    <3>1. b = c
      BY <2>1, <1>1, <1>7
    <3>2. QED
      BY <3>1, <1>1, <1>3, <1>5, <1>8, SMTT(30)
  <2>2. ASSUME NEW d \in 0 .. Top, \A b \in Posters(t) : b < Top => b < d
        PROVE  Len(LastPlan(t)') <= Cap(d)
    <3>1. c < d
      BY <2>2, <1>1
    <3>2. Cap(c) \in Nat /\ Cap(d) \in Nat /\ Cap(c) + MaxArgs <= Cap(d)
      <4>1. c \in Nat /\ d \in Nat
        BY <1>1
      <4>2. QED
        BY <3>1, <4>1, CapGrows
    <3>3. QED
      <4>1. Len(LastPlan(t)') = post[c].base + Sent(post[c]) + 1
        BY <1>1, <1>3, <1>8
      <4>2. QED
        BY <3>2, <4>1, <1>1, <1>9, SMTT(30)
  <2>3. QED
    BY <2>1, <2>2, <1>6 DEF HeightIs
<1>11. \A x \in Posters(t)' : HeightIs(t, x, post[x].base)'
  <2> SUFFICES ASSUME NEW x \in Posters(t) PROVE HeightIs(t, x, post[x].base)'
    BY <1>6
  <2>1. HeightIs(t, x, post[x].base)
    BY DEF StackInv, Heights
  <2>2. post'[x].base = post[x].base /\ \A b \in Posters(t) : b < x => b # c /\ post'[b] = post[b] /\ Sent(post'[b]) = Sent(post[b])
    BY <1>1, <1>4, <1>5, <1>7
  <2>3. QED
    BY <2>1, <2>2, <1>6 DEF HeightIs
<1>12. OpenPosts(t)'
  <2>1. ASSUME NEW b \in Posters(t), NEW x \in Posters(t), b < x
        PROVE  post'[b].base + Sent(post'[b]) <= post'[x].base
    <3>1. b # c /\ post'[b] = post[b] /\ Sent(post'[b]) = Sent(post[b]) /\ post'[x].base = post[x].base
      BY <2>1, <1>1, <1>4, <1>5, <1>7
    <3>2. QED
      BY <2>1, <3>1 DEF StackInv, OpenPosts
  <2>2. ASSUME NEW x \in Posters(t)
        PROVE  /\ post'[x].base + Sent(post'[x]) <= Len(LastPlan(t)')
               /\ \A k \in 1 .. Sent(post'[x]) : LastPlan(t)'[post'[x].base + k] = <<post'[x].id, k>>
    <3>1. /\ post[x].base + Sent(post[x]) <= Len(LastPlan(t))
          /\ \A k \in 1 .. Sent(post[x]) : LastPlan(t)[post[x].base + k] = <<post[x].id, k>>
      BY DEF StackInv, OpenPosts
    <3>2. \A k \in 1 .. Sent(post[x]) : LastPlan(t)'[post[x].base + k] = <<post[x].id, k>>
      <4> SUFFICES ASSUME NEW k \in 1 .. Sent(post[x]) PROVE LastPlan(t)'[post[x].base + k] = <<post[x].id, k>>
        OBVIOUS
      <4>1. post[x].base + k \in 1 .. Len(LastPlan(t))
        BY <3>1, <1>2, <1>7, SMTT(30)
      <4>2. QED
        BY <3>1, <4>1, <1>3
    <3>3. CASE x = c
      <4>1. ASSUME NEW k \in 1 .. Sent(post[c]) + 1
            PROVE  LastPlan(t)'[post[c].base + k] = <<post[c].id, k>>
        <5>1. CASE k = Sent(post[c]) + 1
          <6>1. post[c].base + k = Len(LastPlan(t)) + 1 /\ k = post[c].next
            BY <5>1, <1>1, <1>8, SMTT(30)
          <6>2. QED
            BY <6>1, <1>3
        <5>2. CASE k # Sent(post[c]) + 1
          <6>1. k \in 1 .. Sent(post[c])
            BY <5>2, <1>1
          <6>2. QED
            BY <6>1, <3>2, <3>3
        <5>3. QED
          BY <5>1, <5>2
      <4>2. post[c].base + (Sent(post[c]) + 1) <= Len(LastPlan(t)')
        BY <1>1, <1>3, <1>8
      <4>3. post'[x].base = post[c].base /\ Sent(post'[x]) = Sent(post[c]) + 1 /\ post'[x].id = post[c].id
        BY <3>3, <1>5
      <4>4. QED
        BY <4>1, <4>2, <4>3
    <3>4. CASE x # c
      <4>1. post'[x] = post[x]
        BY <3>4, <1>4, <1>7
      <4>2. post[x].base + Sent(post[x]) <= Len(LastPlan(t)')
        BY <3>1, <1>2, <1>3, <1>7
      <4>3. QED
        BY <3>2, <4>1, <4>2
    <3>5. QED
      BY <3>3, <3>4
  <2>3. QED
    BY <2>1, <2>2, <1>6 DEF OpenPosts
<1>13. Steps(t)' /\ PlansFit(t)' /\ plan'[t][1] = plan[t][1]
  <2>1. Len(After(LastPlan(t), it)) <= Cap(Top)
    <3>1. \A b \in Posters(t)' : b < Top => b < Top
      OBVIOUS
    <3>2. Len(LastPlan(t)') <= Cap(Top)
      BY <3>1, <1>1, <1>10 DEF HeightIs
    <3>3. QED
      BY <3>2, <1>2
  <2>2. QED
    BY <2>1, StepsOfSend DEF StackInv
<1>14. StackIsPlanned(t)' /\ OwnArgs(t)'
  BY <1>13 DEF StackInv, StackIsPlanned, OwnArgs
<1>15. QED
  BY <1>10, <1>11, <1>12, <1>13, <1>14 DEF StackInv, Heights

(* The highest poster to t sends the callback. *)
LEMMA StackSendCall ==
  ASSUME TypeOK, PlanMatchesStream, PostersExecute, NEW t \in Tasks, StackInv(t),
         NEW c \in Posters(t), \A b \in Posters(t) : b <= c,
         NEW it \in Item, it = [kind |-> post[c].kind, id |-> post[c].id, n |-> post[c].n],
         ~IsArg(post[c]), post' = [post EXCEPT ![c] = NoPost],
         plan'[t] = Append(plan[t], After(LastPlan(t), it)), Stream(t)' = Append(Stream(t), it),
         UNCHANGED <<size, argsBuffer, call>>
  PROVE  StackInv(t)'
<1>1. /\ c \in Nat /\ c < Top /\ c \in 0 .. Top /\ c \in Ctx /\ Posting(c) /\ post[c] \in Post
      /\ Top \in Nat /\ post[c].base \in Nat /\ Sent(post[c]) \in Nat /\ MaxArgs \in Nat
      /\ Sent(post[c]) = post[c].n
  <2>1. /\ c \in Nat /\ c < Top /\ c \in 0 .. Top /\ c \in Ctx /\ Posting(c) /\ post[c] \in Post
        /\ post[c].base \in Nat /\ Sent(post[c]) \in Nat
        /\ post[c].next = Sent(post[c]) + 1 /\ post[c].n \in 0 .. MaxArgs
    BY PosterNumbers
  <2>2. Top \in Nat /\ MaxArgs \in Nat
    BY ContextsBelowTop, ConstantsAssumption
  <2>3. Sent(post[c]) <= post[c].n
    BY <2>1 DEF PostersExecute
  <2>4. QED
    BY <2>1, <2>2, <2>3 DEF IsArg
<1>2. \A b \in Posters(t) :
        b \in Ctx /\ b \in Nat /\ b < Top /\ b <= c /\ post[b].base \in Nat /\ Sent(post[b]) \in Nat
  BY PosterNumbers
<1>3. Len(LastPlan(t)) = post[c].base + Sent(post[c])
  BY <1>1, <1>2 DEF StackInv, Heights, HeightIs
<1>4. \A k \in 1 .. it.n : LastPlan(t)[post[c].base + k] = <<post[c].id, k>>
  BY <1>1 DEF StackInv, OpenPosts
<1>5. /\ LastPlan(t) \in Seq(Cell) /\ LastPlan(t)' = After(LastPlan(t), it)
  BY PlanNonEmpty, PlanOfSend, ZenonT(40)
<1>6. /\ Len(LastPlan(t)') = post[c].base
      /\ \A k \in 1 .. post[c].base : LastPlan(t)'[k] = LastPlan(t)[k]
  <2>1. CASE it.kind = "call"
    <3>1. LastPlan(t)' = SubSeq(LastPlan(t), 1, post[c].base)
      <4>1. After(LastPlan(t), it) = SubSeq(LastPlan(t), 1, Len(LastPlan(t)) - it.n)
        BY <2>1, <1>5, AfterType
      <4>2. Len(LastPlan(t)) - it.n = post[c].base
        BY <1>1, <1>3
      <4>3. QED
        BY <1>5, <4>1, <4>2
    <3>2. \A i \in 1 .. post[c].base : LastPlan(t)[i] \in Cell
      BY <1>1, <1>3, <1>5
    <3>3. /\ Len(SubSeq(LastPlan(t), 1, post[c].base)) = IF 1 <= post[c].base THEN post[c].base - 1 + 1 ELSE 0
          /\ \A i \in 1 .. post[c].base - 1 + 1 : SubSeq(LastPlan(t), 1, post[c].base)[i] = LastPlan(t)[1 + i - 1]
      BY <1>1, <3>2, SubSeqProperties
    <3>4. QED
      BY <1>1, <3>1, <3>3
  <2>2. CASE it.kind = "func"
    <3>1. post[c].n = 0
      BY <2>2, <1>1 DEF PostersExecute
    <3>2. LastPlan(t)' = LastPlan(t)
      BY <2>2, <1>5, AfterType
    <3>3. QED
      BY <3>1, <3>2, <1>1, <1>3
  <2>3. QED
    BY <2>1, <2>2, <1>1 DEF Post
<1>7. /\ \A b \in Ctx : b # c => post'[b] = post[b]
      /\ post'[c] = NoPost
  BY <1>1 DEF TypeOK
<1>8. Posters(t)' = Posters(t) \ {c}
  BY <1>7 DEF Posters, Posting, NoPost
<1>9. \A b \in Posters(t)' : b \in Posters(t) /\ b \in Nat /\ b < c /\ b < Top /\ post'[b] = post[b]
  <2> SUFFICES ASSUME NEW b \in Posters(t)'
               PROVE  b \in Posters(t) /\ b \in Nat /\ b < c /\ b < Top /\ post'[b] = post[b]
    OBVIOUS
  <2>1. b \in Posters(t) /\ b # c
    BY <1>8
  <2>2. b \in Ctx /\ b \in Nat /\ b < Top /\ b <= c
    BY <2>1, <1>2
  <2>3. QED
    BY <2>1, <2>2, <1>1, <1>7
<1>10. HeightIs(t, c, post[c].base)
  BY DEF StackInv, Heights
<1>11. HeightIs(t, Top, Len(LastPlan(t)))'
  <2>1. ASSUME NEW b \in Posters(t)', b < Top, \A d \in Posters(t)' : d < Top => d <= b
        PROVE  Len(LastPlan(t)') = post'[b].base + Sent(post'[b])
    <3>1. \A d \in Posters(t) : d < c => d <= b
      BY <2>1, <1>1, <1>8, <1>9
    <3>2. post[c].base = post[b].base + Sent(post[b])
      BY <3>1, <1>9, <1>10 DEF HeightIs
    <3>3. QED
      BY <3>2, <1>6, <1>9
  <2>2. ASSUME NEW d \in 0 .. Top, \A b \in Posters(t)' : b < Top => b < d
        PROVE  Len(LastPlan(t)') <= Cap(d)
    <3>1. CASE d <= c
      <4>1. \A b \in Posters(t) : b < c => b < d
        BY <2>2, <1>1, <1>8, <1>9
      <4>2. QED
        BY <3>1, <4>1, <1>6, <1>10 DEF HeightIs
    <3>2. CASE ~(d <= c)
      <4>1. post[c].base <= Cap(c)
        BY <1>1, <1>10 DEF HeightIs
      <4>2. c \in Nat /\ d \in Nat /\ c < d
        BY <3>2, <1>1
      <4>3. Cap(c) \in Nat /\ Cap(d) \in Nat /\ Cap(c) + MaxArgs <= Cap(d)
        BY <4>2, CapGrows
      <4>4. QED
        BY <4>1, <4>3, <1>1, <1>6
    <3>3. QED
      BY <3>1, <3>2
  <2>3. QED
    BY <2>1, <2>2 DEF HeightIs
<1>12. ASSUME NEW x \in Posters(t)'
       PROVE  HeightIs(t, x, post[x].base)'
  <2>1. HeightIs(t, x, post[x].base)
    BY <1>9 DEF StackInv, Heights
  <2>2. \A b : b \in Posters(t)' /\ b < x <=> b \in Posters(t) /\ b < x
    BY <1>1, <1>8, <1>9
  <2>3. QED
    BY <2>1, <2>2, <1>9 DEF HeightIs
<1>13. OpenPosts(t)'
  <2>1. ASSUME NEW b \in Posters(t)', NEW x \in Posters(t)', b < x
        PROVE  post'[b].base + Sent(post'[b]) <= post'[x].base
    BY <2>1, <1>9 DEF StackInv, OpenPosts
  <2>2. ASSUME NEW x \in Posters(t)'
        PROVE  /\ post'[x].base + Sent(post'[x]) <= Len(LastPlan(t)')
               /\ \A k \in 1 .. Sent(post'[x]) : LastPlan(t)'[post'[x].base + k] = <<post'[x].id, k>>
    <3>1. x \in Posters(t) /\ x < c /\ post'[x] = post[x] /\ post[x].base \in Nat /\ Sent(post[x]) \in Nat
      BY <1>2, <1>9
    <3>2. post[x].base + Sent(post[x]) <= post[c].base
      BY <3>1 DEF StackInv, OpenPosts
    <3>3. \A k \in 1 .. Sent(post[x]) : LastPlan(t)[post[x].base + k] = <<post[x].id, k>>
      BY <3>1 DEF StackInv, OpenPosts
    <3>4. ASSUME NEW k \in 1 .. Sent(post[x])
          PROVE  LastPlan(t)'[post[x].base + k] = <<post[x].id, k>>
      <4>1. post[x].base + k \in 1 .. post[c].base
        <5>1. post[c].base \in Nat
          BY <1>1
        <5>2. QED
          BY <3>1, <3>2, <5>1
      <4>2. QED
        BY <3>3, <4>1, <1>6
    <3>5. QED
      BY <3>1, <3>2, <3>4, <1>6
  <2>3. QED
    BY <2>1, <2>2 DEF OpenPosts
<1>14. Steps(t)' /\ PlansFit(t)' /\ plan'[t][1] = plan[t][1]
  <2>1. Len(After(LastPlan(t), it)) <= Cap(Top)
    <3>1. \A b \in Posters(t)' : b < Top => b < Top
      OBVIOUS
    <3>2. Len(LastPlan(t)') <= Cap(Top)
      BY <3>1, <1>1, <1>11 DEF HeightIs
    <3>3. QED
      BY <3>2, <1>5
  <2>2. /\ it.n <= Len(LastPlan(t))
        /\ \A k \in 1 .. it.n : LastPlan(t)[Len(LastPlan(t)) - it.n + k] = <<it.id, k>>
    <3>1. it.n = Sent(post[c]) /\ it.id = post[c].id /\ it.n \in Nat
      BY <1>1
    <3>2. Len(LastPlan(t)) - it.n = post[c].base
      BY <3>1, <1>1, <1>3
    <3>3. it.n <= Len(LastPlan(t))
      BY <3>1, <3>2, <1>1, <1>3
    <3>4. QED
      BY <3>1, <3>2, <3>3, <1>4
  <2>3. QED
    BY <2>1, <2>2, StepsOfSend DEF StackInv
<1>15. StackIsPlanned(t)' /\ OwnArgs(t)'
  BY <1>14 DEF StackInv, StackIsPlanned, OwnArgs
<1>16. QED
  BY <1>11, <1>12, <1>13, <1>14, <1>15 DEF StackInv, Heights

LEMMA StackSend ==
  ASSUME TypeOK, Control, NEW t \in Tasks, StackInv(t), NEW c \in Ctx, Send(c), ~refused'[t]
  PROVE  StackInv(t)'
<1>0. PlanMatchesStream /\ PostersExecute
  BY DEF Control
<1>1. PICK p : p = post[c]
  OBVIOUS
<1>2. /\ UNCHANGED <<size, argsBuffer, call>> /\ Posting(c) /\ Runs(c)
      /\ post' = [post EXCEPT ![c] = IF IsArg(p) THEN Advance(p) ELSE NoPost]
  BY <1>1 DEF Send
<1>3. p \in Post /\ p.to \in Tasks
  BY <1>1 DEF TypeOK, Post
<1>4. ASSUME p.to # t, LastPlan(t)' = LastPlan(t), Stream(t)' = Stream(t), plan'[t] = plan[t]
      PROVE  StackInv(t)'
  <2>1. \A b \in Ctx : b # c => post'[b] = post[b]
    BY <1>2 DEF TypeOK
  <2>2. post'[c] = IF IsArg(p) THEN Advance(p) ELSE NoPost
    BY <1>2 DEF TypeOK
  <2>3. Advance(p).to # t /\ NoPost.id = 0
    BY <1>3, <1>4 DEF Advance, Post, NoPost
  <2>4. Posters(t)' = Posters(t) /\ c \notin Posters(t)
    BY <1>1, <1>4, <2>1, <2>2, <2>3 DEF Posters, Posting
  <2>5. \A b \in Posters(t) : post'[b] = post[b]
    BY <2>1, <2>4 DEF Posters
  <2>6. StackIsPlanned(t)' /\ OwnArgs(t)'
    BY <1>2, <1>4 DEF StackInv, StackIsPlanned, OwnArgs
  <2>7. QED
    BY <1>4, <2>4, <2>5, <2>6, StackFrame
<1>5. CASE refused' = [refused EXCEPT ![p.to] = TRUE] /\ UNCHANGED <<queue, plan>>
  <2>1. p.to # t
    BY <1>3, <1>5 DEF TypeOK
  <2>2. UNCHANGED <<pc, item>>
    BY DEF Send
  <2>3. Stream(t)' = Stream(t) /\ LastPlan(t)' = LastPlan(t)
    BY <1>5, <2>2 DEF Stream, LastPlan
  <2>4. QED
    BY <1>4, <1>5, <2>1, <2>3
<1>6. CASE /\ queue' = [queue EXCEPT ![p.to] = Enqueue(@, NextItem(p))]
           /\ plan' = [plan EXCEPT ![p.to] = Append(@, After(LastPlan(p.to), NextItem(p)))]
  <2>1. /\ NextItem(p) \in Item
        /\ Stream(p.to)' = Append(Stream(p.to), NextItem(p))
        /\ \A o \in Tasks \ {p.to} : Stream(o)' = Stream(o) /\ plan'[o] = plan[o]
    BY <1>0, <1>1, <1>6, SendTaken
  <2>2. CASE p.to # t
    <3>1. plan'[t] = plan[t] /\ Stream(t)' = Stream(t)
      BY <2>1, <2>2
    <3>2. LastPlan(t)' = LastPlan(t)
      BY <3>1 DEF LastPlan
    <3>3. QED
      BY <1>4, <2>2, <3>1, <3>2
  <2>3. CASE p.to = t
    <3>1. c \in Posters(t) /\ \A b \in Posters(t) : b <= c
      BY <1>1, <1>2, <2>3, HighestPoster DEF Posters
    <3>2. /\ plan'[t] = Append(plan[t], After(LastPlan(t), NextItem(p)))
          /\ Stream(t)' = Append(Stream(t), NextItem(p))
      BY <1>6, <2>1, <2>3 DEF TypeOK
    <3>3. CASE IsArg(p)
      <4>1. NextItem(p) = [kind |-> "arg", id |-> post[c].id, n |-> post[c].next]
        BY <1>1, <3>3 DEF NextItem
      <4>2. post' = [post EXCEPT ![c] = Advance(post[c])]
        BY <1>1, <1>2, <3>3
      <4>3. QED
        BY <1>0, <1>1, <1>2, <2>1, <2>3, <3>1, <3>2, <3>3, <4>1, <4>2, StackSendArg
    <3>4. CASE ~IsArg(p)
      <4>1. NextItem(p) = [kind |-> post[c].kind, id |-> post[c].id, n |-> post[c].n]
        BY <1>1, <3>4 DEF NextItem
      <4>2. post' = [post EXCEPT ![c] = NoPost]
        BY <1>2, <3>4
      <4>3. QED
        BY <1>0, <1>1, <1>2, <2>1, <2>3, <3>1, <3>2, <3>4, <4>1, <4>2, StackSendCall
    <3>5. QED
      BY <3>3, <3>4
  <2>4. QED
    BY <2>2, <2>3
<1>7. QED
  BY <1>1, <1>5, <1>6 DEF Send

(* The planned stacks, one entry shorter after worker t consumes the item it received. *)
LEMMA PlanOfConsume ==
  ASSUME TypeOK, PlanMatchesStream, NEW t \in Tasks, Steps(t), PlansFit(t),
         pc[t] = "received", UNCHANGED queue, pc'[t] # "received", plan'[t] = Tail(plan[t])
  PROVE  /\ LastPlan(t)' = LastPlan(t)
         /\ Steps(t)' /\ PlansFit(t)'
         /\ plan[t][1] \in Seq(Cell)
         /\ plan'[t][1] = After(plan[t][1], item)
         /\ Len(plan'[t][1]) <= Cap(Top)
         /\ item.kind = "call" =>
              /\ item.n <= Len(plan[t][1])
              /\ \A k \in 1 .. item.n : plan[t][1][Len(plan[t][1]) - item.n + k] = <<item.id, k>>
<1>1. /\ Stream(t)' = Tail(Stream(t))
      /\ Len(Stream(t)) \in Nat /\ Len(Stream(t)) >= 1
      /\ Len(Stream(t)') = Len(Stream(t)) - 1
      /\ Stream(t)[1] = item
      /\ \A i \in 1 .. Len(Stream(t)') : Stream(t)'[i] = Stream(t)[i + 1]
  BY StreamOfConsume
<1>2. Len(plan[t]) = Len(Stream(t)) + 1 /\ plan[t] \in Seq(Seq(Cell))
  BY PlanNonEmpty DEF PlanMatchesStream
<1>3. /\ Len(plan'[t]) = Len(plan[t]) - 1
      /\ \A i \in 1 .. Len(plan'[t]) : plan'[t][i] = plan[t][i + 1]
  <2>1. plan[t] # <<>>
    BY <1>1, <1>2
  <2>2. QED
    BY <1>2, <2>1, HeadTailProperties
<1>4. LastPlan(t)' = LastPlan(t)
  <2>1. Len(plan'[t]) \in 1 .. Len(plan'[t]) /\ Len(plan'[t]) + 1 = Len(plan[t])
    BY <1>1, <1>2, <1>3
  <2>2. plan'[t][Len(plan'[t])] = plan[t][Len(plan[t])]
    BY <1>3, <2>1
  <2>3. QED
    BY <2>2 DEF LastPlan
<1>5. Steps(t)'
  <2> SUFFICES ASSUME NEW i \in 1 .. Len(Stream(t)')
               PROVE  StepOK(t, i)'
    BY DEF Steps
  <2>1. /\ i + 1 \in 1 .. Len(Stream(t)) /\ i \in 1 .. Len(plan'[t]) /\ i + 1 \in 1 .. Len(plan'[t])
    BY <1>1, <1>2, <1>3
  <2>2. StepOK(t, i + 1)
    BY <2>1 DEF Steps
  <2>3. Stream(t)'[i] = Stream(t)[i + 1] /\ plan'[t][i] = plan[t][i + 1] /\ plan'[t][i + 1] = plan[t][i + 1 + 1]
    BY <1>1, <1>3, <2>1
  <2>4. QED
    BY <2>2, <2>3 DEF StepOK
<1>6. PlansFit(t)'
  <2> SUFFICES ASSUME NEW i \in 1 .. Len(plan'[t])
               PROVE  Len(plan'[t][i]) <= Cap(Top)
    BY DEF PlansFit
  <2>1. i + 1 \in 1 .. Len(plan[t]) /\ plan'[t][i] = plan[t][i + 1]
    BY <1>1, <1>2, <1>3
  <2>2. QED
    BY <2>1 DEF PlansFit
<1>7. StepOK(t, 1)
  BY <1>1 DEF Steps
<1>8. 1 \in 1 .. Len(plan'[t]) /\ plan'[t][1] = plan[t][1 + 1]
  BY <1>1, <1>2, <1>3
<1>9. plan[t][1] \in Seq(Cell)
  BY <1>1, <1>2
<1>10. Len(plan'[t][1]) <= Cap(Top)
  BY <1>6, <1>8 DEF PlansFit
<1>11. QED
  BY <1>1, <1>4, <1>5, <1>6, <1>7, <1>8, <1>9, <1>10 DEF StepOK

(* A worker that is not in a callback holds no arguments, so its arguments are intact. *)
LEMMA NoArgsToLose ==
  ASSUME NEW t \in Tasks, call'[t] = NoCall
  PROVE  OwnArgs(t)'
BY DEF OwnArgs, NoCall

(* The steps of worker t leave the posts alone. *)
LEMMA SamePosters ==
  ASSUME NEW t \in Tasks, UNCHANGED post
  PROVE  Posters(t)' = Posters(t) /\ \A c \in Posters(t) : post'[c] = post[c]
BY DEF Posters, Posting

LEMMA StackPushArg ==
  ASSUME TypeOK, Control, NEW t \in Tasks, StackInv(t), PushArg(t)
  PROVE  StackInv(t)'
<1>0. PlanMatchesStream /\ CallWhileRunning
  BY DEF Control
<1>1. /\ pc[t] = "received" /\ item.kind = "arg" /\ pc'[t] = "loop" /\ UNCHANGED <<queue, post, call>>
      /\ plan'[t] = Tail(plan[t]) /\ size'[t] = size[t] + 1
      /\ argsBuffer' = [i \in DOMAIN argsBuffer |->
                          IF i = size[t] THEN <<item.id, item.n>> ELSE argsBuffer[i]]
  BY DEF PushArg, TypeOK
<1>2. /\ LastPlan(t)' = LastPlan(t) /\ Steps(t)' /\ PlansFit(t)'
      /\ plan[t][1] \in Seq(Cell) /\ plan'[t][1] = After(plan[t][1], item)
      /\ Len(plan'[t][1]) <= Cap(Top)
  BY <1>0, <1>1, PlanOfConsume DEF StackInv
<1>3. Heights(t)' /\ OpenPosts(t)'
  <2>1. Posters(t)' = Posters(t) /\ post' = post
    BY <1>1, SamePosters
  <2>2. Heights(t)'
    BY <1>2, <2>1 DEF StackInv, Heights, HeightIs
  <2>3. OpenPosts(t)'
    BY <1>2, <2>1 DEF StackInv, OpenPosts
  <2>4. QED
    BY <2>2, <2>3
<1>4. StackIsPlanned(t)'
  <2>1. /\ size[t] = Len(plan[t][1]) /\ size[t] \in Nat
        /\ \A k \in 1 .. size[t] : argsBuffer[k - 1] = plan[t][1][k]
    BY <1>2, LenProperties DEF StackInv, StackIsPlanned
  <2>2. plan'[t][1] = Append(plan[t][1], <<item.id, item.n>>)
    BY <1>1, <1>2, AfterType DEF TypeOK
  <2>3. /\ Len(plan'[t][1]) = size[t] + 1
        /\ \A k \in 1 .. size[t] : plan'[t][1][k] = plan[t][1][k]
        /\ plan'[t][1][size[t] + 1] = <<item.id, item.n>>
    <3>1. <<item.id, item.n>> \in Cell
      BY DEF TypeOK, Item, Cell
    <3>2. QED
      BY <1>2, <2>1, <2>2, <3>1, AppendProperties
  <2>4. size[t] < BufSize /\ DOMAIN argsBuffer = 0 .. BufSize - 1 /\ BufSize \in Nat
    <3>1. Cap(Top) <= BufSize /\ Cap(Top) \in Nat
      BY BufferAssumption, ContextsBelowTop, CapGrows, ConstantsAssumption DEF Cap, Top
    <3>2. QED
      BY <1>2, <2>1, <2>3, <3>1, ConstantsAssumption, SMTT(30) DEF TypeOK
  <2>5. ASSUME NEW k \in 1 .. size[t] + 1
        PROVE  argsBuffer'[k - 1] = plan'[t][1][k]
    <3>1. k - 1 \in DOMAIN argsBuffer
      BY <2>1, <2>4
    <3>2. CASE k = size[t] + 1
      <4>1. k - 1 = size[t]
        BY <3>2, <2>1
      <4>2. argsBuffer'[k - 1] = <<item.id, item.n>>
        BY <3>1, <4>1, <1>1
      <4>3. QED
        BY <3>2, <4>2, <2>3
    <3>3. CASE k # size[t] + 1
      <4>1. k \in 1 .. size[t] /\ k - 1 # size[t]
        BY <3>3, <2>1
      <4>2. QED
        BY <3>1, <4>1, <1>1, <2>1, <2>3
    <3>4. QED
      BY <3>2, <3>3
  <2>6. QED
    BY <1>1, <2>3, <2>5 DEF StackIsPlanned
<1>5. OwnArgs(t)'
  BY <1>0, <1>1, NoArgsToLose DEF CallWhileRunning
<1>6. QED
  BY <1>2, <1>3, <1>4, <1>5 DEF StackInv

LEMMA StackInvoke ==
  ASSUME TypeOK, Control, NEW t \in Tasks, StackInv(t), Invoke(t)
  PROVE  StackInv(t)'
<1>0. PlanMatchesStream
  BY DEF Control
<1>1. PICK n : n = IF item.kind = "call" THEN item.n ELSE 0
  OBVIOUS
<1>2. /\ pc[t] = "received" /\ item.kind # "arg" /\ pc'[t] = "running"
      /\ UNCHANGED <<queue, post, argsBuffer>>
      /\ plan'[t] = Tail(plan[t]) /\ size'[t] = size[t] - n
      /\ call'[t] = [id |-> item.id, n |-> n, base |-> size[t] - n]
  BY <1>1 DEF Invoke, TypeOK
<1>3. /\ LastPlan(t)' = LastPlan(t) /\ Steps(t)' /\ PlansFit(t)'
      /\ plan[t][1] \in Seq(Cell) /\ plan'[t][1] = After(plan[t][1], item)
      /\ item.kind = "call" =>
           /\ item.n <= Len(plan[t][1])
           /\ \A k \in 1 .. item.n : plan[t][1][Len(plan[t][1]) - item.n + k] = <<item.id, k>>
  BY <1>0, <1>2, PlanOfConsume DEF StackInv
<1>4. Heights(t)' /\ OpenPosts(t)'
  <2>1. Posters(t)' = Posters(t) /\ post' = post
    BY <1>2, SamePosters
  <2>2. Heights(t)'
    BY <1>3, <2>1 DEF StackInv, Heights, HeightIs
  <2>3. OpenPosts(t)'
    BY <1>3, <2>1 DEF StackInv, OpenPosts
  <2>4. QED
    BY <2>2, <2>3
<1>5. /\ size[t] = Len(plan[t][1]) /\ size[t] \in Nat
      /\ \A k \in 1 .. size[t] : argsBuffer[k - 1] = plan[t][1][k]
  BY <1>3, LenProperties DEF StackInv, StackIsPlanned
<1>6. n \in Nat /\ n <= size[t] /\ item.kind \in {"call", "func"}
  BY <1>1, <1>2, <1>3, <1>5 DEF TypeOK, Item, Kinds
<1>7. /\ Len(plan'[t][1]) = size[t] - n
      /\ \A k \in 1 .. size[t] - n : plan'[t][1][k] = plan[t][1][k]
  <2>1. CASE item.kind = "call"
    <3>1. plan'[t][1] = SubSeq(plan[t][1], 1, size[t] - n)
      BY <1>1, <1>3, <1>5, <2>1, AfterType, SMTT(30) DEF TypeOK
    <3>2. size[t] - n \in Nat /\ \A i \in 1 .. size[t] - n : plan[t][1][i] \in Cell
      BY <1>3, <1>5, <1>6
    <3>3. /\ Len(SubSeq(plan[t][1], 1, size[t] - n)) = IF 1 <= size[t] - n THEN (size[t] - n) - 1 + 1 ELSE 0
          /\ \A i \in 1 .. (size[t] - n) - 1 + 1 : SubSeq(plan[t][1], 1, size[t] - n)[i] = plan[t][1][1 + i - 1]
      BY <3>2, SubSeqProperties
    <3>4. QED
      BY <3>1, <3>2, <3>3
  <2>2. CASE item.kind = "func"
    <3>1. n = 0 /\ plan'[t][1] = plan[t][1]
      BY <1>1, <1>3, <2>2, AfterType DEF TypeOK
    <3>2. QED
      BY <3>1, <1>5
  <2>3. QED
    BY <1>6, <2>1, <2>2
<1>8. StackIsPlanned(t)'
  <2>1. \A k \in 1 .. size[t] - n : k \in 1 .. size[t]
    BY <1>5, <1>6
  <2>2. QED
    BY <1>2, <1>5, <1>7, <2>1 DEF StackIsPlanned
<1>9. OwnArgs(t)'
  <2> SUFFICES ASSUME NEW k \in 1 .. n
               PROVE  /\ size[t] - n + k - 1 \in DOMAIN argsBuffer
                      /\ argsBuffer[size[t] - n + k - 1] = <<item.id, k>>
    BY <1>2 DEF OwnArgs
  <2>1. item.kind = "call" /\ n = item.n
    BY <1>1, <1>6
  <2>2. size[t] - n + k \in 1 .. size[t]
    BY <1>5, <1>6, SMTT(30)
  <2>3. plan[t][1][size[t] - n + k] = <<item.id, k>>
    BY <1>3, <1>5, <2>1
  <2>4. argsBuffer[(size[t] - n + k) - 1] = <<item.id, k>>
    BY <1>5, <2>2, <2>3
  <2>5. size[t] <= BufSize
    <3>1. Cap(Top) <= BufSize /\ Cap(Top) \in Nat
      BY BufferAssumption, ContextsBelowTop, CapGrows, ConstantsAssumption DEF Cap, Top
    <3>2. 1 \in 1 .. Len(plan[t])
      BY <1>0, PlanNonEmpty
    <3>3. Len(plan[t][1]) <= Cap(Top)
      BY <3>2 DEF StackInv, PlansFit
    <3>4. QED
      BY <3>1, <3>3, <1>5, ConstantsAssumption
  <2>6. size[t] - n + k - 1 \in 0 .. BufSize - 1
    BY <1>5, <1>6, <2>2, <2>5, ConstantsAssumption
  <2>7. DOMAIN argsBuffer = 0 .. BufSize - 1
    BY DEF TypeOK
  <2>8. size[t] - n + k - 1 = (size[t] - n + k) - 1
    BY <1>5, <1>6
  <2>9. QED
    BY <2>4, <2>6, <2>7, <2>8
<1>10. QED
  BY <1>3, <1>4, <1>8, <1>9 DEF StackInv

(* Whatever the other worker does with its own items, it does not touch an undisturbed stack. *)
LEMMA OtherWorker ==
  ASSUME TypeOK, Control, NEW t \in Tasks, Undisturbed(t), StackInv(t),
         NEW o \in Tasks \ {t}, Receive(o) \/ PushArg(o) \/ Invoke(o) \/ Return(o)
  PROVE  StackInv(t)'
<1>1. /\ UNCHANGED post /\ plan'[t] = plan[t] /\ size'[t] = size[t]
      /\ pc'[t] = pc[t] /\ queue'[t] = queue[t] /\ call'[t] = call[t] /\ Runs(o)
  BY DEF Receive, PushArg, Invoke, Return, TypeOK
<1>2. CASE pc[t] # "received" /\ UNCHANGED argsBuffer
  <2>1. Stream(t)' = Stream(t)
    BY <1>1, <1>2 DEF Stream
  <2>2. StackIsPlanned(t)' /\ OwnArgs(t)'
    BY <1>1, <1>2 DEF StackInv, StackIsPlanned, OwnArgs
  <2>3. QED
    BY <1>1, <2>1, <2>2, SamePosters, StackFrame
<1>3. CASE UNCHANGED <<argsBuffer, item>>
  <2>1. Stream(t)' = Stream(t)
    BY <1>1, <1>3 DEF Stream
  <2>2. StackIsPlanned(t)' /\ OwnArgs(t)'
    BY <1>1, <1>3 DEF StackInv, StackIsPlanned, OwnArgs
  <2>3. QED
    BY <1>1, <2>1, <2>2, SamePosters, StackFrame
<1>4. CASE o = Low /\ (Receive(o) \/ PushArg(o))
  <2>1. Low \notin Dests
    BY <1>4 DEF Undisturbed
  <2>2. queue[Low] = <<>> /\ pc[Low] # "received"
    BY <2>1 DEF Control, UnusedIsIdle
  <2>3. QED
    BY <1>4, <2>2 DEF Receive, PushArg
<1>5. CASE o = High /\ (Receive(o) \/ PushArg(o))
  <2>1. t = Low /\ active = {} /\ pc[Low] = "loop" /\ queue[Low] = <<>>
    BY <1>1, <1>5, ContextsBelowTop DEF Runs, Ready, TypeOK
  <2>2. CASE Receive(o)
    BY <1>2, <2>1, <2>2 DEF Receive
  <2>3. CASE PushArg(o)
    <3>1. Posters(t) = {}
      <4>1. pc[High] # "running" /\ pc[Low] # "running"
        BY <1>5, <2>1, <2>3 DEF PushArg
      <4>2. \A c \in Ctx : ~Posting(c)
        BY <2>1, <4>1 DEF Control, PostersExecute, Ctx
      <4>3. QED
        BY <4>2 DEF Posters
    <3>2. Len(LastPlan(t)) = 0
      <4>1. Len(LastPlan(t)) \in Nat
        BY PlanNonEmpty DEF Control
      <4>2. 0 \in 0 .. Top /\ 0 <= Top /\ Cap(0) = 0
        BY ContextsBelowTop, ConstantsAssumption DEF Cap
      <4>3. Len(LastPlan(t)) <= Cap(0)
        BY <3>1, <4>2 DEF StackInv, Heights, HeightIs
      <4>4. QED
        BY <4>1, <4>2, <4>3
    <3>3. size[t] = 0
      <4>1. Stream(t) = <<>>
        BY <2>1 DEF Stream
      <4>2. Len(plan[t]) = 1
        <5>1. Len(plan[t]) = Len(Stream(t)) + 1
          BY DEF Control, PlanMatchesStream
        <5>2. QED
          BY <4>1, <5>1
      <4>3. QED
        BY <3>2, <4>2 DEF LastPlan, StackInv, StackIsPlanned
    <3>4. StackIsPlanned(t)'
      BY <1>1, <3>3 DEF StackInv, StackIsPlanned
    <3>5. OwnArgs(t)'
      <4>1. call[t] = NoCall
        BY <2>1 DEF Control, CallWhileRunning
      <4>2. QED
        BY <1>1, <4>1, NoArgsToLose
    <3>6. Stream(t)' = Stream(t)
      BY <1>1, <2>1 DEF Stream
    <3>7. QED
      BY <1>1, <3>4, <3>5, <3>6, SamePosters, StackFrame
  <2>4. QED
    BY <1>5, <2>2, <2>3
<1>6. CASE Invoke(o) \/ Return(o)
  BY <1>3, <1>6 DEF Invoke, Return
<1>7. QED
  BY <1>4, <1>5, <1>6

LEMMA StackStep ==
  ASSUME TypeOK, Control, [Next]_vars, NEW t \in Tasks, ~refused'[t], Undisturbed(t), StackInv(t)
  PROVE  StackInv(t)'
<1>0. /\ Tasks \subseteq Ctx /\ Irqs \subseteq Ctx /\ Ctx = Tasks \cup Irqs /\ Ctx \subseteq Int
      /\ \A i \in Irqs, c \in Tasks : c < i
      /\ PlanMatchesStream /\ PostersExecute
  BY ConstantsAssumption DEF Control, Ctx, Irqs
<1>1. ASSUME NEW i \in Irqs, NEW to \in Tasks, NEW n \in 0 .. MaxArgs, AddToFromISR(i, to, n)
      PROVE  StackInv(t)'
  <2>1. \A b \in Ctx : Posting(b) => b < i
    <3> SUFFICES ASSUME NEW b \in Ctx, Posting(b) PROVE b < i
      OBVIOUS
    <3>1. b # i
      BY <1>1 DEF AddToFromISR
    <3>2. b \in Irqs => b <= i
      BY <1>0, <1>1 DEF AddToFromISR, PostersExecute
    <3>3. QED
      BY <1>0, <3>1, <3>2
  <2>2. /\ BeginPost(i, to, "call", n) /\ UNCHANGED <<plan, size, argsBuffer, call>>
        /\ Stream(t)' = Stream(t)
    BY <1>1 DEF AddToFromISR, Stream
  <2>3. QED
    BY <1>0, <2>1, <2>2, StackBegin
<1>2. ASSUME NEW c \in Tasks, NEW to \in Tasks, NEW kind \in {"call", "func"},
             NEW n \in 0 .. MaxArgs, AddTo(c, to, kind, n) \/ ExecuteTimer(c, to, kind, n)
      PROVE  StackInv(t)'
  <2>1. ~Posting(c) /\ Runs(c)
    BY <1>0, <1>2 DEF AddTo, ExecuteTimer, PostersExecute
  <2>2. \A b \in Ctx : Posting(b) => b < c
    BY <1>0, <2>1, HighestPoster
  <2>3. BeginPost(c, to, kind, n) /\ UNCHANGED <<plan, size, argsBuffer, call>>
    BY <1>2 DEF AddTo, ExecuteTimer
  <2>4. Stream(t)' = Stream(t)
    BY <1>2 DEF AddTo, ExecuteTimer, Stream, TypeOK
  <2>5. QED
    BY <1>0, <2>2, <2>3, <2>4, StackBegin
<1>3. ASSUME NEW c \in Ctx, Send(c)
      PROVE  StackInv(t)'
  BY <1>3, StackSend
<1>4. ASSUME NEW i \in Irqs, ReturnFromISR(i)
      PROVE  StackInv(t)'
  <2>1. UNCHANGED <<post, plan, size, argsBuffer, call>> /\ Stream(t)' = Stream(t)
    BY <1>4 DEF ReturnFromISR, Stream
  <2>2. StackIsPlanned(t)' /\ OwnArgs(t)'
    BY <2>1 DEF StackInv, StackIsPlanned, OwnArgs
  <2>3. QED
    BY <2>1, <2>2, SamePosters, StackFrame
<1>5. ASSUME NEW o \in Tasks \ {t}, Receive(o) \/ PushArg(o) \/ Invoke(o) \/ Return(o)
      PROVE  StackInv(t)'
  BY <1>5, OtherWorker
<1>6. CASE Receive(t)
  <2>1. UNCHANGED <<post, plan, size, argsBuffer, call>>
    BY <1>6 DEF Receive
  <2>2. StackIsPlanned(t)' /\ OwnArgs(t)'
    BY <2>1 DEF StackInv, StackIsPlanned, OwnArgs
  <2>3. QED
    BY <1>6, <2>1, <2>2, SamePosters, StreamOfReceive, StackFrame
<1>7. CASE PushArg(t)
  BY <1>7, StackPushArg
<1>8. CASE Invoke(t)
  BY <1>8, StackInvoke
<1>9. CASE Return(t)
  <2>1. UNCHANGED <<post, plan, size, argsBuffer, queue, item>> /\ call'[t] = NoCall
    BY <1>9 DEF Return, TypeOK
  <2>2. Stream(t)' = Stream(t)
    BY <1>9, <2>1 DEF Return, Stream, TypeOK
  <2>3. StackIsPlanned(t)'
    BY <2>1 DEF StackInv, StackIsPlanned
  <2>4. QED
    BY <2>1, <2>2, <2>3, SamePosters, NoArgsToLose, StackFrame
<1>10. CASE UNCHANGED vars
  <2>1. UNCHANGED <<post, plan, size, argsBuffer, call>> /\ Stream(t)' = Stream(t)
    BY <1>10 DEF vars, Stream
  <2>2. StackIsPlanned(t)' /\ OwnArgs(t)'
    BY <2>1, SMTT(30) DEF StackInv, StackIsPlanned, OwnArgs
  <2>3. QED
    BY <2>1, <2>2, SamePosters, StackFrame
<1>11. QED
  BY <1>1, <1>2, <1>3, <1>4, <1>5, <1>6, <1>7, <1>8, <1>9, <1>10 DEF Next, Arrive, Work

(* Once a send to a level was refused, that stays recorded. *)
LEMMA RefusedStays ==
  ASSUME TypeOK, [Next]_vars, NEW t \in Tasks, refused[t]
  PROVE  refused'[t]
BY DEF TypeOK, Next, Arrive, Work, vars, AddToFromISR, AddTo, ExecuteTimer, Send, ReturnFromISR,
       Receive, PushArg, Invoke, Return

LEMMA StepIInv == IInv /\ [Next]_vars => IInv'
<1> SUFFICES ASSUME IInv, [Next]_vars PROVE IInv'
  OBVIOUS
<1>1. TypeOK /\ Control
  BY DEF IInv
<1>2. TypeOK' /\ Control'
  BY <1>1, TypeStep, ControlStep
<1>3. ASSUME NEW t \in Tasks, Undisturbed(t), ~refused'[t]
      PROVE  StackInv(t)'
  <2>1. StackInv(t)
    BY <1>1, <1>3, RefusedStays DEF IInv
  <2>2. QED
    BY <1>1, <1>3, <2>1, StackStep
<1>4. QED
  BY <1>2, <1>3 DEF IInv, Undisturbed

(* IInv is an invariant of Worker. *)
THEOREM InvariantHolds == Spec => []IInv
<1>1. Init => IInv
  BY InitIInv
<1>2. IInv /\ [Next]_vars => IInv'
  BY StepIInv
<1>3. QED
  BY <1>1, <1>2, PTL DEF Spec

(***************************************************************************)
(* The callback that runs on an undisturbed level reads its own arguments, *)
(* for every number of interrupt priorities, arguments and calls and every *)
(* length of the queues.                                                   *)
(***************************************************************************)
THEOREM ArgumentsIntact == Spec => []ArgsIntact
<1>1. IInv => ArgsIntact
  BY DEF IInv, StackInv, ArgsIntact
<1>2. QED
  BY <1>1, InvariantHolds, PTL

(***************************************************************************)
(* The argument stack of an undisturbed level neither overflows nor        *)
(* underflows: the assertion of worker.cpp:151 cannot fail while no queue  *)
(* overflows.                                                              *)
(***************************************************************************)
THEOREM BufferLargeEnough == Spec => []StackInBounds
<1>1. IInv => StackInBounds
  <2> SUFFICES ASSUME IInv, NEW t \in Tasks, Undisturbed(t), ~refused[t], pc[t] = "received"
               PROVE  /\ item.kind = "arg" => size[t] < BufSize
                      /\ item.kind = "call" => size[t] >= item.n
    BY DEF StackInBounds
  <2>1. TypeOK /\ PlanMatchesStream /\ StackInv(t) /\ item \in Item
    BY DEF IInv, Control, TypeOK
  <2>2. queue[t] \in Seq(Item) /\ Stream(t) = <<item>> \o queue[t]
    BY <2>1 DEF Stream, TypeOK
  <2>3. Len(Stream(t)) \in Nat /\ Len(Stream(t)) >= 1 /\ Stream(t)[1] = item
    BY <2>1, <2>2
  <2>4. StepOK(t, 1)
    BY <2>1, <2>3 DEF StackInv, Steps
  <2>5. plan[t] \in Seq(Seq(Cell)) /\ Len(plan[t]) = Len(Stream(t)) + 1
    BY <2>1, PlanNonEmpty DEF PlanMatchesStream
  <2>6. 1 + 1 \in 1 .. Len(plan[t]) /\ plan[t][1] \in Seq(Cell)
    BY <2>3, <2>5
  <2>7. size[t] = Len(plan[t][1]) /\ size[t] \in Nat
    BY <2>1, <2>6, LenProperties DEF StackInv, StackIsPlanned
  <2>8. ASSUME item.kind = "arg" PROVE size[t] < BufSize
    <3>1. plan[t][1 + 1] = Append(plan[t][1], <<item.id, item.n>>)
      BY <2>1, <2>3, <2>4, <2>6, <2>8, AfterType DEF StepOK
    <3>2. <<item.id, item.n>> \in Cell
      BY <2>1 DEF Item, Cell
    <3>3. Len(plan[t][1 + 1]) = size[t] + 1
      BY <2>6, <2>7, <3>1, <3>2, AppendProperties
    <3>4. Len(plan[t][1 + 1]) <= Cap(Top)
      BY <2>1, <2>6 DEF StackInv, PlansFit
    <3>5. Cap(Top) <= BufSize /\ Cap(Top) \in Nat
      BY BufferAssumption, ContextsBelowTop, CapGrows, ConstantsAssumption DEF Cap, Top
    <3>6. QED
      BY <2>7, <3>3, <3>4, <3>5, ConstantsAssumption
  <2>9. ASSUME item.kind = "call" PROVE size[t] >= item.n
    BY <2>3, <2>4, <2>7, <2>9, <2>1 DEF StepOK, Item
  <2>10. QED
    BY <2>8, <2>9
<1>2. QED
  BY <1>1, InvariantHolds, PTL

(* No argument is left on the stack of a level that has nothing to do. *)
THEOREM StackDrains == Spec => []NothingLeftBehind
<1>1. IInv => NothingLeftBehind
  <2> SUFFICES ASSUME IInv, NEW t \in Tasks, Undisturbed(t), ~refused[t], pc[t] # "received",
                      queue[t] = <<>>, \A c \in Ctx : Posting(c) => post[c].to # t
               PROVE  size[t] = 0
    BY DEF NothingLeftBehind
  <2>1. TypeOK /\ PlanMatchesStream /\ StackInv(t)
    BY DEF IInv, Control
  <2>2. Posters(t) = {}
    BY DEF Posters
  <2>3. Len(plan[t]) = 1
    <3>1. Stream(t) = <<>>
      BY DEF Stream
    <3>2. Len(plan[t]) = Len(Stream(t)) + 1
      BY <2>1 DEF PlanMatchesStream
    <3>3. QED
      BY <3>1, <3>2
  <2>4. Len(LastPlan(t)) \in Nat /\ 0 \in 0 .. Top /\ 0 <= Top /\ Cap(0) = 0
    BY <2>1, PlanNonEmpty, ContextsBelowTop, ConstantsAssumption DEF Cap
  <2>5. Len(LastPlan(t)) <= Cap(0)
    BY <2>1, <2>2, <2>4 DEF StackInv, Heights, HeightIs
  <2>6. QED
    BY <2>1, <2>3, <2>4, <2>5 DEF LastPlan, StackInv, StackIsPlanned
<1>2. QED
  BY <1>1, InvariantHolds, PTL

-----------------------------------------------------------------------------
(* Induction, in a form without an operator as parameter: what is not empty has a least number. *)
LEMMA Least ==
  ASSUME NEW T, T \subseteq Nat, T # {}
  PROVE  \E x \in T : \A y \in T : x <= y
<1> DEFINE Below == {p \in Nat \X Nat : p[1] < p[2]}
<1>1. OpToRel(<, Nat) = Below
  BY Zenon DEF OpToRel
<1>2. IsWellFoundedOn(Below, Nat)
  BY <1>1, NatLessThanWellFounded, Zenon
<1> HIDE DEF Below
<1>3. PICK x \in T : \A y \in T : <<y, x>> \notin Below
  BY <1>2, WFMin, Zenon
<1>4. ASSUME NEW y \in T PROVE x <= y
  <2>1. <<y, x>> \in Nat \X Nat /\ ~(<<y, x>>[1] < <<y, x>>[2])
    BY <1>3 DEF Below
  <2>2. x \in Nat /\ y \in Nat
    OBVIOUS
  <2>3. QED
    BY <2>1, <2>2
<1>5. QED
  BY <1>4

LEMMA Counting ==
  ASSUME NEW n \in Nat, NEW T, 0 \in T, \A i \in 1 .. n : i - 1 \in T => i \in T
  PROVE  \A i \in 0 .. n : i \in T
<1> DEFINE Missing == {i \in 0 .. n : i \notin T}
<1> SUFFICES ASSUME Missing # {} PROVE FALSE
  OBVIOUS
<1>1. PICK i \in Missing : \A j \in Missing : i <= j
  <2>1. Missing \subseteq Nat
    OBVIOUS
  <2>2. QED
    BY <2>1, Least
<1>2. i \in 1 .. n /\ i - 1 \in 0 .. n /\ i - 1 \notin Missing
  BY <1>1
<1>3. QED
  BY <1>1, <1>2

(***************************************************************************)
(* The messages that a stream of items announces.  f lists those of the    *)
(* first items, up to n.                                                   *)
(***************************************************************************)
Message(it) == [id |-> it.id, n |-> it.n]

Messages == [id : 0 .. MaxCalls, n : 0 .. MaxArgs]

Lists(f, s, n) ==
  f = [i \in 0 .. n |->
         IF i = 0 THEN <<>>
         ELSE IF s[i].kind = "arg" THEN f[i - 1]
         ELSE Append(f[i - 1], [id |-> s[i].id, n |-> s[i].n])]

LEMMA ListsExist ==
  ASSUME NEW s, NEW n \in Nat
  PROVE  \E f : Lists(f, s, n)
<1> DEFINE T == {k \in 0 .. n : \E f : Lists(f, s, k)}
<1>1. 0 \in T
  <2>1. Lists([i \in 0 .. 0 |-> <<>>], s, 0)
    BY DEF Lists
  <2>2. QED
    BY <2>1
<1>2. ASSUME NEW k \in 1 .. n, k - 1 \in T PROVE k \in T
  <2>1. PICK f : Lists(f, s, k - 1)
    BY <1>2
  <2>2. \A i \in 0 .. k - 1 :
          f[i] = IF i = 0 THEN <<>>
                 ELSE IF s[i].kind = "arg" THEN f[i - 1]
                 ELSE Append(f[i - 1], [id |-> s[i].id, n |-> s[i].n])
    BY <2>1 DEF Lists
  <2> DEFINE g == [i \in 0 .. k |->
                     IF i < k THEN f[i]
                     ELSE IF s[i].kind = "arg" THEN f[i - 1]
                     ELSE Append(f[i - 1], [id |-> s[i].id, n |-> s[i].n])]
  <2>3. Lists(g, s, k)
    BY <2>2 DEF Lists
  <2>4. QED
    BY <2>3
<1> HIDE DEF T
<1>3. n \in T
  BY <1>1, <1>2, Counting
<1>4. QED
  BY <1>3 DEF T

LEMMA AppendConcat ==
  \A a, b \in Seq(Messages), m \in Messages : Append(a \o b, m) = a \o Append(b, m)
OBVIOUS

LEMMA AnnouncedIsListed ==
  ASSUME NEW s \in Seq(Item)
  PROVE  \E f : Lists(f, s, Len(s)) /\ Announced(s) = f[Len(s)]
<1>1. Len(s) \in Nat
  OBVIOUS
<1>2. QED
  BY <1>1, ListsExist DEF Lists, Announced

LEMMA ListsStep ==
  ASSUME NEW f, NEW s, NEW n \in Nat, Lists(f, s, n)
  PROVE  /\ f[0] = <<>>
         /\ \A i \in 1 .. n :
              f[i] = IF s[i].kind = "arg" THEN f[i - 1]
                     ELSE Append(f[i - 1], Message(s[i]))
<1>1. \A i \in 0 .. n :
        f[i] = IF i = 0 THEN <<>>
               ELSE IF s[i].kind = "arg" THEN f[i - 1]
               ELSE Append(f[i - 1], Message(s[i]))
  BY DEF Lists, Message
<1>2. QED
  BY <1>1

LEMMA ListsType ==
  ASSUME NEW s \in Seq(Item), NEW f, Lists(f, s, Len(s))
  PROVE  \A i \in 0 .. Len(s) : f[i] \in Seq(Messages)
<1> DEFINE T == {i \in 0 .. Len(s) : f[i] \in Seq(Messages)}
<1>0. Len(s) \in Nat
  OBVIOUS
<1>1. 0 \in T
  <2>1. f[0] = <<>>
    BY <1>0, ListsStep
  <2>2. <<>> \in Seq(Messages)
    OBVIOUS
  <2>3. 0 \in 0 .. Len(s)
    BY <1>0
  <2>4. QED
    BY <2>1, <2>2, <2>3
<1>2. ASSUME NEW i \in 1 .. Len(s), i - 1 \in T PROVE i \in T
  <2>1. s[i] \in Item
    BY <1>0
  <2>2. Message(s[i]) \in Messages
    BY <2>1 DEF Item, Message, Messages
  <2>3. f[i] = IF s[i].kind = "arg" THEN f[i - 1] ELSE Append(f[i - 1], Message(s[i]))
    BY <1>0, ListsStep
  <2>4. f[i - 1] \in Seq(Messages) /\ i \in 0 .. Len(s)
    BY <1>0, <1>2
  <2>5. f[i] \in Seq(Messages)
    BY <2>2, <2>3, <2>4, AppendProperties
  <2>6. QED
    BY <2>4, <2>5
<1> HIDE DEF T
<1>3. \A i \in 0 .. Len(s) : i \in T
  BY <1>0, <1>1, <1>2, Counting
<1>4. QED
  BY <1>3 DEF T

LEMMA AnnouncedType ==
  ASSUME NEW s \in Seq(Item)
  PROVE  Announced(s) \in Seq(Messages)
<1>1. Len(s) \in Nat
  OBVIOUS
<1>2. QED
  BY <1>1, AnnouncedIsListed, ListsType

(* An item more at the end *)
LEMMA AnnouncedAppend ==
  ASSUME NEW s \in Seq(Item), NEW it \in Item
  PROVE  Announced(Append(s, it)) =
           IF it.kind = "arg" THEN Announced(s) ELSE Append(Announced(s), Message(it))
<1> DEFINE r == Append(s, it)
<1>1. /\ r \in Seq(Item) /\ Len(s) \in Nat /\ Len(r) = Len(s) + 1
      /\ r[Len(s) + 1] = it /\ \A i \in 1 .. Len(s) : r[i] = s[i]
  OBVIOUS
<1>2. PICK f : Lists(f, s, Len(s)) /\ Announced(s) = f[Len(s)]
  BY AnnouncedIsListed
<1>3. PICK g : Lists(g, r, Len(r)) /\ Announced(r) = g[Len(r)]
  BY <1>1, AnnouncedIsListed
<1> HIDE DEF r
<1> DEFINE T == {i \in 0 .. Len(s) : f[i] = g[i]}
<1>4. \A i \in 0 .. Len(s) : i \in T
  <2>1. 0 \in T
    <3>1. f[0] = <<>> /\ g[0] = <<>>
      BY <1>1, <1>2, <1>3, ListsStep
    <3>2. QED
      BY <1>1, <3>1
  <2>2. ASSUME NEW i \in 1 .. Len(s), i - 1 \in T PROVE i \in T
    <3>1. f[i] = IF s[i].kind = "arg" THEN f[i - 1] ELSE Append(f[i - 1], Message(s[i]))
      BY <1>1, <1>2, ListsStep
    <3>2. i \in 1 .. Len(r) /\ r[i] = s[i]
      BY <1>1
    <3>3. g[i] = IF r[i].kind = "arg" THEN g[i - 1] ELSE Append(g[i - 1], Message(r[i]))
      BY <1>1, <1>3, <3>2, ListsStep
    <3>4. QED
      BY <1>1, <2>2, <3>1, <3>2, <3>3
  <2> HIDE DEF T
  <2>3. QED
    BY <1>1, <2>1, <2>2, Counting
<1>5. f[Len(s)] = g[Len(s)]
  BY <1>1, <1>4
<1>6. g[Len(r)] = IF r[Len(r)].kind = "arg" THEN g[Len(r) - 1] ELSE Append(g[Len(r) - 1], Message(r[Len(r)]))
  BY <1>1, <1>3, ListsStep
<1>7. QED
  BY <1>1, <1>2, <1>3, <1>5, <1>6 DEF r

(* An item less at the front *)
LEMMA AnnouncedTail ==
  ASSUME NEW s \in Seq(Item), s # <<>>
  PROVE  Announced(s) =
           IF s[1].kind = "arg" THEN Announced(Tail(s)) ELSE <<Message(s[1])>> \o Announced(Tail(s))
<1> DEFINE r     == Tail(s)
           first == IF s[1].kind = "arg" THEN <<>> ELSE <<Message(s[1])>>
<1>1. /\ r \in Seq(Item) /\ Len(s) \in Nat /\ Len(s) = Len(r) + 1 /\ Len(r) \in Nat
      /\ s[1] \in Item /\ \A i \in 1 .. Len(r) : r[i] = s[i + 1] /\ r[i] \in Item
  OBVIOUS
<1>2. PICK f : Lists(f, s, Len(s)) /\ Announced(s) = f[Len(s)]
  BY AnnouncedIsListed
<1>3. PICK g : Lists(g, r, Len(r)) /\ Announced(r) = g[Len(r)]
  BY <1>1, AnnouncedIsListed
<1> HIDE DEF r
<1>4. first \in Seq(Messages)
  <2>1. Message(s[1]) \in Messages
    BY <1>1 DEF Item, Message, Messages
  <2>2. QED
    BY <2>1
<1>5. f[1] = first
  <2>1. f[1] = IF s[1].kind = "arg" THEN f[0] ELSE Append(f[0], Message(s[1]))
    <3>1. 1 \in 1 .. Len(s) /\ 1 - 1 = 0
      BY <1>1
    <3>2. f[1] = IF s[1].kind = "arg" THEN f[1 - 1] ELSE Append(f[1 - 1], Message(s[1]))
      BY <1>1, <1>2, <3>1, ListsStep
    <3>3. QED
      BY <3>1, <3>2
  <2>2. f[0] = <<>>
    BY <1>1, <1>2, ListsStep
  <2>3. QED
    BY <2>1, <2>2
<1> HIDE DEF first
<1> DEFINE T == {i \in 0 .. Len(r) : f[i + 1] = first \o g[i]}
<1>6. \A i \in 0 .. Len(r) : i \in T
  <2>1. 0 \in T
    <3>1. g[0] = <<>>
      BY <1>1, <1>3, ListsStep
    <3>2. first \o <<>> = first
      BY <1>4
    <3>3. 0 + 1 = 1 /\ 0 \in 0 .. Len(r)
      BY <1>1
    <3>4. QED
      BY <1>5, <3>1, <3>2, <3>3
  <2>2. ASSUME NEW i \in 1 .. Len(r), i - 1 \in T PROVE i \in T
    <3>1. /\ i + 1 \in 1 .. Len(s) /\ (i - 1) + 1 = i /\ (i + 1) - 1 = i
          /\ i \in 0 .. Len(r) /\ i - 1 \in 0 .. Len(r)
      BY <1>1
    <3>2. f[i] = first \o g[i - 1] /\ r[i] = s[i + 1] /\ r[i] \in Item
      BY <1>1, <2>2, <3>1
    <3>3. f[i + 1] = IF s[i + 1].kind = "arg" THEN f[(i + 1) - 1]
                     ELSE Append(f[(i + 1) - 1], Message(s[i + 1]))
      BY <1>1, <1>2, <3>1, ListsStep
    <3>4. g[i] = IF r[i].kind = "arg" THEN g[i - 1] ELSE Append(g[i - 1], Message(r[i]))
      BY <1>1, <1>3, ListsStep
    <3>5. g[i - 1] \in Seq(Messages)
      BY <1>1, <1>3, <3>1, ListsType
    <3>6. Message(r[i]) \in Messages
      BY <3>2 DEF Item, Message, Messages
    <3>7. Append(first \o g[i - 1], Message(r[i])) = first \o Append(g[i - 1], Message(r[i]))
      <4>1. PICK b \in Seq(Messages), m \in Messages : b = g[i - 1] /\ m = Message(r[i])
        BY <3>5, <3>6
      <4>2. Append(first \o b, m) = first \o Append(b, m)
        BY <1>4, AppendConcat, Zenon
      <4>3. QED
        BY <4>1, <4>2
    <3>8. f[i + 1] = first \o g[i]
      BY <3>1, <3>2, <3>3, <3>4, <3>7
    <3>9. QED
      BY <3>1, <3>8
  <2> HIDE DEF T
  <2>3. QED
    BY <1>1, <2>1, <2>2, Counting
<1>7. f[Len(s)] = first \o g[Len(r)]
  BY <1>1, <1>6
<1>8. Announced(r) \in Seq(Messages)
  BY <1>1, AnnouncedType
<1>9. <<>> \o Announced(r) = Announced(r)
  BY <1>8
<1>10. Announced(s) = first \o Announced(r)
  BY <1>2, <1>3, <1>7
<1>11. QED
  BY <1>9, <1>10 DEF r, first

-----------------------------------------------------------------------------
(* Numbers *)

LEMMA ContextSets ==
  /\ Tasks \subseteq Ctx /\ Irqs \subseteq Ctx
  /\ \A c \in Ctx : c \in Tasks \/ c \in Irqs
  BY DEF Ctx

LEMMA BeginNumbers ==
  ASSUME TypeOK, CallsNumbered, NEW c \in Ctx, ~Posting(c), NEW to, NEW kind, NEW n,
         BeginPost(c, to, kind, n), UNCHANGED accepted
  PROVE  CallsNumbered'
<1>1. /\ post' = [post EXCEPT ![c] = post'[c]] /\ post'[c].id = calls + 1 /\ calls' = calls + 1
      /\ calls \in Nat
  BY ConstantsAssumption DEF BeginPost, TypeOK
<1>2. \A b \in Ctx \ {c} : post'[b] = post[b]
  BY <1>1 DEF TypeOK
<1>3. \A b \in Ctx \ {c} : Posting(b)' => post[b].id <= calls /\ Posting(b)
  BY <1>2 DEF Posting, CallsNumbered
<1>4. \A b \in Ctx : post[b].id \in Nat
  BY ConstantsAssumption DEF TypeOK, Post
<1>5. \A t \in Tasks : \A id \in accepted[t] : id <= calls /\ id \in Nat
  BY ConstantsAssumption DEF CallsNumbered, TypeOK, Ids
<1>6. ASSUME NEW b \in Ctx, Posting(b)'
      PROVE  post'[b].id <= calls' /\ \A t \in Tasks : post'[b].id \notin accepted'[t]
  BY <1>1, <1>2, <1>3, <1>4, <1>5, <1>6 DEF CallsNumbered
<1>7. ASSUME NEW b \in Ctx, NEW d \in Ctx, Posting(b)', Posting(d)', b # d
      PROVE  post'[b].id # post'[d].id
  BY <1>1, <1>2, <1>3, <1>4, <1>7 DEF CallsNumbered
<1>8. \A t \in Tasks : \A id \in accepted'[t] : id <= calls'
  BY <1>1, <1>5
<1>9. QED
  BY <1>6, <1>7, <1>8 DEF CallsNumbered

LEMMA SendNumbers ==
  ASSUME TypeOK, CallsNumbered, NEW c \in Ctx, Send(c)
  PROVE  CallsNumbered'
<1>1. /\ Posting(c) /\ calls' = calls /\ post[c] \in Post
      /\ \A b \in Ctx \ {c} : post'[b] = post[b]
      /\ post'[c] = Advance(post[c]) \/ post'[c] = NoPost
  BY DEF Send, TypeOK
<1>2. Posting(c)' => post'[c].id = post[c].id
  BY <1>1 DEF Posting, Advance, NoPost, Post
<1>3. \A b \in Ctx : Posting(b)' => Posting(b) /\ post'[b].id = post[b].id
  BY <1>1, <1>2 DEF Posting
<1>4. accepted' = accepted
      \/ (post'[c] = NoPost /\ accepted' = [accepted EXCEPT ![post[c].to] = @ \cup {post[c].id}])
  BY DEF Send, TypeOK
<1>5. CASE accepted' = accepted
  BY <1>1, <1>3, <1>5 DEF CallsNumbered
<1>6. CASE post'[c] = NoPost /\ accepted' = [accepted EXCEPT ![post[c].to] = @ \cup {post[c].id}]
  <2>1. ~Posting(c)'
    BY <1>6 DEF Posting, NoPost
  <2>2. \A t \in Tasks : accepted'[t] \subseteq accepted[t] \cup {post[c].id}
    BY <1>6 DEF TypeOK
  <2>3. \A b \in Ctx : Posting(b)' => b # c
    BY <2>1
  <2>4. QED
    BY <1>1, <1>3, <2>2, <2>3 DEF CallsNumbered
<1>7. QED
  BY <1>4, <1>5, <1>6

LEMMA NumbersStep == TypeOK /\ Control /\ CallsNumbered /\ [Next]_vars => CallsNumbered'
<1> SUFFICES ASSUME TypeOK, Control, CallsNumbered, [Next]_vars PROVE CallsNumbered'
  OBVIOUS
<1>1. ASSUME NEW i \in Irqs, NEW to \in Tasks, NEW n \in 0 .. MaxArgs, AddToFromISR(i, to, n)
      PROVE  CallsNumbered'
  BY <1>1, BeginNumbers, ContextSets DEF AddToFromISR
<1>2. ASSUME NEW c \in Tasks, NEW to \in Tasks, NEW kind \in {"call", "func"},
             NEW n \in 0 .. MaxArgs, AddTo(c, to, kind, n) \/ ExecuteTimer(c, to, kind, n)
      PROVE  CallsNumbered'
  <2>1. c \in Ctx /\ ~Posting(c)
    BY <1>2, ContextSets DEF AddTo, ExecuteTimer, Control, PostersExecute
  <2>2. BeginPost(c, to, kind, n) /\ UNCHANGED accepted
    BY <1>2 DEF AddTo, ExecuteTimer
  <2>3. QED
    BY <2>1, <2>2, BeginNumbers
<1>3. ASSUME NEW c \in Ctx, Send(c)
      PROVE  CallsNumbered'
  BY <1>3, SendNumbers
<1>4. CASE UNCHANGED <<post, calls, accepted>>
  BY <1>4 DEF CallsNumbered, Posting
<1>5. ASSUME NEW i \in Irqs, ReturnFromISR(i)
      PROVE  CallsNumbered'
  BY <1>4, <1>5 DEF ReturnFromISR
<1>6. ASSUME NEW t \in Tasks, Receive(t) \/ PushArg(t) \/ Invoke(t) \/ Return(t)
      PROVE  CallsNumbered'
  BY <1>4, <1>6 DEF Receive, PushArg, Invoke, Return
<1>7. UNCHANGED vars => CallsNumbered'
  BY <1>4, SMTT(30) DEF vars
<1>8. QED
  BY <1>1, <1>2, <1>3, <1>5, <1>6, <1>7 DEF Next, Arrive, Work

LEMMA FunctionsStep == TypeOK /\ Control /\ FunctionsTakeNone /\ [Next]_vars => FunctionsTakeNone'
<1> SUFFICES ASSUME TypeOK, Control, FunctionsTakeNone, [Next]_vars PROVE FunctionsTakeNone'
  OBVIOUS
<1>1. \A t \in Tasks : queue[t] \in Seq(Item)
  BY DEF TypeOK
<1>2. CASE UNCHANGED <<queue, item>>
  BY <1>2 DEF FunctionsTakeNone
<1>3. ASSUME NEW c \in Ctx, Send(c), ~ UNCHANGED queue
      PROVE  FunctionsTakeNone'
  <2>1. PICK p : p = post[c]
    OBVIOUS
  <2>2. p \in Post /\ p.to \in Tasks /\ p.next - 1 <= p.n /\ (p.kind = "func" => p.n = 0)
    BY <1>3, <2>1 DEF Send, TypeOK, Post, Control, PostersExecute, Sent
  <2>3. queue' = [queue EXCEPT ![p.to] = Append(@, NextItem(p))] /\ UNCHANGED item
    BY <1>3, <2>1 DEF Send, Enqueue
  <2>4. NextItem(p).kind = "func" => NextItem(p).n = 0
    BY <2>2 DEF NextItem, Post
  <2>5. NextItem(p) \in Item
    BY <2>2, NextItemType
  <2>6. ASSUME NEW t \in Tasks, NEW i \in DOMAIN queue'[t]
        PROVE  queue'[t][i] = NextItem(p) \/ (i \in DOMAIN queue[t] /\ queue'[t][i] = queue[t][i])
    <3>1. CASE t = p.to
      <4>1. queue'[t] = Append(queue[t], NextItem(p))
        BY <2>2, <2>3, <3>1 DEF TypeOK
      <4>2. QED
        BY <1>1, <2>5, <2>6, <4>1
    <3>2. CASE t # p.to
      BY <2>3, <2>6, <3>2 DEF TypeOK
    <3>3. QED
      BY <3>1, <3>2
  <2>7. QED
    BY <2>3, <2>4, <2>6 DEF FunctionsTakeNone
<1>4. ASSUME NEW o \in Tasks, Receive(o)
      PROVE  FunctionsTakeNone'
  <2>1. /\ queue[o] # <<>> /\ item' = Head(queue[o]) /\ queue'[o] = Tail(queue[o])
        /\ \A t \in Tasks \ {o} : queue'[t] = queue[t]
    BY <1>4 DEF Receive, TypeOK
  <2>2. item' = queue[o][1] /\ 1 \in DOMAIN queue[o]
    BY <1>1, <2>1
  <2>3. \A i \in DOMAIN queue'[o] : i + 1 \in DOMAIN queue[o] /\ queue'[o][i] = queue[o][i + 1]
    BY <1>1, <2>1
  <2>4. item'.kind = "func" => item'.n = 0
    BY <2>2 DEF FunctionsTakeNone
  <2>5. ASSUME NEW i \in DOMAIN queue'[o], queue'[o][i].kind = "func" PROVE queue'[o][i].n = 0
    <3>1. PICK j \in DOMAIN queue[o] : queue'[o][i] = queue[o][j]
      BY <2>3
    <3>2. QED
      BY <2>5, <3>1 DEF FunctionsTakeNone
  <2>6. ASSUME NEW t \in Tasks \ {o}, NEW i \in DOMAIN queue'[t], queue'[t][i].kind = "func"
        PROVE  queue'[t][i].n = 0
    BY <2>1, <2>6 DEF FunctionsTakeNone
  <2>7. QED
    BY <2>4, <2>5, <2>6 DEF FunctionsTakeNone
<1>5. QED
  BY <1>2, <1>3, <1>4 DEF Next, Arrive, Work, vars, AddToFromISR, AddTo, ExecuteTimer, Send, ReturnFromISR,
     PushArg, Invoke, Return

-----------------------------------------------------------------------------
(* What a step is to the mailbox of level t *)

IdleCall == [id |-> 0, args |-> <<>>]

Quiet(t) == accepted'[t] = accepted[t] /\ Inbox(t)' = Inbox(t) /\ Running(t)' = Running(t)

Accepts(t, id, n) ==
  /\ id \notin accepted[t]
  /\ accepted'[t] = accepted[t] \cup {id}
  /\ Inbox(t)' = Append(Inbox(t), [id |-> id, n |-> n])
  /\ Running(t)' = Running(t)

Starts(t) ==
  /\ Running(t) = IdleCall
  /\ Inbox(t) # <<>>
  /\ Running(t)' = [id   |-> Head(Inbox(t)).id,
                    args |-> [k \in 1 .. Head(Inbox(t)).n |-> <<Head(Inbox(t)).id, k>>]]
  /\ Inbox(t)' = Tail(Inbox(t))
  /\ accepted'[t] = accepted[t]

Finishes(t) ==
  /\ Running(t) # IdleCall
  /\ Running(t)' = IdleCall
  /\ Inbox(t)' = Inbox(t)
  /\ accepted'[t] = accepted[t]

MailboxStep(t) ==
  \/ Quiet(t)
  \/ \E id \in Ids, n \in 0 .. MaxArgs : Accepts(t, id, n)
  \/ Starts(t)
  \/ Finishes(t)

LEMMA NothingRuns == \A t \in Tasks : call[t] = NoCall => Running(t) = IdleCall
<1> SUFFICES ASSUME NEW t \in Tasks, call[t] = NoCall PROVE Running(t) = IdleCall
  OBVIOUS
<1>1. call[t].id = 0 /\ call[t].n = 0
  BY DEF NoCall
<1>2. ASSUME NEW f PROVE [k \in 1 .. 0 |-> f[k]] = <<>>
  OBVIOUS
<1>3. [k \in 1 .. call[t].n |->
         IF call[t].base + k - 1 \in DOMAIN argsBuffer
         THEN argsBuffer[call[t].base + k - 1] ELSE Junk] = <<>>
  BY <1>1
<1>4. QED
  BY <1>1, <1>3 DEF Running, IdleCall

LEMMA NothingRunsNext == (\A t \in Tasks : call[t] = NoCall => Running(t) = IdleCall)'
  BY NothingRuns, PTL

LEMMA RunningSame ==
  ASSUME NEW t \in Tasks, call'[t] = call[t], argsBuffer' = argsBuffer \/ call[t] = NoCall
  PROVE  Running(t)' = Running(t)
<1>1. CASE argsBuffer' = argsBuffer
  BY <1>1 DEF Running
<1>2. CASE call[t] = NoCall
  BY <1>2, NothingRuns, NothingRunsNext
<1>3. QED
  BY <1>1, <1>2

LEMMA InboxSame == ASSUME NEW t \in Tasks, Stream(t)' = Stream(t) PROVE Inbox(t)' = Inbox(t)
<1>1. PICK s : s = Stream(t)
  OBVIOUS
<1>2. Inbox(t) = Announced(s) /\ Inbox(t)' = Announced(s)
  BY <1>1 DEF Inbox
<1>3. QED
  BY <1>2

LEMMA QuietStep ==
  ASSUME NEW t \in Tasks, Stream(t)' = Stream(t), accepted'[t] = accepted[t], call'[t] = call[t],
         argsBuffer' = argsBuffer \/ call[t] = NoCall
  PROVE  MailboxStep(t)
  BY InboxSame, RunningSame DEF MailboxStep, Quiet

LEMMA SendInMailbox ==
  ASSUME TypeOK, Control, CallsNumbered, NEW t \in Tasks, ~refused'[t], NEW c \in Ctx, Send(c)
  PROVE  MailboxStep(t)
<1>1. PICK p : p = post[c]
  OBVIOUS
<1>2. /\ p \in Post /\ p.to \in Tasks /\ p.next - 1 <= p.n
      /\ p.id \in Ids /\ p.id \notin accepted[p.to] /\ p.n \in 0 .. MaxArgs
  BY <1>1, SMTT(30) DEF Send, TypeOK, Post, Control, PostersExecute, Sent, CallsNumbered, Posting, Ids
<1>3. NextItem(p) \in Item /\ NextItem(p).id = p.id
      /\ (IsArg(p) => NextItem(p).kind = "arg")
      /\ (~IsArg(p) => NextItem(p).kind # "arg" /\ NextItem(p).n = p.n)
  BY <1>2, NextItemType DEF NextItem, Post
<1>4. UNCHANGED <<pc, item, call, argsBuffer>>
  BY DEF Send
<1>5. CASE p.to # t
  <2>1. queue'[t] = queue[t] /\ accepted'[t] = accepted[t]
    BY <1>1, <1>2, <1>5 DEF Send, TypeOK
  <2>2. Stream(t)' = Stream(t)
    BY <1>4, <2>1 DEF Stream
  <2>3. QED
    BY <1>4, <2>1, <2>2, QuietStep
<1>6. CASE p.to = t
  <2>1. /\ queue' = [queue EXCEPT ![t] = Enqueue(@, NextItem(p))]
        /\ accepted' = IF IsArg(p) THEN accepted ELSE [accepted EXCEPT ![t] = @ \cup {p.id}]
    BY <1>1, <1>6 DEF Send, TypeOK
  <2>2. Stream(t)' = Append(Stream(t), NextItem(p))
    BY <1>3, <1>4, <2>1, StreamOfSend
  <2>3. PICK s : s = Stream(t)
    OBVIOUS
  <2>4. PICK it \in Item : it = NextItem(p)
    BY <1>3
  <2>5. s \in Seq(Item)
    BY <2>3, PlanNonEmpty DEF Control
  <2>6. Inbox(t) = Announced(s) /\ Inbox(t)' = Announced(Append(s, it))
    BY <2>2, <2>3, <2>4 DEF Inbox
  <2>7. Announced(Append(s, it)) = IF it.kind = "arg" THEN Announced(s) ELSE Append(Announced(s), Message(it))
    BY <2>5, AnnouncedAppend
  <2>8. Running(t)' = Running(t)
    BY <1>4, RunningSame
  <2>9. CASE IsArg(p)
    <3>1. Inbox(t)' = Inbox(t)
      BY <1>3, <2>4, <2>6, <2>7, <2>9
    <3>2. accepted'[t] = accepted[t]
      BY <2>1, <2>9
    <3>3. QED
      BY <2>8, <3>1, <3>2 DEF MailboxStep, Quiet
  <2>10. CASE ~IsArg(p)
    <3>1. Message(it) = [id |-> p.id, n |-> p.n]
      BY <1>3, <2>4, <2>10 DEF Message
    <3>2. Inbox(t)' = Append(Inbox(t), [id |-> p.id, n |-> p.n])
      BY <1>3, <2>4, <2>6, <2>7, <2>10, <3>1
    <3>3. accepted'[t] = accepted[t] \cup {p.id}
      BY <2>1, <2>10 DEF TypeOK
    <3>4. Accepts(t, p.id, p.n)
      BY <1>2, <1>6, <2>8, <3>2, <3>3 DEF Accepts
    <3>5. QED
      BY <1>2, <3>4 DEF MailboxStep
  <2>11. QED
    BY <2>9, <2>10
<1>7. QED
  BY <1>5, <1>6

LEMMA PushInMailbox ==
  ASSUME TypeOK, Control, NEW t \in Tasks, PushArg(t)
  PROVE  MailboxStep(t)
<1>1. Stream(t)' = Tail(Stream(t)) /\ Stream(t)[1] = item /\ Len(Stream(t)) >= 1 /\ item.kind = "arg"
  BY StreamOfConsume DEF PushArg, TypeOK
<1>2. PICK s : s = Stream(t)
  OBVIOUS
<1>3. s \in Seq(Item) /\ s # <<>>
  BY <1>1, <1>2, PlanNonEmpty DEF Control
<1>4. Announced(s) = Announced(Tail(s))
  BY <1>1, <1>2, <1>3, AnnouncedTail
<1>5. Inbox(t)' = Inbox(t)
  BY <1>1, <1>2, <1>4 DEF Inbox
<1>6. call[t] = NoCall /\ call' = call /\ accepted' = accepted
  BY DEF PushArg, Control, CallWhileRunning
<1>7. Running(t)' = Running(t)
  BY <1>6, RunningSame
<1>8. QED
  BY <1>5, <1>6, <1>7 DEF MailboxStep, Quiet

LEMMA InvokeInMailbox ==
  ASSUME TypeOK, Control, FunctionsTakeNone, NEW t \in Tasks, Invoke(t), OwnArgs(t)'
  PROVE  Starts(t)
<1>1. Stream(t)' = Tail(Stream(t)) /\ Stream(t)[1] = item /\ Len(Stream(t)) >= 1 /\ item.kind # "arg"
  BY StreamOfConsume DEF Invoke, TypeOK
<1>2. PICK s : s = Stream(t)
  OBVIOUS
<1>3. s \in Seq(Item) /\ s # <<>> /\ item \in Item
  BY <1>1, <1>2, PlanNonEmpty, SMTT(30) DEF Control, TypeOK
<1>4. Announced(s) = <<Message(item)>> \o Announced(Tail(s))
  BY <1>1, <1>2, <1>3, AnnouncedTail
<1>5. Tail(s) \in Seq(Item)
  BY <1>3
<1>6. Announced(Tail(s)) \in Seq(Messages) /\ Message(item) \in Messages
  BY <1>3, <1>5, AnnouncedType DEF Message, Messages, Item
<1>7. Announced(s) # <<>> /\ Head(Announced(s)) = Message(item) /\ Tail(Announced(s)) = Announced(Tail(s))
  BY <1>4, <1>6
<1>8. Inbox(t) # <<>> /\ Head(Inbox(t)) = Message(item) /\ Inbox(t)' = Tail(Inbox(t))
  BY <1>1, <1>2, <1>7 DEF Inbox
<1>9. Running(t) = IdleCall
  BY NothingRuns DEF Invoke, Control, CallWhileRunning
<1>10. call'[t].id = item.id /\ call'[t].n = item.n /\ argsBuffer' = argsBuffer /\ accepted' = accepted
  <2>1. item.kind # "call" => item.n = 0
    BY <1>1, <1>3 DEF FunctionsTakeNone, Item, Kinds
  <2>2. call'[t].id = item.id /\ call'[t].n = IF item.kind = "call" THEN item.n ELSE 0
    BY DEF Invoke, TypeOK
  <2>3. QED
    BY <2>1, <2>2 DEF Invoke
<1>11. Running(t)' = [id |-> item.id, args |-> [k \in 1 .. item.n |-> <<item.id, k>>]]
  <2>1. \A k \in 1 .. item.n :
          call'[t].base + k - 1 \in DOMAIN argsBuffer' /\ argsBuffer'[call'[t].base + k - 1] = <<item.id, k>>
    BY <1>10 DEF OwnArgs
  <2>2. [k \in 1 .. item.n |->
           IF call'[t].base + k - 1 \in DOMAIN argsBuffer'
           THEN argsBuffer'[call'[t].base + k - 1] ELSE Junk] = [k \in 1 .. item.n |-> <<item.id, k>>]
    BY <2>1
  <2>3. QED
    BY <1>10, <2>2 DEF Running
<1>12. Message(item).id = item.id /\ Message(item).n = item.n
  BY DEF Message
<1>13. QED
  BY <1>8, <1>9, <1>10, <1>11, <1>12 DEF Starts

LEMMA ReturnInMailbox ==
  ASSUME TypeOK, NEW t \in Tasks, Return(t)
  PROVE  MailboxStep(t)
<1>1. Stream(t)' = Stream(t) /\ accepted' = accepted /\ argsBuffer' = argsBuffer /\ call'[t] = NoCall
  BY DEF Return, TypeOK, Stream
<1>2. Inbox(t)' = Inbox(t)
  BY <1>1, InboxSame
<1>3. Running(t)' = IdleCall
  BY <1>1, NothingRunsNext
<1>4. QED
  BY <1>1, <1>2, <1>3 DEF MailboxStep, Quiet, Finishes

(* The other worker preempts nothing that matters here, and does not come in. *)
LEMMA OthersInMailbox ==
  ASSUME TypeOK, Control, NEW t \in Tasks, Undisturbed(t),
         NEW o \in Tasks \ {t}, Receive(o) \/ PushArg(o) \/ Invoke(o) \/ Return(o)
  PROVE  MailboxStep(t)
<1>1. /\ pc'[t] = pc[t] /\ queue'[t] = queue[t] /\ call'[t] = call[t] /\ Runs(o)
      /\ accepted'[t] = accepted[t]
  BY DEF Receive, PushArg, Invoke, Return, TypeOK
<1>2. CASE Invoke(o) \/ Return(o)
  <2>1. Stream(t)' = Stream(t) /\ argsBuffer' = argsBuffer
    BY <1>1, <1>2 DEF Stream, Invoke, Return
  <2>2. QED
    BY <1>1, <2>1, QuietStep
<1>3. CASE o = Low /\ (Receive(o) \/ PushArg(o))
  <2>1. Low \notin Dests
    BY <1>3 DEF Undisturbed
  <2>2. queue[Low] = <<>> /\ pc[Low] # "received"
    BY <2>1 DEF Control, UnusedIsIdle
  <2>3. QED
    BY <1>3, <2>2 DEF Receive, PushArg
<1>4. CASE o = High
  <2>1. t = Low /\ pc[Low] = "loop"
    BY <1>1, <1>4, ContextsBelowTop DEF Runs, Ready, TypeOK
  <2>2. call[t] = NoCall
    BY <2>1 DEF Control, CallWhileRunning
  <2>3. Stream(t)' = Stream(t)
    BY <1>1, <2>1 DEF Stream
  <2>4. QED
    BY <1>1, <2>2, <2>3, QuietStep
<1>5. QED
  BY <1>2, <1>3, <1>4

MailboxInv == IInv /\ CallsNumbered /\ FunctionsTakeNone

LEMMA MailboxSteps ==
  ASSUME MailboxInv, [Next]_vars, NEW t \in Tasks, Undisturbed(t), ~refused'[t]
  PROVE  MailboxStep(t)
<1>0. TypeOK /\ Control /\ CallsNumbered /\ FunctionsTakeNone /\ OwnArgs(t)'
  <2>1. IInv'
    BY StepIInv DEF MailboxInv
  <2>2. QED
    BY <2>1 DEF MailboxInv, IInv, StackInv, Undisturbed
<1>1. ASSUME NEW i \in Irqs, NEW to \in Tasks, NEW n \in 0 .. MaxArgs, AddToFromISR(i, to, n)
      PROVE  MailboxStep(t)
  <2>1. UNCHANGED <<accepted, argsBuffer, call>> /\ Stream(t)' = Stream(t)
    BY <1>1 DEF AddToFromISR, Stream
  <2>2. QED
    BY <2>1, QuietStep
<1>2. ASSUME NEW c \in Tasks, NEW to \in Tasks, NEW kind \in {"call", "func"},
             NEW n \in 0 .. MaxArgs, AddTo(c, to, kind, n) \/ ExecuteTimer(c, to, kind, n)
      PROVE  MailboxStep(t)
  <2>1. UNCHANGED <<accepted, argsBuffer, call>>
    BY <1>2 DEF AddTo, ExecuteTimer
  <2>2. Stream(t)' = Stream(t)
    BY <1>0, <1>2 DEF AddTo, ExecuteTimer, Stream, TypeOK
  <2>3. QED
    BY <2>1, <2>2, QuietStep
<1>3. ASSUME NEW c \in Ctx, Send(c)
      PROVE  MailboxStep(t)
  BY <1>0, <1>3, SendInMailbox
<1>4. ASSUME NEW i \in Irqs, ReturnFromISR(i)
      PROVE  MailboxStep(t)
  <2>1. UNCHANGED <<accepted, argsBuffer, call>> /\ Stream(t)' = Stream(t)
    BY <1>4 DEF ReturnFromISR, Stream
  <2>2. QED
    BY <2>1, QuietStep
<1>5. ASSUME NEW o \in Tasks \ {t}, Receive(o) \/ PushArg(o) \/ Invoke(o) \/ Return(o)
      PROVE  MailboxStep(t)
  BY <1>0, <1>5, OthersInMailbox
<1>6. CASE Receive(t)
  <2>1. UNCHANGED <<accepted, argsBuffer, call>>
    BY <1>6 DEF Receive
  <2>2. QED
    BY <1>0, <1>6, <2>1, StreamOfReceive, QuietStep
<1>7. CASE PushArg(t)
  BY <1>0, <1>7, PushInMailbox
<1>8. CASE Invoke(t)
  BY <1>0, <1>8, InvokeInMailbox DEF MailboxStep
<1>9. CASE Return(t)
  BY <1>0, <1>9, ReturnInMailbox
<1>10. CASE UNCHANGED vars
  <2>1. UNCHANGED <<accepted, argsBuffer, call>> /\ Stream(t)' = Stream(t)
    BY <1>10 DEF vars, Stream
  <2>2. QED
    BY <2>1, QuietStep
<1>11. QED
  BY <1>1, <1>2, <1>3, <1>4, <1>5, <1>6, <1>7, <1>8, <1>9, <1>10 DEF Next, Arrive, Work

LEMMA InitMailbox ==
  ASSUME Init, NEW t \in Tasks
  PROVE  accepted[t] = {} /\ Inbox(t) = <<>> /\ Running(t) = IdleCall
<1>1. Stream(t) = <<>> /\ accepted[t] = {} /\ call[t] = NoCall
  BY DEF Init, Stream
<1>2. Announced(<<>>) = <<>>
  <2>1. PICK f : Lists(f, <<>>, Len(<<>>)) /\ Announced(<<>>) = f[Len(<<>>)]
    <3>1. <<>> \in Seq(Item)
      OBVIOUS
    <3>2. QED
      BY <3>1, AnnouncedIsListed
  <2>2. Len(<<>>) = 0
    OBVIOUS
  <2>3. Lists(f, <<>>, 0) => f[0] = <<>>
    BY ListsStep
  <2>4. QED
    BY <2>1, <2>2, <2>3
<1>3. Inbox(t) = <<>>
  BY <1>1, <1>2 DEF Inbox
<1>4. QED
  BY <1>1, <1>3, NothingRuns

(* MailboxInv is an invariant of Worker: the functions that have no        *)
(* arguments are numbered as the posts are.                                *)
LEMMA InitNumbers == Init => CallsNumbered /\ FunctionsTakeNone
  BY ConstantsAssumption DEF Init, CallsNumbered, FunctionsTakeNone, Posting, NoPost, NoItem

LEMMA MailboxInvHolds == Spec => []MailboxInv
<1>1. Init => CallsNumbered /\ FunctionsTakeNone
  BY InitNumbers
<1>2. IInv /\ CallsNumbered /\ FunctionsTakeNone /\ [Next]_vars => CallsNumbered' /\ FunctionsTakeNone'
  BY NumbersStep, FunctionsStep DEF IInv
<1>3. QED
  BY <1>1, <1>2, InvariantHolds, PTL DEF Spec, MailboxInv

(***************************************************************************)
(* As long as its queue refuses no item, the worker of LEVEL_LOW is a      *)
(* mailbox (worker.cpp:66-171), whatever is posted to either level: each   *)
(* call is executed once, in the order in which posts are completed, with  *)
(* the arguments that were posted with it.                                 *)
(***************************************************************************)
THEOREM LowImplementsMailbox == Spec /\ []NoneRefused(Low) => LowIsMailbox
<1>1. Init => LowMailbox!Init
  BY InitMailbox DEF LowMailbox!Init, LowMailbox!Idle, IdleCall
<1>2. MailboxInv /\ NoneRefused(Low)' /\ [Next]_vars => [LowMailbox!Next]_(LowMailbox!vars)
  <2> SUFFICES ASSUME MailboxInv, NoneRefused(Low)', [Next]_vars
               PROVE  [LowMailbox!Next]_(LowMailbox!vars)
    OBVIOUS
  <2>1. MailboxStep(Low)
    BY MailboxSteps DEF MailboxInv, NoneRefused, Undisturbed
  <2>2. CASE Quiet(Low)
    BY <2>2 DEF Quiet, LowMailbox!vars
  <2>3. ASSUME NEW id \in Ids, NEW n \in 0 .. MaxArgs, Accepts(Low, id, n)
        PROVE  LowMailbox!Next
    BY <2>3 DEF Accepts, LowMailbox!Next, LowMailbox!Accept
  <2>4. CASE Starts(Low)
    BY <2>4 DEF Starts, LowMailbox!Next, LowMailbox!Start, LowMailbox!Idle, LowMailbox!ArgsOf, IdleCall
  <2>5. CASE Finishes(Low)
    BY <2>5 DEF Finishes, LowMailbox!Next, LowMailbox!Finish, LowMailbox!Idle, IdleCall
  <2>6. QED
    BY <2>1, <2>2, <2>3, <2>4, <2>5 DEF MailboxStep
<1>3. QED
  BY <1>1, <1>2, MailboxInvHolds, PTL DEF Spec, LowIsMailbox, LowMailbox!Spec

(***************************************************************************)
(* So is the worker of LEVEL_HIGH in a program that posts nothing to       *)
(* LEVEL_LOW, which would share its argument stack.                        *)
(***************************************************************************)
THEOREM HighImplementsMailbox ==
  ASSUME Low \notin Dests
  PROVE  Spec /\ []NoneRefused(High) => HighIsMailbox
<1>1. Init => HighMailbox!Init
  BY InitMailbox DEF HighMailbox!Init, HighMailbox!Idle, IdleCall
<1>2. MailboxInv /\ NoneRefused(High)' /\ [Next]_vars => [HighMailbox!Next]_(HighMailbox!vars)
  <2> SUFFICES ASSUME MailboxInv, NoneRefused(High)', [Next]_vars
               PROVE  [HighMailbox!Next]_(HighMailbox!vars)
    OBVIOUS
  <2>1. MailboxStep(High)
    BY MailboxSteps DEF MailboxInv, NoneRefused, Undisturbed
  <2>2. CASE Quiet(High)
    BY <2>2 DEF Quiet, HighMailbox!vars
  <2>3. ASSUME NEW id \in Ids, NEW n \in 0 .. MaxArgs, Accepts(High, id, n)
        PROVE  HighMailbox!Next
    BY <2>3 DEF Accepts, HighMailbox!Next, HighMailbox!Accept
  <2>4. CASE Starts(High)
    BY <2>4 DEF Starts, HighMailbox!Next, HighMailbox!Start, HighMailbox!Idle, HighMailbox!ArgsOf, IdleCall
  <2>5. CASE Finishes(High)
    BY <2>5 DEF Finishes, HighMailbox!Next, HighMailbox!Finish, HighMailbox!Idle, IdleCall
  <2>6. QED
    BY <2>1, <2>2, <2>3, <2>4, <2>5 DEF MailboxStep
<1>3. QED
  BY <1>1, <1>2, MailboxInvHolds, PTL DEF Spec, HighIsMailbox, HighMailbox!Spec
=============================================================================
