-------------------------- MODULE WorkerInvariant --------------------------
(***************************************************************************)
(* Why each callback finds its own arguments: the inductive invariant of   *)
(* Worker.  Posts to one level nest, like the interrupts that make them:   *)
(* the arguments sent by a poster lie on top of those of every poster it   *)
(* interrupted.  So the stack that the sent items lead to is, from bottom  *)
(* to top, the sent arguments of the posters in the order of priority, and *)
(* a callback item pops exactly the arguments of its own call.             *)
(***************************************************************************)
EXTENDS Worker

Posters(t) == {c \in Ctx : Posting(c) /\ post[c].to = t}
Sent(p)    == p.next - 1
Top        == NIrq + 2              \* above every context
Cap(d)     == MaxArgs * d           \* room for the posters below context d

-----------------------------------------------------------------------------
(* What holds of the control, whatever the data is and even after a refusal. *)

(* Only a context that executes posts, and it posts to a level in use. *)
PostersExecute ==
  \A c \in Ctx : Posting(c) =>
    /\ c \in Irqs => c \in active
    /\ c \in Tasks => pc[c] = "running"
    /\ post[c].to \in Dests
    /\ Sent(post[c]) <= post[c].n
    /\ post[c].kind = "func" => post[c].n = 0

(* A worker outside a callback holds no arguments. *)
CallWhileRunning == \A t \in Tasks : pc[t] = "running" \/ call[t] = NoCall

(* The history variable has one entry more than there are items to consume. *)
PlanMatchesStream == \A t \in Tasks : Len(plan[t]) = Len(Stream(t)) + 1

(* A level nobody posts to stays idle. *)
UnusedIsIdle == \A t \in Tasks : t \notin Dests => queue[t] = <<>> /\ pc[t] # "received"

Control ==
  /\ PostersExecute
  /\ CallWhileRunning
  /\ PlanMatchesStream
  /\ UnusedIsIdle

-----------------------------------------------------------------------------
(* What holds of the stack of a level whose worker is undisturbed. *)

(***************************************************************************)
(* h cells are taken by the posters to t below context c: those of the     *)
(* highest of them end there, and they need at most Cap of that room.      *)
(***************************************************************************)
HeightIs(t, c, h) ==
  /\ \A b \in Posters(t) :
       b < c /\ (\A d \in Posters(t) : d < c => d <= b) => h = post[b].base + Sent(post[b])
  /\ \A d \in 0 .. Top :
       d <= c /\ (\A b \in Posters(t) : b < c => b < d) => h <= Cap(d)

Heights(t) ==
  /\ HeightIs(t, Top, Len(LastPlan(t)))
  /\ \A c \in Posters(t) : HeightIs(t, c, post[c].base)

(* The arguments sent so far by each poster to t are where the nesting puts them. *)
OpenPosts(t) ==
  /\ \A b, c \in Posters(t) : b < c => post[b].base + Sent(post[b]) <= post[c].base
  /\ \A c \in Posters(t) :
       /\ post[c].base + Sent(post[c]) <= Len(LastPlan(t))
       /\ \A k \in 1 .. Sent(post[c]) : LastPlan(t)[post[c].base + k] = <<post[c].id, k>>

(* Each item leads from one planned stack to the next; a callback finds its arguments. *)
StepOK(t, i) ==
  LET it == Stream(t)[i] IN
  /\ plan[t][i + 1] = After(plan[t][i], it)
  /\ it.kind = "call" =>
       /\ it.n <= Len(plan[t][i])
       /\ \A k \in 1 .. it.n : plan[t][i][Len(plan[t][i]) - it.n + k] = <<it.id, k>>

Steps(t) == \A i \in 1 .. Len(Stream(t)) : StepOK(t, i)

PlansFit(t) == \A i \in 1 .. Len(plan[t]) : Len(plan[t][i]) <= Cap(Top)

(* The stack is what it is planned to be. *)
StackIsPlanned(t) ==
  /\ size[t] = Len(plan[t][1])
  /\ \A k \in 1 .. size[t] : argsBuffer[k - 1] = plan[t][1][k]

StackInv(t) ==
  /\ Heights(t)
  /\ OpenPosts(t)
  /\ Steps(t)
  /\ PlansFit(t)
  /\ StackIsPlanned(t)
  /\ OwnArgs(t)

(* The inductive invariant. *)
IInv ==
  /\ TypeOK
  /\ Control
  /\ \A t \in Tasks : Undisturbed(t) /\ ~refused[t] => StackInv(t)

-----------------------------------------------------------------------------
(* Every item sent to level t so far was taken. *)
NoneRefused(t) == ~refused[t]

(***************************************************************************)
(* For the mailbox: each call has a number of its own, which is accepted   *)
(* once.                                                                   *)
(***************************************************************************)
CallsNumbered ==
  /\ \A c \in Ctx : Posting(c) =>
       post[c].id <= calls /\ \A t \in Tasks : post[c].id \notin accepted[t]
  /\ \A b, c \in Ctx : Posting(b) /\ Posting(c) /\ b # c => post[b].id # post[c].id
  /\ \A t \in Tasks : \A id \in accepted[t] : id <= calls

(* A std::function is sent without arguments. *)
FunctionsTakeNone ==
  /\ item.kind = "func" => item.n = 0
  /\ \A t \in Tasks : \A i \in DOMAIN queue[t] : queue[t][i].kind = "func" => queue[t][i].n = 0
=============================================================================
