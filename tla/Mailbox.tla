------------------------------ MODULE Mailbox ------------------------------
(***************************************************************************)
(* What one level of app/worker.cpp promises to the code that posts calls  *)
(* to it (worker.h:27-62): the calls are executed one after another, each  *)
(* once, in the order in which their posts were completed, and each        *)
(* callback reads the arguments that were posted with it for as long as it *)
(* runs.                                                                   *)
(***************************************************************************)
EXTENDS Integers, Sequences

CONSTANTS Ids,      \* the calls
          MaxArgs   \* the most arguments a call has

VARIABLES posted,   \* the calls posted so far
          inbox,    \* the calls that wait, oldest first
          running   \* the call being executed: its identity and its arguments

vars == <<posted, inbox, running>>

Idle        == [id |-> 0, args |-> <<>>]
ArgsOf(m)   == [k \in 1 .. m.n |-> <<m.id, k>>]

Init ==
  /\ posted = {}
  /\ inbox = <<>>
  /\ running = Idle

Accept(id, n) ==
  /\ id \notin posted
  /\ posted' = posted \cup {id}
  /\ inbox' = Append(inbox, [id |-> id, n |-> n])
  /\ UNCHANGED running

Start ==
  /\ running = Idle
  /\ inbox # <<>>
  /\ running' = [id |-> Head(inbox).id, args |-> ArgsOf(Head(inbox))]
  /\ inbox' = Tail(inbox)
  /\ UNCHANGED posted

Finish ==
  /\ running # Idle
  /\ running' = Idle
  /\ UNCHANGED <<posted, inbox>>

Next ==
  \/ \E id \in Ids, n \in 0 .. MaxArgs : Accept(id, n)
  \/ Start
  \/ Finish

Spec == Init /\ [][Next]_vars

Waiting(id) == \E i \in DOMAIN inbox : inbox[i].id = id

(* Every call that waits is executed. *)
Delivered == \A id \in Ids : Waiting(id) ~> (running.id = id)
=============================================================================
