------------------------------ MODULE MCWorker ------------------------------
(* Instances of Worker for TLC. *)
EXTENDS WorkerInvariant

MCBoth     == {High, Low}
MCHighOnly == {High}

(* Room for every item of a behaviour. *)
MCRoomy == [t \in Tasks |-> MaxCalls * (MaxArgs + 1)]

(* Smaller than a burst of posts. *)
MCTight == [t \in Tasks |-> 2]

(* Room for LEVEL_LOW alone. *)
MCLowRoomy == [t \in Tasks |-> IF t = Low THEN MaxCalls * (MaxArgs + 1) ELSE 2]
=============================================================================
