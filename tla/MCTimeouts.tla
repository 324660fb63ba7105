----------------------------- MODULE MCTimeouts -----------------------------
(***************************************************************************)
(* An instance of Timeouts for TLC: two objects, two handles, and times    *)
(* that become one tick, the least, and two.                               *)
(***************************************************************************)
EXTENDS Timeouts

CONSTANTS h1, h2, o1, o2

MCSeconds == {-2, 6}
=============================================================================
