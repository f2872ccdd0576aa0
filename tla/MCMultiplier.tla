---------------------------- MODULE MCMultiplier ----------------------------
(* Multiplier with words of four bits. *)
EXTENDS Multiplier

MCPow2 == [i \in 0 .. W |-> 2^i]
=============================================================================
