------------------------------ MODULE LogicUnit ------------------------------
(***************************************************************************)
(* What the serial logic processor promises: one press of Execute replaces *)
(* A and B, in one step, by what the function and routing switches say.    *)
(* Registers are sets of the bit positions that hold a one.                *)
(***************************************************************************)
EXTENDS Integers, Sequences

CONSTANTS W, Switches

Bits == 1 .. W

VARIABLES A, B,
          at,       \* how the switches were set for each bit so far
          phase,    \* "ready", "working", or "done" until Execute is let go
          Execute

vars == <<A, B, at, phase, Execute>>

\* The functions of the F switches on whole registers.
Function(F) ==
    CASE F = 0 -> A \cap B
      [] F = 1 -> A \cup B
      [] F = 2 -> (A \ B) \cup (B \ A)
      [] F = 3 -> Bits
      [] F = 4 -> Bits \ (A \cap B)
      [] F = 5 -> Bits \ (A \cup B)
      [] F = 6 -> (A \cap B) \cup (Bits \ (A \cup B))
      [] F = 7 -> {}

\* What the R switches put into A, and into B.
ResultA(s) == CASE s.R \in {0, 1} -> A
                [] s.R = 2        -> Function(s.F)
                [] s.R = 3        -> B

ResultB(s) == CASE s.R \in {0, 2} -> B
                [] s.R = 1        -> Function(s.F)
                [] s.R = 3        -> A

Init == A = {} /\ B = {} /\ at = <<>> /\ phase = "ready" /\ Execute = FALSE

Clear == A' = {} /\ B' = {} /\ at' = <<>> /\ phase' = "ready"

\* The operands change between operations only, the last time at the clock that
\* sees Execute, the only one to start an operation.
Load == /\ phase = "ready"
        /\ phase' = IF Execute THEN "working" ELSE "ready"
        /\ \E D \in SUBSET Bits : A' \in {A, D} /\ B' \in {B, D}
        /\ at' = <<>>

\* The switches are read once for each bit, the lowest first.
Read == /\ phase = "working" /\ Len(at) + 1 < W
        /\ \E s \in Switches : at' = Append(at, s)
        /\ UNCHANGED <<A, B, phase>>

\* With the last bit read, the operation is done.  Switches that rest give
\* every bit the same function and route.
Operate == /\ phase = "working" /\ Len(at) + 1 = W /\ phase' = "done"
           /\ \E s \in Switches : at' = Append(at, s)
           /\ A' = {i \in Bits : i \in ResultA(at'[i])}
           /\ B' = {i \in Bits : i \in ResultB(at'[i])}

\* The next press counts once the button was let go.
Release == /\ phase = "done" /\ ~Execute /\ phase' = "ready"
           /\ at' = <<>>
           /\ UNCHANGED <<A, B>>

Next == /\ \/ Clear \/ Load \/ Read \/ Operate \/ Release
           \/ UNCHANGED <<A, B, at, phase>>
        /\ Execute' \in BOOLEAN

Spec == Init /\ [][Next]_vars
=============================================================================
