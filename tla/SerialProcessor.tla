--------------------------- MODULE SerialProcessor ---------------------------
(***************************************************************************)
(* The bit-serial logic processor (8_bit_serial_processor.sv, Control.sv,  *)
(* Reg_4.sv, compute.sv, Router.sv): one bit of A and of B per clock goes  *)
(* through a one-bit function unit and a router back into the registers.   *)
(* The inputs are the outputs of the synchronizers.                        *)
(***************************************************************************)
EXTENDS Integers, Sequences

CONSTANTS W,          \* width of the registers, shifts per operation: 8
          Switches    \* settings of the F and R switches that occur

ASSUME ProcessorAssumption ==
    /\ W \in Nat \ {0}
    /\ Switches \subseteq [F : 0 .. 7, R : 0 .. 3]

Bits == 1 .. W                 \* bit 1 is Data_Out[0]
Registers == [Bits -> BOOLEAN]
Zeros == [i \in Bits |-> FALSE]

VARIABLES curr_state, A, B,
          Execute,    \* Execute_SH, the button as the next clock will see it
          a0, b0,     \* history: the operands of the operation under way
          at          \* history: the switches at each shift of it

vars == <<curr_state, A, B, Execute, a0, b0, at>>

\* The states of Control.sv are A, one per shift (B, ..., I), and J.
Idle == 0
Finished == W + 1
Shift_En == curr_state \in 1 .. W

Init == /\ curr_state = Idle
        /\ A = Zeros /\ B = Zeros
        /\ Execute = FALSE
        /\ a0 = Zeros /\ b0 = Zeros /\ at = <<>>

-----------------------------------------------------------------------------
(* Datapath.  An operator marked "mutant" is a plausible bug in the        *)
(* definition that follows it, kept to show that a property can fail.      *)

F_A_B(F, a, b) == CASE F = 0 -> a /\ b
                    [] F = 1 -> a \/ b
                    [] F = 2 -> a # b
                    [] F = 3 -> TRUE
                    [] F = 4 -> ~(a /\ b)
                    [] F = 5 -> ~(a \/ b)
                    [] F = 6 -> a = b
                    [] F = 7 -> FALSE

\* The router's outputs to the two registers.
A_Out(s, a, b) == CASE s.R \in {0, 1} -> a
                    [] s.R = 2        -> F_A_B(s.F, a, b)
                    [] s.R = 3        -> b

B_Out(s, a, b) == CASE s.R \in {0, 2} -> b
                    [] s.R = 1        -> F_A_B(s.F, a, b)
                    [] s.R = 3        -> a

Shift(r, in) == [i \in Bits |-> IF i = W THEN in ELSE r[i + 1]]

-----------------------------------------------------------------------------
(* One clock, with the synchronized inputs it sees.                        *)

\* mutant: Execute is not tested in the idle state
NextUnasked == CASE curr_state = Finished -> IF Execute THEN Finished ELSE Idle
                 [] OTHER                 -> curr_state + 1

next_state == CASE curr_state = Idle     -> IF Execute THEN 1 ELSE Idle
                [] curr_state = Finished -> IF Execute THEN Finished ELSE Idle
                [] OTHER                 -> curr_state + 1

Reset == /\ curr_state' = Idle
         /\ A' = Zeros /\ B' = Zeros

\* mutant: the registers load whatever the state
LoadAnytime(LoadA, LoadB, D) ==
    /\ curr_state' = next_state
    /\ A' = IF LoadA THEN D ELSE A
    /\ B' = IF LoadB THEN D ELSE B

Load(LoadA, LoadB, D) ==
    /\ ~Shift_En
    /\ curr_state' = next_state
    /\ A' = IF curr_state = Idle /\ LoadA THEN D ELSE A
    /\ B' = IF curr_state = Idle /\ LoadB THEN D ELSE B

Compute(s) ==
    /\ Shift_En
    /\ curr_state' = next_state
    /\ A' = Shift(A, A_Out(s, A[1], B[1]))
    /\ B' = Shift(B, B_Out(s, A[1], B[1]))

\* An operation starts with the values the registers get at the clock that
\* leaves the idle state.
Remember(shifts) ==
    IF curr_state = Idle \/ curr_state' = Idle
    THEN a0' = A' /\ b0' = B' /\ at' = <<>>
    ELSE UNCHANGED <<a0, b0>> /\ at' = shifts

Next == /\ Execute' \in BOOLEAN
        /\ \/ Reset /\ Remember(at)
           \/ \E LoadA, LoadB \in BOOLEAN, D \in Registers :
                  Load(LoadA, LoadB, D) /\ Remember(at)
           \/ \E s \in Switches : Compute(s) /\ Remember(Append(at, s))

Spec == Init /\ [][Next]_vars
-----------------------------------------------------------------------------
(* Properties.                                                             *)

\* The types of the variables.
TypeOK == /\ curr_state \in Idle .. Finished
          /\ {A, B, a0, b0} \subseteq Registers
          /\ Execute \in BOOLEAN
          /\ at \in Seq(Switches)

\* k shifts have moved the operands down by k and put the results of their low
\* k bits on top, each computed from the operands' own bits, not from results,
\* with the switches as they were at its clock.
PartialResult ==
    LET k == Len(at)
    IN  /\ curr_state = Idle => k = 0 /\ a0 = A /\ b0 = B
        /\ curr_state # Idle => k = curr_state - 1
        /\ \A i \in Bits :
               IF i <= W - k
               THEN A[i] = a0[i + k] /\ B[i] = b0[i + k]
               ELSE LET j == i + k - W
                    IN  /\ A[i] = A_Out(at[j], a0[j], b0[j])
                        /\ B[i] = B_Out(at[j], a0[j], b0[j])

\* The registers an observer should count on: those before the operation until
\* it is finished.
Shown(r, before) ==
    {i \in Bits : IF Shift_En THEN before[i] ELSE r[i]}

Phase == IF curr_state = Idle THEN "ready"
         ELSE IF curr_state = Finished THEN "done" ELSE "working"

Unit == INSTANCE LogicUnit WITH A <- Shown(A, a0), B <- Shown(B, b0),
                                phase <- Phase

\* However the buttons and switches move, the processor does what LogicUnit
\* promises: loads only between operations, one operation per press of Execute
\* however long and none without, each bit by the function and route of the
\* switches.
UnitSpec == Unit!Spec
=============================================================================
