----------------------------- MODULE Multiplier -----------------------------
(***************************************************************************)
(* The shift-and-add multiplier (multiplier.sv, Control.sv,                *)
(* Register_unit.sv, ripple_adder_9.sv): {A,B} becomes the signed product  *)
(* of the switches and of B, one bit of B per two clocks.  The inputs are  *)
(* the outputs of the synchronizers; they move between any two clocks.     *)
(***************************************************************************)
EXTENDS Integers

CONSTANTS W,     \* width of the registers and of the switches: 8
          Pow2   \* Pow2[i] is 2^i

ASSUME WidthAssumption == /\ W \in Nat \ {0, 1}
                          /\ Pow2 \in [0 .. W -> Nat \ {0}]
                          /\ Pow2[0] = 1
                          /\ \A i \in 1 .. W : Pow2[i] = 2 * Pow2[i - 1]

VARIABLES curr_state, X, A, B,
          RLC, Run, Reset, SW,
          multiplicand, multiplier,  \* history: SW and B when it started
          rest,       \* history: the bits of multiplier not used yet
          still,      \* history: no switch has moved while it ran
          armed       \* history: Run was let go, or Reset, since it started

registers == <<X, A, B>>
history == <<multiplicand, multiplier, rest, still, armed>>
vars == <<curr_state, X, A, B, RLC, Run, Reset, SW, multiplicand, multiplier,
          rest, still, armed>>

\* The states of Control.sv are A, B, then an add and a shift per bit (C and
\* D, ..., Q and R), then S; they are numbered from 0.
Idle == 0
Clear == 1
Wait == 2 * W + 2
Running == 2 .. 2 * W + 1
Ld_A_X == curr_state \in Running /\ curr_state % 2 = 0
Shift_En == curr_state \in Running /\ curr_state % 2 = 1
SUBTRACT == curr_state \in 2 * W - 1 .. 2 * W + 1

T == Pow2[W]
Half == Pow2[W - 1]
Words == 0 .. T - 1
Msb(v) == IF v < Half THEN 0 ELSE 1
Signed(v) == v - Msb(v) * T

Init == /\ curr_state = Idle
        /\ X = 0 /\ A = 0 /\ B = 0
        /\ RLC = FALSE /\ Run = FALSE /\ Reset = FALSE
        /\ SW \in Words
        /\ multiplicand = 0 /\ multiplier = 0 /\ rest = 0
        /\ still = FALSE /\ armed = TRUE

-----------------------------------------------------------------------------
(* The adder.  An operator marked "mutant" is a plausible bug in the       *)
(* definition that follows it, kept to show that a property can fail.      *)

M == B % 2

addend == CASE M = 0              -> 0
            [] M = 1 /\ ~SUBTRACT -> SW
            [] M = 1 /\ SUBTRACT  -> T - 1 - SW

cinreal == IF M = 1 /\ SUBTRACT THEN 1 ELSE 0

sum == A + addend + cinreal
carry == IF sum < T THEN 0 ELSE 1

SA == sum - carry * T

\* mutant: the sign is the carry
CarrySign == carry

\* The ninth bit: the sum of the extended signs.
SX == (Msb(A) + Msb(addend) + carry) % 2

-----------------------------------------------------------------------------
(* One clock.                                                              *)

\* mutant: Run is not waited for
NextWithoutRelease ==
    CASE curr_state = Idle -> IF Run THEN Clear ELSE Idle
      [] curr_state = Wait -> Idle
      [] OTHER             -> curr_state + 1

\* mutant: the last state goes on while Run is held
NextPastWait ==
    CASE curr_state = Idle          -> IF Run THEN Clear ELSE Idle
      [] curr_state = Wait /\ ~Run -> Idle
      [] OTHER                      -> curr_state + 1

next_state ==
    CASE curr_state = Idle -> IF Run THEN Clear ELSE Idle
      [] curr_state = Wait -> IF Run THEN Wait ELSE Idle
      [] OTHER             -> curr_state + 1

Ld_B == curr_state = Idle /\ RLC

\* mutant: the previous product is not cleared
ClearOnLoad == curr_state = Idle /\ RLC

Clr_A_X == curr_state = Clear \/ (curr_state = Idle /\ RLC)

ShiftRight(v, in) == in * Half + v \div 2

Registers ==
    \/ /\ Clr_A_X
       /\ X' = 0 /\ A' = 0
       /\ B' = IF Ld_B THEN SW ELSE B
    \/ /\ ~Clr_A_X /\ Ld_A_X
       /\ X' = SX /\ A' = SA /\ B' = B
    \/ /\ ~Clr_A_X /\ Shift_En
       /\ X' = 0 /\ A' = ShiftRight(A, X) /\ B' = ShiftRight(B, A % 2)
    \/ /\ ~Clr_A_X /\ ~Ld_A_X /\ ~Shift_En
       /\ UNCHANGED registers

\* The history of a multiplication starts in the state that clears A and X.
Remember ==
    IF curr_state = Clear
    THEN /\ multiplicand' = SW /\ multiplier' = B /\ rest' = B
         /\ still' = TRUE
         /\ armed' = Reset
    ELSE /\ UNCHANGED <<multiplicand, multiplier, still>>
         /\ rest' = IF Shift_En THEN rest \div 2 ELSE rest
         /\ armed' = (armed \/ Reset \/ ~Run)

Clock == /\ curr_state' = IF Reset THEN Idle ELSE next_state
         /\ Registers
         /\ Remember
         /\ UNCHANGED <<RLC, Run, Reset, SW>>

-----------------------------------------------------------------------------
(* The inputs.                                                             *)

Buttons == /\ \/ RLC' = ~RLC /\ UNCHANGED <<Run, Reset>>
              \/ Run' = ~Run /\ UNCHANGED <<RLC, Reset>>
              \/ Reset' = ~Reset /\ UNCHANGED <<RLC, Run>>
           /\ UNCHANGED <<curr_state, registers, SW, history>>

Forget == /\ still' = FALSE
          /\ multiplicand' = 0 /\ multiplier' = 0 /\ rest' = 0

Switches == /\ SW' \in Words \ {SW}
            /\ IF curr_state = Wait
               THEN UNCHANGED <<multiplicand, multiplier, rest, still>>
               ELSE Forget
            /\ UNCHANGED <<curr_state, registers, RLC, Run, Reset, armed>>

Next == Clock \/ Buttons \/ Switches

Spec == Init /\ [][Next]_vars
-----------------------------------------------------------------------------
(* Properties.                                                             *)

\* The types of the variables.
TypeOK == /\ curr_state \in Idle .. Wait
          /\ X \in {0, 1}
          /\ {A, B, SW, multiplicand, multiplier, rest} \subseteq Words
          /\ {RLC, Run, Reset, still, armed} \subseteq BOOLEAN

\* {A,B} is the signed product of the switches and of the value B had when
\* Run was pressed, be it loaded or left by the multiplication before, if no
\* switch moved meanwhile.
ProductIsRight ==
    curr_state = Wait /\ still =>
        Signed(A) * T + B = Signed(multiplicand) * Signed(multiplier)

\* The signed number in X, A and B, of which X is the sign.
Total == (A - X * T) * T + B

\* The product of the multiplicand and the low bits of the multiplier, in the
\* place where the bits not used yet leave room for it.
Product(used, k) == Signed(multiplicand) * Pow2[W - k] * used

\* Before the addition of bit k, {A,B} holds the product with the k bits used
\* so far above the bits not used yet; after the addition {X,A,B} does, with
\* bit k; the last bit counts negatively.
PartialProduct ==
    still =>
    \A k \in 0 .. W - 1 :
        LET bit == rest % 2
            unused == Pow2[k] * rest
        IN  /\ curr_state \in {2 * k + 2, 2 * k + 3} =>
                   unused <= multiplier /\ multiplier < unused + Pow2[k]
            /\ curr_state = 2 * k + 2 =>
                   Signed(A) * T + B - rest = Product(multiplier - unused, k)
            /\ curr_state = 2 * k + 3 =>
                   Total - rest =
                       Product(multiplier - unused +
                               (IF k < W - 1 THEN Pow2[k] ELSE -Pow2[k]) * bit, k)

\* A press of Run, however long, multiplies once.
OnePerPress == [][curr_state = Clear /\ curr_state' = Clear + 1 => armed]_vars
=============================================================================
